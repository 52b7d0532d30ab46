-------------------------- MODULE TrapDispatchProofs --------------------------
(***************************************************************************)
(* Theorems about TrapDispatch, for every set of interrupts, all their     *)
(* priorities, and traps nested to any depth.                              *)
(***************************************************************************)
EXTENDS TrapDispatch, SequenceTheorems, TLAPS

(* The stages of a frame: with interrupts let in, and with MEICONTEXT      *)
(* saved but no interrupt taken.                                           *)
Open == {"serve", "served", "stuck"}
Between == {"next", "unwind", "return"}

(* The least priority that preempts frame m while it lets interrupts in,   *)
(* main being frame 0, and the frame before.                               *)
Level(m) == IF m = 0 THEN 0 ELSE priority[frames[m].irq] + 1
Below(m) == IF m = 0 THEN 0 ELSE Level(m - 1)

(* MEICONTEXT as the core leaves it when it enters frame m.                *)
Entered(c, m) == c.ppreempt = Level(m - 1) /\ c.pppreempt = Below(m - 1) /\ c.mreteirq

(* Each frame: whether it serves an interrupt, what it has saved, and that *)
(* it lets interrupts in if another one is nested in it.                   *)
FrameInv(m) ==
    LET f == frames[m]
    IN  /\ f.pc \in {"enable", "serve", "served"} => Serving(f)
        /\ f.pc \in {"entry", "context"} \cup Between => ~Serving(f)
        /\ m < Len(frames) => f.pc \in Open /\ Serving(f)
        /\ f.pc # "entry" => f.epc = f.from /\ f.cause = f.reason
        /\ Serving(f) \/ f.pc \in {"context"} \cup Between => f.reason = "external"
        /\ f.lost \subseteq CallerSaved /\ (f.pc = "return" => f.lost = {})
        /\ Serving(f) \/ f.pc \in Between => Entered(f.saved, m)

FramesInv == \A m \in DOMAIN frames : FrameInv(m)

(* The registers of the core belong to the innermost frame.                *)
CoreInv ==
    /\ mie <=> frames = <<>> \/ (Top.pc \in Open /\ Serving(Top))
    /\ frames # <<>> => mpie
    /\ At("entry") \/ At("return") => mepc = Top.from /\ mcause = Top.reason

(* So does MEICONTEXT, of which a nested trap leaves two levels.           *)
ContextInv ==
    /\ frames = <<>> => context.preempt = 0 /\ context.ppreempt = 0 /\ ~context.mreteirq
    /\ frames # <<>> =>
          /\ Top.pc \in {"entry", "context", "return"} /\ Top.reason = "external"
                => Entered(context, Len(frames))
          /\ Serving(Top) \/ Top.pc \in {"next", "unwind"}
                => context.ppreempt = Level(Len(frames) - 1)
          /\ Serving(Top) => context.preempt = Level(Len(frames))

(* With one priority no interrupt is nested in another.                    *)
NestInv ==
    OnePriority =>
        /\ \A m \in DOMAIN frames : m > 1 => frames[m].reason = "fault"
        /\ frames # <<>> => mpp = "M"

TrapInv == TypeOK /\ FramesInv /\ CoreInv /\ ContextInv /\ PreemptedByHigher /\ NestInv

----
(* The stack of frames.                                                    *)

LEMMA Ranks ==
    ASSUME TypeOK, NEW i \in Irqs
    PROVE  priority[i] \in 0..Levels /\ Levels \in Nat /\ i # NoIrq
  BY IrqsAssumption, PrioritiesAssumption DEF TypeOK, NoIrq

LEMMA Stack ==
    ASSUME TypeOK
    PROVE  /\ frames \in Seq(Frame) /\ Len(frames) \in Nat /\ DOMAIN frames = 1..Len(frames)
           /\ frames = <<>> <=> Len(frames) = 0
           /\ \A m \in DOMAIN frames : frames[m] \in Frame
           /\ frames # <<>> => Len(frames) \in DOMAIN frames /\ Top \in Frame
  <1>1. frames \in Seq(Frame)
    BY DEF TypeOK
  <1> QED  BY <1>1, LenProperties, ElementOfSeq, EmptySeq DEF Top

LEMMA Pushed ==
    ASSUME TypeOK, NEW f \in Frame, frames' = Append(frames, f)
    PROVE  /\ frames' \in Seq(Frame) /\ frames' # <<>>
           /\ Len(frames)' = Len(frames) + 1 /\ (DOMAIN frames)' = 1..(Len(frames) + 1)
           /\ \A m \in DOMAIN frames : frames'[m] = frames[m]
           /\ frames'[Len(frames) + 1] = f /\ Top' = f
  <1>1. frames \in Seq(Frame) /\ DOMAIN frames = 1..Len(frames)
    BY Stack
  <1>2. /\ frames' \in Seq(Frame) /\ frames' # <<>> /\ Len(frames') = Len(frames) + 1
        /\ \A m \in 1..Len(frames) : frames'[m] = frames[m]
        /\ frames'[Len(frames) + 1] = f
    BY <1>1, AppendProperties
  <1>3. DOMAIN frames' = 1..Len(frames')
    BY <1>2, LenProperties
  <1> QED  BY <1>1, <1>2, <1>3 DEF Top

LEMMA Replaced ==
    ASSUME TypeOK, frames # <<>>, NEW f \in Frame, Become(f)
    PROVE  /\ frames' \in Seq(Frame) /\ frames' # <<>>
           /\ Len(frames)' = Len(frames) /\ (DOMAIN frames)' = DOMAIN frames
           /\ \A m \in 1..(Len(frames) - 1) : frames'[m] = frames[m]
           /\ frames'[Len(frames)] = f /\ Top' = f
  <1>1. frames \in Seq(Frame) /\ Len(frames) \in 1..Len(frames) /\ DOMAIN frames = 1..Len(frames)
        /\ Len(frames) \in Nat
    BY Stack
  <1>2. /\ frames' \in Seq(Frame) /\ Len(frames') = Len(frames)
        /\ \A m \in 1..Len(frames) :
              frames'[m] = IF m = Len(frames) THEN f ELSE frames[m]
    BY <1>1, ExceptSeq DEF Become
  <1>3. DOMAIN frames' = 1..Len(frames')
    BY <1>2, LenProperties
  <1>4. frames' # <<>>
    BY <1>1, <1>2, EmptySeq
  <1>5. frames'[Len(frames)] = f /\ \A m \in 1..(Len(frames) - 1) : frames'[m] = frames[m]
    <2> DEFINE n == Len(frames)
    <2>1. n \in Nat /\ n \in 1..n /\ \A m \in 1..n : frames'[m] = IF m = n THEN f ELSE frames[m]
      BY <1>1, <1>2
    <2> HIDE DEF n
    <2>2. frames'[n] = f
      BY <2>1
    <2>3. \A m \in 1..(n - 1) : frames'[m] = frames[m]
      BY <2>1
    <2> QED  BY <2>2, <2>3 DEF n
  <1>6. Top' = f
    BY <1>2, <1>5 DEF Top
  <1> QED  BY <1>1, <1>2, <1>3, <1>4, <1>5, <1>6

LEMMA Popped ==
    ASSUME TypeOK, frames # <<>>, frames' = Outer
    PROVE  /\ frames' \in Seq(Frame)
           /\ Len(frames)' = Len(frames) - 1 /\ (DOMAIN frames)' = 1..(Len(frames) - 1)
           /\ \A m \in 1..(Len(frames) - 1) : frames'[m] = frames[m]
           /\ frames' = <<>> <=> Len(frames) = 1
           /\ frames' # <<>> => Top' = frames[Len(frames) - 1]
  <1>1. /\ frames \in Seq(Frame) /\ Len(frames) \in Nat /\ Len(frames) >= 1
        /\ \A m \in 1..Len(frames) : frames[m] \in Frame
    BY Stack
  <1>2. /\ frames' \in Seq(Frame) /\ Len(frames') = Len(frames) - 1
        /\ \A m \in 1..(Len(frames) - 1) : frames'[m] = frames[m]
    <2> DEFINE k == Len(frames) - 1
    <2>1. k \in Nat /\ \A i \in 1..k : frames[i] \in Frame
      BY <1>1
    <2> HIDE DEF k
    <2>2. /\ SubSeq(frames, 1, k) \in Seq(Frame)
          /\ Len(SubSeq(frames, 1, k)) = IF 1 <= k THEN k - 1 + 1 ELSE 0
          /\ \A i \in 1..(k - 1 + 1) : SubSeq(frames, 1, k)[i] = frames[1 + i - 1]
      BY <2>1, SubSeqProperties
    <2>3. frames' = SubSeq(frames, 1, k)
      BY DEF Outer, k
    <2>4. Len(frames') = k /\ \A i \in 1..k : frames'[i] = frames[i]
      BY <2>1, <2>2, <2>3
    <2> QED  BY <2>2, <2>3, <2>4 DEF k
  <1>3. DOMAIN frames' = 1..Len(frames')
    BY <1>2, LenProperties
  <1>4. frames' = <<>> <=> Len(frames') = 0
    BY <1>2, EmptySeq
  <1> QED  BY <1>1, <1>2, <1>3, <1>4 DEF Top

(* A frame is as it was as long as it and those it is nested in are.       *)
LEMMA LevelsKept ==
    ASSUME NEW n \in Nat, \A m \in 1..n : frames'[m] = frames[m], priority' = priority
    PROVE  \A m \in 0..n : Level(m)' = Level(m) /\ Below(m)' = Below(m)
  BY DEF Level, Below

LEMMA FramesKept ==
    ASSUME TypeOK, FramesInv, NEW n \in 0..Len(frames), \A m \in 1..n : frames'[m] = frames[m],
           priority' = priority, \A m \in 1..n : m < Len(frames)' => m < Len(frames)
    PROVE  \A m \in 1..n : FrameInv(m)'
  <1> SUFFICES ASSUME NEW m \in 1..n PROVE FrameInv(m)'
    OBVIOUS
  <1>1. FrameInv(m) /\ n \in Nat /\ m - 1 \in 0..n
    BY Stack DEF FramesInv
  <1>2. Level(m - 1)' = Level(m - 1) /\ Below(m - 1)' = Below(m - 1)
    BY <1>1, LevelsKept
  <1> QED
    BY <1>1, <1>2 DEF FrameInv, Serving, Entered

----
(* Type correctness.                                                       *)

LEMMA TypeInitial == Init => TypeOK
  <1> SUFFICES ASSUME Init PROVE TypeOK
    OBVIOUS
  <1>1. main \in 0..(MainSteps - 1) /\ frames \in Seq(Frame)
    BY MainAssumption, EmptySeq DEF Init
  <1>2. mepc \in Places /\ context \in Contexts
    BY PrioritiesAssumption DEF Init, Place, Places, Contexts, NoContext, Context
  <1> QED  BY <1>1, <1>2 DEF Init, TypeOK

LEMMA HerePlace == TypeOK => Here \in Places
  BY Stack DEF TypeOK, Here, Place, Places

NewFrame(cause) ==
    [ pc |-> "entry", cause |-> "none", epc |-> Place(0, 0), irq |-> NoIrq,
      saved |-> NoContext, from |-> Here, reason |-> cause, lost |-> {} ]

LEMMA NewFrameType ==
    ASSUME TypeOK, NEW cause \in {"external", "fault"}
    PROVE  NewFrame(cause) \in Frame
  BY HerePlace, PrioritiesAssumption
  DEF NewFrame, Frame, Place, Places, Contexts, NoContext, Context

LEMMA CauseRead ==
    ASSUME NEW f \in Frame, NEW stage \in {"context", "stuck"}, NEW address \in Places,
           NEW cause \in {"none", "external", "fault"}
    PROVE  [f EXCEPT !.pc = stage, !.cause = cause, !.epc = address, !.lost = CallerSaved] \in Frame
  <1>1. CallerSaved \in SUBSET (1..31)
    BY DEF CallerSaved
  <1> QED  BY <1>1 DEF Frame

(* The handler takes the number of an interrupt MEINEXT shows.             *)
LEMMA IrqDecoded == \A irq \in Irqs : IrqOf(NextWord(irq)) = irq
  BY IrqsAssumption DEF IrqOf, NextWord

LEMMA Begun ==
    ASSUME TypeOK, NextIrq
    PROVE  \E irq \in Irqs :
              /\ irq \in Visible /\ irq \in pending
              /\ Become([Top EXCEPT !.pc = "enable", !.irq = irq])
              /\ context' = Updated(priority[irq] + 1)
  <1>1. PICK irq \in MostUrgent(Visible) :
            /\ Become([Top EXCEPT !.pc = "enable", !.irq = IrqOf(NextWord(irq))])
            /\ context' = Updated(priority[irq] + 1)
    BY DEF NextIrq
  <1>2. irq \in Visible /\ irq \in pending /\ irq \in Irqs
    BY DEF MostUrgent, Visible, TypeOK
  <1>3. IrqOf(NextWord(irq)) = irq
    BY <1>2, IrqDecoded
  <1> QED  BY <1>1, <1>2, <1>3

(* What the steps of a handler make of the innermost frame.                *)
LEMMA HandlerFrame ==
    ASSUME TypeOK, Handler
    PROVE  /\ frames # <<>> /\ UNCHANGED <<main, mpie, mpp, priority>>
           /\ \E f \in Frame : Become(f)
           /\ context' \in Contexts /\ mepc' \in Places
           /\ mcause' \in {"none", "external", "fault"} /\ mie' \in BOOLEAN
           /\ pending' \subseteq pending
  <1>0. /\ frames # <<>> => Top \in Frame
        /\ context \in Contexts /\ mepc \in Places /\ mie \in BOOLEAN
        /\ mcause \in {"none", "external", "fault"}
    BY Stack DEF TypeOK
  <1>1. CASE ReadCause
    <2>1. frames # <<>> /\ Top \in Frame
      BY <1>0, <1>1 DEF ReadCause, At
    <2>2. [Top EXCEPT !.pc = IF mcause = "external" THEN "context" ELSE "stuck",
                      !.cause = mcause, !.epc = mepc, !.lost = CallerSaved] \in Frame
      <3>1. CallerSaved \subseteq 1..31
        BY DEF CallerSaved
      <3> QED  BY <1>0, <2>1, <3>1 DEF Frame
    <2>3. \E f \in Frame : Become(f)
      BY <1>1, <2>2 DEF ReadCause
    <2> QED  BY <1>0, <1>1, <2>1, <2>3 DEF ReadCause, mstatus, trapRegs
  <1>2. CASE SaveContext
    <2>1. frames # <<>> /\ Top \in Frame
      BY <1>0, <1>2 DEF SaveContext, At
    <2>2. [Top EXCEPT !.pc = "next", !.saved = context] \in Frame
      BY <1>0, <2>1 DEF Frame
    <2> QED  BY <1>0, <1>2, <2>1, <2>2 DEF SaveContext, mstatus, trapRegs, Frame
  <1>3. CASE NextIrq
    <2>1. frames # <<>> /\ Top \in Frame
      BY <1>0, <1>3 DEF NextIrq, At
    <2>2. PICK irq \in Irqs : /\ Become([Top EXCEPT !.pc = "enable", !.irq = irq])
                              /\ context' = Updated(priority[irq] + 1)
      BY <1>0, <1>3, Begun
    <2>3. [Top EXCEPT !.pc = "enable", !.irq = irq] \in Frame
      BY <2>1 DEF Frame
    <2>4. context' \in Contexts
      BY <1>0, <2>2, Ranks DEF Updated, Contexts
    <2> QED  BY <1>0, <1>3, <2>1, <2>2, <2>3, <2>4 DEF NextIrq, mstatus, trapRegs, Frame
  <1>4. CASE NoNextIrq
    <2>1. frames # <<>> /\ Top \in Frame
      BY <1>0, <1>4 DEF NoNextIrq, At
    <2>2. [Top EXCEPT !.pc = "unwind"] \in Frame
      BY <2>1 DEF Frame
    <2>3. context' \in Contexts
      BY <1>0, <1>4, PrioritiesAssumption DEF NoNextIrq, Updated, Contexts
    <2> QED  BY <1>0, <1>4, <2>1, <2>2, <2>3 DEF NoNextIrq, Goto, mstatus, trapRegs, Frame
  <1>5. CASE EnableInterrupts
    <2>1. frames # <<>> /\ Top \in Frame
      BY <1>0, <1>5 DEF EnableInterrupts, At
    <2>2. [Top EXCEPT !.pc = IF Top.irq \in Handled THEN "serve" ELSE "stuck"] \in Frame
      BY <2>1 DEF Frame
    <2> QED  BY <1>0, <1>5, <2>1, <2>2 DEF EnableInterrupts, Goto, trapRegs, Frame
  <1>6. CASE Acknowledge
    <2>1. frames # <<>> /\ Top \in Frame
      BY <1>0, <1>6 DEF Acknowledge, At
    <2>2. [Top EXCEPT !.pc = "served"] \in Frame
      BY <2>1 DEF Frame
    <2> QED  BY <1>0, <1>6, <2>1, <2>2 DEF Acknowledge, Goto, mstatus, trapRegs, Frame
  <1>7. CASE DisableInterrupts
    <2>1. frames # <<>> /\ Top \in Frame
      BY <1>0, <1>7 DEF DisableInterrupts, At
    <2>2. [Top EXCEPT !.pc = "next", !.irq = NoIrq] \in Frame
      BY <2>1 DEF Frame
    <2> QED  BY <1>0, <1>7, <2>1, <2>2 DEF DisableInterrupts, trapRegs, Frame
  <1>8. CASE Unwind
    <2>1. frames # <<>> /\ Top \in Frame
      BY <1>0, <1>8 DEF Unwind, At
    <2>2. [Top EXCEPT !.pc = "return", !.lost = @ \ WrapperSaved] \in Frame
      BY <2>1 DEF Frame
    <2> QED  BY <1>0, <1>8, <2>1, <2>2 DEF Unwind, mstatus, Frame
  <1> QED
    BY <1>1, <1>2, <1>3, <1>4, <1>5, <1>6, <1>7, <1>8 DEF Handler

LEMMA TypeStep == TypeOK /\ [Next]_vars => TypeOK'
  <1> SUFFICES ASSUME TypeOK, [Next]_vars PROVE TypeOK'
    OBVIOUS
  <1>1. CASE MainStep
    BY <1>1, MainAssumption DEF MainStep, TypeOK, mstatus, trapRegs
  <1>2. ASSUME NEW cause \in {"external", "fault"}, Push(cause),
               UNCHANGED <<main, pending, priority>>, context' \in Contexts
        PROVE  TypeOK'
    <2>1. frames' \in Seq(Frame)
      BY <1>2, NewFrameType, Pushed DEF Push, NewFrame
    <2>2. Here \in Places
      BY HerePlace
    <2> QED  BY <1>2, <2>1, <2>2 DEF Push, TypeOK
  <1>3. CASE Interrupt
    <2>1. PICK i \in Irqs :
             context' = Context(priority[i] + 1, context.preempt, context.ppreempt, TRUE)
      BY <1>3 DEF Interrupt, MostUrgent, Preempting, TypeOK
    <2>2. context' \in Contexts
      BY <2>1, Ranks DEF Context, Contexts, TypeOK
    <2> QED  BY <1>2, <1>3, <2>2 DEF Interrupt
  <1>4. CASE Fault
    <2>1. context' \in Contexts
      BY <1>4 DEF Fault, Contexts, TypeOK
    <2> QED  BY <1>2, <1>4, <2>1 DEF Fault
  <1>5. CASE Handler
    <2>1. PICK f \in Frame : frames # <<>> /\ Become(f)
      BY <1>5, HandlerFrame
    <2>2. frames' \in Seq(Frame)
      BY <2>1, Replaced
    <2> QED  BY <1>5, <2>2, HandlerFrame DEF TypeOK
  <1>6. CASE Return
    <2>1. frames' \in Seq(Frame)
      BY <1>6, Popped DEF Return, At
    <2>2. context' \in Contexts
      BY <1>6, PrioritiesAssumption DEF Return, Contexts, Context, TypeOK
    <2> QED  BY <1>6, <2>1, <2>2 DEF Return, TypeOK, trapRegs
  <1>7. CASE \E i \in Irqs : Raise(i)
    BY <1>7 DEF Raise, TypeOK, mstatus, trapRegs
  <1>8. CASE UNCHANGED vars
    BY <1>8 DEF vars, TypeOK, mstatus, trapRegs
  <1> QED  BY <1>1, <1>3, <1>4, <1>5, <1>6, <1>7, <1>8 DEF Next, Cpu

(* The registers and the saved copies of them keep to their widths, for    *)
(* traps nested to any depth.                                              *)
THEOREM TypeCorrect == Spec => []TypeOK
  BY TypeInitial, TypeStep, PTL DEF Spec

----
(* What holds of the frames, the registers and MEICONTEXT.                 *)

LEMMA InvInitial == Init => TrapInv
  <1> SUFFICES ASSUME Init PROVE TrapInv
    OBVIOUS
  <1>1. TypeOK /\ frames = <<>> /\ DOMAIN frames = {}
    BY TypeInitial, Stack DEF Init
  <1>2. FramesInv /\ PreemptedByHigher /\ NestInv
    BY <1>1 DEF FramesInv, PreemptedByHigher, NestInv
  <1>3. CoreInv /\ ContextInv
    BY <1>1 DEF Init, CoreInv, ContextInv, At, NoContext, Context
  <1> QED  BY <1>1, <1>2, <1>3 DEF TrapInv

LEMMA TopFacts ==
    ASSUME TypeOK, FramesInv, frames # <<>>
    PROVE  /\ Len(frames) \in Nat /\ Len(frames) >= 1 /\ DOMAIN frames = 1..Len(frames)
           /\ Top \in Frame /\ Top = frames[Len(frames)] /\ FrameInv(Len(frames))
  BY Stack DEF FramesInv, Top

(* What a step of a handler leaves alone: what is said of the other frames.*)
LEMMA TopReplaced ==
    ASSUME TrapInv, frames # <<>>, NEW f \in Frame, Become(f), priority' = priority,
           mpp' = mpp, f.reason = Top.reason, NEW n, n = Len(frames)
    PROVE  /\ Top' = f /\ frames'[n] = f /\ Len(frames)' = n /\ frames' # <<>>
           /\ Level(n - 1)' = Level(n - 1) /\ Below(n - 1)' = Below(n - 1)
           /\ Level(n)' = priority[f.irq] + 1
           /\ FrameInv(n)' => FramesInv'
           /\ f.irq = NoIrq \/ f.irq = Top.irq => PreemptedByHigher'
           /\ NestInv'
  <1>0. TypeOK /\ FramesInv /\ PreemptedByHigher /\ NestInv
    BY DEF TrapInv
  <1>1. n \in Nat /\ n >= 1 /\ DOMAIN frames = 1..n /\ Top = frames[n]
    BY <1>0, TopFacts
  <1>2. /\ frames' # <<>> /\ Len(frames)' = n /\ (DOMAIN frames)' = 1..n
        /\ \A m \in 1..(n - 1) : frames'[m] = frames[m]
        /\ frames'[n] = f /\ Top' = f
    BY <1>0, <1>1, Replaced
  <1>3. Level(n - 1)' = Level(n - 1) /\ Below(n - 1)' = Below(n - 1)
    <2>1. n - 1 \in Nat /\ n - 1 \in 0..(n - 1)
      BY <1>1
    <2> QED  BY <1>2, <2>1, LevelsKept
  <1>4. Level(n)' = priority[f.irq] + 1
    BY <1>1, <1>2 DEF Level
  <1>5. ASSUME FrameInv(n)' PROVE FramesInv'
    <2>1. n - 1 \in 0..Len(frames)
      BY <1>1
    <2>2. \A m \in 1..(n - 1) : FrameInv(m)'
      BY <1>0, <1>2, <2>1, FramesKept
    <2>3. \A m \in 1..n : m \in 1..(n - 1) \/ m = n
      BY <1>1
    <2> QED  BY <1>2, <1>5, <2>2, <2>3 DEF FramesInv
  <1>6. \A m \in 1..n : m \in 1..(n - 1) \/ m = n
    BY <1>1
  <1>7. ASSUME f.irq = NoIrq \/ f.irq = Top.irq PROVE PreemptedByHigher'
    <2>1. \A m \in 1..n : frames'[m].irq = NoIrq \/ frames'[m].irq = frames[m].irq
      BY <1>1, <1>2, <1>6, <1>7
    <2> QED  BY <1>0, <1>1, <1>2, <2>1 DEF PreemptedByHigher
  <1>8. NestInv'
    <2>1. \A m \in 1..n : frames'[m].reason = frames[m].reason
      BY <1>1, <1>2, <1>6
    <2> QED  BY <1>0, <1>1, <1>2, <2>1 DEF NestInv, OnePriority
  <1> QED  BY <1>2, <1>3, <1>4, <1>5, <1>7, <1>8

LEMMA HandlerInv == TrapInv /\ Handler => TrapInv'
  <1> SUFFICES ASSUME TrapInv, Handler PROVE TrapInv'
    OBVIOUS
  <1> PICK n : n = Len(frames)
    OBVIOUS
  <1>0. /\ TypeOK /\ FramesInv /\ CoreInv /\ ContextInv
        /\ frames # <<>> /\ UNCHANGED <<main, mpie, mpp, priority>>
    BY HandlerFrame DEF TrapInv
  <1>1. n \in Nat /\ n >= 1 /\ Top \in Frame /\ Top = frames[n] /\ FrameInv(n)
    BY <1>0, TopFacts
  <1>2. TypeOK'
    BY <1>0, TypeStep DEF Next, Cpu
  <1>3. CASE ReadCause
    <2> DEFINE stage == IF mcause = "external" THEN "context" ELSE "stuck"
               f == [Top EXCEPT !.pc = stage, !.cause = mcause, !.epc = mepc, !.lost = CallerSaved]
    <2>1. /\ Top.pc = "entry" /\ Become(f) /\ UNCHANGED <<mie, mepc, mcause, context>>
          /\ stage = IF mcause = "external" THEN "context" ELSE "stuck"
      BY <1>3 DEF ReadCause, At, mstatus, trapRegs
    <2>2. /\ f.pc = stage
          /\ f.cause = mcause /\ f.epc = mepc /\ f.lost = CallerSaved
          /\ f.irq = Top.irq /\ f.from = Top.from /\ f.reason = Top.reason /\ f.saved = Top.saved
          /\ f \in Frame
      <3>1. mcause \in {"none", "external", "fault"} /\ mepc \in Places
        BY <1>0 DEF TypeOK
      <3>2. stage \in {"context", "stuck"}
        OBVIOUS
      <3> HIDE DEF stage
      <3>3. f \in Frame
        BY <1>1, <3>1, <3>2, CauseRead
      <3>4. /\ f.pc = stage /\ f.cause = mcause /\ f.epc = mepc /\ f.lost = CallerSaved
            /\ f.irq = Top.irq /\ f.from = Top.from /\ f.reason = Top.reason /\ f.saved = Top.saved
        BY <1>1 DEF Frame
      <3> QED  BY <3>3, <3>4
    <2> HIDE DEF stage, f
    <2>3. /\ Top' = f /\ frames'[n] = f /\ Len(frames)' = n /\ frames' # <<>>
          /\ Level(n - 1)' = Level(n - 1) /\ Below(n - 1)' = Below(n - 1)
          /\ FrameInv(n)' => FramesInv'
          /\ PreemptedByHigher' /\ NestInv'
      BY <1>0, <2>1, <2>2, TopReplaced
    <2>4. mepc = Top.from /\ mcause = Top.reason /\ Top.irq = NoIrq /\ ~mie
      BY <1>0, <1>1, <2>1 DEF CoreInv, At, FrameInv, Serving, Open
    <2>5. FrameInv(n)'
      BY <1>1, <2>1, <2>2, <2>3, <2>4 DEF FrameInv, Serving, Open, Between
    <2>6. CoreInv'
      BY <1>0, <2>1, <2>2, <2>3, <2>4 DEF CoreInv, Serving, At
    <2>7. ContextInv'
      BY <1>0, <2>1, <2>2, <2>3, <2>4 DEF ContextInv, Serving, Entered
    <2> QED  BY <1>2, <2>3, <2>5, <2>6, <2>7 DEF TrapInv
  <1>4. CASE SaveContext
    <2> DEFINE f == [Top EXCEPT !.pc = "next", !.saved = context]
    <2>1. /\ Top.pc = "context" /\ Become(f) /\ UNCHANGED <<mie, mepc, mcause, context>>
      BY <1>4 DEF SaveContext, At, mstatus, trapRegs
    <2>2. /\ f.pc = "next" /\ f.saved = context
          /\ f.cause = Top.cause /\ f.epc = Top.epc /\ f.lost = Top.lost
          /\ f.irq = Top.irq /\ f.from = Top.from /\ f.reason = Top.reason
          /\ f \in Frame
      BY <1>0, <1>1 DEF Frame, TypeOK
    <2> HIDE DEF f
    <2>3. /\ Top' = f /\ frames'[n] = f /\ Len(frames)' = n /\ frames' # <<>>
          /\ Level(n - 1)' = Level(n - 1) /\ Below(n - 1)' = Below(n - 1)
          /\ FrameInv(n)' => FramesInv'
          /\ PreemptedByHigher' /\ NestInv'
      BY <1>0, <2>1, <2>2, TopReplaced
    <2>4. Top.irq = NoIrq /\ Top.reason = "external" /\ ~mie
      BY <1>0, <1>1, <2>1 DEF CoreInv, FrameInv, Serving, Open, Between
    <2>5. Entered(context, n)
      BY <1>0, <2>1, <2>4 DEF ContextInv
    <2>6. FrameInv(n)'
      BY <1>1, <2>1, <2>2, <2>3, <2>4, <2>5 DEF FrameInv, Serving, Between, Entered
    <2>7. CoreInv'
      BY <1>0, <2>1, <2>2, <2>3, <2>4 DEF CoreInv, Serving, At, Open
    <2>8. ContextInv'
      BY <1>0, <2>1, <2>2, <2>3, <2>4, <2>5 DEF ContextInv, Serving, Entered
    <2> QED  BY <1>2, <2>3, <2>6, <2>7, <2>8 DEF TrapInv
  <1>5. CASE NextIrq
    <2>0. PICK irq \in Irqs : /\ irq \in Visible /\ Become([Top EXCEPT !.pc = "enable", !.irq = irq])
                              /\ context' = Updated(priority[irq] + 1)
      BY <1>0, <1>5, Begun
    <2> DEFINE f == [Top EXCEPT !.pc = "enable", !.irq = irq]
    <2>1. /\ Top.pc = "next" /\ Become(f) /\ UNCHANGED <<mie, mepc, mcause>>
          /\ irq # NoIrq
      BY <1>0, <1>5, <2>0, Ranks DEF NextIrq, At, mstatus, trapRegs
    <2>2. /\ f.pc = "enable" /\ f.irq = irq
          /\ f.cause = Top.cause /\ f.epc = Top.epc /\ f.lost = Top.lost /\ f.saved = Top.saved
          /\ f.from = Top.from /\ f.reason = Top.reason
          /\ f \in Frame
      BY <1>1, <2>0 DEF Frame
    <2> HIDE DEF f
    <2>3. /\ Top' = f /\ frames'[n] = f /\ Len(frames)' = n /\ frames' # <<>>
          /\ Level(n - 1)' = Level(n - 1) /\ Below(n - 1)' = Below(n - 1)
          /\ Level(n)' = priority[irq] + 1
          /\ FrameInv(n)' => FramesInv'
          /\ NestInv'
      BY <1>0, <2>1, <2>2, TopReplaced
    <2>4. Top.irq = NoIrq /\ Top.reason = "external" /\ ~mie /\ Entered(Top.saved, n)
      BY <1>0, <1>1, <2>1 DEF CoreInv, FrameInv, Serving, Open, Between
    <2>5. context.ppreempt = Level(n - 1)
      BY <1>0, <2>1 DEF ContextInv
    <2>6. /\ context'.preempt = priority[irq] + 1 /\ context'.ppreempt = context.ppreempt
      BY <1>0, <2>0 DEF Updated, TypeOK, Contexts
    <2>7. FrameInv(n)'
      BY <1>1, <2>1, <2>2, <2>3, <2>4 DEF FrameInv, Serving, Between, Entered, Open
    <2>8. CoreInv'
      BY <1>0, <2>1, <2>2, <2>3, <2>4 DEF CoreInv, Serving, At, Open
    <2>9. ContextInv'
      BY <1>0, <2>2, <2>3, <2>5, <2>6 DEF ContextInv, Serving
    <2>10. PreemptedByHigher'
      <3> SUFFICES ASSUME NEW m \in (DOMAIN frames)', NEW k \in (DOMAIN frames)', m < k,
                          frames'[m].irq # NoIrq, frames'[k].irq # NoIrq
                   PROVE  priority[frames'[m].irq] < priority[frames'[k].irq]
        BY <1>0 DEF PreemptedByHigher
      <3>1. /\ DOMAIN frames = 1..n /\ (DOMAIN frames)' = 1..n
            /\ \A j \in 1..(n - 1) : frames'[j] = frames[j] /\ frames[j] \in Frame
        <4>1. /\ DOMAIN frames = 1..n /\ (DOMAIN frames)' = DOMAIN frames
              /\ \A j \in 1..(n - 1) : frames'[j] = frames[j]
              /\ \A j \in 1..n : frames[j] \in Frame
          BY <1>0, <2>1, <2>2, Replaced, Stack
        <4> QED  BY <1>1, <4>1
      <3>2. CASE k < n
        <4>1. m \in 1..(n - 1) /\ k \in 1..(n - 1) /\ m \in 1..n /\ k \in 1..n
          BY <1>1, <3>1, <3>2
        <4> QED  BY <3>1, <4>1 DEF PreemptedByHigher, TrapInv
      <3>3. CASE k = n
        <4>1. m \in 1..(n - 1) /\ n - 1 \in 1..(n - 1) /\ n - 1 # 0
          BY <1>1, <3>1, <3>3
        <4>2. frames[n - 1].irq \in Irqs /\ frames[m].irq \in Irqs
              /\ priority[irq] >= priority[frames[n - 1].irq] + 1
          <5>1. FrameInv(n - 1)
            BY <1>0, <1>1, <3>1, <4>1 DEF FramesInv
          <5>2. frames[n - 1].irq # NoIrq
            BY <1>1, <5>1 DEF FrameInv, Serving
          <5>3. frames[n - 1].irq \in Irqs /\ frames[m].irq \in Irqs
            BY <3>1, <4>1, <5>2 DEF Frame
          <5>4. priority[irq] >= Level(n - 1)
            BY <2>0, <2>5 DEF Visible
          <5> QED  BY <4>1, <5>3, <5>4 DEF Level
        <4>3. priority[frames[m].irq] <= priority[frames[n - 1].irq]
          <5>1. CASE m = n - 1
            BY <1>0, <4>2, <5>1, Ranks
          <5>2. CASE m < n - 1
            <6>1. m \in DOMAIN frames /\ n - 1 \in DOMAIN frames
              BY <1>1, <3>1, <4>1
            <6>2. frames[m].irq # NoIrq /\ frames[n - 1].irq # NoIrq
              BY <1>0, <4>2, Ranks
            <6>3. priority[frames[m].irq] < priority[frames[n - 1].irq]
              BY <5>2, <6>1, <6>2 DEF PreemptedByHigher, TrapInv
            <6> QED  BY <1>0, <4>2, <6>3, Ranks
          <5> QED  BY <1>1, <4>1, <5>1, <5>2
        <4>4. /\ priority[frames[m].irq] \in Int /\ priority[frames[n - 1].irq] \in Int
              /\ priority[irq] \in Int
          BY <1>0, <2>0, <4>2, Ranks
        <4>5. priority[frames[m].irq] < priority[irq]
          BY <4>2, <4>3, <4>4
        <4> QED  BY <2>2, <2>3, <3>1, <3>3, <4>1, <4>5
      <3> QED  BY <1>1, <3>1, <3>2, <3>3
    <2> QED  BY <1>2, <2>3, <2>7, <2>8, <2>9, <2>10 DEF TrapInv
  <1>6. CASE NoNextIrq
    <2> DEFINE f == [Top EXCEPT !.pc = "unwind"]
    <2>1. /\ Top.pc = "next" /\ Become(f) /\ UNCHANGED <<mie, mepc, mcause>>
          /\ context' = Updated(Levels + 1)
      BY <1>6 DEF NoNextIrq, At, Goto, mstatus, trapRegs
    <2>2. /\ f.pc = "unwind" /\ f.irq = Top.irq
          /\ f.cause = Top.cause /\ f.epc = Top.epc /\ f.lost = Top.lost /\ f.saved = Top.saved
          /\ f.from = Top.from /\ f.reason = Top.reason
          /\ f \in Frame
      BY <1>1 DEF Frame
    <2> HIDE DEF f
    <2>3. /\ Top' = f /\ frames'[n] = f /\ Len(frames)' = n /\ frames' # <<>>
          /\ Level(n - 1)' = Level(n - 1) /\ Below(n - 1)' = Below(n - 1)
          /\ FrameInv(n)' => FramesInv'
          /\ PreemptedByHigher' /\ NestInv'
      BY <1>0, <2>1, <2>2, TopReplaced
    <2>4. Top.irq = NoIrq /\ ~mie /\ Entered(Top.saved, n) /\ Top.reason = "external"
      BY <1>0, <1>1, <2>1 DEF CoreInv, FrameInv, Serving, Open, Between
    <2>5. context'.ppreempt = Level(n - 1)
      BY <1>0, <2>1 DEF ContextInv, Updated, TypeOK, Contexts
    <2>6. FrameInv(n)'
      BY <1>1, <2>1, <2>2, <2>3, <2>4 DEF FrameInv, Serving, Between, Entered
    <2>7. CoreInv'
      BY <1>0, <2>1, <2>2, <2>3, <2>4 DEF CoreInv, Serving, At, Open
    <2>8. ContextInv'
      BY <1>0, <2>2, <2>3, <2>4, <2>5 DEF ContextInv, Serving
    <2> QED  BY <1>2, <2>3, <2>6, <2>7, <2>8 DEF TrapInv
  <1>7. CASE EnableInterrupts
    <2> DEFINE stage == IF Top.irq \in Handled THEN "serve" ELSE "stuck"
               f == [Top EXCEPT !.pc = stage]
    <2>1. /\ Top.pc = "enable" /\ Become(f) /\ mie' = TRUE /\ UNCHANGED <<mepc, mcause, context>>
      BY <1>7 DEF EnableInterrupts, At, Goto, trapRegs
    <2>2. /\ f.pc \in {"serve", "stuck"} /\ f.irq = Top.irq
          /\ f.cause = Top.cause /\ f.epc = Top.epc /\ f.lost = Top.lost /\ f.saved = Top.saved
          /\ f.from = Top.from /\ f.reason = Top.reason
          /\ f \in Frame
      <3>1. stage \in {"serve", "stuck"}
        OBVIOUS
      <3> HIDE DEF stage
      <3> QED  BY <1>1, <3>1 DEF Frame
    <2> HIDE DEF stage, f
    <2>3. /\ Top' = f /\ frames'[n] = f /\ Len(frames)' = n /\ frames' # <<>>
          /\ Level(n - 1)' = Level(n - 1) /\ Below(n - 1)' = Below(n - 1)
          /\ Level(n)' = priority[Top.irq] + 1
          /\ FrameInv(n)' => FramesInv'
          /\ PreemptedByHigher' /\ NestInv'
      BY <1>0, <2>1, <2>2, TopReplaced
    <2>4. Top.irq # NoIrq /\ Entered(Top.saved, n) /\ Top.reason = "external"
      BY <1>1, <2>1 DEF FrameInv, Serving
    <2>5. context.ppreempt = Level(n - 1) /\ context.preempt = priority[Top.irq] + 1
      BY <1>0, <1>1, <2>4 DEF ContextInv, Serving, Level
    <2>6. FrameInv(n)'
      BY <1>1, <2>1, <2>2, <2>3, <2>4 DEF FrameInv, Serving, Between, Entered, Open
    <2>7. CoreInv'
      BY <1>0, <2>1, <2>2, <2>3, <2>4 DEF CoreInv, Serving, At, Open
    <2>8. ContextInv'
      BY <1>0, <2>1, <2>2, <2>3, <2>4, <2>5 DEF ContextInv, Serving
    <2> QED  BY <1>2, <2>3, <2>6, <2>7, <2>8 DEF TrapInv
  <1>8. CASE Acknowledge
    <2> DEFINE f == [Top EXCEPT !.pc = "served"]
    <2>1. /\ Top.pc = "serve" /\ Become(f) /\ UNCHANGED <<mie, mepc, mcause, context>>
      BY <1>8 DEF Acknowledge, At, Goto, mstatus, trapRegs
    <2>2. /\ f.pc = "served" /\ f.irq = Top.irq
          /\ f.cause = Top.cause /\ f.epc = Top.epc /\ f.lost = Top.lost /\ f.saved = Top.saved
          /\ f.from = Top.from /\ f.reason = Top.reason
          /\ f \in Frame
      BY <1>1 DEF Frame
    <2> HIDE DEF f
    <2>3. /\ Top' = f /\ frames'[n] = f /\ Len(frames)' = n /\ frames' # <<>>
          /\ Level(n - 1)' = Level(n - 1) /\ Below(n - 1)' = Below(n - 1)
          /\ Level(n)' = priority[Top.irq] + 1
          /\ FrameInv(n)' => FramesInv'
          /\ PreemptedByHigher' /\ NestInv'
      BY <1>0, <2>1, <2>2, TopReplaced
    <2>4. Top.irq # NoIrq /\ Entered(Top.saved, n) /\ Top.reason = "external"
      BY <1>1, <2>1 DEF FrameInv, Serving
    <2>5. context.ppreempt = Level(n - 1) /\ context.preempt = priority[Top.irq] + 1
      BY <1>0, <1>1, <2>4 DEF ContextInv, Serving, Level
    <2>6. FrameInv(n)'
      BY <1>1, <2>1, <2>2, <2>3, <2>4 DEF FrameInv, Serving, Between, Entered, Open
    <2>7. CoreInv'
      BY <1>0, <2>1, <2>2, <2>3, <2>4 DEF CoreInv, Serving, At, Open
    <2>8. ContextInv'
      BY <1>0, <2>1, <2>2, <2>3, <2>4, <2>5 DEF ContextInv, Serving
    <2> QED  BY <1>2, <2>3, <2>6, <2>7, <2>8 DEF TrapInv
  <1>9. CASE DisableInterrupts
    <2> DEFINE f == [Top EXCEPT !.pc = "next", !.irq = NoIrq]
    <2>1. /\ Top.pc = "served" /\ Become(f) /\ mie' = FALSE /\ UNCHANGED <<mepc, mcause, context>>
      BY <1>9 DEF DisableInterrupts, At, trapRegs
    <2>2. /\ f.pc = "next" /\ f.irq = NoIrq
          /\ f.cause = Top.cause /\ f.epc = Top.epc /\ f.lost = Top.lost /\ f.saved = Top.saved
          /\ f.from = Top.from /\ f.reason = Top.reason
          /\ f \in Frame
      BY <1>1 DEF Frame
    <2> HIDE DEF f
    <2>3. /\ Top' = f /\ frames'[n] = f /\ Len(frames)' = n /\ frames' # <<>>
          /\ Level(n - 1)' = Level(n - 1) /\ Below(n - 1)' = Below(n - 1)
          /\ FrameInv(n)' => FramesInv'
          /\ PreemptedByHigher' /\ NestInv'
      BY <1>0, <2>1, <2>2, TopReplaced
    <2>4. Top.irq # NoIrq /\ Entered(Top.saved, n) /\ Top.reason = "external"
      BY <1>1, <2>1 DEF FrameInv, Serving
    <2>5. context.ppreempt = Level(n - 1)
      BY <1>0, <2>4 DEF ContextInv, Serving
    <2>6. FrameInv(n)'
      BY <1>1, <2>1, <2>2, <2>3, <2>4 DEF FrameInv, Serving, Between, Entered
    <2>7. CoreInv'
      BY <1>0, <2>1, <2>2, <2>3, <2>4 DEF CoreInv, Serving, At, Open
    <2>8. ContextInv'
      BY <1>0, <2>1, <2>2, <2>3, <2>4, <2>5 DEF ContextInv, Serving
    <2> QED  BY <1>2, <2>3, <2>6, <2>7, <2>8 DEF TrapInv
  <1>10. CASE Unwind
    <2> DEFINE f == [Top EXCEPT !.pc = "return", !.lost = @ \ WrapperSaved]
    <2>1. /\ Top.pc = "unwind" /\ Become(f) /\ mie' = mie /\ mepc' = Top.epc /\ mcause' = Top.cause
          /\ context' = Top.saved
      BY <1>10 DEF Unwind, At, mstatus
    <2>2. /\ f.pc = "return" /\ f.irq = Top.irq
          /\ f.cause = Top.cause /\ f.epc = Top.epc /\ f.saved = Top.saved
          /\ f.from = Top.from /\ f.reason = Top.reason
          /\ f.lost = Top.lost \ WrapperSaved
          /\ f \in Frame
      BY <1>1 DEF Frame
    <2> HIDE DEF f
    <2>3. /\ Top' = f /\ frames'[n] = f /\ Len(frames)' = n /\ frames' # <<>>
          /\ Level(n - 1)' = Level(n - 1) /\ Below(n - 1)' = Below(n - 1)
          /\ FrameInv(n)' => FramesInv'
          /\ PreemptedByHigher' /\ NestInv'
      BY <1>0, <2>1, <2>2, TopReplaced
    <2>4. /\ Top.irq = NoIrq /\ Entered(Top.saved, n) /\ Top.reason = "external" /\ ~mie
          /\ Top.epc = Top.from /\ Top.cause = Top.reason
      BY <1>0, <1>1, <2>1 DEF FrameInv, CoreInv, Serving, Between, Open
    <2>5. f.lost = {}
      <3>1. Top.lost \subseteq CallerSaved
        BY <1>1 DEF FrameInv
      <3>2. CallerSaved \subseteq WrapperSaved
        BY DEF CallerSaved, WrapperSaved
      <3> QED  BY <2>2, <3>1, <3>2
    <2>6. FrameInv(n)'
      BY <1>1, <2>1, <2>2, <2>3, <2>4, <2>5 DEF FrameInv, Serving, Between, Entered
    <2>7. CoreInv'
      BY <1>0, <2>1, <2>2, <2>3, <2>4 DEF CoreInv, Serving, At, Open
    <2>8. ContextInv'
      BY <1>0, <2>1, <2>2, <2>3, <2>4 DEF ContextInv, Serving, Entered
    <2> QED  BY <1>2, <2>3, <2>6, <2>7, <2>8 DEF TrapInv
  <1> QED
    BY <1>3, <1>4, <1>5, <1>6, <1>7, <1>8, <1>9, <1>10 DEF Handler

(* A trap is taken by main or by a handler that lets interrupts in.        *)
LEMMA PushInv ==
    ASSUME TrapInv, NEW cause \in {"external", "fault"}, Push(cause), TypeOK',
           NEW n, n = Len(frames),
           priority' = priority, frames = <<>> \/ (Top.pc \in Open /\ Serving(Top)),
           cause = "external" =>
               /\ Entered(context, n + 1)'
               /\ OnePriority => frames = <<>>
    PROVE  TrapInv'
  <1> DEFINE f == NewFrame(cause)
  <1>0. TypeOK /\ FramesInv /\ CoreInv /\ PreemptedByHigher /\ NestInv
    BY DEF TrapInv
  <1>1. /\ n \in Nat /\ DOMAIN frames = 1..n
        /\ frames # <<>> => n >= 1 /\ Top = frames[n] /\ FrameInv(n)
    BY <1>0, Stack, TopFacts
  <1>2. /\ f.pc = "entry" /\ f.irq = NoIrq /\ f.from = Here /\ f.reason = cause /\ f.lost = {}
    BY DEF NewFrame
  <1>3. /\ frames' # <<>> /\ Len(frames)' = n + 1 /\ (DOMAIN frames)' = 1..(n + 1)
        /\ \A m \in 1..n : frames'[m] = frames[m]
        /\ frames'[n + 1] = f /\ Top' = f
    BY <1>0, <1>1, NewFrameType, Pushed DEF Push, NewFrame
  <1>4. /\ mepc' = Here /\ mcause' = cause /\ mpie' = mie /\ mie' = FALSE /\ mpp' = "M"
    BY DEF Push
  <1> HIDE DEF f
  <1>5. FramesInv'
    <2> SUFFICES ASSUME NEW m \in 1..(n + 1) PROVE FrameInv(m)'
      BY <1>3 DEF FramesInv
    <2>1. CASE m < n
      <3>1. /\ n - 1 \in 0..Len(frames) /\ m \in 1..(n - 1)
            /\ \A k \in 1..(n - 1) : frames'[k] = frames[k] /\ k < Len(frames)
        BY <1>1, <1>3, <2>1
      <3> QED  BY <1>0, <3>1, FramesKept
    <2>2. CASE m = n
      <3>1. /\ n - 1 \in 0..n /\ n # 0 /\ frames # <<>> /\ n \in 1..n
        BY <1>0, <1>1, <2>2, Stack
      <3>2. Level(n - 1)' = Level(n - 1) /\ Below(n - 1)' = Below(n - 1)
        BY <1>1, <1>3, <3>1, LevelsKept
      <3>3. frames'[n] = frames[n] /\ frames[n].pc \in Open /\ Serving(frames[n])
        BY <1>1, <1>3, <3>1
      <3> QED  BY <1>1, <2>2, <3>1, <3>2, <3>3 DEF FrameInv, Entered, Serving
    <2>3. CASE m = n + 1
      BY <1>1, <1>2, <1>3, <2>3 DEF FrameInv, Serving, Between
    <2> QED  BY <1>1, <2>1, <2>2, <2>3
  <1>6. CoreInv'
    <2>1. mie
      BY <1>0 DEF CoreInv
    <2> QED  BY <1>2, <1>3, <1>4, <2>1 DEF CoreInv, At, Open
  <1>7. ContextInv'
    <2>1. cause = "external" => Entered(context, n + 1)'
      OBVIOUS
    <2> QED  BY <1>2, <1>3, <2>1 DEF ContextInv, Serving
  <1>8. PreemptedByHigher'
    <2>1. \A m \in 1..(n + 1) : frames'[m].irq = NoIrq
                                \/ (m \in 1..n /\ frames'[m].irq = frames[m].irq)
      BY <1>1, <1>2, <1>3
    <2> QED  BY <1>0, <1>1, <1>3, <2>1 DEF PreemptedByHigher
  <1>9. NestInv'
    <2> SUFFICES ASSUME OnePriority, NEW m \in 1..(n + 1), m > 1
                 PROVE  frames'[m].reason = "fault"
      BY <1>3, <1>4 DEF NestInv, OnePriority
    <2>1. CASE m \in 1..n
      BY <1>0, <1>1, <1>3, <2>1 DEF NestInv
    <2>2. CASE m = n + 1
      <3>1. frames # <<>>
        BY <1>0, <1>1, <2>2, Stack
      <3>2. cause = "fault"
        BY <3>1
      <3> QED  BY <1>2, <1>3, <2>2, <3>2
    <2> QED  BY <1>1, <2>1, <2>2
  <1> QED  BY <1>5, <1>6, <1>7, <1>8, <1>9 DEF TrapInv

LEMMA ReturnInv == TrapInv /\ Return => TrapInv'
  <1> SUFFICES ASSUME TrapInv, Return PROVE TrapInv'
    OBVIOUS
  <1> PICK n : n = Len(frames)
    OBVIOUS
  <1>0. /\ TypeOK /\ FramesInv /\ CoreInv /\ ContextInv /\ PreemptedByHigher /\ NestInv
        /\ frames # <<>> /\ Top.pc = "return" /\ frames' = Outer /\ priority' = priority
        /\ mie' = mpie /\ mpie' = TRUE
        /\ UNCHANGED <<mepc, mcause>>
    BY DEF TrapInv, Return, At, trapRegs
  <1>1. n \in Nat /\ n >= 1 /\ DOMAIN frames = 1..n /\ Top = frames[n] /\ FrameInv(n)
    BY <1>0, TopFacts
  <1>2. TypeOK'
    BY <1>0, TypeStep DEF Next, Cpu
  <1>3. /\ Len(frames)' = n - 1 /\ (DOMAIN frames)' = 1..(n - 1)
        /\ \A m \in 1..(n - 1) : frames'[m] = frames[m]
        /\ frames' = <<>> <=> n = 1
        /\ frames' # <<>> => Top' = frames[n - 1]
    BY <1>0, <1>1, Popped
  <1>4. Top.reason = "external" /\ Entered(context, n)
    BY <1>0, <1>1 DEF FrameInv, Between, ContextInv
  <1>5. n > 1 => /\ n - 1 \in 1..(n - 1) /\ Top' = frames[n - 1]
                 /\ frames[n - 1].pc \in Open /\ Serving(frames[n - 1])
    <2> SUFFICES ASSUME n > 1 PROVE /\ n - 1 \in 1..(n - 1) /\ Top' = frames[n - 1]
                                    /\ frames[n - 1].pc \in Open /\ Serving(frames[n - 1])
      OBVIOUS
    <2>1. n - 1 \in 1..(n - 1) /\ n - 1 \in 1..n /\ n - 1 < Len(frames)
      BY <1>1
    <2>2. FrameInv(n - 1)
      BY <1>0, <1>1, <2>1 DEF FramesInv
    <2> QED  BY <1>3, <2>1, <2>2 DEF FrameInv
  <1>6. FramesInv'
    <2>1. n - 1 \in 0..Len(frames) /\ \A m \in 1..(n - 1) : m < Len(frames)
      BY <1>1
    <2> QED  BY <1>0, <1>3, <2>1, FramesKept DEF FramesInv
  <1>7. CoreInv'
    <2>1. mie' /\ mpie'
      BY <1>0 DEF CoreInv
    <2>2. CASE n = 1
      BY <1>3, <2>1, <2>2 DEF CoreInv, At
    <2>3. CASE n > 1
      BY <1>5, <2>1, <2>3 DEF CoreInv, At, Open, Serving
    <2> QED  BY <1>1, <2>2, <2>3
  <1>8. ContextInv'
    <2>1. /\ context'.preempt = Level(n - 1) /\ context'.ppreempt = Below(n - 1)
          /\ context'.mreteirq = FALSE
      BY <1>4 DEF Return, Entered, Context
    <2>2. CASE n = 1
      BY <1>3, <2>1, <2>2 DEF ContextInv, Level, Below
    <2>3. CASE n > 1
      <3>1. Level(n - 1)' = Level(n - 1) /\ Level(n - 2)' = Level(n - 2)
        <4>1. n - 1 \in Nat /\ n - 1 \in 0..(n - 1) /\ n - 2 \in 0..(n - 1)
          BY <1>1, <2>3
        <4> QED  BY <1>0, <1>3, <4>1, LevelsKept
      <3>2. Below(n - 1) = Level(n - 2)
        BY <1>1, <2>3 DEF Below
      <3>3. Len(frames)' - 1 = n - 2 /\ frames' # <<>>
        BY <1>1, <1>3, <2>3
      <3> QED  BY <1>3, <1>5, <2>1, <2>3, <3>1, <3>2, <3>3 DEF ContextInv, Open, Serving
    <2> QED  BY <1>1, <2>2, <2>3
  <1>9. PreemptedByHigher'
    <2>1. \A m \in 1..(n - 1) : m \in 1..n
      BY <1>1
    <2> QED  BY <1>0, <1>1, <1>3, <2>1 DEF PreemptedByHigher
  <1>10. NestInv'
    <2> SUFFICES ASSUME OnePriority
                 PROVE  /\ \A m \in 1..(n - 1) : m > 1 => frames'[m].reason = "fault"
                        /\ frames' = <<>>
      BY <1>0, <1>3 DEF NestInv, OnePriority
    <2>1. \A m \in 1..n : m > 1 => frames[m].reason = "fault"
      BY <1>0, <1>1 DEF NestInv
    <2>2. n = 1
      BY <1>1, <1>4, <2>1
    <2> QED  BY <1>1, <1>3, <2>1, <2>2
  <1> QED  BY <1>2, <1>6, <1>7, <1>8, <1>9, <1>10 DEF TrapInv

LEMMA InvStep == TrapInv /\ [Next]_vars => TrapInv'
  <1> SUFFICES ASSUME TrapInv, [Next]_vars PROVE TrapInv'
    OBVIOUS
  <1>0. TypeOK /\ FramesInv /\ CoreInv /\ ContextInv /\ TypeOK'
    BY TypeStep DEF TrapInv
  <1> PICK n : n = Len(frames)
    OBVIOUS
  <1>1. CASE Interrupt
    <2>0. PICK i \in Irqs :
             /\ i \in Preempting
             /\ context' = Context(priority[i] + 1, context.preempt, context.ppreempt, TRUE)
      BY <1>0, <1>1 DEF Interrupt, MostUrgent, Preempting, TypeOK
    <2>1. mie /\ Push("external") /\ priority' = priority
      BY <1>1 DEF Interrupt, Interrupted
    <2>2. frames = <<>> \/ (Top.pc \in Open /\ Serving(Top))
      BY <1>0, <2>1 DEF CoreInv
    <2>3. n \in Nat /\ (frames = <<>> <=> n = 0)
      BY <1>0, Stack
    <2>4. context.preempt = Level(n) /\ context.ppreempt = Below(n)
      BY <1>0, <2>2, <2>3 DEF ContextInv, Level, Below
    <2>5. Level(n)' = Level(n) /\ Below(n)' = Below(n)
      <3>1. \A m \in 1..n : frames'[m] = frames[m]
        BY <1>0, <2>1, NewFrameType, Pushed, Stack DEF Push, NewFrame
      <3> QED  BY <2>1, <2>3, <3>1, LevelsKept
    <2>6. Entered(context, n + 1)'
      <3>1. n + 1 - 1 = n
        BY <2>3
      <3> QED  BY <2>0, <2>4, <2>5, <3>1 DEF Entered, Context
    <2>7. OnePriority => frames = <<>>
      <3> SUFFICES ASSUME OnePriority, frames # <<>> PROVE FALSE
        OBVIOUS
      <3>1. Top.irq \in Irqs
        BY <1>0, <2>2, TopFacts DEF Serving, Frame
      <3>2. context.preempt = priority[Top.irq] + 1
        BY <1>0, <2>3, <2>4, TopFacts DEF Level
      <3>3. priority[i] >= priority[Top.irq] + 1 /\ priority[i] = priority[Top.irq]
        BY <2>0, <3>1, <3>2 DEF Preempting, OnePriority
      <3> QED  BY <1>0, <2>0, <3>3, Ranks
    <2> QED  BY <1>0, <2>1, <2>2, <2>6, <2>7, PushInv
  <1>2. CASE Fault
    <2>1. Push("fault") /\ priority' = priority
      BY <1>2 DEF Fault
    <2>2. frames = <<>> \/ (Top.pc \in Open /\ Serving(Top))
      BY <1>0, <1>2, TopFacts DEF Fault, At, FrameInv, Open
    <2> QED  BY <1>0, <2>1, <2>2, PushInv
  <1>3. CASE MainStep \/ (\E i \in Irqs : Raise(i)) \/ UNCHANGED vars
    <2>1. UNCHANGED <<frames, mie, mpie, mpp, mepc, mcause, context, priority>>
      BY <1>3 DEF MainStep, Raise, vars, mstatus, trapRegs
    <2>2. FramesInv' /\ CoreInv' /\ ContextInv' /\ PreemptedByHigher' /\ NestInv'
      BY <2>1
      DEF TrapInv, FramesInv, FrameInv, CoreInv, ContextInv, PreemptedByHigher, NestInv,
          OnePriority, At, Top, Serving, Entered, Level, Below
    <2> QED  BY <1>0, <2>2 DEF TrapInv
  <1> QED
    BY <1>1, <1>2, <1>3, HandlerInv, ReturnInv DEF Next, Cpu

LEMMA InvInductive == Spec => []TrapInv
  BY InvInitial, InvStep, PTL DEF Spec

(* A trap returns to the place it interrupted, with the registers of that  *)
(* place, whatever has been nested in it; and to the mode it interrupted,  *)
(* if all interrupts have one priority.                                    *)
THEOREM Restored == Spec => []ContextRestored
  <1>1. TrapInv => ContextRestored
    <2> SUFFICES ASSUME TrapInv, At("return") PROVE ContextRestored
      BY DEF ContextRestored
    <2>1. frames # <<>> /\ Top.pc = "return" /\ FrameInv(Len(frames)) /\ Top = frames[Len(frames)]
      BY TopFacts DEF TrapInv, At
    <2>2. Top.lost = {}
      BY <2>1 DEF FrameInv
    <2> QED  BY <2>1, <2>2 DEF TrapInv, CoreInv, NestInv, ContextRestored
  <1> QED  BY <1>1, InvInductive, PTL

(* A handler is preempted by interrupts of higher priority only, at any    *)
(* depth.                                                                  *)
THEOREM HigherPreempts == Spec => []PreemptedByHigher
  <1>1. TrapInv => PreemptedByHigher
    BY DEF TrapInv
  <1> QED  BY <1>1, InvInductive, PTL

(* When the last trap has returned, every interrupt comes through again.   *)
THEOREM InterruptibleMain == Spec => []MainInterruptible
  <1>1. TrapInv => MainInterruptible
    BY DEF TrapInv, CoreInv, ContextInv, MainInterruptible
  <1> QED  BY <1>1, InvInductive, PTL

----
(* The service of interrupts.                                              *)

(* The active handlers are those of the frames that serve an interrupt.    *)
ActiveInv ==
    /\ ServingDepth \in Nat /\ Active \in Seq(Irqs)
    /\ Len(Active) = ServingDepth /\ DOMAIN Active = 1..ServingDepth
    /\ \A m \in 1..ServingDepth : m \in DOMAIN frames /\ Active[m] = frames[m].irq
    /\ Active = <<>> <=> ServingDepth = 0
    /\ frames # <<>> => ServingDepth = IF Serving(Top) THEN Len(frames) ELSE Len(frames) - 1

LEMMA ActiveFacts == TrapInv => ActiveInv
  <1> SUFFICES ASSUME TrapInv PROVE ActiveInv
    OBVIOUS
  <1>1. PICK n \in Nat : n = Len(frames) /\ (frames = <<>> <=> n = 0) /\ DOMAIN frames = 1..n
    BY Stack DEF TrapInv
  <1>0. FramesInv /\ \A m \in DOMAIN frames : frames[m] \in Frame
    BY Stack DEF TrapInv
  <1>2. /\ ServingDepth \in Nat /\ ServingDepth <= n
        /\ frames # <<>> /\ ~Serving(Top) => ServingDepth = n - 1
    BY <1>1 DEF ServingDepth
  <1>3. ASSUME NEW m \in 1..ServingDepth
        PROVE  m \in DOMAIN frames /\ frames[m].irq \in Irqs
    <2>1. m \in Nat /\ 1 <= m /\ m <= n /\ m \in 1..n
      BY <1>2
    <2>2. Serving(frames[m])
      <3>1. CASE m < n
        BY <1>0, <1>1, <2>1, <3>1 DEF FramesInv, FrameInv
      <3>2. CASE m = n
        <4> SUFFICES ASSUME ~Serving(Top) PROVE FALSE
          BY <1>1, <3>2 DEF Top
        <4> QED  BY <1>1, <1>2, <2>1, <3>2
      <3> QED  BY <2>1, <3>1, <3>2
    <2> QED  BY <1>0, <1>1, <2>1, <2>2 DEF Serving, Frame
  <1>4. Active \in [1..ServingDepth -> Irqs]
    BY <1>3 DEF Active
  <1>5. Active \in Seq(Irqs) /\ Len(Active) = ServingDepth
    BY <1>2, <1>4
  <1>6. Active = <<>> <=> ServingDepth = 0
    BY <1>5, EmptySeq
  <1>7. \A m \in 1..ServingDepth : Active[m] = frames[m].irq
    BY DEF Active
  <1>8. frames # <<>> => ServingDepth = IF Serving(Top) THEN Len(frames) ELSE Len(frames) - 1
    BY DEF ServingDepth
  <1>9. DOMAIN Active = 1..ServingDepth
    BY DEF Active
  <1> QED  BY <1>2, <1>3, <1>4, <1>5, <1>6, <1>7, <1>8, <1>9 DEF ActiveInv

LEMMA ActiveFactsNext == TrapInv' => ActiveInv'
  BY ActiveFacts, PTL

LEMMA SameActive ==
    ASSUME TrapInv, TrapInv', ServingDepth' = ServingDepth,
           \A m \in 1..ServingDepth : frames'[m].irq = frames[m].irq
    PROVE  Active' = Active
  BY DEF Active

(* A step of a handler, seen from its frame.                               *)
LEMMA Stepped ==
    ASSUME TrapInv, TrapInv', frames # <<>>, NEW f, Become(f),
           NEW n \in Nat, n = Len(frames)
    PROVE  /\ n >= 1 /\ DOMAIN frames = 1..n /\ Top = frames[n] /\ Top \in Frame /\ FrameInv(n)
           /\ frames' # <<>> /\ Len(frames)' = n /\ DOMAIN frames' = 1..n
           /\ \A m \in 1..(n - 1) : frames'[m] = frames[m]
           /\ frames'[n] = f /\ Top' = f /\ f \in Frame
           /\ Top.pc # "stuck" => (Halted' <=> Halted \/ f.pc = "stuck")
  <1>1. TypeOK /\ FramesInv /\ frames' \in Seq(Frame)
    BY DEF TrapInv, TypeOK
  <1>2. n >= 1 /\ DOMAIN frames = 1..n /\ Top = frames[n] /\ Top \in Frame /\ FrameInv(n)
    BY <1>1, TopFacts
  <1>3. DOMAIN frames' = 1..n /\ frames'[n] = f
    BY <1>2 DEF Become
  <1>4. f \in Frame
    <2>1. DOMAIN frames' = 1..Len(frames')
      BY <1>1, LenProperties
    <2> QED  BY <1>1, <1>2, <1>3, <2>1, ElementOfSeq
  <1>5. /\ frames' # <<>> /\ Len(frames)' = n
        /\ \A m \in 1..(n - 1) : frames'[m] = frames[m]
        /\ Top' = f
    BY <1>1, <1>4, Replaced
  <1>6. Top.pc # "stuck" => (Halted' <=> Halted \/ f.pc = "stuck")
    <2>1. \A m \in 1..n : m \in 1..(n - 1) \/ m = n
      BY <1>2
    <2> QED  BY <1>2, <1>3, <1>5, <2>1 DEF Halted
  <1> QED  BY <1>2, <1>3, <1>4, <1>5, <1>6

LEMMA Unserved ==
    ASSUME TrapInv, TrapInv', frames # <<>>, NEW f, Become(f),
           f.irq = Top.irq, Top.pc # "stuck", pending' = pending
    PROVE  [Service!Next]_(Service!vars)
  <1>1. PICK n \in Nat : n = Len(frames)
    BY Stack DEF TrapInv
  <1>2. ServingDepth' = ServingDepth
    BY <1>1, Stepped DEF ServingDepth, Serving
  <1>3. \A m \in 1..ServingDepth : frames'[m].irq = frames[m].irq
    <2>1. ServingDepth \in Nat /\ ServingDepth <= n
      BY <1>1, ActiveFacts, Stepped DEF ActiveInv
    <2>2. \A m \in 1..ServingDepth : m \in 1..(n - 1) \/ m = n
      BY <2>1
    <2> QED  BY <1>1, <2>2, Stepped
  <1>4. Active' = Active
    BY <1>2, <1>3, SameActive
  <1>5. Halted' <=> Halted \/ f.pc = "stuck"
    BY <1>1, Stepped
  <1>6. CASE f.pc = "stuck"
    <2>1. Halted' = TRUE
      BY <1>5, <1>6 DEF Halted
    <2> QED  BY <1>4, <2>1 DEF Service!Next, Service!Halt
  <1>7. CASE f.pc # "stuck"
    <2>1. Halted' = Halted
      BY <1>5, <1>7 DEF Halted
    <2> QED  BY <1>4, <2>1 DEF Service!vars
  <1> QED  BY <1>6, <1>7

(* An interrupt that MEINEXT shows is not served by any other frame.       *)
LEMMA Begins ==
    TrapInv /\ TrapInv' /\ NextIrq => Service!Next
  <1> SUFFICES ASSUME TrapInv, TrapInv', NextIrq PROVE Service!Next
    OBVIOUS
  <1>1. PICK irq \in pending : Become([Top EXCEPT !.pc = "enable", !.irq = irq])
    BY Begun DEF TrapInv, TypeOK, Visible
  <1>2. PICK n \in Nat : n = Len(frames)
    BY Stack DEF TrapInv
  <1>3. frames # <<>> /\ Top.pc = "next"
    BY DEF NextIrq, At
  <1> DEFINE f == [Top EXCEPT !.pc = "enable", !.irq = irq]
  <1>4. /\ n >= 1 /\ Top = frames[n] /\ Top \in Frame /\ FrameInv(n)
        /\ frames' # <<>> /\ Len(frames)' = n /\ DOMAIN frames' = 1..n
        /\ \A m \in 1..(n - 1) : frames'[m] = frames[m]
        /\ frames'[n] = f /\ Top' = f
        /\ Halted' <=> Halted \/ f.pc = "stuck"
    BY <1>1, <1>2, <1>3, Stepped
  <1>5. irq \in Irqs /\ irq # NoIrq /\ f.irq = irq /\ f.pc = "enable"
    BY <1>4, Ranks DEF TrapInv, TypeOK, Frame
  <1>6. ServingDepth = n - 1 /\ ServingDepth' = n
    BY <1>2, <1>3, <1>4, <1>5 DEF ServingDepth, Serving, FrameInv, Between
  <1>7. /\ ActiveInv /\ Active \in Seq(Irqs) /\ Len(Active) = n - 1
        /\ \A m \in 1..(n - 1) : Active[m] = frames[m].irq
        /\ Active' \in Seq(Irqs) /\ Len(Active') = n
        /\ \A m \in 1..n : Active'[m] = frames'[m].irq
    BY <1>6, ActiveFacts, ActiveFactsNext DEF ActiveInv
  <1>8. frames'[n].irq = irq /\ \A m \in 1..(n - 1) : frames'[m].irq = frames[m].irq
    BY <1>4, <1>5
  <1> HIDE DEF f
  <1>9. n \in 1..n
    BY <1>4
  <1>10. Active' = Append(Active, irq)
    <2>1. /\ Append(Active, irq) \in Seq(Irqs) /\ Len(Append(Active, irq)) = n
          /\ \A m \in 1..(n - 1) : Append(Active, irq)[m] = Active[m]
          /\ Append(Active, irq)[n] = irq
      BY <1>5, <1>7, AppendProperties
    <2>2. Active'[n] = irq /\ \A m \in 1..(n - 1) : Active'[m] = Active[m]
      BY <1>7, <1>8, <1>9
    <2> DEFINE s == Append(Active, irq)
    <2> HIDE DEF s
    <2>3. ASSUME NEW m \in 1..n PROVE Active'[m] = s[m]
      <3>1. m \in 1..(n - 1) \/ m = n
        BY <1>4
      <3> QED  BY <2>1, <2>2, <3>1 DEF s
    <2> QED  BY <1>7, <2>1, <2>3, SeqEqual DEF s
  <1>11. irq \notin Service!Range(Active)
    <2> SUFFICES ASSUME NEW m \in 1..(n - 1), irq = frames[m].irq PROVE FALSE
      BY <1>6, <1>7 DEF ActiveInv, Service!Range
    <2>1. m \in DOMAIN frames' /\ n \in DOMAIN frames' /\ m < n
      BY <1>4
    <2>2. priority'[irq] < priority'[irq]
      <3>1. PreemptedByHigher'
        BY DEF TrapInv
      <3>2. frames'[m].irq = irq /\ frames'[n].irq = irq
        BY <1>8
      <3> QED  BY <1>5, <2>1, <3>1, <3>2 DEF PreemptedByHigher
    <2>3. priority'[irq] \in Nat
      BY <1>5, PrioritiesAssumption DEF TrapInv, TypeOK
    <2> QED  BY <2>2, <2>3
  <1>12. Halted' = Halted /\ pending' = pending
    BY <1>4, <1>5 DEF NextIrq, Halted
  <1> QED  BY <1>1, <1>5, <1>10, <1>11, <1>12 DEF Service!Next, Service!Begin

LEMMA Acknowledges ==
    TrapInv /\ TrapInv' /\ Acknowledge => Service!Next
  <1> SUFFICES ASSUME TrapInv, TrapInv', Acknowledge PROVE Service!Next
    OBVIOUS
  <1> DEFINE f == [Top EXCEPT !.pc = "served"]
  <1>1. frames # <<>> /\ Top.pc = "serve" /\ Become(f) /\ pending' = pending \ {Top.irq}
    BY DEF Acknowledge, At, Goto
  <1>2. PICK n \in Nat : n = Len(frames)
    BY Stack DEF TrapInv
  <1>3. /\ n >= 1 /\ Top = frames[n] /\ Top \in Frame /\ FrameInv(n)
        /\ frames' # <<>> /\ Len(frames)' = n
        /\ \A m \in 1..(n - 1) : frames'[m] = frames[m]
        /\ frames'[n] = f /\ Top' = f
        /\ Halted' <=> Halted \/ f.pc = "stuck"
    BY <1>1, <1>2, Stepped
  <1>4. f.irq = Top.irq /\ f.pc = "served" /\ Serving(Top)
    BY <1>1, <1>3 DEF Frame, FrameInv
  <1>5. ServingDepth = n /\ ServingDepth' = n
    BY <1>1, <1>2, <1>3, <1>4 DEF ServingDepth, Serving
  <1>6. Active' = Active
    <2>1. \A m \in 1..n : m \in 1..(n - 1) \/ m = n
      BY <1>3
    <2> QED  BY <1>3, <1>4, <1>5, <2>1, SameActive
  <1>7. Active # <<>> /\ Active[Len(Active)] = Top.irq
    <2>1. n \in 1..n /\ n # 0
      BY <1>3
    <2> QED  BY <1>3, <1>5, <2>1, ActiveFacts DEF ActiveInv
  <1>8. Halted' = Halted
    BY <1>3, <1>4 DEF Halted
  <1> QED  BY <1>1, <1>6, <1>7, <1>8 DEF Service!Next, Service!Acknowledge, Service!Top

(* The innermost handler is the first to end.                              *)
LEMMA Ends ==
    TrapInv /\ TrapInv' /\ DisableInterrupts => Service!Next
  <1> SUFFICES ASSUME TrapInv, TrapInv', DisableInterrupts PROVE Service!Next
    OBVIOUS
  <1> DEFINE f == [Top EXCEPT !.pc = "next", !.irq = NoIrq]
  <1>1. frames # <<>> /\ Top.pc = "served" /\ Become(f) /\ pending' = pending
    BY DEF DisableInterrupts, At
  <1>2. PICK n \in Nat : n = Len(frames)
    BY Stack DEF TrapInv
  <1>3. /\ n >= 1 /\ Top = frames[n] /\ Top \in Frame /\ FrameInv(n)
        /\ frames' # <<>> /\ Len(frames)' = n
        /\ \A m \in 1..(n - 1) : frames'[m] = frames[m]
        /\ frames'[n] = f /\ Top' = f
        /\ Halted' <=> Halted \/ f.pc = "stuck"
    BY <1>1, <1>2, Stepped
  <1>4. f.irq = NoIrq /\ f.pc = "next" /\ Serving(Top)
    BY <1>1, <1>3 DEF Frame, FrameInv
  <1>5. ServingDepth = n /\ ServingDepth' = n - 1
    BY <1>1, <1>2, <1>3, <1>4 DEF ServingDepth, Serving
  <1>6. /\ Active \in Seq(Irqs) /\ Len(Active) = n /\ Active # <<>>
        /\ \A m \in 1..n : Active[m] = frames[m].irq
        /\ Active' \in Seq(Irqs) /\ Len(Active') = n - 1
        /\ \A m \in 1..(n - 1) : Active'[m] = frames'[m].irq
    BY <1>3, <1>5, ActiveFacts, ActiveFactsNext DEF ActiveInv
  <1>7. Active' = SubSeq(Active, 1, Len(Active) - 1)
    <2> DEFINE k == n - 1
               s == SubSeq(Active, 1, k)
    <2>1. k \in Nat /\ \A m \in 1..k : m \in 1..n
      BY <1>3
    <2>2. \A m \in 1..k : Active[m] \in Irqs
      BY <1>6, <2>1, ElementOfSeq
    <2> HIDE DEF k
    <2>3. s \in Seq(Irqs) /\ Len(s) = k /\ \A m \in 1..k : s[m] = Active[m]
      <3>1. /\ s \in Seq(Irqs) /\ Len(s) = IF 1 <= k THEN k - 1 + 1 ELSE 0
            /\ \A m \in 1..(k - 1 + 1) : s[m] = Active[1 + m - 1]
        BY <2>1, <2>2, SubSeqProperties
      <3> HIDE DEF s
      <3> QED  BY <2>1, <3>1
    <2>4. \A m \in 1..k : Active'[m] = s[m]
      BY <1>3, <1>6, <2>1, <2>3 DEF k
    <2>5. Active' \in Seq(Irqs) /\ Len(Active') = k
      BY <1>6 DEF k
    <2>6. Active' = s
      BY <2>3, <2>4, <2>5, SeqEqual
    <2> QED  BY <1>6, <2>6 DEF k
  <1>8. Halted' = Halted
    BY <1>3, <1>4 DEF Halted
  <1> QED  BY <1>1, <1>6, <1>7, <1>8 DEF Service!Next, Service!End

(* A trap that is taken, and one that returns, are no steps of the service. *)
LEMMA Nests ==
    ASSUME TrapInv, TrapInv', NEW cause \in {"external", "fault"}, Push(cause),
           frames = <<>> \/ Serving(Top), pending' = pending
    PROVE  UNCHANGED Service!vars
  <1>1. PICK n \in Nat : n = Len(frames) /\ DOMAIN frames = 1..n /\ (frames = <<>> <=> n = 0)
    BY Stack DEF TrapInv
  <1> DEFINE f == NewFrame(cause)
  <1>2. f \in Frame /\ f.irq = NoIrq /\ f.pc = "entry"
    BY NewFrameType DEF TrapInv, NewFrame
  <1>3. frames' = Append(frames, f)
    BY DEF Push, NewFrame
  <1> HIDE DEF f
  <1>4. /\ frames' # <<>> /\ Len(frames)' = n + 1 /\ DOMAIN frames' = 1..(n + 1)
        /\ \A m \in 1..n : frames'[m] = frames[m]
        /\ frames'[n + 1] = f /\ Top' = f
    BY <1>1, <1>2, <1>3, Pushed DEF TrapInv
  <1>5. ServingDepth = n /\ ServingDepth' = n
    BY <1>1, <1>2, <1>4 DEF ServingDepth, Serving
  <1>6. Active' = Active
    BY <1>4, <1>5, SameActive
  <1>7. Halted' = Halted
    <2>1. \A m \in 1..(n + 1) : m \in 1..n \/ m = n + 1
      BY <1>1
    <2>2. \A m \in 1..n : m \in 1..(n + 1)
      BY <1>1
    <2> QED  BY <1>1, <1>2, <1>4, <2>1, <2>2 DEF Halted
  <1> QED  BY <1>6, <1>7 DEF Service!vars

LEMMA Returns ==
    TrapInv /\ TrapInv' /\ Return => UNCHANGED Service!vars
  <1> SUFFICES ASSUME TrapInv, TrapInv', Return PROVE UNCHANGED Service!vars
    OBVIOUS
  <1>1. frames # <<>> /\ Top.pc = "return" /\ frames' = Outer /\ pending' = pending
    BY DEF Return, At
  <1>2. PICK n \in Nat : n = Len(frames)
    BY Stack DEF TrapInv
  <1>3. n >= 1 /\ DOMAIN frames = 1..n /\ Top = frames[n] /\ FrameInv(n)
    BY <1>1, <1>2, TopFacts DEF TrapInv
  <1>4. /\ Len(frames)' = n - 1 /\ DOMAIN frames' = 1..(n - 1)
        /\ \A m \in 1..(n - 1) : frames'[m] = frames[m]
        /\ frames' = <<>> <=> n = 1
        /\ frames' # <<>> => Top' = frames[n - 1]
    BY <1>1, <1>2, Popped DEF TrapInv
  <1>5. ~Serving(Top)
    BY <1>1, <1>3 DEF FrameInv, Between
  <1>6. frames' # <<>> => Serving(Top')
    <2> SUFFICES ASSUME frames' # <<>> PROVE Serving(Top')
      OBVIOUS
    <2>1. n - 1 \in DOMAIN frames /\ n - 1 < Len(frames)
      BY <1>2, <1>3, <1>4
    <2>2. Serving(frames[n - 1])
      BY <2>1 DEF TrapInv, FramesInv, FrameInv
    <2> QED  BY <1>4, <2>2
  <1>7. ServingDepth = n - 1 /\ ServingDepth' = n - 1
    BY <1>1, <1>2, <1>4, <1>5, <1>6 DEF ServingDepth, Serving
  <1>8. Active' = Active
    BY <1>4, <1>7, SameActive
  <1>9. Halted' = Halted
    <2>1. \A m \in 1..n : m \in 1..(n - 1) \/ m = n
      BY <1>3
    <2>2. \A m \in 1..(n - 1) : m \in 1..n
      BY <1>3
    <2> QED  BY <1>1, <1>3, <1>4, <2>1, <2>2 DEF Halted
  <1> QED  BY <1>1, <1>8, <1>9 DEF Service!vars

LEMMA ServiceStep == TrapInv /\ TrapInv' /\ [Next]_vars => [Service!Next]_(Service!vars)
  <1> SUFFICES ASSUME TrapInv, TrapInv', [Next]_vars PROVE [Service!Next]_(Service!vars)
    OBVIOUS
  <1>0. frames # <<>> => Top \in Frame
    BY Stack DEF TrapInv
  <1>1. CASE MainStep \/ UNCHANGED vars
    <2>1. UNCHANGED <<frames, pending>>
      BY <1>1 DEF MainStep, vars
    <2> QED  BY <2>1 DEF Service!vars, Active, ServingDepth, Top, Halted
  <1>2. CASE \E i \in Irqs : Raise(i)
    <2>1. PICK i \in Irqs : Raise(i)
      BY <1>2
    <2>2. Active' = Active /\ Halted' = Halted
      BY <2>1 DEF Raise, Active, ServingDepth, Top, Halted
    <2> QED  BY <2>1, <2>2 DEF Raise, Service!Next, Service!Request
  <1>3. CASE Interrupt
    <2>1. frames = <<>> \/ Serving(Top)
      BY <1>3 DEF TrapInv, CoreInv, Interrupt, Interrupted
    <2> QED  BY <1>3, <2>1, Nests DEF Interrupt
  <1>4. CASE Fault
    <2>1. frames = <<>> \/ Serving(Top)
      BY <1>4, TopFacts DEF TrapInv, Fault, At, FrameInv
    <2> QED  BY <1>4, <2>1, Nests DEF Fault
  <1>5. CASE ReadCause
    <2> DEFINE f == [Top EXCEPT !.pc = IF mcause = "external" THEN "context" ELSE "stuck",
                                !.cause = mcause, !.epc = mepc, !.lost = CallerSaved]
    <2>1. frames # <<>> /\ Top.pc = "entry" /\ Become(f) /\ pending' = pending
      BY <1>5 DEF ReadCause, At
    <2>2. f.irq = Top.irq
      BY <1>0, <2>1 DEF Frame
    <2> QED  BY <2>1, <2>2, Unserved
  <1>6. CASE SaveContext
    <2> DEFINE f == [Top EXCEPT !.pc = "next", !.saved = context]
    <2>1. frames # <<>> /\ Top.pc = "context" /\ Become(f) /\ pending' = pending
      BY <1>6 DEF SaveContext, At
    <2>2. f.irq = Top.irq
      BY <1>0, <2>1 DEF Frame
    <2> QED  BY <2>1, <2>2, Unserved
  <1>7. CASE NoNextIrq
    <2> DEFINE f == [Top EXCEPT !.pc = "unwind"]
    <2>1. frames # <<>> /\ Top.pc = "next" /\ Become(f) /\ pending' = pending
      BY <1>7 DEF NoNextIrq, Goto, At
    <2>2. f.irq = Top.irq
      BY <1>0, <2>1 DEF Frame
    <2> QED  BY <2>1, <2>2, Unserved
  <1>8. CASE EnableInterrupts
    <2> DEFINE f == [Top EXCEPT !.pc = IF Top.irq \in Handled THEN "serve" ELSE "stuck"]
    <2>1. frames # <<>> /\ Top.pc = "enable" /\ Become(f) /\ pending' = pending
      BY <1>8 DEF EnableInterrupts, Goto, At
    <2>2. f.irq = Top.irq
      BY <1>0, <2>1 DEF Frame
    <2> QED  BY <2>1, <2>2, Unserved
  <1>9. CASE Unwind
    <2> DEFINE f == [Top EXCEPT !.pc = "return", !.lost = @ \ WrapperSaved]
    <2>1. frames # <<>> /\ Top.pc = "unwind" /\ Become(f) /\ pending' = pending
      BY <1>9 DEF Unwind, At
    <2>2. f.irq = Top.irq
      BY <1>0, <2>1 DEF Frame
    <2> QED  BY <2>1, <2>2, Unserved
  <1>10. CASE Return
    BY <1>10, Returns
  <1> QED
    BY <1>1, <1>2, <1>3, <1>4, <1>5, <1>6, <1>7, <1>8, <1>9, <1>10,
       Begins, Acknowledges, Ends DEF Next, Cpu, Handler

(* What is served was requested, no handler is entered within itself, and  *)
(* the handlers end in the reverse order of their beginning, at any depth: *)
(* the loop of handle_external_interrupt with what it does to MEICONTEXT   *)
(* implements InterruptService, but for the fairness of it.                *)
THEOREM ServiceIsSafe == Spec => ServiceSafety
  <1>1. Init => Service!Init
    <2> SUFFICES ASSUME Init PROVE Service!Init
      OBVIOUS
    <2>1. frames = <<>> /\ pending = {} /\ DOMAIN frames = {}
      BY TypeInitial, Stack DEF Init
    <2>2. Halted = FALSE
      BY <2>1 DEF Halted
    <2>3. TrapInv /\ ServingDepth = 0
      BY <2>1, InvInitial, Stack DEF ServingDepth, TrapInv
    <2>4. Active = <<>>
      BY <2>3, ActiveFacts DEF ActiveInv
    <2> QED  BY <2>1, <2>2, <2>4 DEF Service!Init
  <1> QED
    BY <1>1, InvInductive, ServiceStep, PTL DEF Spec, ServiceSafety

----
(* How deep traps nest.                                                    *)

(* Each frame within another one serves a higher priority than it.         *)
ClimbInv ==
    \A m \in DOMAIN frames :
        Serving(frames[m]) => priority[frames[m].irq] >= m - 1

(* There are never more frames than priorities, and one for a fault; with  *)
(* one priority, there is one handler and a fault in it.                   *)
NestingBounded ==
    /\ Len(frames) <= Levels + 2
    /\ OnePriority => Len(frames) <= 2

LEMMA ServedRank ==
    ASSUME TypeOK, NEW m \in DOMAIN frames, Serving(frames[m])
    PROVE  frames[m].irq \in Irqs /\ priority[frames[m].irq] \in 0..Levels
  <1>1. frames[m] \in Frame
    BY Stack
  <1>2. frames[m].irq \in Irqs
    BY <1>1 DEF Frame, Serving
  <1> QED  BY <1>2, Ranks

(* Frames that are as they were serve what they did.                       *)
LEMMA ClimbKept ==
    ASSUME ClimbInv, NEW n \in Nat, DOMAIN frames' = 1..n, priority' = priority,
           \A m \in 1..n : m \in DOMAIN frames /\ frames'[m].irq = frames[m].irq
    PROVE  ClimbInv'
  BY DEF ClimbInv, Serving

(* The one frame that begins to serve is above those it is nested in.      *)
LEMMA ClimbBegins ==
    ASSUME TrapInv, TrapInv', ClimbInv, NextIrq
    PROVE  ClimbInv'
  <1>1. PICK irq \in pending : Become([Top EXCEPT !.pc = "enable", !.irq = irq])
    BY Begun DEF TrapInv, TypeOK, Visible
  <1>2. PICK n \in Nat : n = Len(frames)
    BY Stack DEF TrapInv
  <1>3. frames # <<>> /\ Top.pc = "next" /\ priority' = priority
    BY DEF NextIrq, At
  <1>4. /\ n >= 1 /\ Top \in Frame
        /\ Len(frames)' = n /\ DOMAIN frames = 1..n /\ DOMAIN frames' = 1..n
        /\ \A m \in 1..(n - 1) : frames'[m] = frames[m]
        /\ frames'[n] = [Top EXCEPT !.pc = "enable", !.irq = irq]
    BY <1>1, <1>2, <1>3, Stepped, Stack DEF TrapInv
  <1>5. irq \in Irqs /\ irq # NoIrq /\ priority[irq] \in Nat /\ frames'[n].irq = irq
    BY <1>4, Ranks DEF TrapInv, TypeOK, Frame
  <1>6. priority[irq] >= n - 1
    <2>1. CASE n = 1
      BY <1>5, <2>1
    <2>2. CASE n # 1
      <3>1. n - 1 \in DOMAIN frames /\ n - 1 \in 1..(n - 1) /\ n - 1 < Len(frames)
        BY <1>2, <1>4, <2>2
      <3>2. Serving(frames[n - 1])
        BY <3>1 DEF TrapInv, FramesInv, FrameInv
      <3>3. priority[frames[n - 1].irq] \in Nat /\ priority[frames[n - 1].irq] >= n - 2
        BY <3>1, <3>2, ServedRank DEF TrapInv, ClimbInv
      <3>4. priority'[frames'[n - 1].irq] < priority'[frames'[n].irq]
        <4>1. n - 1 \in DOMAIN frames' /\ n \in DOMAIN frames' /\ n - 1 < n
          BY <1>4, <3>1
        <4>2. frames'[n - 1].irq # NoIrq /\ frames'[n].irq # NoIrq
          BY <1>4, <1>5, <3>1, <3>2 DEF Serving
        <4> QED  BY <4>1, <4>2 DEF TrapInv, PreemptedByHigher
      <3>5. priority[frames[n - 1].irq] < priority[irq]
        BY <1>3, <1>4, <1>5, <3>1, <3>4
      <3> QED  BY <1>4, <1>5, <3>3, <3>5
    <2> QED  BY <2>1, <2>2
  <1> SUFFICES ASSUME NEW m \in 1..n, Serving(frames'[m])
               PROVE  priority[frames'[m].irq] >= m - 1
    BY <1>3, <1>4 DEF ClimbInv, Serving
  <1>7. CASE m = n
    BY <1>5, <1>6, <1>7
  <1>8. CASE m # n
    <2>1. m \in 1..(n - 1) /\ m \in DOMAIN frames
      BY <1>4, <1>8
    <2> QED  BY <1>4, <2>1 DEF ClimbInv
  <1> QED  BY <1>7, <1>8

LEMMA ClimbStep ==
    TrapInv /\ TrapInv' /\ ClimbInv /\ [Next]_vars => ClimbInv'
  <1> SUFFICES ASSUME TrapInv, TrapInv', ClimbInv, [Next]_vars PROVE ClimbInv'
    OBVIOUS
  <1>1. PICK n \in Nat : n = Len(frames)
    BY Stack DEF TrapInv
  <1>2. DOMAIN frames = 1..n /\ frames \in Seq(Frame)
    BY <1>1, Stack DEF TrapInv
  <1>3. ASSUME UNCHANGED <<frames, priority>> PROVE ClimbInv'
    BY <1>3 DEF ClimbInv, Serving
  <1>4. ASSUME NEW cause \in {"external", "fault"}, Push(cause), priority' = priority
        PROVE  ClimbInv'
    <2> DEFINE f == NewFrame(cause)
    <2>1. f \in Frame /\ f.irq = NoIrq
      BY NewFrameType DEF TrapInv, NewFrame
    <2>2. frames' = Append(frames, f)
      BY <1>4 DEF Push, NewFrame
    <2> HIDE DEF f
    <2>3. /\ DOMAIN frames' = 1..(n + 1) /\ frames'[n + 1].irq = NoIrq
          /\ \A m \in 1..n : frames'[m] = frames[m]
      BY <1>1, <1>2, <2>1, <2>2, Pushed DEF TrapInv
    <2> SUFFICES ASSUME NEW m \in 1..(n + 1), Serving(frames'[m])
                 PROVE  priority[frames'[m].irq] >= m - 1
      BY <1>4, <2>3 DEF ClimbInv, Serving
    <2>4. m \in 1..n
      BY <2>3 DEF Serving
    <2> QED  BY <1>2, <2>3, <2>4 DEF ClimbInv
  <1>5. ASSUME Handler, ~NextIrq PROVE ClimbInv'
    <2>1. PICK f \in Frame : frames # <<>> /\ Become(f)
      BY <1>5, HandlerFrame DEF TrapInv
    <2>2. priority' = priority
      BY <1>5, HandlerFrame DEF TrapInv
    <2>3. /\ n >= 1 /\ DOMAIN frames' = 1..n /\ Top = frames[n] /\ Top \in Frame
          /\ \A m \in 1..(n - 1) : frames'[m] = frames[m]
          /\ frames'[n] = Top'
      BY <1>1, <2>1, Stepped
    <2>4. Top'.irq \in {Top.irq, NoIrq}
      <3>1. CASE DisableInterrupts
        <4>1. Become([Top EXCEPT !.pc = "next", !.irq = NoIrq])
          BY <3>1 DEF DisableInterrupts
        <4>2. Top' = [Top EXCEPT !.pc = "next", !.irq = NoIrq]
          BY <1>1, <2>1, <4>1, Stepped
        <4> QED  BY <2>3, <4>2 DEF Frame
      <3>2. CASE ~DisableInterrupts
        <4>1. ASSUME NEW g, Become(g), g.irq = Top.irq PROVE Top'.irq = Top.irq
          BY <1>1, <2>1, <4>1, Stepped
        <4>2. ASSUME NEW stage, Goto(stage) PROVE Top'.irq = Top.irq
          <5>1. [Top EXCEPT !.pc = stage].irq = Top.irq
            BY <2>3 DEF Frame
          <5> QED  BY <4>1, <4>2, <5>1 DEF Goto
        <4>3. CASE ReadCause
          <5> DEFINE g == [Top EXCEPT !.pc = IF mcause = "external" THEN "context" ELSE "stuck",
                                      !.cause = mcause, !.epc = mepc, !.lost = CallerSaved]
          <5>1. Become(g)
            BY <4>3 DEF ReadCause
          <5>2. g.irq = Top.irq
            BY <2>3 DEF Frame
          <5> HIDE DEF g
          <5> QED  BY <4>1, <5>1, <5>2
        <4>4. CASE SaveContext
          <5> DEFINE g == [Top EXCEPT !.pc = "next", !.saved = context]
          <5>1. Become(g)
            BY <4>4 DEF SaveContext
          <5>2. g.irq = Top.irq
            BY <2>3 DEF Frame
          <5> QED  BY <4>1, <5>1, <5>2
        <4>5. CASE Unwind
          <5> DEFINE g == [Top EXCEPT !.pc = "return", !.lost = @ \ WrapperSaved]
          <5>1. Become(g)
            BY <4>5 DEF Unwind
          <5>2. g.irq = Top.irq
            BY <2>3 DEF Frame
          <5> QED  BY <4>1, <5>1, <5>2
        <4> QED
          BY <1>5, <3>2, <4>2, <4>3, <4>4, <4>5
          DEF Handler, NoNextIrq, EnableInterrupts, Acknowledge
      <3> QED  BY <3>1, <3>2
    <2> SUFFICES ASSUME NEW m \in 1..n, Serving(frames'[m])
                 PROVE  priority[frames'[m].irq] >= m - 1
      BY <2>2, <2>3 DEF ClimbInv, Serving
    <2>5. frames'[m].irq = frames[m].irq
      <3>1. CASE m = n
        BY <2>3, <2>4, <3>1 DEF Serving
      <3>2. CASE m # n
        <4>1. m \in 1..(n - 1)
          BY <2>3, <3>2
        <4> QED  BY <2>3, <4>1
      <3> QED  BY <3>1, <3>2
    <2> QED  BY <1>2, <2>5 DEF ClimbInv, Serving
  <1>6. CASE Return
    <2>1. frames # <<>> /\ frames' = Outer /\ priority' = priority
      BY <1>6 DEF Return, At
    <2>2. n >= 1 /\ DOMAIN frames' = 1..(n - 1) /\ \A m \in 1..(n - 1) : frames'[m] = frames[m]
      BY <1>1, <2>1, Popped, TopFacts DEF TrapInv
    <2>3. n - 1 \in Nat /\ \A m \in 1..(n - 1) : m \in DOMAIN frames
      BY <1>2, <2>2
    <2> QED  BY <2>1, <2>2, <2>3, ClimbKept
  <1> QED
    BY <1>3, <1>4, <1>5, <1>6, ClimbBegins
    DEF Next, Cpu, MainStep, Interrupt, Fault, Raise, vars

(* Traps nest no deeper than there are priorities, and one for a fault:    *)
(* the stack they use is bounded.  As MEIPRA is left, with one priority    *)
(* for all interrupts, there is one handler and a fault in it.             *)
THEOREM NestingIsBounded == Spec => []NestingBounded
  <1>1. Init => ClimbInv
    <2> SUFFICES ASSUME Init PROVE ClimbInv
      OBVIOUS
    <2>1. TypeOK /\ frames = <<>> /\ DOMAIN frames = {}
      BY TypeInitial, Stack DEF Init
    <2> QED  BY <2>1 DEF ClimbInv
  <1>2. TrapInv /\ ClimbInv => NestingBounded
    <2> SUFFICES ASSUME TrapInv, ClimbInv PROVE NestingBounded
      OBVIOUS
    <2>1. PICK n \in Nat : n = Len(frames)
      BY Stack DEF TrapInv
    <2>2. ASSUME NEW m \in DOMAIN frames, m < n
          PROVE  m <= Levels + 1 /\ (OnePriority => m <= 1)
      <3>1. Serving(frames[m]) /\ FrameInv(m) /\ m \in Nat
        BY <2>1, <2>2, Stack DEF TrapInv, FramesInv, FrameInv
      <3>2. priority[frames[m].irq] \in 0..Levels /\ priority[frames[m].irq] >= m - 1
        BY <2>2, <3>1, ServedRank DEF TrapInv, ClimbInv
      <3>3. frames[m].reason = "external"
        BY <3>1 DEF FrameInv
      <3> QED  BY <2>2, <3>1, <3>2, <3>3, PrioritiesAssumption DEF TrapInv, NestInv
    <2>3. n < 2 \/ n - 1 \in DOMAIN frames
      BY <2>1, Stack DEF TrapInv
    <2>4. n - 1 < n
      BY <2>1
    <2>5. n < 2 \/ (n - 1 <= Levels + 1 /\ (OnePriority => n - 1 <= 1))
      BY <2>2, <2>3, <2>4
    <2> QED  BY <2>1, <2>5, PrioritiesAssumption DEF NestingBounded
  <1> QED
    BY <1>1, <1>2, InvInductive, ClimbStep, PTL DEF Spec

================================================================================
