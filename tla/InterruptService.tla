--------------------------- MODULE InterruptService ---------------------------
(***************************************************************************)
(* What a trap handler promises of interrupts: what it serves has been     *)
(* requested, no handler is entered within itself, they end in the reverse *)
(* order of their beginning, and as long as none has given up, each of     *)
(* them ends, and some handler begins while there are requests that are    *)
(* not being served.  Which of several requests is served is left open: an *)
(* interrupt that is requested again and again may keep others waiting.    *)
(***************************************************************************)
EXTENDS Sequences, Functions

CONSTANT Irqs

VARIABLES
    requested,  \* the interrupts that ask for service
    active,     \* those being served; the last one preempts the others
    halted      \* a handler has given up

vars == <<requested, active, halted>>

Top == active[Len(active)]

Init == requested = {} /\ active = <<>> /\ halted = FALSE

Request(i) ==
    /\ requested' = requested \cup {i}
    /\ UNCHANGED <<active, halted>>

Begin(i) ==
    /\ i \in requested \ Range(active)
    /\ active' = Append(active, i)
    /\ UNCHANGED <<requested, halted>>

Acknowledge ==
    /\ active # <<>>
    /\ requested' = requested \ {Top}
    /\ UNCHANGED <<active, halted>>

End ==
    /\ active # <<>>
    /\ active' = SubSeq(active, 1, Len(active) - 1)
    /\ UNCHANGED <<requested, halted>>

Halt == halted' = TRUE /\ UNCHANGED <<requested, active>>

Next ==
    \/ \E i \in Irqs : Request(i) \/ Begin(i)
    \/ Acknowledge \/ End \/ Halt

(* Service goes on until a handler gives up: of some request, not of each. *)
Fairness ==
    /\ WF_vars(~halted /\ \E i \in Irqs : Begin(i))
    /\ WF_vars(~halted /\ End)

Spec == Init /\ [][Next]_vars /\ Fairness

===============================================================================
