------------------------------- MODULE BringUp -------------------------------
(***************************************************************************)
(* The clocks as src/src/main.rs brings them up with src/src/clocks.rs:    *)
(* the crystal oscillator, the PLL of clk_sys, the switches of clk_ref and *)
(* clk_sys, the PLL of clk_usb and its enable.  The CPU itself runs from   *)
(* clk_sys.  The oscillators, PLLs and multiplexers are external.          *)
(***************************************************************************)
EXTENDS PllParams, Registers

CONSTANTS
    Calls,       \* the calls PLL_SYS_PARAMS and PLL_USB_PARAMS may be made by
    LeftParams,  \* what a boot loader may have set the PLLs up with
    LeftAuxes    \* what it may have left in AUXSRC of clk_sys and clk_usb

PllSys == "PLL_SYS"
PllUsb == "PLL_USB"
Plls == {PllSys, PllUsb}

ASSUME CallsAssumption ==
    /\ Calls \subseteq [ by : {"new", "from_vco"}, refdiv : 1..XoscHz, arg : 0..(Values - 1),
                        div1 : 0..(Values - 1), div2 : 0..(Values - 1) ]
    \* Registers of 6, 12, 3 and 3 bits.
    /\ LeftParams \subseteq [ refdiv : 1..63, fbdiv : 0..4095, post_div1 : 1..7, post_div2 : 1..7 ]
    /\ \A p \in LeftParams : Accepted(p.refdiv, p.fbdiv, p.post_div1, p.post_div2)
ASSUME AuxAssumption == LeftAuxes \subseteq SUBSET (0..2)

(* The parameters a call makes: new's argument is the feedback divider,    *)
(* that of from_vco the frequency of the VCO.                              *)
Call(c) ==
    IF c.by = "new"
      THEN New(c.refdiv, c.arg, c.div1, c.div2)
      ELSE FromVco(c.refdiv, c.arg, c.div1, c.div2)

VARIABLES
    asked,    \* the calls of PLL_SYS_PARAMS and PLL_USB_PARAMS
    pc,       \* where the CPU is
    left,     \* ghost: the boot loader has left clocks switched or enabled
    xosc,     \* the crystal oscillator: off, starting or stable
    plls,     \* the registers and the state of the PLLs
    refCtrl,  \* CLK_REF_CTRL
    refSel,   \* CLK_REF_SELECTED, as the source that is selected
    sysCtrl,  \* CLK_SYS_CTRL
    sysSel,   \* CLK_SYS_SELECTED, as the source that is selected
    usbCtrl,  \* CLK_USB_CTRL without bit 28
    usbOn     \* bit 28 of CLK_USB_CTRL

muxes == <<refCtrl, refSel, sysCtrl, sysSel, usbCtrl, usbOn>>
vars == <<asked, pc, left, xosc, plls, muxes>>

(* Where the CPU is: in main and what it calls, or in the setup of a PLL.  *)
Main(at) == <<"main", at>>
Setup(p, at) == <<p, at>>

----
(* The clock tree.                                                         *)

(* A PLL: its reset, its power, its lock, its post dividers, its registers.*)
PllState(reset, power, lock, post, params) ==
    [ reset |-> reset, power |-> power, lock |-> lock, post |-> post, params |-> params ]

AtReset(reset) == PllState(reset, FALSE, FALSE, FALSE, Params(1, 0, 7, 7))
SetUp(params) == PllState("done", TRUE, TRUE, TRUE, params)

(* What SRC and AUXSRC select.                                             *)
RefSource(ctrl) ==
    CASE ExtractBits(ctrl, 0, 1) = {} -> "rosc"
      [] ExtractBits(ctrl, 0, 1) = {1} -> "xosc"
      [] OTHER -> "aux"
SysSource(ctrl) == IF ExtractBits(ctrl, 0, 0) = {} THEN "ref" ELSE "aux"
AuxSource(ctrl) ==
    CASE ExtractBits(ctrl, 5, 7) = {} -> PllSys
      [] ExtractBits(ctrl, 5, 7) = {0} -> PllUsb
      [] OTHER -> "other"
UsbSource(ctrl) == IF ExtractBits(ctrl, 5, 7) = {} THEN PllUsb ELSE "other"

Runs(source) ==
    CASE source = "rosc" -> TRUE
      [] source = "xosc" -> xosc = "stable"
      [] source \in Plls -> xosc = "stable" /\ plls[source].lock /\ plls[source].post
      [] OTHER -> FALSE

ClkRef == refSel
ClkSys == IF sysSel = "ref" THEN ClkRef ELSE AuxSource(sysCtrl)
ClkUsb == UsbSource(usbCtrl)

(* Parameters that new rejects do not compile.                             *)
Init ==
    /\ asked \in {f \in [Plls -> Calls] : \A p \in Plls : Call(f[p]) # Rejected}
    /\ pc = Main("xosc")
    /\ plls \in [Plls -> {AtReset("done")} \cup {SetUp(p) : p \in LeftParams}]
    /\ xosc \in {"off", "stable"}
    /\ \A p \in Plls : plls[p].lock => xosc = "stable"
    /\ refCtrl \in {{}, {1}}
    /\ sysCtrl \in {s \cup {5 + b : b \in aux} : s \in {{}, {0}}, aux \in LeftAuxes}
    /\ usbCtrl \in {e \cup {5 + b : b \in aux} : e \in {{}, {11}}, aux \in LeftAuxes}
    /\ refSel = RefSource(refCtrl) /\ sysSel = SysSource(sysCtrl)
    /\ usbOn = (11 \in usbCtrl)
    /\ Runs(ClkRef) /\ Runs(ClkSys) /\ (usbOn => Runs(ClkUsb))
    /\ left = (sysSel # "ref" \/ refSel # "rosc" \/ usbOn \/ ClkUsb # PllUsb)

----
(* init_xosc.                                                              *)
StartXosc ==
    /\ pc = Main("xosc")
    /\ pc' = Main("xosc wait")
    /\ xosc' = IF xosc = "off" THEN "starting" ELSE xosc
    /\ UNCHANGED <<asked, left, plls, muxes>>

WaitXosc ==
    /\ pc = Main("xosc wait") /\ xosc = "stable"
    /\ pc' = Main("sys")
    /\ UNCHANGED <<asked, left, xosc, plls, muxes>>

----
(* Pll::setup, of either PLL, and where switch_sys_clock_to_xosc and       *)
(* enable_usb_clock go on after it.                                        *)
AfterSetup(p) == IF p = PllSys THEN Main("ref") ELSE Main("usb")
ParamsOf(p) == Call(asked[p])

(* A step of setup that changes the PLL.                                   *)
SetupStep(p, from, to, state) ==
    /\ pc = Setup(p, from)
    /\ pc' = to
    /\ plls' = [plls EXCEPT ![p] = state]
    /\ UNCHANGED <<asked, left, xosc, muxes>>

(* A faulty variant of AsAsked: the post dividers are not compared.        *)
AsAskedAnyPost(p) ==
    LET q == plls[p].params
    IN  plls[p].lock /\ q.refdiv = ParamsOf(p).refdiv /\ q.fbdiv = ParamsOf(p).fbdiv

(* The PLL runs as it is asked for.  Whether its post dividers are powered *)
(* is not looked at.                                                       *)
AsAsked(p) == plls[p].lock /\ plls[p].params = ParamsOf(p)

Check(p) ==
    SetupStep(p, "check", IF AsAsked(p) THEN AfterSetup(p) ELSE Setup(p, "reset"), plls[p])

Reset(p) == SetupStep(p, "reset", Setup(p, "release"), AtReset("held"))

Release(p) ==
    SetupStep(p, "release", Setup(p, "done"), [plls[p] EXCEPT !.reset = "released"])

WaitReset(p) ==
    /\ plls[p].reset = "done"
    /\ SetupStep(p, "done", Setup(p, "dividers"), plls[p])

(* A faulty variant of Divided: the feedback divider is not written.       *)
DividedNoFbdiv(p) ==
    LET old == plls[p].params
    IN  Params(ParamsOf(p).refdiv, old.fbdiv, old.post_div1, old.post_div2)

Divided(p) ==
    LET old == plls[p].params
    IN  Params(ParamsOf(p).refdiv, ParamsOf(p).fbdiv, old.post_div1, old.post_div2)

Divide(p) ==
    SetupStep(p, "dividers", Setup(p, "power"), [plls[p] EXCEPT !.params = Divided(p)])

Power(p) == SetupStep(p, "power", Setup(p, "lock"), [plls[p] EXCEPT !.power = TRUE])

(* A faulty variant of LockSeen: the lock is not waited for.               *)
LockNotSeen(p) == TRUE

LockSeen(p) == plls[p].lock

WaitLock(p) == LockSeen(p) /\ SetupStep(p, "lock", Setup(p, "prim"), plls[p])

PostDivide(p) ==
    SetupStep(p, "prim", Setup(p, "post"), [plls[p] EXCEPT !.params = ParamsOf(p)])

PowerPost(p) == SetupStep(p, "post", AfterSetup(p), [plls[p] EXCEPT !.post = TRUE])

SetupPll(p) ==
    \/ Check(p) \/ Reset(p) \/ Release(p) \/ WaitReset(p)
    \/ Divide(p) \/ Power(p) \/ WaitLock(p) \/ PostDivide(p) \/ PowerPost(p)

----
(* switch_sys_clock_to_xosc.                                               *)

(* A faulty variant of MuxesAtReset: the assertions are left out.          *)
MuxesAny == TRUE

(* The assertions on CLK_REF_SELECTED and CLK_SYS_SELECTED.                *)
MuxesAtReset == refSel = "rosc" /\ sysSel = "ref"

CheckMuxes ==
    /\ pc = Main("sys")
    /\ pc' = IF MuxesAtReset THEN Setup(PllSys, "check") ELSE Main("panic")
    /\ UNCHANGED <<asked, left, xosc, plls, muxes>>

(* Faulty variants of RefWord: the number of the source in place of the    *)
(* bits, and another source.                                               *)
RefWordShifted == {2}
RefWordAux == {0}

RefWord == {1}

SwitchRef ==
    /\ pc = Main("ref")
    /\ IF ExtractBits(refCtrl, 0, 1) = {}
         THEN pc' = Main("ref wait") /\ refCtrl' = SetBits(refCtrl, RefWord)
         ELSE pc' = Main("panic") /\ UNCHANGED refCtrl
    /\ UNCHANGED <<asked, left, xosc, plls, refSel, sysCtrl, sysSel, usbCtrl, usbOn>>

WaitRef ==
    /\ pc = Main("ref wait") /\ refSel = "xosc"
    /\ pc' = Main("sys ref")
    /\ UNCHANGED <<asked, left, xosc, plls, muxes>>

SwitchSysToRef ==
    /\ pc = Main("sys ref")
    /\ pc' = Main("sys ref wait")
    /\ sysCtrl' = ClearBits(sysCtrl, {0})
    /\ UNCHANGED <<asked, left, xosc, plls, refCtrl, refSel, sysSel, usbCtrl, usbOn>>

WaitSysRef ==
    /\ pc = Main("sys ref wait") /\ sysSel = "ref"
    /\ pc' = Main("sys aux")
    /\ UNCHANGED <<asked, left, xosc, plls, muxes>>

(* The write that is meant for AUXSRC sets bits that are set already.      *)
SwitchSysToAux ==
    /\ pc = Main("sys aux")
    /\ pc' = Main("sys aux wait")
    /\ sysCtrl' = SetBits(SetBits(sysCtrl, XorBits(sysCtrl, {}) \cap (5..7)), {0})
    /\ UNCHANGED <<asked, left, xosc, plls, refCtrl, refSel, sysSel, usbCtrl, usbOn>>

WaitSysAux ==
    /\ pc = Main("sys aux wait") /\ sysSel = "aux"
    /\ pc' = Setup(PllUsb, "check")
    /\ UNCHANGED <<asked, left, xosc, plls, muxes>>

----
(* enable_usb_clock.  The assertions come after the PLL's setup.           *)

(* A faulty variant of UsbAtReset: the enable is read back.                *)
UsbEnabled == 11 \in usbCtrl /\ ExtractBits(usbCtrl, 5, 7) = {}

UsbAtReset == ~usbOn /\ ExtractBits(usbCtrl, 5, 7) = {}

EnableUsb ==
    /\ pc = Main("usb")
    /\ IF UsbAtReset
         THEN pc' = Main("usb wait") /\ usbCtrl' = SetBits(usbCtrl, {11})
         ELSE pc' = Main("panic") /\ UNCHANGED usbCtrl
    /\ UNCHANGED <<asked, left, xosc, plls, refCtrl, refSel, sysCtrl, sysSel, usbOn>>

WaitUsb ==
    /\ pc = Main("usb wait") /\ usbOn
    /\ pc' = Main("ticks")
    /\ UNCHANGED <<asked, left, xosc, plls, muxes>>

(* The CPU makes a step, if clk_sys runs.                                  *)
Cpu ==
    /\ Runs(ClkSys)
    /\ \/ StartXosc \/ WaitXosc
       \/ CheckMuxes \/ SwitchRef \/ WaitRef
       \/ SwitchSysToRef \/ WaitSysRef \/ SwitchSysToAux \/ WaitSysAux
       \/ EnableUsb \/ WaitUsb
       \/ \E p \in Plls : SetupPll(p)

----
(* The hardware.                                                           *)
Stabilise ==
    /\ xosc = "starting"
    /\ xosc' = "stable"
    /\ UNCHANGED <<asked, pc, left, plls, muxes>>

LeaveReset(p) ==
    /\ plls[p].reset = "released"
    /\ plls' = [plls EXCEPT ![p].reset = "done"]
    /\ UNCHANGED <<asked, pc, left, xosc, muxes>>

(* The PLL locks within the limits of its reference, XoscHz / refdiv, and  *)
(* of its VCO, XoscHz * fbdiv / refdiv: fractions, and of no width.        *)
WithinVco(q) ==
    /\ RefMin * q.refdiv <= XoscHz
    /\ 16 <= q.fbdiv
    /\ VcoMin * q.refdiv <= XoscHz * q.fbdiv /\ XoscHz * q.fbdiv <= VcoMax * q.refdiv

(* A PLL runs at hz, and less than one Hz faster.                          *)
RunsAt(q, hz) ==
    LET div == q.refdiv * (q.post_div1 * q.post_div2)
    IN  hz * div <= XoscHz * q.fbdiv /\ XoscHz * q.fbdiv < (hz + 1) * div

Lock(p) ==
    /\ plls[p].power /\ ~plls[p].lock /\ xosc = "stable" /\ WithinVco(plls[p].params)
    /\ plls' = [plls EXCEPT ![p].lock = TRUE]
    /\ UNCHANGED <<asked, pc, left, xosc, muxes>>

SelectRef ==
    /\ refSel # RefSource(refCtrl)
    /\ refSel' = RefSource(refCtrl)
    /\ UNCHANGED <<asked, pc, left, xosc, plls, refCtrl, sysCtrl, sysSel, usbCtrl, usbOn>>

SelectSys ==
    /\ sysSel # SysSource(sysCtrl)
    /\ sysSel' = SysSource(sysCtrl)
    /\ UNCHANGED <<asked, pc, left, xosc, plls, refCtrl, refSel, sysCtrl, usbCtrl, usbOn>>

StartUsb ==
    /\ usbOn # (11 \in usbCtrl)
    /\ Runs(ClkUsb)
    /\ usbOn' = (11 \in usbCtrl)
    /\ UNCHANGED <<asked, pc, left, xosc, plls, refCtrl, refSel, sysCtrl, sysSel, usbCtrl>>

Hardware ==
    \/ Stabilise \/ SelectRef \/ SelectSys \/ StartUsb
    \/ \E p \in Plls : LeaveReset(p) \/ Lock(p)

Next == Cpu \/ Hardware

(* The CPU steps when it is clocked, and the hardware answers.             *)
Spec == Init /\ [][Next]_vars /\ WF_vars(Cpu) /\ WF_vars(Hardware)

----
(* Properties.                                                             *)

PCs ==
    {"main"} \X {"xosc", "xosc wait", "sys", "ref", "ref wait", "sys ref",
                 "sys ref wait", "sys aux", "sys aux wait", "usb", "usb wait",
                 "ticks", "panic"}
    \cup Plls \X {"check", "reset", "release", "done", "dividers", "power",
                  "lock", "prim", "post"}

PllRegisters == [ refdiv : 1..63, fbdiv : 0..4095, post_div1 : 1..7, post_div2 : 1..7 ]
PllStates == [ reset : {"held", "released", "done"}, power : BOOLEAN, lock : BOOLEAN,
               post : BOOLEAN, params : PllRegisters ]

(* Type correctness.  The fields of CLK_REF_CTRL, CLK_SYS_CTRL and         *)
(* CLK_USB_CTRL that are not for the code to write stay 0.                 *)
TypeOK ==
    /\ asked \in [Plls -> Calls]
    /\ pc \in PCs /\ left \in BOOLEAN
    /\ xosc \in {"off", "starting", "stable"}
    /\ plls \in [Plls -> PllStates]
    /\ refCtrl \subseteq 0..1 /\ refSel \in {"rosc", "aux", "xosc"}
    /\ sysCtrl \subseteq {0} \cup (5..7) /\ sysSel \in {"ref", "aux"}
    /\ usbCtrl \subseteq (5..7) \cup {11} /\ usbOn \in BOOLEAN

(* The CPU is always clocked: clk_sys and clk_ref are switched to running  *)
(* sources only, and none of them is stopped while it is in use.           *)
CpuClocked == Runs(ClkSys) /\ Runs(ClkRef)

(* No PLL is powered before its dividers are set, or with parameters that  *)
(* run it outside its limits: the products of PllParams::new have not      *)
(* wrapped on the way to the comparisons.                                  *)
PllsWithinLimits == \A p \in Plls : plls[p].power => WithinVco(plls[p].params)

(* The frequency of a clock changes by the glitchless switch only: as long *)
(* as it is switched to a PLL, its auxiliary source and the registers of   *)
(* the PLL are left alone; of clk_usb, unless the boot loader had left it  *)
(* on.                                                                     *)
NoGlitch ==
    [][ /\ sysSel = "aux" /\ sysSel' = "aux" =>
              ClkSys' = ClkSys /\ plls[ClkSys]' = plls[ClkSys]
        /\ usbOn /\ usbOn' /\ ~left =>
              ClkUsb' = ClkUsb /\ plls[ClkUsb]' = plls[ClkUsb] ]_vars

(* When the clocks are up they run as the rest of the firmware takes them: *)
(* clk_ref at the 12 MHz from which init_alarms derives the ticks of 1 us, *)
(* clk_sys and clk_usb at the frequencies f_out_post_div_hz says, within   *)
(* the 1 Hz it rounds by.                                                  *)
ClocksAsPlanned ==
    pc = Main("ticks") =>
        /\ ClkRef = "xosc" /\ Runs("xosc")
        /\ sysSel = "aux" /\ RunsAt(plls[ClkSys].params, OutFreq(ParamsOf(PllSys)))
        /\ usbOn /\ Runs(ClkUsb)
        /\ RunsAt(plls[ClkUsb].params, OutFreq(ParamsOf(PllUsb)))

(* The VCO of PLL_SYS runs no faster than was asked for, and less than a   *)
(* step of the feedback divider slower.                                    *)
VcoReached ==
    pc = Main("ticks") /\ asked[PllSys].by = "from_vco" =>
        LET q == plls[PllSys].params
            vco == asked[PllSys].arg
        IN  XoscHz * q.fbdiv <= vco * q.refdiv /\ vco * q.refdiv < XoscHz * (q.fbdiv + 1)

(* The assertions fail only where a boot loader has left clocks switched,  *)
(* or clk_usb on.                                                          *)
PanicsIfLeft == pc = Main("panic") => left

(* The clocks come up, or an assertion fails: no wait is for ever.         *)
ClocksComeUp == <>(pc \in {Main("ticks"), Main("panic")})

==============================================================================
