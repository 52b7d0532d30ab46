----------------------------- MODULE BringUpProofs -----------------------------
(***************************************************************************)
(* Theorems about BringUp, for every crystal, every pair of parameters     *)
(* that PllParams accepts and whatever a boot loader has left running.     *)
(***************************************************************************)
EXTENDS BringUp, TLAPS

LEMMA Numbers ==
    /\ XoscHz \in Nat /\ XoscHz >= 1 /\ RefMin \in Nat /\ RefMin >= 1
    /\ VcoMin \in Nat /\ VcoMax \in Nat /\ Values \in Nat
    /\ XoscHz * 320 < Values /\ XoscHz < 64 * RefMin
  BY PllAssumption

----
(* The arithmetic of PllParams.                                            *)

LEMMA Quotient ==
    ASSUME NEW a \in Nat, NEW b \in Nat, b >= 1
    PROVE  a \div b \in Nat /\ (a \div b) * b <= a /\ a < (a \div b) * b + b
  <1> DEFINE q == a \div b
             r == a % b
  <1>1. q \in Int /\ r \in 0..(b - 1) /\ a = b * q + r
    OBVIOUS
  <1>2. q >= 0
    OBVIOUS
  <1> QED  BY <1>1, <1>2

LEMMA RefFreqRange ==
    ASSUME NEW r \in 1..XoscHz
    PROVE  RefFreq(r) \in 1..XoscHz
  <1>1. RefFreq(r) \in Nat /\ RefFreq(r) * r <= XoscHz /\ XoscHz < RefFreq(r) * r + r
    BY Numbers, Quotient DEF RefFreq
  <1>2. RefFreq(r) # 0
    BY <1>1, Numbers
  <1>3. RefFreq(r) <= RefFreq(r) * r
    BY <1>1, Numbers
  <1> QED  BY <1>1, <1>2, <1>3, Numbers

(* What is accepted does not wrap: neither the product on which the limits *)
(* are checked nor that of the post dividers.                              *)
LEMMA NoWrap ==
    ASSUME NEW r \in 1..XoscHz, NEW f \in Nat, f <= 320
    PROVE  VcoFreq(r, f) = RefFreq(r) * f /\ VcoFreq(r, f) \in Nat
  <1> DEFINE n == RefFreq(r)
  <1>1. n \in Nat /\ n <= XoscHz
    BY RefFreqRange
  <1> HIDE DEF n
  <1>2. n * f \in Nat /\ n * f <= XoscHz * 320
    <2>1. n * f <= n * 320
      BY <1>1
    <2> QED  BY <1>1, <2>1, Numbers
  <1> DEFINE m == n * f
  <1>3. RefFreq(r) * f = m /\ VcoFreq(r, f) = m % Values
    BY DEF VcoFreq, n
  <1>4. m \in Nat /\ m < Values
    BY <1>2, Numbers
  <1> HIDE DEF m
  <1>5. m % Values = m
    BY <1>4, Numbers
  <1> QED  BY <1>3, <1>4, <1>5

(* Products of the post dividers that are accepted.                        *)
LEMMA PostDividers ==
    ASSUME NEW d1 \in 1..7, NEW d2 \in 1..7
    PROVE  d1 * d2 \in 1..49 /\ (d1 * d2) % Values = d1 * d2
  <1> DEFINE d == d1 * d2
  <1>1. d \in 1..49
    <2>1. /\ d1 = 1 \/ d1 = 2 \/ d1 = 3 \/ d1 = 4 \/ d1 = 5 \/ d1 = 6 \/ d1 = 7
          /\ d2 \in 1..7
      OBVIOUS
    <2> QED  BY <2>1
  <1> HIDE DEF d
  <1>2. d % Values = d
    BY <1>1, Numbers
  <1> QED  BY <1>1, <1>2 DEF d

(* The parameters a call may make, when it compiles.                       *)
AcceptedParams(q) ==
    /\ q.refdiv \in 1..XoscHz /\ q.refdiv < 64
    /\ q.fbdiv \in Nat
    /\ q.post_div1 \in 1..7 /\ q.post_div2 \in 1..7
    /\ Accepted(q.refdiv, q.fbdiv, q.post_div1, q.post_div2)
    /\ q = Params(q.refdiv, q.fbdiv, q.post_div1, q.post_div2)

LEMMA NewAccepted ==
    ASSUME NEW r \in 1..XoscHz, NEW f \in Nat, NEW d1 \in Nat, NEW d2 \in Nat,
           New(r, f, d1, d2) # Rejected
    PROVE  /\ AcceptedParams(New(r, f, d1, d2))
           /\ New(r, f, d1, d2) = Params(r, f, d1, d2)
  <1>1. Accepted(r, f, d1, d2) /\ New(r, f, d1, d2) = Params(r, f, d1, d2)
    BY DEF New
  <1>2. r < 64
    <2>1. RefFreq(r) \in Nat /\ RefFreq(r) * r <= XoscHz
      BY Numbers, Quotient DEF RefFreq
    <2>2. RefMin * r <= RefFreq(r) * r
      BY <1>1, <2>1, Numbers DEF Accepted
    <2>3. RefMin * r < 64 * RefMin
      BY <2>1, <2>2, Numbers
    <2> QED  BY <2>3, Numbers
  <1> QED  BY <1>1, <1>2 DEF AcceptedParams, Params, Accepted

LEMMA CallFields ==
    ASSUME NEW c \in Calls
    PROVE  /\ c.by \in {"new", "from_vco"} /\ c.refdiv \in 1..XoscHz
           /\ c.arg \in Nat /\ c.div1 \in Nat /\ c.div2 \in Nat
           /\ FbdivOf(c.refdiv, c.arg) \in Nat
  <1>1. /\ c.by \in {"new", "from_vco"} /\ c.refdiv \in 1..XoscHz
        /\ c.arg \in Nat /\ c.div1 \in Nat /\ c.div2 \in Nat
    BY CallsAssumption, Numbers
  <1>2. RefFreq(c.refdiv) \in 1..XoscHz
    BY <1>1, RefFreqRange
  <1> QED  BY <1>1, <1>2, Quotient, Numbers DEF FbdivOf

LEMMA CallAccepted ==
    ASSUME NEW c \in Calls, Call(c) # Rejected
    PROVE  AcceptedParams(Call(c))
  BY CallFields, NewAccepted DEF Call, FromVco

(* With a reference divider that is accepted no frequency up to the VCO is *)
(* rounded.                                                                *)
LEMMA VcoExact ==
    ASSUME NEW r \in 1..XoscHz, NEW f \in Nat, f <= 320, RefMin <= RefFreq(r)
    PROVE  RefFreq(r) * r = XoscHz /\ VcoFreq(r, f) * r = XoscHz * f
  <1> DEFINE n == RefFreq(r)
  <1>1. n \in Nat /\ n * r = XoscHz
    BY RefFreqRange, CrystalAssumption
  <1>2. VcoFreq(r, f) = n * f
    BY NoWrap
  <1> HIDE DEF n
  <1>3. (n * f) * r = (n * r) * f
    BY <1>1
  <1> QED  BY <1>1, <1>2, <1>3 DEF n

(* The limits PllParams checks are those of the PLL.                       *)
LEMMA LimitsHold ==
    ASSUME NEW r \in 1..XoscHz, NEW f \in Nat, NEW d1, NEW d2, Accepted(r, f, d1, d2)
    PROVE  /\ RefMin * r <= XoscHz /\ 16 <= f
           /\ VcoMin * r <= XoscHz * f /\ XoscHz * f <= VcoMax * r
  <1> DEFINE n == RefFreq(r)
             v == VcoFreq(r, f)
  <1>1. /\ n * r = XoscHz /\ v * r = XoscHz * f /\ v \in Nat /\ n \in Nat
        /\ RefMin <= n /\ VcoMin <= v /\ v <= VcoMax /\ 16 <= f
    BY NoWrap, RefFreqRange, VcoExact DEF Accepted
  <1> HIDE DEF n, v
  <1>2. RefMin * r <= n * r
    BY <1>1, Numbers
  <1>3. VcoMin * r <= v * r /\ v * r <= VcoMax * r
    BY <1>1, Numbers
  <1> QED  BY <1>1, <1>2, <1>3

LEMMA AcceptedWithin ==
    ASSUME NEW q, AcceptedParams(q)
    PROVE  WithinVco(q)
  BY LimitsHold DEF AcceptedParams, WithinVco

(* A quotient's frequency, brought over the common divisor.                *)
LEMMA Scaled ==
    ASSUME NEW v \in Nat, NEW h \in Nat, NEW d \in Nat, NEW r \in Nat, r >= 1,
           h * d <= v, v < h * d + d
    PROVE  h * (r * d) <= v * r /\ v * r < (h + 1) * (r * d)
  <1> DEFINE e == h * d
  <1>1. e \in Nat /\ e <= v /\ v < e + d
    OBVIOUS
  <1>2. h * (r * d) = e * r /\ (h + 1) * (r * d) = (e + d) * r
    OBVIOUS
  <1> HIDE DEF e
  <1>3. e * r <= v * r
    BY <1>1
  <1>4. v * r < (e + d) * r
    <2>1. v + 1 <= e + d
      BY <1>1
    <2>2. (v + 1) * r <= (e + d) * r
      BY <1>1, <2>1
    <2>3. (v + 1) * r = v * r + r
      OBVIOUS
    <2> QED  BY <1>1, <2>2, <2>3
  <1> QED  BY <1>2, <1>3, <1>4

(* f_out_post_div_hz is the frequency of the PLL, rounded down.            *)
LEMMA AcceptedFrequency ==
    ASSUME NEW q, AcceptedParams(q)
    PROVE  RunsAt(q, OutFreq(q))
  <1> DEFINE r == q.refdiv
             f == q.fbdiv
             d == q.post_div1 * q.post_div2
             v == VcoFreq(r, f)
  <1>1. /\ r \in Nat /\ r >= 1 /\ v \in Nat /\ v * r = XoscHz * f
    <2>1. /\ q.refdiv \in 1..XoscHz /\ q.fbdiv \in Nat /\ q.fbdiv <= 320
          /\ RefMin <= RefFreq(q.refdiv)
      BY DEF AcceptedParams, Accepted
    <2> QED  BY <2>1, NoWrap, VcoExact, Numbers
  <1>2. d \in 1..49 /\ OutFreq(q) = v \div d
    BY PostDividers DEF AcceptedParams, OutFreq
  <1>3. RunsAt(q, OutFreq(q)) <=>
          OutFreq(q) * (r * d) <= XoscHz * f /\ XoscHz * f < (OutFreq(q) + 1) * (r * d)
    BY DEF RunsAt
  <1> HIDE DEF r, f, d, v
  <1> DEFINE h == v \div d
  <1>4. h \in Nat /\ h * d <= v /\ v < h * d + d
    BY <1>1, <1>2, Quotient
  <1>5. OutFreq(q) = h
    BY <1>2
  <1> HIDE DEF h
  <1> QED  BY <1>1, <1>2, <1>3, <1>4, <1>5, Scaled

(* The feedback divider from_vco finds is the largest one that does not    *)
(* exceed the frequency that is asked for.                                 *)
LEMMA VcoRounded ==
    ASSUME NEW c \in Calls, Call(c) # Rejected, c.by = "from_vco"
    PROVE  /\ XoscHz * Call(c).fbdiv <= c.arg * Call(c).refdiv
           /\ c.arg * Call(c).refdiv < XoscHz * (Call(c).fbdiv + 1)
  <1> DEFINE r == c.refdiv
             n == RefFreq(r)
             f == FbdivOf(r, c.arg)
             a == c.arg
  <1>1. Call(c).refdiv = r /\ Call(c).fbdiv = f /\ Accepted(r, f, c.div1, c.div2)
    BY CallFields, NewAccepted DEF Call, FromVco, Params, AcceptedParams
  <1>2. n \in Nat /\ n >= 1 /\ a \in Nat /\ r \in 1..XoscHz /\ r >= 1 /\ r \in Nat
    BY CallFields, RefFreqRange, Numbers
  <1>3. f \in Nat /\ f * n <= a /\ a < f * n + n
    <2> HIDE DEF n
    <2> QED  BY <1>2, Quotient DEF FbdivOf, n
  <1>4. n * r = XoscHz
    BY <1>1, <1>2, <1>3, VcoExact DEF Accepted
  <1> HIDE DEF r, n, f, a
  <1>5. f * (r * n) <= a * r /\ a * r < (f + 1) * (r * n)
    BY <1>2, <1>3, Scaled
  <1>6. r * n = XoscHz /\ f * XoscHz = XoscHz * f /\ (f + 1) * XoscHz = XoscHz * (f + 1)
    BY <1>2, <1>3, <1>4, Numbers
  <1> QED  BY <1>1, <1>5, <1>6 DEF a

----
(* Phases of the bring-up.                                                 *)

Steps == {"check", "reset", "release", "done", "dividers", "power", "lock", "prim", "post"}
InMain(steps) == \E at \in steps : pc = Main(at)
InSetup(p, steps) == \E at \in steps : pc = Setup(p, at)

Early == InMain({"xosc", "xosc wait", "sys"})
Switching == InMain({"ref", "ref wait", "sys ref", "sys ref wait", "sys aux"})
Enabling == InMain({"usb", "usb wait", "ticks"})
Late == pc = Main("sys aux wait") \/ InSetup(PllUsb, Steps) \/ Enabling
Done(p) == IF p = PllSys THEN Switching \/ Late ELSE Enabling

LEMMA PllNames == /\ Plls = {PllSys, PllUsb} /\ PllSys # PllUsb
                  /\ "main" \notin Plls
  BY DEF Plls, PllSys, PllUsb

(* The setup of a PLL changes nothing but it and the program counter.      *)
LEMMA SetupMoves ==
    ASSUME NEW p \in Plls, SetupPll(p)
    PROVE  /\ UNCHANGED <<asked, left, xosc, refCtrl, refSel, sysCtrl, sysSel, usbCtrl, usbOn>>
           /\ InSetup(p, Steps)
           /\ InSetup(p, Steps)' \/ pc' = AfterSetup(p)
           /\ \E state : plls' = [plls EXCEPT ![p] = state]
  <1> USE DEF SetupStep, muxes
  <1>1. UNCHANGED <<asked, left, xosc, refCtrl, refSel, sysCtrl, sysSel, usbCtrl, usbOn>>
    BY DEF SetupPll, Check, Reset, Release, WaitReset, Divide, Power, WaitLock, PostDivide,
           PowerPost
  <1>2. \E state : plls' = [plls EXCEPT ![p] = state]
    BY DEF SetupPll, Check, Reset, Release, WaitReset, Divide, Power, WaitLock, PostDivide,
           PowerPost
  <1>3. InSetup(p, Steps)
    BY DEF SetupPll, Check, Reset, Release, WaitReset, Divide, Power, WaitLock, PostDivide,
           PowerPost,
           InSetup, Steps
  <1>4. InSetup(p, Steps)' \/ pc' = AfterSetup(p)
    BY DEF SetupPll, Check, Reset, Release, WaitReset, Divide, Power, WaitLock, PostDivide,
           PowerPost,
           InSetup, Steps
  <1> QED  BY <1>1, <1>2, <1>3, <1>4

----
(* Type correctness.                                                       *)

TypeInv == TypeOK /\ \A p \in Plls : AcceptedParams(ParamsOf(p))

LEMMA RegisterFields ==
    ASSUME NEW q \in PllRegisters
    PROVE  /\ q.refdiv \in 1..63 /\ q.fbdiv \in 0..4095
           /\ q.post_div1 \in 1..7 /\ q.post_div2 \in 1..7
  BY DEF PllRegisters

LEMMA RefBits == ASSUME NEW c, c \subseteq 0..1 PROVE c \cup {1} \subseteq 0..1
  OBVIOUS

LEMMA AcceptedRegisters ==
    ASSUME NEW q, AcceptedParams(q)
    PROVE  q \in PllRegisters
  BY DEF AcceptedParams, Accepted, Params, PllRegisters

LEMMA TypeInitial == Init => TypeInv
  <1> SUFFICES ASSUME Init PROVE TypeInv
    OBVIOUS
  <1>1. asked \in [Plls -> Calls] /\ \A p \in Plls : AcceptedParams(ParamsOf(p))
    BY CallAccepted DEF Init, ParamsOf
  <1>2. AtReset("done") \in PllStates
    BY DEF AtReset, PllState, PllStates, Params, PllRegisters
  <1>3. \A q \in LeftParams : SetUp(q) \in PllStates
    BY CallsAssumption DEF SetUp, PllState, PllStates, PllRegisters
  <1>4. plls \in [Plls -> PllStates]
    BY <1>2, <1>3 DEF Init
  <1>5. pc \in PCs /\ left \in BOOLEAN /\ xosc \in {"off", "starting", "stable"}
    <2>1. pc = Main("xosc") /\ xosc \in {"off", "stable"}
      BY DEF Init
    <2>2. pc \in PCs
      BY <2>1 DEF PCs, Main
    <2>3. left \in BOOLEAN
      BY Zenon DEF Init
    <2> QED  BY <2>1, <2>2, <2>3
  <1>6. refCtrl \subseteq 0..1 /\ refSel \in {"rosc", "aux", "xosc"}
    BY DEF Init, RefSource
  <1>7. \A aux \in LeftAuxes : {5 + b : b \in aux} \subseteq 5..7
    BY AuxAssumption
  <1>8. sysCtrl \subseteq {0} \cup (5..7) /\ sysSel \in {"ref", "aux"}
    BY <1>7 DEF Init, SysSource
  <1>9. usbCtrl \subseteq (5..7) \cup {11} /\ usbOn \in BOOLEAN
    <2>1. PICK e \in {{}, {11}}, aux \in LeftAuxes : usbCtrl = e \cup {5 + b : b \in aux}
      BY DEF Init
    <2>2. usbCtrl \subseteq (5..7) \cup {11}
      BY <1>7, <2>1
    <2>3. usbOn = (11 \in usbCtrl)
      BY DEF Init
    <2>4. usbOn \in BOOLEAN
      BY <2>3, SMT
    <2> QED  BY <2>2, <2>4
  <1> QED
    BY <1>1, <1>4, <1>5, <1>6, <1>8, <1>9 DEF TypeInv, TypeOK

LEMMA TypeStep == TypeInv /\ [Next]_vars => TypeInv'
  <1> SUFFICES ASSUME TypeInv, [Next]_vars PROVE TypeInv'
    OBVIOUS
  <1> USE DEF muxes
  <1>0. /\ asked \in [Plls -> Calls] /\ \A p \in Plls : AcceptedParams(ParamsOf(p))
        /\ plls \in [Plls -> PllStates] /\ TypeOK
    BY DEF TypeInv, TypeOK
  <1>1. asked' = asked
    <2>1. ASSUME NEW p \in Plls, SetupPll(p) PROVE asked' = asked
      BY <2>1, SetupMoves
    <2> QED
      BY <2>1 DEF Next, Cpu, Hardware, StartXosc, WaitXosc, CheckMuxes, SwitchRef, WaitRef,
        SwitchSysToRef, WaitSysRef, SwitchSysToAux, WaitSysAux, EnableUsb, WaitUsb,
        Stabilise, SelectRef, SelectSys, StartUsb, LeaveReset, Lock, vars
  <1>2. \A p \in Plls : AcceptedParams(ParamsOf(p)')
    BY <1>0, <1>1 DEF ParamsOf
  <1>3. plls' \in [Plls -> PllStates]
    <2>1. ASSUME NEW p \in Plls, SetupPll(p) PROVE plls' \in [Plls -> PllStates]
      <3>1. plls[p] \in PllStates /\ ParamsOf(p) \in PllRegisters
        BY <1>0, AcceptedRegisters
      <3>2. ASSUME NEW state \in PllStates, plls' = [plls EXCEPT ![p] = state]
            PROVE  plls' \in [Plls -> PllStates]
        BY <1>0, <3>2
      <3>3. AtReset("held") \in PllStates
        BY DEF AtReset, PllState, PllStates, Params, PllRegisters
      <3>4. [plls[p] EXCEPT !.reset = "released"] \in PllStates
        BY <3>1 DEF PllStates
      <3>5. Divided(p) \in PllRegisters
        <4>1. plls[p].params \in PllRegisters
          BY <3>1 DEF PllStates
        <4>2. /\ ParamsOf(p).refdiv \in 1..63 /\ ParamsOf(p).fbdiv \in 0..4095
              /\ plls[p].params.post_div1 \in 1..7 /\ plls[p].params.post_div2 \in 1..7
          BY <3>1, <4>1, RegisterFields
        <4>3. Divided(p) = Params(ParamsOf(p).refdiv, ParamsOf(p).fbdiv,
                                  plls[p].params.post_div1, plls[p].params.post_div2)
          BY DEF Divided
        <4> DEFINE r == ParamsOf(p).refdiv
                   f == ParamsOf(p).fbdiv
                   d1 == plls[p].params.post_div1
                   d2 == plls[p].params.post_div2
        <4> HIDE DEF r, f, d1, d2
        <4>4. r \in 1..63 /\ f \in 0..4095 /\ d1 \in 1..7 /\ d2 \in 1..7
          BY <4>2 DEF r, f, d1, d2
        <4>5. Params(r, f, d1, d2) \in PllRegisters
          BY <4>4 DEF Params, PllRegisters
        <4> QED  BY <4>3, <4>5 DEF r, f, d1, d2
      <3>6. [plls[p] EXCEPT !.params = Divided(p)] \in PllStates
        BY <3>1, <3>5 DEF PllStates
      <3>7. [plls[p] EXCEPT !.power = TRUE] \in PllStates
        BY <3>1 DEF PllStates
      <3>8. [plls[p] EXCEPT !.params = ParamsOf(p)] \in PllStates
        BY <3>1 DEF PllStates
      <3>9. [plls[p] EXCEPT !.post = TRUE] \in PllStates
        BY <3>1 DEF PllStates
      <3> QED
        BY <2>1, <3>1, <3>2, <3>3, <3>4, <3>6, <3>7, <3>8, <3>9
        DEF SetupPll, SetupStep, Check, Reset, Release, WaitReset, Divide, Power, WaitLock,
            PostDivide, PowerPost
    <2>2. ASSUME NEW p \in Plls, LeaveReset(p) \/ Lock(p) PROVE plls' \in [Plls -> PllStates]
      <3>1. plls[p] \in PllStates
        BY <1>0
      <3>2. [plls[p] EXCEPT !.reset = "done"] \in PllStates
        BY <3>1 DEF PllStates
      <3>3. [plls[p] EXCEPT !.lock = TRUE] \in PllStates
        BY <3>1 DEF PllStates
      <3>4. \/ plls' = [plls EXCEPT ![p] = [plls[p] EXCEPT !.reset = "done"]]
            \/ plls' = [plls EXCEPT ![p] = [plls[p] EXCEPT !.lock = TRUE]]
        BY <2>2 DEF LeaveReset, Lock
      <3> QED  BY <1>0, <3>2, <3>3, <3>4
    <2> QED
      BY <1>0, <2>1, <2>2 DEF Next, Cpu, Hardware, StartXosc, WaitXosc, CheckMuxes, SwitchRef,
        WaitRef, SwitchSysToRef, WaitSysRef, SwitchSysToAux, WaitSysAux, EnableUsb, WaitUsb,
        Stabilise, SelectRef, SelectSys, StartUsb, vars
  <1>4. pc' \in PCs
    <2>1. ASSUME NEW p \in Plls, SetupPll(p) PROVE pc' \in PCs
      <3>1. ASSUME NEW at \in Steps, pc' = Setup(p, at) PROVE pc' \in PCs
        BY <3>1 DEF PCs, Setup, Steps
      <3>2. AfterSetup(p) \in PCs
        BY DEF AfterSetup, PCs, Main
      <3>3. (\E at \in Steps : pc = Setup(p, at))' \/ pc' = AfterSetup(p)
        BY <2>1, SetupMoves DEF InSetup
      <3> QED  BY <3>1, <3>2, <3>3 DEF Setup
    <2>2. pc \in PCs
      BY <1>0 DEF TypeOK
    <2>3. Setup(PllSys, "check") \in PCs /\ Setup(PllUsb, "check") \in PCs
      BY PllNames DEF PCs, Setup
    <2>6. \A at \in {"xosc", "xosc wait", "sys", "ref", "ref wait", "sys ref", "sys ref wait",
                    "sys aux", "sys aux wait", "usb", "usb wait", "ticks", "panic"} :
            Main(at) \in PCs
      BY DEF PCs, Main
    <2>4. CASE Cpu
      BY <2>1, <2>3, <2>6, <2>4
      DEF Cpu, StartXosc, WaitXosc, CheckMuxes, SwitchRef, WaitRef, SwitchSysToRef, WaitSysRef,
          SwitchSysToAux, WaitSysAux, EnableUsb, WaitUsb
    <2>5. CASE Hardware \/ UNCHANGED vars
      BY <2>2, <2>5
      DEF Hardware, Stabilise, SelectRef, SelectSys, StartUsb, LeaveReset, Lock, vars
    <2> QED  BY <2>4, <2>5 DEF Next
  <1>5. /\ left' \in BOOLEAN /\ xosc' \in {"off", "starting", "stable"}
        /\ refCtrl' \subseteq 0..1 /\ refSel' \in {"rosc", "aux", "xosc"}
        /\ sysCtrl' \subseteq {0} \cup (5..7) /\ sysSel' \in {"ref", "aux"}
        /\ usbCtrl' \subseteq (5..7) \cup {11} /\ usbOn' \in BOOLEAN
    <2>0. /\ left \in BOOLEAN /\ xosc \in {"off", "starting", "stable"}
          /\ refCtrl \subseteq 0..1 /\ refSel \in {"rosc", "aux", "xosc"}
          /\ sysCtrl \subseteq {0} \cup (5..7) /\ sysSel \in {"ref", "aux"}
          /\ usbCtrl \subseteq (5..7) \cup {11} /\ usbOn \in BOOLEAN
      BY <1>0 DEF TypeOK
    <2>1. ASSUME NEW p \in Plls, SetupPll(p)
          PROVE  UNCHANGED <<left, xosc, refCtrl, refSel, sysCtrl, sysSel, usbCtrl, usbOn>>
      BY <2>1, SetupMoves
    <2>2. RefSource(refCtrl) \in {"rosc", "aux", "xosc"} /\ SysSource(sysCtrl) \in {"ref", "aux"}
      BY DEF RefSource, SysSource
    <2>3. CASE \E p \in Plls : SetupPll(p)
      BY <2>0, <2>1, <2>3
    <2>4. CASE StartXosc \/ WaitXosc \/ CheckMuxes \/ WaitRef \/ WaitSysRef \/ WaitSysAux \/ WaitUsb
      BY <2>0, <2>4
      DEF StartXosc, WaitXosc, CheckMuxes, WaitRef, WaitSysRef, WaitSysAux, WaitUsb, muxes
    <2>5. CASE SwitchRef
      <3>1. refCtrl' = refCtrl \/ refCtrl' = refCtrl \cup {1}
        BY <2>5 DEF SwitchRef, SetBits, RefWord
      <3>2. UNCHANGED <<left, xosc, refSel, sysCtrl, sysSel, usbCtrl, usbOn>>
        BY <2>5 DEF SwitchRef
      <3>3. refCtrl \subseteq 0..1
        BY <2>0
      <3>4. refCtrl' \subseteq 0..1
        BY <3>1, <3>3, RefBits
      <3> QED  BY <2>0, <3>2, <3>4
    <2>6. CASE SwitchSysToRef \/ SwitchSysToAux
      BY <2>0, <2>6 DEF SwitchSysToRef, SwitchSysToAux, SetBits, XorBits, ClearBits
    <2>7. CASE EnableUsb
      BY <2>0, <2>7 DEF EnableUsb, SetBits
    <2>8. CASE Hardware
      <3>1. (11 \in usbCtrl) \in BOOLEAN
        BY SMT
      <3>2. usbOn' \in BOOLEAN
        BY <2>0, <2>8, <3>1
        DEF Hardware, Stabilise, SelectRef, SelectSys, StartUsb, LeaveReset, Lock
      <3>3. UNCHANGED <<left, refCtrl, sysCtrl, usbCtrl>>
        BY <2>0, <2>8 DEF Hardware, Stabilise, SelectRef, SelectSys, StartUsb, LeaveReset, Lock
      <3>4. refSel' \in {"rosc", "aux", "xosc"} /\ sysSel' \in {"ref", "aux"}
        BY <2>0, <2>2, <2>8
        DEF Hardware, Stabilise, SelectRef, SelectSys, StartUsb, LeaveReset, Lock
      <3>5. xosc' \in {"off", "starting", "stable"}
        BY <2>0, <2>8 DEF Hardware, Stabilise, SelectRef, SelectSys, StartUsb, LeaveReset, Lock
      <3> QED  BY <2>0, <3>2, <3>3, <3>4, <3>5
    <2>9. CASE UNCHANGED vars
      BY <2>0, <2>9 DEF vars, muxes
    <2> QED  BY <2>3, <2>4, <2>5, <2>6, <2>7, <2>8, <2>9 DEF Next, Cpu
  <1>6. TypeOK'
    BY <1>0, <1>1, <1>3, <1>4, <1>5 DEF TypeOK
  <1>7. \A p \in Plls : AcceptedParams(ParamsOf(p))'
    BY <1>2
  <1> QED  BY <1>6, <1>7 DEF TypeInv

(* The registers of the clocks keep to their fields, and the PLLs'         *)
(* parameters to theirs.                                                   *)
THEOREM TypeCorrect == Spec => []TypeOK
  <1>1. TypeInv => TypeOK
    BY DEF TypeInv
  <1> QED  BY <1>1, TypeInitial, TypeStep, PTL DEF Spec

----
(* The life of a PLL: what each step of its setup may rely on.             *)

OscillatorInv == ~InMain({"xosc", "xosc wait"}) => xosc = "stable"

PllInv(p) ==
    LET s == plls[p]
    IN  /\ s.power \/ pc = Setup(p, "power") => WithinVco(s.params)
        /\ s.power \/ InSetup(p, {"dividers", "power"}) => s.reset = "done"
        /\ InSetup(p, {"release", "done", "dividers", "power"}) => ~s.power
        /\ s.power /\ ~s.lock => pc = Setup(p, "lock")
        /\ s.lock => s.power /\ xosc = "stable"
        /\ s.lock /\ ~s.post => InSetup(p, {"lock", "prim", "post"})
        /\ InSetup(p, {"prim", "post"}) \/ Done(p) => s.lock
        /\ pc = Setup(p, "post") \/ Done(p) => s.params = ParamsOf(p)

SetupInv == OscillatorInv /\ \A p \in Plls : PllInv(p)

(* The multiplexers of clk_ref and clk_sys.  That of clk_sys may lag       *)
(* behind its register only while the code waits for it.                   *)
RefInv ==
    /\ refCtrl \in {{}, {1}} /\ refSel \in {"rosc", "xosc"}
    /\ refSel = "xosc" => refCtrl = {1}
    /\ refCtrl = {1} => xosc = "stable"
    /\ Early => refSel = RefSource(refCtrl)
    /\ InSetup(PllSys, Steps) \/ pc = Main("ref") => refSel = "rosc" /\ refCtrl = {}
    /\ InMain({"sys ref", "sys ref wait", "sys aux"}) \/ Late => refSel = "xosc"

SysInv ==
    /\ pc # Main("sys aux wait") => sysSel = SysSource(sysCtrl)
    /\ sysSel = "aux" => 0 \in sysCtrl
    /\ InSetup(PllSys, Steps) \/ Switching => 0 \notin sysCtrl /\ sysSel = "ref"
    /\ Late => 0 \in sysCtrl

(* With the auxiliary source that clk_sys has after a reset.               *)
AuxInv ==
    /\ ExtractBits(sysCtrl, 5, 7) = {}
    /\ 0 \in sysCtrl => plls[PllSys].lock /\ plls[PllSys].post

(* clk_usb, and what a boot loader that has left nothing switched leaves.  *)
UsbInv ==
    /\ InMain({"usb wait", "ticks"}) => ExtractBits(usbCtrl, 5, 7) = {} /\ 11 \in usbCtrl
    /\ pc = Main("ticks") => usbOn
    /\ ~left =>
          /\ ExtractBits(usbCtrl, 5, 7) = {}
          /\ usbOn \/ 11 \in usbCtrl => InMain({"usb wait", "ticks"})
          /\ Early => refSel = "rosc" /\ sysSel = "ref"
          /\ pc # Main("panic")

(* Where the CPU is, it is nowhere else.                                   *)
LEMMA Places ==
    /\ \A a, b : Main(a) = Main(b) => a = b
    /\ \A p, q, a, b : Setup(p, a) = Setup(q, b) => p = q /\ a = b
    /\ \A p \in Plls : \A a, b : Main(a) # Setup(p, b)
  BY DEF Main, Setup, Plls, PllSys, PllUsb

LEMMA LeftWithin ==
    ASSUME NEW q \in LeftParams
    PROVE  WithinVco(q)
  <1>1. /\ q.refdiv \in 1..63 /\ q.fbdiv \in 0..4095
        /\ Accepted(q.refdiv, q.fbdiv, q.post_div1, q.post_div2)
    BY CallsAssumption
  <1> DEFINE r == q.refdiv
             f == q.fbdiv
  <1>2. /\ r \in Nat /\ r >= 1 /\ f \in Nat
        /\ Accepted(r, f, q.post_div1, q.post_div2)
    <2>1. Accepted(r, f, q.post_div1, q.post_div2)
      BY <1>1
    <2>2. r \in 1..63 /\ f \in 0..4095
      BY <1>1
    <2> HIDE DEF r, f
    <2> QED  BY <2>1, <2>2
  <1>3. WithinVco(q) <=>
          /\ RefMin * r <= XoscHz /\ 16 <= f
          /\ VcoMin * r <= XoscHz * f /\ XoscHz * f <= VcoMax * r
    BY DEF WithinVco
  <1> HIDE DEF r, f
  <1>4. r \in 1..XoscHz
    <2>1. RefFreq(r) \in Nat /\ RefFreq(r) * r <= XoscHz
      BY <1>2, Numbers, Quotient DEF RefFreq
    <2>2. r <= RefFreq(r) * r
      BY <1>2, <2>1, Numbers DEF Accepted
    <2> QED  BY <1>2, <2>1, <2>2, Numbers
  <1> QED  BY <1>2, <1>3, <1>4, LimitsHold

LEMMA SetupInitial == Init => SetupInv
  <1> SUFFICES ASSUME Init PROVE SetupInv
    OBVIOUS
  <1>1. pc = Main("xosc") /\ \A p \in Plls : plls[p].lock => xosc = "stable"
    BY DEF Init
  <1>2. OscillatorInv
    BY <1>1 DEF OscillatorInv, InMain
  <1>3. ASSUME NEW p \in Plls PROVE PllInv(p)
    <2>1. ~Done(p) /\ \A at : pc # Setup(p, at)
      BY <1>1, Places, PllNames
      DEF Done, Switching, Late, Enabling, InMain, InSetup
    <2>2. ~InSetup(p, {"release", "done", "dividers", "power"}) /\ ~InSetup(p, {"prim", "post"})
      BY <2>1 DEF InSetup
    <2>3. CASE plls[p] = AtReset("done")
      BY <1>1, <2>1, <2>2, <2>3 DEF PllInv, AtReset, PllState
    <2>4. CASE \E q \in LeftParams : plls[p] = SetUp(q)
      BY <1>1, <2>1, <2>2, <2>4, LeftWithin DEF PllInv, SetUp, PllState
    <2> QED  BY <2>3, <2>4 DEF Init
  <1> QED  BY <1>2, <1>3 DEF SetupInv

(* The steps of a setup keep what is said of their PLL.                    *)
LEMMA SetupOwn ==
    ASSUME TypeInv, SetupInv, NEW p \in Plls, SetupPll(p)
    PROVE  PllInv(p)'
  <1> DEFINE s == plls[p]
  <1>0. /\ PllInv(p) /\ plls \in [Plls -> PllStates] /\ s \in PllStates
        /\ AcceptedParams(ParamsOf(p)) /\ ParamsOf(p)' = ParamsOf(p) /\ xosc' = xosc
    BY SetupMoves DEF SetupInv, TypeInv, TypeOK, ParamsOf
  <1>1. xosc = "stable"
    BY SetupMoves, Places DEF SetupInv, OscillatorInv, InMain, InSetup
  <1>2. ~Done(p)' \/ pc' = AfterSetup(p)
    <2> SUFFICES ASSUME NEW at \in Steps, pc' = Setup(p, at) PROVE ~Done(p)'
      BY SetupMoves DEF InSetup
    <2>1. \A b : pc' # Main(b)
      BY Places
    <2>2. p = PllSys => \A b : pc' # Setup(PllUsb, b)
      BY Places, PllNames
    <2> QED
      BY <2>1, <2>2, PllNames DEF Done, Switching, Late, Enabling, InMain, InSetup
  <1>3. \A at : AfterSetup(p) # Setup(p, at)
    BY Places DEF AfterSetup
  <1> USE <1>0, <1>1, <1>2, <1>3, Places DEF PllInv, InSetup, SetupStep, PllStates
  <1>4. CASE Check(p)
    <2>1. plls'[p] = s
      BY <1>4 DEF Check
    <2>2. CASE AsAsked(p)
      BY <1>4, <2>1, <2>2 DEF Check, AsAsked
    <2>3. CASE ~AsAsked(p)
      BY <1>4, <2>1, <2>3 DEF Check
    <2> QED  BY <2>2, <2>3
  <1>5. CASE Reset(p)
    BY <1>5 DEF Reset, AtReset, PllState
  <1>6. CASE Release(p)
    BY <1>6 DEF Release
  <1>7. CASE WaitReset(p)
    BY <1>7 DEF WaitReset
  <1>8. CASE Divide(p)
    <2>1. WithinVco(Divided(p))
      BY AcceptedWithin DEF Divided, WithinVco, Params
    <2> QED  BY <1>8, <2>1 DEF Divide
  <1>9. CASE Power(p)
    BY <1>9 DEF Power
  <1>10. CASE WaitLock(p)
    BY <1>10 DEF WaitLock, LockSeen
  <1>11. CASE PostDivide(p)
    BY <1>11, AcceptedWithin DEF PostDivide
  <1>12. CASE PowerPost(p)
    BY <1>12 DEF PowerPost
  <1> QED
    BY <1>4, <1>5, <1>6, <1>7, <1>8, <1>9, <1>10, <1>11, <1>12 DEF SetupPll

(* A setup leaves the other PLL alone.                                     *)
LEMMA SetupOther ==
    ASSUME TypeInv, SetupInv, NEW p \in Plls, SetupPll(p), NEW q \in Plls \ {p}
    PROVE  PllInv(q)'
  <1>1. PllInv(q) /\ plls \in [Plls -> PllStates]
    BY DEF SetupInv, TypeInv, TypeOK
  <1>2. plls'[q] = plls[q] /\ ParamsOf(q)' = ParamsOf(q) /\ xosc' = xosc
    BY <1>1, SetupMoves DEF ParamsOf
  <1>3. \A at : pc # Setup(q, at)
    BY SetupMoves, Places DEF InSetup
  <1>4. \A at : pc' # Setup(q, at)
    BY SetupMoves, Places DEF InSetup, AfterSetup
  <1>5. Done(q)' => Done(q)
    <2>1. CASE q = PllSys
      BY <2>1, SetupMoves, PllNames DEF Done, Late
    <2>2. CASE q = PllUsb /\ pc' = AfterSetup(p)
      BY <2>2, PllNames, Places DEF AfterSetup, Done, Enabling, InMain
    <2>3. CASE q = PllUsb /\ InSetup(p, Steps)'
      BY <2>3, PllNames, Places DEF Done, Enabling, InMain, InSetup
    <2> QED  BY <2>1, <2>2, <2>3, SetupMoves, PllNames
  <1> QED
    BY <1>1, <1>2, <1>3, <1>4, <1>5 DEF PllInv, InSetup

MainStep ==
    \/ StartXosc \/ WaitXosc \/ CheckMuxes \/ SwitchRef \/ WaitRef
    \/ SwitchSysToRef \/ WaitSysRef \/ SwitchSysToAux \/ WaitSysAux
    \/ EnableUsb \/ WaitUsb

(* The steps of main and of the switches set up no PLL.                    *)
LEMMA MainMoves ==
    ASSUME MainStep
    PROVE  /\ UNCHANGED <<asked, left, plls>>
           /\ \E at : pc = Main(at)
           /\ (\E at : pc' = Main(at)) \/ (\E p \in Plls : pc' = Setup(p, "check"))
           /\ \A p \in Plls : Done(p)' => Done(p)
           /\ xosc' = xosc \/ (pc = Main("xosc") /\ pc' = Main("xosc wait")
                                  /\ (xosc = "stable" => xosc' = "stable"))
  <1> USE DEF StartXosc, WaitXosc, CheckMuxes, SwitchRef, WaitRef, SwitchSysToRef,
              WaitSysRef, SwitchSysToAux, WaitSysAux, EnableUsb, WaitUsb
  <1>1. UNCHANGED <<asked, left, plls>>
    BY DEF MainStep
  <1>2. \E at : pc = Main(at)
    BY DEF MainStep
  <1>3. (\E at : pc' = Main(at)) \/ (\E p \in Plls : pc' = Setup(p, "check"))
    BY PllNames DEF MainStep
  <1>4. xosc' = xosc \/ (pc = Main("xosc") /\ pc' = Main("xosc wait")
                            /\ (xosc = "stable" => xosc' = "stable"))
    BY DEF MainStep
  <1>5. ASSUME NEW p \in Plls, Done(p)' PROVE Done(p)
    <2> USE Places, PllNames
        DEF Done, Switching, Late, Enabling, InMain, InSetup
    <2>1. CASE StartXosc \/ WaitXosc
      BY <1>5, <2>1
    <2>2. CASE CheckMuxes
      BY <1>5, <2>2
    <2>3. CASE SwitchRef \/ WaitRef
      BY <1>5, <2>3
    <2>4. CASE SwitchSysToRef \/ WaitSysRef \/ SwitchSysToAux
      BY <1>5, <2>4
    <2>5. CASE WaitSysAux
      BY <1>5, <2>5
    <2>6. CASE EnableUsb \/ WaitUsb
      BY <1>5, <2>6
    <2> QED  BY <2>1, <2>2, <2>3, <2>4, <2>5, <2>6 DEF MainStep
  <1> QED  BY <1>1, <1>2, <1>3, <1>4, <1>5

LEMMA SetupStepInv == TypeInv /\ SetupInv /\ [Next]_vars => SetupInv'
  <1> SUFFICES ASSUME TypeInv, SetupInv, [Next]_vars PROVE SetupInv'
    OBVIOUS
  <1>0. plls \in [Plls -> PllStates] /\ \A p \in Plls : PllInv(p)
    BY DEF SetupInv, TypeInv, TypeOK
  <1>1. CASE \E p \in Plls : SetupPll(p)
    <2>1. PICK p \in Plls : SetupPll(p)
      BY <1>1
    <2>2. OscillatorInv'
      <3>1. xosc' = xosc
        BY <2>1, SetupMoves
      <3>2. ~InMain({"xosc", "xosc wait"})
        BY <2>1, SetupMoves, Places DEF InMain, InSetup
      <3> QED  BY <3>1, <3>2 DEF OscillatorInv, SetupInv
    <2> QED  BY <2>1, <2>2, SetupOwn, SetupOther DEF SetupInv
  <1>2. CASE MainStep
    <2>1. OscillatorInv'
      <3>1. ~InMain({"xosc", "xosc wait"})' => xosc' = "stable"
        BY <1>2, MainMoves, Places
        DEF SetupInv, OscillatorInv, InMain, MainStep, WaitXosc, StartXosc, CheckMuxes, SwitchRef,
            WaitRef, SwitchSysToRef, WaitSysRef, SwitchSysToAux, WaitSysAux, EnableUsb, WaitUsb
      <3> QED  BY <3>1 DEF OscillatorInv
    <2>2. ASSUME NEW p \in Plls PROVE PllInv(p)'
      <3>1. plls'[p] = plls[p] /\ ParamsOf(p)' = ParamsOf(p)
        BY <1>2, MainMoves DEF ParamsOf
      <3>2. \A at : pc # Setup(p, at)
        BY <1>2, MainMoves, Places
      <3>3. \A at : at # "check" => pc' # Setup(p, at)
        BY <1>2, MainMoves, Places
      <3>4. xosc = "stable" => xosc' = "stable"
        BY <1>2, MainMoves
      <3>5. Done(p)' => Done(p)
        BY <1>2, MainMoves
      <3> QED
        BY <1>0, <3>1, <3>2, <3>3, <3>4, <3>5 DEF PllInv, InSetup
    <2> QED  BY <2>1, <2>2 DEF SetupInv
  <1>3. CASE Hardware
    <2>1. pc' = pc /\ asked' = asked /\ (xosc = "stable" => xosc' = "stable")
      BY <1>3 DEF Hardware, Stabilise, SelectRef, SelectSys, StartUsb, LeaveReset, Lock
    <2>2. OscillatorInv'
      BY <2>1 DEF SetupInv, OscillatorInv, InMain
    <2>3. ASSUME NEW p \in Plls PROVE PllInv(p)'
      <3> DEFINE s == plls[p]
      <3>1. \/ plls'[p] = s
            \/ plls'[p] = [s EXCEPT !.reset = "done"]
            \/ /\ plls'[p] = [s EXCEPT !.lock = TRUE]
               /\ s.power /\ ~s.lock /\ xosc = "stable"
        BY <1>0, <1>3
        DEF Hardware, Stabilise, SelectRef, SelectSys, StartUsb, LeaveReset, Lock, muxes
      <3>2. /\ plls'[p].power = s.power /\ plls'[p].post = s.post
            /\ plls'[p].params = s.params
            /\ plls'[p].lock = s.lock \/ (plls'[p].lock = TRUE /\ s.power /\ ~s.lock /\ xosc = "stable")
            /\ s.reset = "done" => plls'[p].reset = "done"
        BY <1>0, <3>1 DEF PllStates
      <3>3. ParamsOf(p)' = ParamsOf(p) /\ (Done(p)' <=> Done(p))
            /\ \A steps : InSetup(p, steps)' <=> InSetup(p, steps)
        BY <2>1 DEF ParamsOf, Done, Switching, Late, Enabling, InMain, InSetup
      <3>4. pc = Setup(p, "lock") => InSetup(p, {"lock", "prim", "post"})
        BY DEF InSetup
      <3> QED  BY <1>0, <2>1, <3>2, <3>3, <3>4 DEF PllInv
    <2> QED  BY <2>2, <2>3 DEF SetupInv
  <1>4. CASE UNCHANGED vars
    <2>1. UNCHANGED <<asked, pc, xosc, plls>>
      BY <1>4 DEF vars
    <2> QED
      BY <2>1 DEF SetupInv, OscillatorInv, PllInv, ParamsOf, Done, Switching, Late, Enabling,
        InMain, InSetup
  <1> QED  BY <1>1, <1>2, <1>3, <1>4 DEF Next, Cpu, MainStep

LEMMA SetupInductive == Spec => [](TypeInv /\ SetupInv)
  BY TypeInitial, TypeStep, SetupInitial, SetupStepInv, PTL DEF Spec

(* No PLL runs, or is switched on, outside the limits of its VCO, for any  *)
(* crystal and any parameters that PllParams accepts: their products do    *)
(* not wrap.                                                               *)
THEOREM WithinLimits == Spec => []PllsWithinLimits
  <1>1. SetupInv => PllsWithinLimits
    BY DEF SetupInv, PllInv, PllsWithinLimits
  <1> QED  BY <1>1, SetupInductive, PTL

----
(* The multiplexers.                                                       *)

LEMMA Sources ==
    /\ RefSource({}) = "rosc" /\ RefSource({1}) = "xosc"
    /\ ExtractBits({}, 0, 1) = {} /\ ExtractBits({1}, 0, 1) # {}
  BY DEF RefSource, ExtractBits

LEMMA SysSources ==
    ASSUME NEW c
    PROVE  SysSource(c) = IF 0 \in c THEN "aux" ELSE "ref"
  <1>1. ExtractBits(c, 0, 0) = {} <=> 0 \notin c
    BY DEF ExtractBits
  <1> QED  BY <1>1 DEF SysSource

LEMMA Running ==
    /\ Runs("rosc") /\ (Runs("xosc") <=> xosc = "stable")
    /\ \A p \in Plls : Runs(p) <=> xosc = "stable" /\ plls[p].lock /\ plls[p].post
    /\ ~Runs("aux") /\ ~Runs("other")
  BY DEF Runs, Plls, PllSys, PllUsb

MuxInv == RefInv /\ SysInv

LEMMA MuxInitial == Init => MuxInv
  <1> SUFFICES ASSUME Init PROVE MuxInv
    OBVIOUS
  <1>1. /\ pc = Main("xosc") /\ refCtrl \in {{}, {1}} /\ refSel = RefSource(refCtrl)
        /\ sysSel = SysSource(sysCtrl) /\ Runs(refSel)
    BY DEF Init, ClkRef
  <1>2. /\ \A at \in Steps : pc # Setup(PllSys, at) /\ pc # Setup(PllUsb, at)
        /\ \A at : at # "xosc" => pc # Main(at)
    BY <1>1, Places, PllNames
  <1>3. /\ ~InSetup(PllSys, Steps) /\ ~Switching /\ ~Late /\ pc # Main("ref")
        /\ ~InMain({"sys ref", "sys ref wait", "sys aux"})
    BY <1>2 DEF InSetup, InMain, Switching, Late, Enabling
  <1>4. RefInv
    BY <1>1, <1>3, Sources, Running DEF RefInv
  <1>5. SysInv
    BY <1>1, <1>2, <1>3, SysSources DEF SysInv
  <1> QED  BY <1>4, <1>5 DEF MuxInv

LEMMA MuxStep == TypeInv /\ SetupInv /\ MuxInv /\ [Next]_vars => MuxInv'
  <1> SUFFICES ASSUME TypeInv, SetupInv, MuxInv, [Next]_vars PROVE MuxInv'
    OBVIOUS
  <1>0. RefInv /\ SysInv /\ OscillatorInv
    BY DEF MuxInv, SetupInv
  <1> DEFINE Regs == <<refCtrl, refSel, sysCtrl, sysSel>>
  <1> USE Places, PllNames
  <1>1. CASE \E p \in Plls : SetupPll(p)
    <2>1. PICK p \in Plls : SetupPll(p)
      BY <1>1
    <2>2. UNCHANGED <<xosc, refCtrl, refSel, sysCtrl, sysSel>>
      BY <2>1, SetupMoves
    <2>3. CASE p = PllSys
      <3>1. InSetup(PllSys, Steps) /\ (InSetup(PllSys, Steps)' \/ pc' = Main("ref"))
        BY <2>1, <2>3, SetupMoves DEF AfterSetup
      <3>2. /\ ~Early' /\ ~Late' /\ ~InMain({"sys ref", "sys ref wait", "sys aux"})'
            /\ pc # Main("sys aux wait")
        <4>1. /\ \A at : pc # Main(at)
              /\ pc' = Main("ref") \/ (\A at : pc' # Main(at))
              /\ \A at : pc' # Setup(PllUsb, at)
          BY <3>1 DEF InSetup
        <4> QED  BY <4>1 DEF Early, Late, Enabling, InMain, InSetup
      <3> QED
        BY <1>0, <2>2, <3>1, <3>2, SysSources DEF MuxInv, RefInv, SysInv
    <2>4. CASE p = PllUsb
      <3>1. InSetup(PllUsb, Steps) /\ (InSetup(PllUsb, Steps)' \/ pc' = Main("usb"))
        BY <2>1, <2>4, SetupMoves DEF AfterSetup
      <3>2. /\ ~Early' /\ ~Switching' /\ ~InSetup(PllSys, Steps)' /\ pc' # Main("ref")
            /\ pc # Main("sys aux wait")
            /\ Late /\ Late'
        <4>1. /\ \A at : pc # Main(at)
              /\ pc' = Main("usb") \/ (\A at : pc' # Main(at))
              /\ \A at : pc' # Setup(PllSys, at)
          BY <3>1 DEF InSetup
        <4>2. Late /\ Late'
          BY <3>1 DEF Late, Enabling, InMain
        <4> QED  BY <4>1, <4>2 DEF Early, Switching, InMain, InSetup
      <3> QED
        BY <1>0, <2>2, <3>1, <3>2, SysSources DEF MuxInv, RefInv, SysInv
    <2> QED  BY <2>3, <2>4
  <1>2. CASE StartXosc \/ WaitXosc
    <2>1. Early /\ Early' /\ UNCHANGED Regs /\ (xosc = "stable" => xosc' = "stable")
      BY <1>2 DEF StartXosc, WaitXosc, Early, InMain, muxes
    <2>2. /\ ~InSetup(PllSys, Steps)' /\ ~Switching' /\ ~Late' /\ pc' # Main("ref")
          /\ ~InMain({"sys ref", "sys ref wait", "sys aux"})' /\ pc # Main("sys aux wait")
      BY <2>1 DEF Early, InSetup, InMain, Switching, Late, Enabling
    <2> QED  BY <1>0, <2>1, <2>2 DEF MuxInv, RefInv, SysInv, RefSource, SysSource
  <1>3. CASE CheckMuxes
    <2>1. /\ Early /\ UNCHANGED Regs /\ xosc' = xosc /\ pc # Main("sys aux wait")
          /\ \/ pc' = Main("panic")
             \/ pc' = Setup(PllSys, "check") /\ refSel = "rosc" /\ sysSel = "ref"
      BY <1>3 DEF CheckMuxes, MuxesAtReset, Early, InMain, muxes
    <2>2. /\ ~Early' /\ ~Switching' /\ ~Late' /\ pc' # Main("ref")
          /\ ~InMain({"sys ref", "sys ref wait", "sys aux"})'
          /\ InSetup(PllSys, Steps)' => pc' = Setup(PllSys, "check")
      <3>1. CASE pc' = Main("panic")
        BY <3>1 DEF Early, InSetup, InMain, Switching, Late, Enabling
      <3>2. CASE pc' = Setup(PllSys, "check")
        BY <3>2 DEF Early, InSetup, InMain, Switching, Late, Enabling
      <3> QED  BY <2>1, <3>1, <3>2
    <2> QED
      BY <1>0, <2>1, <2>2, Sources, SysSources DEF MuxInv, RefInv, SysInv
  <1>4. CASE SwitchRef
    <2>1. /\ pc = Main("ref") /\ Switching /\ refCtrl = {} /\ refSel = "rosc"
      BY <1>0, <1>4 DEF SwitchRef, RefInv, Switching, InMain
    <2>2. /\ pc' = Main("ref wait") /\ refCtrl' = {1}
          /\ UNCHANGED <<xosc, refSel, sysCtrl, sysSel>>
      BY <1>4, <2>1, Sources DEF SwitchRef, SetBits, RefWord
    <2>3. /\ ~Early' /\ ~InSetup(PllSys, Steps)' /\ ~Late' /\ pc' # Main("ref") /\ Switching'
          /\ ~InMain({"sys ref", "sys ref wait", "sys aux"})'
          /\ pc # Main("sys aux wait") /\ xosc = "stable"
      BY <1>0, <2>1, <2>2
      DEF Early, InSetup, InMain, Switching, Late, Enabling, OscillatorInv
    <2> QED  BY <1>0, <2>1, <2>2, <2>3, SysSources DEF MuxInv, RefInv, SysInv
  <1>5. CASE WaitRef \/ WaitSysRef
    <2>1. /\ UNCHANGED Regs /\ xosc' = xosc /\ refSel = "xosc" /\ Switching
          /\ pc' = Main("sys ref") \/ pc' = Main("sys aux")
      BY <1>0, <1>5 DEF WaitRef, WaitSysRef, muxes, RefInv, Switching, InMain
    <2>2. /\ ~Early' /\ ~InSetup(PllSys, Steps)' /\ ~Late' /\ pc' # Main("ref") /\ Switching'
          /\ pc # Main("sys aux wait")
      BY <1>5, <2>1
      DEF WaitRef, WaitSysRef, Early, InSetup, InMain, Switching, Late, Enabling
    <2> QED  BY <1>0, <2>1, <2>2, SysSources DEF MuxInv, RefInv, SysInv
  <1>6. CASE SwitchSysToRef
    <2>1. /\ UNCHANGED <<xosc, refCtrl, refSel, sysSel>> /\ Switching
          /\ refSel = "xosc" /\ pc' = Main("sys ref wait") /\ sysCtrl' = sysCtrl \ {0}
      BY <1>0, <1>6 DEF SwitchSysToRef, ClearBits, RefInv, Switching, InMain
    <2>2. /\ ~Early' /\ ~InSetup(PllSys, Steps)' /\ ~Late' /\ pc' # Main("ref") /\ Switching'
      BY <2>1 DEF Early, InSetup, InMain, Switching, Late, Enabling
    <2>3. 0 \notin sysCtrl' /\ sysSel = "ref"
      BY <1>0, <2>1 DEF SysInv
    <2> QED  BY <1>0, <2>1, <2>2, <2>3, SysSources DEF MuxInv, RefInv, SysInv
  <1>7. CASE SwitchSysToAux
    <2>1. /\ UNCHANGED <<xosc, refCtrl, refSel, sysSel>>
          /\ refSel = "xosc" /\ pc' = Main("sys aux wait") /\ 0 \in sysCtrl'
      BY <1>0, <1>7 DEF SwitchSysToAux, SetBits, RefInv, InMain
    <2>2. /\ ~Early' /\ ~InSetup(PllSys, Steps)' /\ ~Switching' /\ pc' # Main("ref")
      BY <2>1 DEF Early, InSetup, InMain, Switching
    <2> QED  BY <1>0, <2>1, <2>2 DEF MuxInv, RefInv, SysInv
  <1>8. CASE WaitSysAux
    <2>1. /\ UNCHANGED Regs /\ xosc' = xosc /\ Late /\ sysSel = "aux"
          /\ pc' = Setup(PllUsb, "check")
      BY <1>8 DEF WaitSysAux, muxes, Late
    <2>2. /\ ~Early' /\ ~InSetup(PllSys, Steps)' /\ ~Switching' /\ pc' # Main("ref")
      BY <2>1 DEF Early, InSetup, InMain, Switching
    <2> QED  BY <1>0, <2>1, <2>2, SysSources DEF MuxInv, RefInv, SysInv
  <1>9. CASE EnableUsb \/ WaitUsb
    <2>1. /\ UNCHANGED Regs /\ xosc' = xosc /\ Late /\ pc # Main("sys aux wait")
          /\ pc' \in {Main("usb wait"), Main("ticks"), Main("panic")}
      BY <1>9 DEF EnableUsb, WaitUsb, muxes, Late, Enabling, InMain
    <2>2. /\ ~Early' /\ ~InSetup(PllSys, Steps)' /\ ~Switching' /\ pc' # Main("ref")
      <3>1. PICK at \in {"usb wait", "ticks", "panic"} : pc' = Main(at)
        BY <2>1
      <3>2. \A p \in Plls : \A b : pc' # Setup(p, b)
        BY <3>1
      <3>3. \A b : pc' = Main(b) => b = at
        BY <3>1
      <3>4. ~Early' /\ ~Switching'
        BY <3>1, <3>3 DEF Early, Switching, InMain
      <3> QED  BY <3>1, <3>2, <3>3, <3>4 DEF InSetup
    <2> QED  BY <1>0, <2>1, <2>2, SysSources DEF MuxInv, RefInv, SysInv
  <1>10. CASE Hardware
    <2>1. /\ pc' = pc /\ UNCHANGED <<refCtrl, sysCtrl>> /\ (xosc = "stable" => xosc' = "stable")
          /\ refSel' = refSel \/ refSel' = RefSource(refCtrl)
          /\ sysSel' = sysSel \/ (sysSel' = SysSource(sysCtrl) /\ sysSel # sysSel')
      BY <1>10
      DEF Hardware, Stabilise, SelectRef, SelectSys, StartUsb, LeaveReset, Lock, muxes
    <2>2. /\ \A steps : InMain(steps)' <=> InMain(steps)
          /\ \A p, steps : InSetup(p, steps)' <=> InSetup(p, steps)
      BY <2>1 DEF InMain, InSetup
    <2>3. (Early' <=> Early) /\ (Late' <=> Late) /\ (Switching' <=> Switching)
      BY <2>1, <2>2 DEF Early, Late, Enabling, Switching
    <2>4. RefInv'
      BY <1>0, <2>1, <2>2, <2>3, Sources DEF RefInv
    <2>5. SysInv'
      BY <1>0, <2>1, <2>2, <2>3, SysSources DEF SysInv
    <2> QED  BY <2>4, <2>5 DEF MuxInv
  <1>11. CASE UNCHANGED vars
    <2>1. UNCHANGED <<pc, xosc, refCtrl, refSel, sysCtrl, sysSel>>
      BY <1>11 DEF vars, muxes
    <2> QED
      BY <2>1 DEF MuxInv, RefInv, SysInv, Early, Late, Enabling, Switching, InMain, InSetup,
        RefSource, SysSource
  <1> QED
    BY <1>1, <1>2, <1>3, <1>4, <1>5, <1>6, <1>7, <1>8, <1>9, <1>10, <1>11 DEF Next, Cpu

----
(* clk_usb, and a boot loader that has left nothing switched.              *)

LEMMA OtherBits ==
    ASSUME NEW c
    PROVE  /\ ExtractBits(SetBits(c, {11}), 5, 7) = ExtractBits(c, 5, 7)
           /\ ExtractBits(ClearBits(c, {0}), 5, 7) = ExtractBits(c, 5, 7)
           /\ ExtractBits(SetBits(SetBits(c, XorBits(c, {}) \cap (5..7)), {0}), 5, 7)
                  = ExtractBits(c, 5, 7)
  BY DEF ExtractBits, SetBits, ClearBits, XorBits

LEMMA UsbInitial == Init => UsbInv
  <1> SUFFICES ASSUME Init PROVE UsbInv
    OBVIOUS
  <1>1. pc = Main("xosc") /\ usbOn = (11 \in usbCtrl)
    BY DEF Init
  <1>2. ~InMain({"usb wait", "ticks"}) /\ pc # Main("ticks") /\ pc # Main("panic")
    BY <1>1, Places DEF InMain
  <1>3. ~left => sysSel = "ref" /\ refSel = "rosc" /\ ~usbOn /\ ClkUsb = PllUsb
    BY DEF Init
  <1>4. ClkUsb = PllUsb => ExtractBits(usbCtrl, 5, 7) = {}
    BY DEF ClkUsb, UsbSource, PllUsb
  <1> QED  BY <1>1, <1>2, <1>3, <1>4 DEF UsbInv

LEMMA UsbStep == TypeInv /\ MuxInv /\ UsbInv /\ [Next]_vars => UsbInv'
  <1> SUFFICES ASSUME TypeInv, MuxInv, UsbInv, [Next]_vars PROVE UsbInv'
    OBVIOUS
  <1>0. UsbInv /\ RefInv /\ SysInv /\ usbOn \in BOOLEAN
    BY DEF MuxInv, TypeInv, TypeOK
  <1> USE Places, PllNames
  <1>1. CASE \E p \in Plls : SetupPll(p)
    <2>1. PICK p \in Plls : SetupPll(p)
      BY <1>1
    <2>2. UNCHANGED <<left, usbCtrl, usbOn>> /\ \A at : pc # Main(at)
      BY <2>1, SetupMoves DEF InSetup
    <2>3. \A at : pc' = Main(at) => at \in {"ref", "usb"}
      BY <2>1, SetupMoves DEF InSetup, AfterSetup
    <2>4. ~InMain({"usb wait", "ticks"}) /\ ~InMain({"usb wait", "ticks"})' /\ ~Early'
          /\ pc' # Main("ticks") /\ pc' # Main("panic")
      BY <2>2, <2>3 DEF InMain, Early
    <2> QED  BY <1>0, <2>2, <2>4 DEF UsbInv
  <1>2. CASE StartXosc \/ WaitXosc
    <2>1. /\ UNCHANGED <<left, refSel, sysSel, usbCtrl, usbOn>> /\ Early
          /\ pc' = Main("xosc wait") \/ pc' = Main("sys")
      BY <1>2 DEF StartXosc, WaitXosc, muxes, Early, InMain
    <2>2. ~InMain({"usb wait", "ticks"})' /\ pc' # Main("ticks") /\ pc' # Main("panic")
          /\ ~InMain({"usb wait", "ticks"})
      BY <2>1 DEF InMain, Early
    <2> QED  BY <1>0, <2>1, <2>2 DEF UsbInv
  <1>3. CASE CheckMuxes
    <2>1. UNCHANGED <<left, usbCtrl, usbOn>> /\ Early
      BY <1>3 DEF CheckMuxes, muxes, Early, InMain
    <2>2. ~left => pc' = Setup(PllSys, "check")
      BY <1>0, <1>3, <2>1 DEF CheckMuxes, MuxesAtReset, UsbInv
    <2>3. pc' = Setup(PllSys, "check") \/ pc' = Main("panic")
      BY <1>3 DEF CheckMuxes
    <2>4. ~InMain({"usb wait", "ticks"})' /\ pc' # Main("ticks") /\ ~Early'
          /\ ~InMain({"usb wait", "ticks"}) /\ (~left => pc' # Main("panic"))
      BY <2>1, <2>2, <2>3 DEF InMain, Early
    <2> QED  BY <1>0, <2>1, <2>4 DEF UsbInv
  <1>4. CASE SwitchRef \/ WaitRef \/ SwitchSysToRef \/ WaitSysRef \/ SwitchSysToAux \/ WaitSysAux
    <2>1. UNCHANGED <<left, usbCtrl, usbOn>>
      BY <1>4 DEF SwitchRef, WaitRef, SwitchSysToRef, WaitSysRef, SwitchSysToAux, WaitSysAux, muxes
    <2>2. ~InMain({"usb wait", "ticks"})
      BY <1>4
      DEF SwitchRef, WaitRef, SwitchSysToRef, WaitSysRef, SwitchSysToAux, WaitSysAux, InMain
    <2>3. pc' # Main("panic")
      BY <1>0, <1>4, Sources
      DEF SwitchRef, WaitRef, SwitchSysToRef, WaitSysRef, SwitchSysToAux, WaitSysAux, RefInv
    <2>4. ~Early' /\ ~InMain({"usb wait", "ticks"})' /\ pc' # Main("ticks")
      BY <1>4, <2>3
      DEF SwitchRef, WaitRef, SwitchSysToRef, WaitSysRef, SwitchSysToAux, WaitSysAux, InMain, Early
    <2> QED  BY <1>0, <2>1, <2>2, <2>3, <2>4 DEF UsbInv
  <1>5. CASE EnableUsb
    <2>1. UNCHANGED <<left, usbOn>> /\ pc = Main("usb")
      BY <1>5 DEF EnableUsb
    <2>2. ~InMain({"usb wait", "ticks"})
      BY <2>1 DEF InMain
    <2>3. ~left => UsbAtReset
      BY <1>0, <2>2 DEF UsbInv, UsbAtReset
    <2>4. CASE UsbAtReset
      <3>1. pc' = Main("usb wait") /\ usbCtrl' = SetBits(usbCtrl, {11})
        BY <1>5, <2>4 DEF EnableUsb
      <3>2. ExtractBits(usbCtrl', 5, 7) = {} /\ 11 \in usbCtrl'
        BY <2>4, <3>1, OtherBits DEF UsbAtReset, SetBits
      <3>3. InMain({"usb wait", "ticks"})' /\ ~Early' /\ pc' # Main("panic") /\ pc' # Main("ticks")
        BY <3>1 DEF InMain, Early
      <3> QED  BY <3>2, <3>3 DEF UsbInv
    <2>5. CASE ~UsbAtReset
      <3>1. pc' = Main("panic") /\ left
        BY <1>5, <2>3, <2>5 DEF EnableUsb
      <3>2. ~InMain({"usb wait", "ticks"})' /\ pc' # Main("ticks")
        BY <3>1 DEF InMain
      <3> QED  BY <2>1, <3>1, <3>2 DEF UsbInv
    <2> QED  BY <2>4, <2>5
  <1>6. CASE WaitUsb
    <2>1. /\ UNCHANGED <<left, usbCtrl, usbOn>> /\ usbOn
          /\ pc = Main("usb wait") /\ pc' = Main("ticks")
      BY <1>6 DEF WaitUsb, muxes
    <2>2. InMain({"usb wait", "ticks"}) /\ InMain({"usb wait", "ticks"})' /\ ~Early'
          /\ pc' # Main("panic")
      BY <2>1 DEF InMain, Early
    <2> QED  BY <1>0, <2>1, <2>2 DEF UsbInv
  <1>7. CASE Hardware
    <2>1. /\ pc' = pc /\ UNCHANGED <<left, usbCtrl>>
          /\ usbOn' = usbOn \/ (usbOn # usbOn' /\ usbOn' = (11 \in usbCtrl))
          /\ refSel' = refSel \/ refSel' = RefSource(refCtrl)
          /\ sysSel' = sysSel \/ sysSel' = SysSource(sysCtrl)
      BY <1>7 DEF Hardware, Stabilise, SelectRef, SelectSys, StartUsb, LeaveReset, Lock, muxes
    <2>2. (InMain({"usb wait", "ticks"})' <=> InMain({"usb wait", "ticks"})) /\ (Early' <=> Early)
      BY <2>1 DEF InMain, Early
    <2>3. pc = Main("ticks") => 11 \in usbCtrl /\ usbOn
      BY <1>0 DEF UsbInv, InMain
    <2>4. pc' = Main("ticks") => usbOn'
      <3>1. CASE usbOn' = usbOn
        BY <2>1, <2>3, <3>1
      <3>2. CASE usbOn' = (11 \in usbCtrl)
        BY <2>1, <2>3, <3>2
      <3> QED  BY <2>1, <3>1, <3>2
    <2>5. Early => refSel' = refSel /\ sysSel' = sysSel
      BY <1>0, <2>1 DEF RefInv, SysInv, Early, InMain
    <2>6. usbOn' => usbOn \/ 11 \in usbCtrl
      BY <2>1
    <2> QED  BY <1>0, <2>1, <2>2, <2>4, <2>5, <2>6 DEF UsbInv
  <1>8. CASE UNCHANGED vars
    <2>1. UNCHANGED <<pc, left, refSel, sysSel, usbCtrl, usbOn>>
      BY <1>8 DEF vars, muxes
    <2> QED  BY <2>1 DEF UsbInv, Early, InMain
  <1> QED
    BY <1>1, <1>2, <1>3, <1>4, <1>5, <1>6, <1>7, <1>8 DEF Next, Cpu

BootInv == TypeInv /\ SetupInv /\ MuxInv /\ UsbInv

LEMMA BootInductive == Spec => []BootInv
  <1>1. Init => BootInv
    BY TypeInitial, SetupInitial, MuxInitial, UsbInitial DEF BootInv
  <1>2. BootInv /\ [Next]_vars => BootInv'
    BY TypeStep, SetupStepInv, MuxStep, UsbStep DEF BootInv
  <1> QED  BY <1>1, <1>2, PTL DEF Spec

(* An assertion fails only where a boot loader has left clk_ref, clk_sys   *)
(* or clk_usb switched.                                                    *)
THEOREM PanicsOnlyIfLeft == Spec => []PanicsIfLeft
  <1>1. BootInv => PanicsIfLeft
    BY DEF BootInv, UsbInv, PanicsIfLeft
  <1> QED  BY <1>1, BootInductive, PTL

(* The VCO of PLL_SYS runs no faster than was asked for, and less than a   *)
(* step of the feedback divider slower, for any frequency asked for.       *)
THEOREM VcoAsAsked == Spec => []VcoReached
  <1>1. BootInv => VcoReached
    <2> SUFFICES ASSUME BootInv, pc = Main("ticks"), asked[PllSys].by = "from_vco"
                 PROVE  LET q == plls[PllSys].params
                            vco == asked[PllSys].arg
                        IN  /\ XoscHz * q.fbdiv <= vco * q.refdiv
                            /\ vco * q.refdiv < XoscHz * (q.fbdiv + 1)
      BY DEF VcoReached
    <2>1. Done(PllSys)
      BY DEF Done, Late, Enabling, InMain
    <2>2. plls[PllSys].params = Call(asked[PllSys])
      BY <2>1, PllNames DEF BootInv, SetupInv, PllInv, ParamsOf
    <2>3. asked[PllSys] \in Calls /\ AcceptedParams(Call(asked[PllSys]))
      BY PllNames DEF BootInv, TypeInv, TypeOK, ParamsOf
    <2>4. Call(asked[PllSys]) # Rejected
      BY <2>3 DEF AcceptedParams, Rejected, Params
    <2> QED  BY <2>2, <2>3, <2>4, VcoRounded
  <1> QED  BY <1>1, BootInductive, PTL

----
(* With the auxiliary source that clk_sys has after a reset, which the     *)
(* write that is meant for it leaves alone.                                *)

AuxReset == LeftAuxes \subseteq {{}}

LEMMA AuxInitial == AuxReset /\ Init => AuxInv
  <1> SUFFICES ASSUME AuxReset, Init PROVE AuxInv
    OBVIOUS
  <1>1. sysCtrl \in {{}, {0}} /\ sysSel = SysSource(sysCtrl) /\ Runs(ClkSys)
    <2>1. PICK e \in {{}, {0}}, aux \in LeftAuxes : sysCtrl = e \cup {5 + b : b \in aux}
      BY DEF Init
    <2>2. aux = {}
      BY DEF AuxReset
    <2> QED  BY <2>1, <2>2 DEF Init
  <1>2. ExtractBits(sysCtrl, 5, 7) = {}
    BY <1>1 DEF ExtractBits
  <1>3. AuxSource(sysCtrl) = PllSys
    BY <1>2 DEF AuxSource
  <1>4. 0 \in sysCtrl => ClkSys = PllSys
    BY <1>1, <1>3, SysSources DEF ClkSys
  <1> QED  BY <1>1, <1>2, <1>4, Running, PllNames DEF AuxInv

(* What a step does to a PLL that is not being set up and has locked.      *)
LEMMA LockedStays ==
    ASSUME BootInv, [Next]_vars, NEW p \in Plls, ~InSetup(p, Steps), plls[p].lock
    PROVE  plls'[p] = plls[p]
  <1>0. PllInv(p) /\ plls \in [Plls -> PllStates]
    BY DEF BootInv, SetupInv, TypeInv, TypeOK
  <1>1. plls[p].power /\ plls[p].reset = "done"
    BY <1>0 DEF PllInv
  <1>2. CASE \E q \in Plls : SetupPll(q)
    <2>1. PICK q \in Plls : SetupPll(q)
      BY <1>2
    <2>2. q # p
      BY <2>1, SetupMoves
    <2> QED  BY <1>0, <2>1, <2>2, SetupMoves
  <1>3. CASE MainStep
    BY <1>3, MainMoves
  <1>4. CASE Hardware
    <2>1. CASE Stabilise \/ SelectRef \/ SelectSys \/ StartUsb
      BY <2>1 DEF Stabilise, SelectRef, SelectSys, StartUsb
    <2>2. CASE \E q \in Plls : LeaveReset(q) \/ Lock(q)
      BY <1>0, <1>1, <2>2 DEF LeaveReset, Lock
    <2> QED  BY <1>4, <2>1, <2>2 DEF Hardware
  <1>5. CASE UNCHANGED vars
    BY <1>5 DEF vars
  <1> QED  BY <1>2, <1>3, <1>4, <1>5 DEF Next, Cpu, MainStep

LEMMA SysCtrlMoves ==
    ASSUME [Next]_vars
    PROVE  \/ sysCtrl' = sysCtrl
           \/ sysCtrl' = ClearBits(sysCtrl, {0})
           \/ /\ pc = Main("sys aux")
              /\ sysCtrl' = SetBits(SetBits(sysCtrl, XorBits(sysCtrl, {}) \cap (5..7)), {0})
  <1>1. CASE \E p \in Plls : SetupPll(p)
    BY <1>1, SetupMoves
  <1>2. CASE MainStep
    BY <1>2
    DEF MainStep, StartXosc, WaitXosc, CheckMuxes, SwitchRef, WaitRef, SwitchSysToRef,
        WaitSysRef, SwitchSysToAux, WaitSysAux, EnableUsb, WaitUsb, muxes
  <1>3. CASE Hardware
    BY <1>3 DEF Hardware, Stabilise, SelectRef, SelectSys, StartUsb, LeaveReset, Lock, muxes
  <1>4. CASE UNCHANGED vars
    BY <1>4 DEF vars, muxes
  <1> QED  BY <1>1, <1>2, <1>3, <1>4 DEF Next, Cpu, MainStep

LEMMA AuxStep == BootInv /\ AuxInv /\ [Next]_vars => AuxInv'
  <1> SUFFICES ASSUME BootInv, AuxInv, [Next]_vars PROVE AuxInv'
    OBVIOUS
  <1> USE Places, PllNames
  <1>1. ExtractBits(sysCtrl', 5, 7) = {}
    BY SysCtrlMoves, OtherBits DEF AuxInv
  <1>2. ASSUME 0 \in sysCtrl'
        PROVE  plls[PllSys].lock /\ plls[PllSys].post /\ ~InSetup(PllSys, Steps)
    <2>1. CASE 0 \in sysCtrl
      BY <2>1 DEF AuxInv, BootInv, MuxInv, SysInv
    <2>2. CASE pc = Main("sys aux")
      <3>1. Done(PllSys) /\ ~InSetup(PllSys, Steps)
        BY <2>2 DEF Done, Switching, InMain, InSetup
      <3>2. ~InSetup(PllSys, {"lock", "prim", "post"})
        BY <2>2 DEF InSetup
      <3> QED  BY <3>1, <3>2 DEF BootInv, SetupInv, PllInv
    <2> QED  BY <1>2, <2>1, <2>2, SysCtrlMoves DEF ClearBits
  <1>3. 0 \in sysCtrl' => plls'[PllSys].lock /\ plls'[PllSys].post
    BY <1>2, LockedStays
  <1> QED  BY <1>1, <1>3 DEF AuxInv

LEMMA AuxInductive == ASSUME AuxReset PROVE Spec => [](BootInv /\ AuxInv)
  <1>1. Init => BootInv /\ AuxInv
    BY TypeInitial, SetupInitial, MuxInitial, UsbInitial, AuxInitial DEF BootInv
  <1>2. BootInv /\ AuxInv /\ [Next]_vars => (BootInv /\ AuxInv)'
    BY TypeStep, SetupStepInv, MuxStep, UsbStep, AuxStep DEF BootInv
  <1> QED  BY <1>1, <1>2, PTL DEF Spec

(* What clk_sys runs from when it is not clk_ref.                          *)
LEMMA AuxIsPllSys ==
    ASSUME BootInv, AuxInv, sysSel = "aux"
    PROVE  /\ ClkSys = PllSys
           /\ plls[PllSys].lock /\ plls[PllSys].post /\ xosc = "stable"
           /\ ~InSetup(PllSys, Steps)
  <1>1. ClkSys = PllSys
    BY DEF ClkSys, AuxSource, AuxInv
  <1>2. plls[PllSys].lock /\ plls[PllSys].post /\ ~InSetup(PllSys, Steps)
    BY DEF AuxInv, BootInv, MuxInv, SysInv
  <1>3. xosc = "stable"
    BY <1>2, PllNames DEF BootInv, SetupInv, PllInv
  <1> QED  BY <1>1, <1>2, <1>3

(* The CPU is always clocked, provided that no boot loader has left        *)
(* another auxiliary source selected: clk_sys and clk_ref are switched to  *)
(* running sources only.                                                   *)
THEOREM AlwaysClocked == ASSUME AuxReset PROVE Spec => []CpuClocked
  <1>1. BootInv /\ AuxInv => CpuClocked
    <2> SUFFICES ASSUME BootInv, AuxInv PROVE CpuClocked
      OBVIOUS
    <2>1. refSel \in {"rosc", "xosc"} /\ (refSel = "xosc" => xosc = "stable")
      BY DEF BootInv, MuxInv, RefInv
    <2>2. Runs(ClkRef)
      BY <2>1, Running DEF ClkRef
    <2>3. CASE sysSel = "ref"
      BY <2>2, <2>3 DEF CpuClocked, ClkSys
    <2>4. CASE sysSel = "aux"
      BY <2>2, <2>4, AuxIsPllSys, Running, PllNames DEF CpuClocked
    <2> QED  BY <2>3, <2>4 DEF BootInv, TypeInv, TypeOK
  <1> QED  BY <1>1, AuxInductive, PTL

(* No step changes a PLL that clk_sys or clk_usb runs from, or the         *)
(* auxiliary source of a clock that is switched to it.                     *)
THEOREM Glitchless == ASSUME AuxReset PROVE Spec => NoGlitch
  <1>1. BootInv /\ AuxInv /\ (BootInv /\ AuxInv)' /\ [Next]_vars
          => [ /\ sysSel = "aux" /\ sysSel' = "aux" =>
                     ClkSys' = ClkSys /\ plls[ClkSys]' = plls[ClkSys]
               /\ usbOn /\ usbOn' /\ ~left =>
                     ClkUsb' = ClkUsb /\ plls[ClkUsb]' = plls[ClkUsb] ]_vars
    <2> SUFFICES ASSUME BootInv, AuxInv, (BootInv /\ AuxInv)', [Next]_vars
                 PROVE  /\ sysSel = "aux" /\ sysSel' = "aux" =>
                              ClkSys' = ClkSys /\ plls[ClkSys]' = plls[ClkSys]
                        /\ usbOn /\ usbOn' /\ ~left =>
                              ClkUsb' = ClkUsb /\ plls[ClkUsb]' = plls[ClkUsb]
      OBVIOUS
    <2>1. ASSUME sysSel = "aux", sysSel' = "aux"
          PROVE  ClkSys' = ClkSys /\ plls[ClkSys]' = plls[ClkSys]
      <3>1. ClkSys = PllSys /\ plls'[PllSys] = plls[PllSys]
        BY <2>1, AuxIsPllSys, LockedStays, PllNames
      <3>2. ClkSys' = PllSys
        BY <2>1 DEF ClkSys, AuxSource, AuxInv
      <3> QED  BY <3>1, <3>2
    <2>2. ASSUME usbOn, usbOn', ~left
          PROVE  ClkUsb' = ClkUsb /\ plls[ClkUsb]' = plls[ClkUsb]
      <3>1. left' = left
        BY SetupMoves, MainMoves
        DEF Next, Cpu, MainStep, Hardware, Stabilise, SelectRef, SelectSys, StartUsb, LeaveReset,
            Lock, vars
      <3>2. ClkUsb = PllUsb /\ ClkUsb' = PllUsb
        BY <2>2, <3>1 DEF BootInv, UsbInv, ClkUsb, UsbSource
      <3>3. InMain({"usb wait", "ticks"})
        BY <2>2 DEF BootInv, UsbInv
      <3>4. Done(PllUsb) /\ ~InSetup(PllUsb, Steps)
        BY <3>3, Places, PllNames DEF Done, Enabling, InMain, InSetup
      <3>5. plls'[PllUsb] = plls[PllUsb]
        BY <3>4, LockedStays, PllNames DEF BootInv, SetupInv, PllInv
      <3> QED  BY <3>2, <3>5
    <2> QED  BY <2>1, <2>2
  <1> QED  BY <1>1, AuxInductive, PTL DEF Spec, NoGlitch

(* What the clocks are when the bring-up has ended.                        *)
LEMMA BroughtUp ==
    ASSUME BootInv, AuxInv, pc = Main("ticks")
    PROVE  /\ refSel = "xosc" /\ xosc = "stable" /\ usbOn
           /\ sysSel = "aux" /\ ClkSys = PllSys /\ ClkUsb = PllUsb
           /\ \A p \in Plls : /\ plls[p].lock /\ plls[p].post
                              /\ plls[p].params = ParamsOf(p)
                              /\ AcceptedParams(ParamsOf(p))
                              /\ RunsAt(plls[p].params, OutFreq(ParamsOf(p)))
  <1> USE Places, PllNames
  <1>1. /\ Late /\ pc # Main("sys aux wait") /\ InMain({"usb wait", "ticks"})
        /\ \A p \in Plls : Done(p) /\ ~InSetup(p, {"lock", "prim", "post"})
    BY DEF Late, Enabling, Done, InMain, InSetup
  <1>2. refSel = "xosc" /\ xosc = "stable" /\ usbOn
    BY <1>1 DEF BootInv, MuxInv, RefInv, UsbInv
  <1>3. sysSel = "aux" /\ ClkUsb = PllUsb
    BY <1>1, SysSources DEF BootInv, MuxInv, SysInv, UsbInv, ClkUsb, UsbSource
  <1>4. ClkSys = PllSys
    BY <1>3, AuxIsPllSys
  <1>5. ASSUME NEW p \in Plls
        PROVE  /\ plls[p].lock /\ plls[p].post /\ plls[p].params = ParamsOf(p)
               /\ AcceptedParams(ParamsOf(p))
    BY <1>1 DEF BootInv, SetupInv, PllInv, TypeInv
  <1> QED  BY <1>2, <1>3, <1>4, <1>5, AcceptedFrequency

(* When the clocks are up they run as the rest of the firmware takes them, *)
(* for any crystal and any parameters that are accepted.                   *)
THEOREM BroughtUpAsPlanned == ASSUME AuxReset PROVE Spec => []ClocksAsPlanned
  <1>1. BootInv /\ AuxInv => ClocksAsPlanned
    BY BroughtUp, Running, PllNames DEF ClocksAsPlanned, ClkRef
  <1> QED  BY <1>1, AuxInductive, PTL

================================================================================
