------------------------------ MODULE PllParams ------------------------------
(***************************************************************************)
(* PllParams of src/src/clocks.rs: the arithmetic of u32 with which the    *)
(* parameters of a PLL are computed and accepted, and what follows for the *)
(* frequencies of the clocks.                                              *)
(***************************************************************************)
EXTENDS Integers

CONSTANTS
    XoscHz,  \* the crystal: 12 000 000
    RefMin,  \* REF_MIN: 5 000 000
    VcoMin,  \* VCO_MIN: 750 000 000
    VcoMax,  \* VCO_MAX: 1 600 000 000
    Values   \* values of a u32: 2^32

ASSUME PllAssumption ==
    /\ {XoscHz, RefMin, VcoMin, VcoMax, Values} \subseteq Nat \ {0}
    /\ XoscHz * 320 < Values
    /\ VcoMax < Values
    \* REF_MIN keeps refdiv within its six bits.
    /\ XoscHz < 64 * RefMin

RefFreq(refdiv) == XoscHz \div refdiv

(* REF_MIN admits reference dividers by which the crystal divides evenly.  *)
ASSUME CrystalAssumption ==
    \A refdiv \in 1..XoscHz : RefMin <= RefFreq(refdiv) => RefFreq(refdiv) * refdiv = XoscHz

(* The VCO's frequency as a u32 has it.                                    *)
VcoFreq(refdiv, fbdiv) == (RefFreq(refdiv) * fbdiv) % Values

(* A faulty variant of Accepted: without the limits of fbdiv.              *)
AcceptedAnyFbdiv(refdiv, fbdiv, div1, div2) ==
    /\ RefMin <= RefFreq(refdiv)
    /\ RefFreq(refdiv) <= VcoFreq(refdiv, fbdiv) \div 16
    /\ VcoMin <= VcoFreq(refdiv, fbdiv) /\ VcoFreq(refdiv, fbdiv) <= VcoMax
    /\ div1 \in 1..7 /\ div2 \in 1..7

(* PllParams::new returns Some.                                            *)
Accepted(refdiv, fbdiv, div1, div2) ==
    /\ 16 <= fbdiv /\ fbdiv <= 320
    /\ RefMin <= RefFreq(refdiv)
    /\ RefFreq(refdiv) <= VcoFreq(refdiv, fbdiv) \div 16
    /\ VcoMin <= VcoFreq(refdiv, fbdiv) /\ VcoFreq(refdiv, fbdiv) <= VcoMax
    /\ 1 <= div1 /\ div1 <= 7
    /\ 1 <= div2 /\ div2 <= 7

(* A faulty variant of FbdivOf: rounded up.                                *)
FbdivRoundedUp(refdiv, vco) == vco \div RefFreq(refdiv) + 1

(* The feedback divider from_vco asks new for.                             *)
FbdivOf(refdiv, vco) == vco \div RefFreq(refdiv)

Params(refdiv, fbdiv, div1, div2) ==
    [ refdiv |-> refdiv, fbdiv |-> fbdiv, post_div1 |-> div1, post_div2 |-> div2 ]

(* None, and what new and from_vco return.                                 *)
Rejected == Params(0, 0, 0, 0)

New(refdiv, fbdiv, div1, div2) ==
    IF Accepted(refdiv, fbdiv, div1, div2)
      THEN Params(refdiv, fbdiv, div1, div2)
      ELSE Rejected

FromVco(refdiv, vco, div1, div2) == New(refdiv, FbdivOf(refdiv, vco), div1, div2)

(* f_out_post_div_hz.                                                      *)
OutFreq(p) ==
    (VcoFreq(p.refdiv, p.fbdiv) \div ((p.post_div1 * p.post_div2) % Values))

==============================================================================
