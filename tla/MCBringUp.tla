------------------------------ MODULE MCBringUp ------------------------------
(***************************************************************************)
(* The clocks for TLC, in units of 100 kHz: the parameters of the firmware *)
(* and others at the limits of what is accepted.  A boot loader may have   *)
(* set a PLL up as the firmware will, with other post dividers, or with    *)
(* another feedback divider.                                               *)
(***************************************************************************)
EXTENDS BringUp

FirmwareCalls ==
    { [ by |-> "from_vco", refdiv |-> 1, arg |-> 15000, div1 |-> 5, div2 |-> 2 ],
      [ by |-> "from_vco", refdiv |-> 1, arg |-> 12000, div1 |-> 5, div2 |-> 5 ] }

(* Products with a feedback divider of 458, 1200 or 30000 wrap, two of     *)
(* them to within the limits of the VCO; frequencies that are no multiple  *)
(* of the reference; post dividers outside and at their limits.            *)
MCCalls ==
    FirmwareCalls
    \cup [ by : {"new"}, refdiv : {1, 2}, arg : {15, 63, 320, 321, 458, 1200, 30000},
           div1 : {1, 7}, div2 : {1} ]
    \cup [ by : {"from_vco"}, refdiv : {1, 2, 3}, arg : {7499, 8000, 16119, 42940},
           div1 : {3}, div2 : {0, 2, 8} ]

MCLeftParams == {FromVco(1, 15000, 5, 2), Params(1, 125, 6, 2), Params(1, 100, 2, 2)}
AuxesAtReset == {{}}

==============================================================================
