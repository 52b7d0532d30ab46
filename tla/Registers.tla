------------------------------ MODULE Registers ------------------------------
(***************************************************************************)
(* Registers of src/src/common.rs and the words written to them.  A word   *)
(* is the set of its bits that are 1.                                      *)
(***************************************************************************)
EXTENDS Integers

(* The aliases of AliasedRegister: one write each, that leaves the bits it *)
(* does not name as they are.                                              *)
SetBits(register, bits) == register \cup bits
ClearBits(register, bits) == register \ bits
XorBits(register, bits) == (register \ bits) \cup (bits \ register)

(* extract_bits: the bits first..last, moved down to bit 0.                *)
ExtractBits(word, first, last) == {b - first : b \in word \cap (first..last)}

(* The argument with which a window of 16 bits of MEIEA or MEIFA is set or *)
(* cleared: the number of the window in its low half, and in its high half *)
(* the bits, given from that of IRQ n on.                                  *)
WindowSelect(n, bits) == [ window |-> n \div 16, bits |-> {b + (n % 16) : b \in bits} ]

(* The IRQs that such a word selects, as the core takes it.                *)
Selected(select) == {16 * select.window + b : b \in select.bits \cap (0..15)}

==============================================================================
