------------------------ MODULE ConfigDescriptorProofs ------------------------
(***************************************************************************)
(* Theorems about ConfigDescriptor, for every length a host may ask for.   *)
(***************************************************************************)
EXTENDS ConfigDescriptor, SequenceTheorems, TLAPS

Slice == [ at : Nat, length : 0..64 ]

(* Slice i as far as config_desc_packet has a slice there: it fills a      *)
(* packet or reaches the end of what is due.                               *)
SliceInv(i) ==
    /\ slices[i].at = 64 * (i - 1)
    /\ slices[i].length = 64 \/ slices[i].at + slices[i].length = Due
    /\ slices[i].at + slices[i].length <= Due
    /\ i < Len(slices) => slices[i].length = 64

(* The parts are numbered without wrapping around, and the one due is the  *)
(* one after the last that was sent.                                       *)
CutInv ==
    /\ total \in Nat
    /\ slices \in Seq(Slice)
    /\ \A i \in 1..Len(slices) : SliceInv(i)
    /\ slices = <<>> => part = 0
    /\ slices # <<>> => part = IF slices[Len(slices)].length = 64 THEN Len(slices) ELSE 0

----
(* A part that starts within what is due.                                  *)
LEMMA Cut ==
    ASSUME NEW t \in Nat, NEW p \in Nat, NEW due, due = LesserOf(t, WTotalLength),
           64 * p <= due, NEW s, s = ConfigDescPacket(WTotalLength, t, p)
    PROVE  /\ s \in Slice /\ s.at = 64 * p
           /\ s.length = 64 \/ s.at + s.length = due
           /\ s.at + s.length <= due
           /\ NextPart(s, p) = IF s.length = 64 THEN p + 1 ELSE 0
  <1> DEFINE start == p * 64
             end == LesserOf(LesserOf(start + 64, t), WTotalLength)
  <1>1. start \in Nat /\ WTotalLength \in Nat /\ WTotalLength < 256 * 64
    BY DescriptorSizeAssumption
  <1>2. /\ end \in Nat /\ start <= end /\ end <= start + 64 /\ end <= due
        /\ end = start + 64 \/ end = due
    BY <1>1 DEF LesserOf
  <1>3. s = [ at |-> start, length |-> end - start ]
    BY <1>1, <1>2 DEF ConfigDescPacket
  <1>4. start = 64 * p /\ due \in Nat /\ due <= WTotalLength
    BY <1>1 DEF LesserOf
  <1> HIDE DEF start, end
  <1>5. s \in Slice /\ s.at = start /\ s.length = end - start /\ s.length \in 0..64
    BY <1>1, <1>2, <1>3 DEF Slice
  <1>6. s.length = 64 => p + 1 \in 0..255
    <2> SUFFICES ASSUME s.length = 64 PROVE p + 1 \in 0..255
      OBVIOUS
    <2>1. end = start + 64
      BY <1>1, <1>2, <1>5
    <2> QED  BY <1>1, <1>2, <1>4, <2>1
  <1>7. NextPart(s, p) = IF s.length = 64 THEN p + 1 ELSE 0
    BY <1>6 DEF NextPart
  <1> QED  BY <1>1, <1>2, <1>4, <1>5, <1>7

LEMMA SendKeeps ==
    ASSUME CutInv, NEW p \in Nat, p = Len(slices), Send(total, p), total' = total,
           p # 0 => slices[p].length = 64
    PROVE  CutInv'
  <1> PICK s : s = ConfigDescPacket(WTotalLength, total, p)
    OBVIOUS
  <1>1. 64 * p <= Due
    <2>1. CASE p = 0
      BY <2>1, DescriptorSizeAssumption DEF CutInv, Due, LesserOf
    <2>2. CASE p # 0
      <3>1. p \in 1..Len(slices)
        BY <2>2
      <3> QED  BY <2>2, <3>1 DEF CutInv, SliceInv
    <2> QED  BY <2>1, <2>2
  <1>2. /\ s \in Slice /\ s.at = 64 * p
        /\ s.length = 64 \/ s.at + s.length = Due
        /\ s.at + s.length <= Due
        /\ NextPart(s, p) = IF s.length = 64 THEN p + 1 ELSE 0
    <2>1. total \in Nat /\ Due = LesserOf(total, WTotalLength)
      BY DEF CutInv, Due
    <2>2. 64 * p <= LesserOf(total, WTotalLength)
      BY <1>1, <2>1
    <2>3. s = ConfigDescPacket(WTotalLength, total, p)
      OBVIOUS
    <2> QED  BY ONLY <2>1, <2>2, <2>3, p \in Nat, Cut
  <1>3. slices' = Append(slices, s) /\ part' = NextPart(s, p)
    BY DEF Send
  <1>4. /\ slices' \in Seq(Slice) /\ Len(slices') = p + 1 /\ slices' # <<>>
        /\ \A i \in 1..p : slices'[i] = slices[i]
        /\ slices'[p + 1] = s
    BY <1>2, <1>3, AppendProperties DEF CutInv
  <1>5. Due' = Due
    BY DEF Due
  <1>6. ASSUME NEW i \in 1..(p + 1) PROVE SliceInv(i)'
    <2>1. CASE i = p + 1
      <3>1. slices'[i] = s /\ i - 1 = p /\ ~(i < Len(slices'))
        BY <1>4, <2>1
      <3> QED  BY <1>2, <1>5, <3>1 DEF SliceInv
    <2>2. CASE i \in 1..p
      <3>1. SliceInv(i) /\ slices'[i] = slices[i]
        BY <1>4, <2>2 DEF CutInv
      <3>2. slices[i].length = 64
        BY <2>2, <3>1 DEF SliceInv
      <3> QED  BY <1>5, <3>1, <3>2 DEF SliceInv
    <2> QED  BY <2>1, <2>2
  <1> QED
    BY <1>2, <1>3, <1>4, <1>6 DEF CutInv

LEMMA CutInductive == Spec => []CutInv
  <1>1. Init => CutInv
    BY MaxLengthAssumption, EmptySeq DEF Init, CutInv
  <1>2. CutInv /\ [Next]_vars => CutInv'
    <2> SUFFICES ASSUME CutInv, [Next]_vars PROVE CutInv'
      OBVIOUS
    <2>1. CASE First
      <3>1. Len(slices) = 0
        BY <2>1, EmptySeq DEF First
      <3> QED  BY <2>1, <3>1, SendKeeps DEF First
    <2>2. CASE Continue
      <3>1. part # 0 /\ slices # <<>>
        BY <2>2 DEF Continue, CutInv
      <3>2. part = Len(slices) /\ slices[part].length = 64 /\ part \in Nat
        BY <3>1, LenProperties DEF CutInv
      <3> QED  BY <2>2, <3>2, SendKeeps DEF Continue
    <2>3. CASE Again
      <3>1. slices' = <<>> /\ part' = 0 /\ total' \in Nat /\ Len(slices') = 0
        BY <2>3, MaxLengthAssumption, EmptySeq DEF Again
      <3> QED  BY <3>1, EmptySeq DEF CutInv
    <2>4. CASE UNCHANGED vars
      BY <2>4 DEF vars, CutInv, SliceInv, Due
    <2> QED  BY <2>1, <2>2, <2>3, <2>4 DEF Next
  <1> QED  BY <1>1, <1>2, PTL DEF Spec

----
LEMMA LastSlice ==
    ASSUME CutInv, slices # <<>>
    PROVE  /\ Len(slices) \in Nat /\ Len(slices) >= 1 /\ Due \in Nat
           /\ slices[Len(slices)] \in Slice /\ SliceInv(Len(slices))
           /\ EndOf(Len(slices)) = slices[Len(slices)].at + slices[Len(slices)].length
  <1>1. Len(slices) \in Nat /\ Len(slices) # 0
    BY LenProperties, EmptySeq DEF CutInv
  <1>2. Len(slices) \in 1..Len(slices)
    BY <1>1
  <1>3. Due \in Nat
    BY DescriptorSizeAssumption DEF CutInv, Due, LesserOf
  <1> QED  BY <1>1, <1>2, <1>3, ElementOfSeq DEF CutInv, EndOf

(* Whatever length a host asks for, the slices of the configuration        *)
(* descriptor follow one another without a gap or an overlap, and when no  *)
(* part remains due they are as much of it as was asked for.               *)
THEOREM SlicesReassemble == Spec => []Reassembles
  <1>1. CutInv => Reassembles
    <2> SUFFICES ASSUME CutInv PROVE Reassembles
      OBVIOUS
    <2>1. ASSUME NEW i \in DOMAIN slices
          PROVE  /\ slices[i].at = EndOf(i - 1)
                 /\ i < Len(slices) => slices[i].length = 64
      <3>1. i \in 1..Len(slices) /\ Len(slices) \in Nat
        BY LenProperties DEF CutInv
      <3>2. SliceInv(i)
        BY <3>1 DEF CutInv
      <3>3. CASE i = 1
        BY <3>2, <3>3 DEF SliceInv, EndOf
      <3>4. CASE i # 1
        <4>1. i - 1 \in 1..Len(slices) /\ i - 1 < Len(slices) /\ i - 1 # 0
          BY <3>1, <3>4
        <4>2. SliceInv(i - 1)
          BY <4>1 DEF CutInv
        <4>3. slices[i - 1].at = 64 * (i - 2) /\ slices[i - 1].length = 64
          BY <3>1, <4>1, <4>2 DEF SliceInv
        <4> QED  BY <3>1, <3>2, <4>1, <4>3 DEF SliceInv, EndOf
      <3> QED  BY <3>3, <3>4
    <2>2. slices # <<>> /\ part = 0 => EndOf(Len(slices)) = Due
      BY LastSlice DEF CutInv, SliceInv
    <2> QED  BY <2>1, <2>2 DEF Reassembles
  <1> QED  BY <1>1, CutInductive, PTL

(* A part that nobody will fetch remains due after the lengths that end    *)
(* with a full packet below the size of the descriptor, and after no       *)
(* other.                                                                  *)
THEOREM SurplusOnlyAtFullPackets == Spec => []SurplusAtFullPackets
  <1>1. CutInv => SurplusAtFullPackets
    <2> SUFFICES ASSUME CutInv, part # 0, EndOf(Len(slices)) = Due
                 PROVE  total > 0 /\ total % 64 = 0 /\ total < WTotalLength
      BY DEF SurplusAtFullPackets
    <2>1. slices # <<>>
      BY DEF CutInv
    <2> PICK n : n = Len(slices)
      OBVIOUS
    <2>2. n \in Nat /\ n >= 1 /\ slices[n].at = 64 * (n - 1) /\ slices[n].length = 64
      BY <2>1, LastSlice DEF CutInv, SliceInv
    <2>3. Due = 64 * n
      BY <2>1, <2>2, LastSlice
    <2>4. Due % 64 = 0 /\ Due > 0
      BY <2>2, <2>3
    <2> QED  BY <2>4, DescriptorSizeAssumption DEF CutInv, Due, LesserOf
  <1> QED  BY <1>1, CutInductive, PTL

===============================================================================
