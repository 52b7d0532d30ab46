------------------------- MODULE UsbEnumerationProofs -------------------------
(***************************************************************************)
(* The host of UsbEnumeration is one of the hosts UsbControl allows, so    *)
(* that what is proved of UsbControl holds of every enumeration, of any    *)
(* set of packets and with either value of Patient and MayAbort.           *)
(***************************************************************************)
EXTENDS UsbEnumeration, UsbControlProofs

(* A step of the composition is a step of UsbControl, or leaves it as is.  *)
LEMMA HostStep == [ENext]_evars => [Next]_vars
  <1> SUFFICES ASSUME [ENext]_evars PROVE [Next]_vars
    OBVIOUS
  <1>1. CASE (Boot \/ Handler) /\ UNCHANGED hostVars
    BY <1>1 DEF Next
  <1>2. CASE HostReset
    BY <1>2 DEF HostReset, Next, Host
  <1>3. CASE \E p \in Packets : HostSetup(p)
    <2>1. PICK p \in Packets : HostSetup(p)
      BY <1>3
    <2>2. Setup(p)
      BY <2>1 DEF HostSetup
    <2> QED  BY <2>2 DEF Next, Host
  <1>4. CASE HostPolls
    <2>1. \A b \in {EP0In, EP0Out} : Complete(b) => Next
      BY BufferNames DEF Next, Host
    <2>2. CASE HostDropsIn
      BY <2>1, <2>2 DEF HostDropsIn
    <2>3. CASE HostData
      BY <2>1, <2>3 DEF HostData
    <2>4. CASE HostStatusIn
      BY <2>1, <2>4 DEF HostStatusIn
    <2>5. CASE HostOut
      BY <2>1, <2>5 DEF HostOut
    <2> QED  BY <1>4, <2>2, <2>3, <2>4, <2>5 DEF HostPolls
  <1>5. CASE UNCHANGED evars
    BY <1>5 DEF evars
  <1> QED  BY <1>1, <1>2, <1>3, <1>4, <1>5 DEF ENext

(* The composition implements the driver under the most general host.      *)
THEOREM HostIsGeneral == ESpec => Init /\ [][Next]_vars
  BY HostStep, PTL DEF ESpec, EInit

(* Through an enumeration, with transfers given up and bus resets within   *)
(* them, the device takes no address the host has not given it since the   *)
(* last bus reset.                                                         *)
THEOREM EnumeratedAddress == ESpec => []AddressRequested
  BY HostIsGeneral, AddressInductive, PTL

(* Nor does such a host see the device panic, as long as it sends requests *)
(* the device supports.                                                    *)
THEOREM EnumerationNeverPanics ==
    ASSUME \A p \in Packets : Supported(p)
    PROVE  ESpec => [](pc # "panic")
  BY HostIsGeneral, NoPanic, PTL

----
(* What the host keeps, and what it may rely on when it leaves the device  *)
(* time to finish.                                                         *)

LEMMA HostTypeInit == EInit => HostTypeOK
  BY AddressRange, FlagAssumption DEF EInit, HostTypeOK

(* A packet the host takes from the buffer.                                *)
LEMMA InPacketType ==
    ASSUME TypeOK
    PROVE  InPacket \in [ type : Byte, index : Byte, at : Nat, length : PacketSize ]
  <1>1. bufCtrl[EP0In].length \in PacketSize
    BY BufferNames DEF TypeOK, BufferControl
  <1>2. ep0Buffer.type \in Byte /\ ep0Buffer.index \in Byte /\ ep0Buffer.at \in Nat
    BY DEF TypeOK
  <1>3. 0 \in Byte /\ 0 \in PacketSize
    BY SmallValues
  <1> QED  BY <1>1, <1>2, <1>3 DEF InPacket, EmptyPacket

LEMMA HostTypeStep == TypeOK /\ HostTypeOK /\ [ENext]_evars => HostTypeOK'
  <1> SUFFICES ASSUME TypeOK, HostTypeOK, [ENext]_evars PROVE HostTypeOK'
    OBVIOUS
  <1> USE DEF HostTypeOK
  <1>1. CASE UNCHANGED hostVars
    BY <1>1 DEF hostVars
  <1>2. CASE HostReset
    BY <1>2, AddressRange DEF HostReset
  <1>3. CASE \E p \in Packets : HostSetup(p)
    <2>1. PICK p \in Packets : HostSetup(p)
      BY <1>3
    <2>2. hCodings' \in 0..(FlagValues - 1)
      BY <2>1, FlagAssumption DEF HostSetup
    <2> QED  BY <2>1, <2>2 DEF HostSetup
  <1>4. CASE HostData
    <2>1. hReceived' \in Seq([ type : Byte, index : Byte, at : Nat, length : PacketSize ])
      BY <1>4, InPacketType DEF HostData
    <2> QED  BY <1>4, <2>1 DEF HostData
  <1>5. CASE HostStatusIn
    <2>1. hPacket.value % 128 \in Address
      BY PacketFields
    <2> QED  BY <1>5, <2>1 DEF HostStatusIn
  <1>6. CASE HostOut
    BY <1>6 DEF HostOut
  <1> QED
    BY <1>1, <1>2, <1>3, <1>4, <1>5, <1>6
    DEF ENext, HostPolls, HostDropsIn, evars

LEMMA ETypeInductive ==
    /\ EInit => TypeOK /\ HostTypeOK /\ FlowInv
    /\ TypeOK /\ HostTypeOK /\ FlowInv /\ [ENext]_evars => (TypeOK /\ HostTypeOK /\ FlowInv)'
  BY TypeInit, FlowInit, HostTypeInit, TypeStep, FlowStep, HostTypeStep, HostStep DEF EInit

(* Type correctness of device and host together.                           *)
THEOREM EnumerationTypeCorrect == ESpec => [](TypeOK /\ HostTypeOK)
  BY ETypeInductive, PTL DEF ESpec

----
(* A host that leaves the device time to finish before a SETUP packet, but *)
(* may give up its transfers or reset the bus within them.                 *)

(* The handler has the SETUP packet to serve before anything else: no      *)
(* other arrives until it has come back.                                   *)
Prompt == setupRec => pc \in {"main", "setup"}

Coding(p) == p.dir = "Out" /\ p.request = Request.SetLineCoding

(* A SET_LINE_CODING the host has sent and FLAG has not counted yet.       *)
Uncounted ==
    \/ setupRec /\ Coding(setupPacket)
    \/ pc \in {"setup", "readPid", "clearPid", "readSetup"} /\ Coding(setupPacket)
    \/ pc = "request" /\ Coding(packet)

CodingsInv ==
    /\ pc \notin {"resetUsb", "clearDpram"}
           => hCodings = IF Uncounted THEN (flag + 1) % FlagValues ELSE flag
    /\ ~wired => hCodings = 0

(* Since its last bus reset the host has sent nothing: the reset is still  *)
(* to be served, or the handler has nothing left that could set an address.*)
ResetInv ==
    wired /\ hPacket = NoPacket =>
        \/ busReset
        \/ /\ newAddr < 128
           /\ ~setupRec /\ pc \notin SetupPCs
           /\ addrEndp = 0 \/ pc = "clearAddr"

LEMMA PromptStep ==
    ASSUME Patient
    PROVE  FlowInv /\ Prompt /\ [ENext]_evars => Prompt'
  <1> SUFFICES ASSUME FlowInv, Prompt, [ENext]_evars PROVE Prompt'
    OBVIOUS
  <1> USE DEF FlowInv, BootInv, BootPCs, StageInv, Prompt,
              vars, cpuVars, dpramVars, sieVars, wireVars, hostVars
  <1>1. CASE ResetUsb /\ UNCHANGED hostVars
    BY <1>1 DEF ResetUsb
  <1>2. CASE ClearDpram /\ UNCHANGED hostVars
    BY <1>2 DEF ClearDpram
  <1>3. CASE ConfigureEndpoints /\ UNCHANGED hostVars
    BY <1>3 DEF ConfigureEndpoints
  <1>4. CASE Connect /\ UNCHANGED hostVars
    BY <1>4 DEF Connect
  <1>5. CASE Trap /\ UNCHANGED hostVars
    BY <1>5, StageValues DEF Trap, Ints, InterruptsEnabled, Stage
  <1>6. CASE ClearSetupRec /\ UNCHANGED hostVars
    BY <1>6 DEF ClearSetupRec
  <1>7. CASE ReadInCtrl /\ UNCHANGED hostVars
    BY <1>7 DEF ReadInCtrl
  <1>8. CASE ClearPid /\ UNCHANGED hostVars
    BY <1>8 DEF ClearPid
  <1>9. CASE ReadSetup /\ UNCHANGED hostVars
    BY <1>9 DEF ReadSetup
  <1>10. CASE HandleSetAddress /\ UNCHANGED hostVars
    BY <1>10, StageValues DEF HandleSetAddress, EndSetup, Requested
  <1>11. CASE HandleSetConfiguration /\ UNCHANGED hostVars
    BY <1>11, StageValues DEF HandleSetConfiguration, EndSetup, Requested
  <1>12. CASE RejectRequest /\ UNCHANGED hostVars
    BY <1>12 DEF RejectRequest
  <1>13. CASE HandleSetLineCoding /\ UNCHANGED hostVars
    BY <1>13, StageValues DEF HandleSetLineCoding, EndSetup, Requested
  <1>14. CASE HandleOtherOut /\ UNCHANGED hostVars
    BY <1>14, StageValues DEF HandleOtherOut, EndSetup, Requested
  <1>15. CASE FillDeviceDescriptor /\ UNCHANGED hostVars
    BY <1>15 DEF FillDeviceDescriptor, DescriptorRequested, Requested
  <1>16. CASE FillConfigDescriptor /\ UNCHANGED hostVars
    BY <1>16 DEF FillConfigDescriptor, FillConfigPart, DescriptorRequested, Requested
  <1>17. CASE FillStringDescriptor /\ UNCHANGED hostVars
    BY <1>17 DEF FillStringDescriptor, DescriptorRequested, Requested
  <1>18. CASE SendDeviceQualifier /\ UNCHANGED hostVars
    BY <1>18, StageValues DEF SendDeviceQualifier, EndSetup, DescriptorRequested, Requested
  <1>19. CASE ArmDevice /\ UNCHANGED hostVars
    BY <1>19, StageValues DEF ArmDevice
  <1>20. CASE ArmReply /\ UNCHANGED hostVars
    BY <1>20, ResumeValues DEF ArmReply
  <1>21. CASE ReadBufStatus /\ UNCHANGED hostVars
    BY <1>21, StageValues DEF ReadBufStatus
  <1>22. CASE TakeCompletion /\ UNCHANGED hostVars
    BY <1>22, ResumeValues DEF TakeCompletion
  <1>23. CASE ApplyAddress /\ UNCHANGED hostVars
    BY <1>23, ResumeValues DEF ApplyAddress
  <1>24. CASE ContinueConfig /\ UNCHANGED hostVars
    BY <1>24 DEF ContinueConfig, FillConfigPart
  <1>25. CASE ArmStatusOut /\ UNCHANGED hostVars
    BY <1>25, ResumeValues DEF ArmStatusOut
  <1>26. CASE ClearBusReset /\ UNCHANGED hostVars
    BY <1>26 DEF ClearBusReset
  <1>27. CASE ClearAddress /\ UNCHANGED hostVars
    BY <1>27, StageValues DEF ClearAddress
  <1>28. CASE HostReset
    BY <1>28 DEF HostReset, BusReset
  <1>29. CASE \E p \in Packets : HostSetup(p)
    <2>1. PICK p \in Packets : HostSetup(p)
      BY <1>29
    <2>2. pc = "main" /\ ~setupRec /\ wired
      BY <2>1 DEF HostSetup, Setup, Quiet, Ints, InterruptsEnabled
    <2>3. pc' = "main" /\ setupRec' /\ wired'
      BY <2>1, <2>2 DEF HostSetup, Setup
    <2> QED  BY <2>3
  <1>30. CASE HostDropsIn
    BY <1>30 DEF HostDropsIn, Complete
  <1>31. CASE HostData
    BY <1>31 DEF HostData, Complete
  <1>32. CASE HostStatusIn
    BY <1>32 DEF HostStatusIn, Complete
  <1>33. CASE HostOut
    BY <1>33 DEF HostOut, Complete
  <1>34. CASE UNCHANGED evars
    BY <1>34 DEF evars
  <1> QED
    BY <1>1, <1>2, <1>3, <1>4, <1>5, <1>6, <1>7, <1>8, <1>9, <1>10, <1>11,
       <1>12, <1>13, <1>14, <1>15, <1>16, <1>17, <1>18, <1>19, <1>20, <1>21,
       <1>22, <1>23, <1>24, <1>25, <1>26, <1>27, <1>28, <1>29, <1>30, <1>31,
       <1>32, <1>33, <1>34
    DEF ENext, HostPolls, Boot, Handler, SetupStage, CompletionStage, ResetStage

(* FLAG catches up with the host when the handler serves the packet.       *)
LEMMA CodingsStep ==
    ASSUME Patient
    PROVE  FlowInv /\ Prompt /\ CodingsInv /\ [ENext]_evars => CodingsInv'
  <1> SUFFICES ASSUME FlowInv, Prompt, CodingsInv, [ENext]_evars PROVE CodingsInv'
    OBVIOUS
  <1> USE DEF FlowInv, BootInv, BootPCs, StageInv, Prompt, CodingsInv, Uncounted, Coding,
              vars, cpuVars, dpramVars, sieVars, wireVars, hostVars
  <1>1. CASE ResetUsb /\ UNCHANGED hostVars
    BY <1>1 DEF ResetUsb
  <1>2. CASE ClearDpram /\ UNCHANGED hostVars
    BY <1>2 DEF ClearDpram
  <1>3. CASE ConfigureEndpoints /\ UNCHANGED hostVars
    BY <1>3 DEF ConfigureEndpoints
  <1>4. CASE Connect /\ UNCHANGED hostVars
    BY <1>4 DEF Connect
  <1>5. CASE Trap /\ UNCHANGED hostVars
    BY <1>5, StageFits, StageValues DEF Trap, Ints, InterruptsEnabled
  <1>6. CASE ClearSetupRec /\ UNCHANGED hostVars
    BY <1>6 DEF ClearSetupRec
  <1>7. CASE ReadInCtrl /\ UNCHANGED hostVars
    BY <1>7 DEF ReadInCtrl
  <1>8. CASE ClearPid /\ UNCHANGED hostVars
    BY <1>8 DEF ClearPid
  <1>9. CASE ReadSetup /\ UNCHANGED hostVars
    BY <1>9 DEF ReadSetup
  <1>10. CASE HandleSetAddress /\ UNCHANGED hostVars
    BY <1>10, StageFits, StageValues DEF HandleSetAddress, EndSetup, Requested, Request
  <1>11. CASE HandleSetConfiguration /\ UNCHANGED hostVars
    BY <1>11, StageFits, StageValues DEF HandleSetConfiguration, EndSetup, Requested, Request
  <1>12. CASE RejectRequest /\ UNCHANGED hostVars
    BY <1>12 DEF RejectRequest, Request
  <1>13. CASE HandleSetLineCoding /\ UNCHANGED hostVars
    BY <1>13, StageFits, StageValues DEF HandleSetLineCoding, EndSetup, Requested
  <1>14. CASE HandleOtherOut /\ UNCHANGED hostVars
    BY <1>14, StageFits, StageValues DEF HandleOtherOut, EndSetup, Requested, Request
  <1>15. CASE FillDeviceDescriptor /\ UNCHANGED hostVars
    BY <1>15 DEF FillDeviceDescriptor, DescriptorRequested, Requested
  <1>16. CASE FillConfigDescriptor /\ UNCHANGED hostVars
    BY <1>16 DEF FillConfigDescriptor, FillConfigPart, DescriptorRequested, Requested
  <1>17. CASE FillStringDescriptor /\ UNCHANGED hostVars
    BY <1>17 DEF FillStringDescriptor, DescriptorRequested, Requested
  <1>18. CASE SendDeviceQualifier /\ UNCHANGED hostVars
    BY <1>18, StageFits, StageValues DEF SendDeviceQualifier, EndSetup, DescriptorRequested, Requested
  <1>19. CASE ArmDevice /\ UNCHANGED hostVars
    BY <1>19, StageFits, StageValues DEF ArmDevice
  <1>20. CASE ArmReply /\ UNCHANGED hostVars
    BY <1>20, ResumeFits, ResumeValues DEF ArmReply
  <1>21. CASE ReadBufStatus /\ UNCHANGED hostVars
    BY <1>21, StageFits, StageValues DEF ReadBufStatus
  <1>22. CASE TakeCompletion /\ UNCHANGED hostVars
    BY <1>22, ResumeFits, ResumeValues DEF TakeCompletion
  <1>23. CASE ApplyAddress /\ UNCHANGED hostVars
    BY <1>23, ResumeFits, ResumeValues DEF ApplyAddress
  <1>24. CASE ContinueConfig /\ UNCHANGED hostVars
    BY <1>24 DEF ContinueConfig, FillConfigPart
  <1>25. CASE ArmStatusOut /\ UNCHANGED hostVars
    BY <1>25, ResumeFits, ResumeValues DEF ArmStatusOut
  <1>26. CASE ClearBusReset /\ UNCHANGED hostVars
    BY <1>26 DEF ClearBusReset
  <1>27. CASE ClearAddress /\ UNCHANGED hostVars
    BY <1>27, StageFits, StageValues DEF ClearAddress
  <1>28. CASE HostReset
    BY <1>28 DEF HostReset, BusReset
  <1>29. CASE \E p \in Packets : HostSetup(p)
    <2>1. PICK p \in Packets : HostSetup(p)
      BY <1>29
    <2>2. pc = "main" /\ ~setupRec /\ wired
      BY <2>1 DEF HostSetup, Setup, Quiet, Ints, InterruptsEnabled
    <2>3. /\ pc' = "main" /\ setupRec' /\ wired' /\ setupPacket' = p /\ flag' = flag
          /\ hCodings' = IF Coding(p) THEN (hCodings + 1) % FlagValues ELSE hCodings
      BY <2>1, <2>2 DEF HostSetup, Setup
    <2>4. hCodings = flag
      BY <2>2
    <2> QED  BY <2>3, <2>4
  <1>30. CASE HostDropsIn
    BY <1>30 DEF HostDropsIn, Complete
  <1>31. CASE HostData
    BY <1>31 DEF HostData, Complete
  <1>32. CASE HostStatusIn
    BY <1>32 DEF HostStatusIn, Complete
  <1>33. CASE HostOut
    BY <1>33 DEF HostOut, Complete
  <1>34. CASE UNCHANGED evars
    BY <1>34 DEF evars
  <1> QED
    BY <1>1, <1>2, <1>3, <1>4, <1>5, <1>6, <1>7, <1>8, <1>9, <1>10, <1>11,
       <1>12, <1>13, <1>14, <1>15, <1>16, <1>17, <1>18, <1>19, <1>20, <1>21,
       <1>22, <1>23, <1>24, <1>25, <1>26, <1>27, <1>28, <1>29, <1>30, <1>31,
       <1>32, <1>33, <1>34
    DEF ENext, HostPolls, Boot, Handler, SetupStage, CompletionStage, ResetStage

LEMMA ResetStep ==
    ASSUME Patient, NoPacket \notin Packets
    PROVE  TypeOK /\ FlowInv /\ Prompt /\ ResetInv /\ [ENext]_evars => ResetInv'
  <1> SUFFICES ASSUME TypeOK, FlowInv, Prompt, ResetInv, [ENext]_evars PROVE ResetInv'
    OBVIOUS
  <1> USE DEF FlowInv, BootInv, BootPCs, StageInv, Prompt, ResetInv, SetupPCs,
              vars, cpuVars, dpramVars, sieVars, wireVars, hostVars
  <1>1. CASE ResetUsb /\ UNCHANGED hostVars
    BY <1>1 DEF ResetUsb
  <1>2. CASE ClearDpram /\ UNCHANGED hostVars
    BY <1>2 DEF ClearDpram
  <1>3. CASE ConfigureEndpoints /\ UNCHANGED hostVars
    BY <1>3 DEF ConfigureEndpoints
  <1>4. CASE Connect /\ UNCHANGED hostVars
    BY <1>4 DEF Connect
  <1>5. CASE Trap /\ UNCHANGED hostVars
    BY <1>5, StageFits, StageValues DEF Trap, Ints, InterruptsEnabled
  <1>6. CASE ClearSetupRec /\ UNCHANGED hostVars
    BY <1>6 DEF ClearSetupRec
  <1>7. CASE ReadInCtrl /\ UNCHANGED hostVars
    BY <1>7 DEF ReadInCtrl
  <1>8. CASE ClearPid /\ UNCHANGED hostVars
    BY <1>8 DEF ClearPid
  <1>9. CASE ReadSetup /\ UNCHANGED hostVars
    BY <1>9 DEF ReadSetup
  <1>10. CASE HandleSetAddress /\ UNCHANGED hostVars
    BY <1>10, StageFits, StageValues DEF HandleSetAddress, EndSetup, Requested
  <1>11. CASE HandleSetConfiguration /\ UNCHANGED hostVars
    BY <1>11, StageFits, StageValues DEF HandleSetConfiguration, EndSetup, Requested
  <1>12. CASE RejectRequest /\ UNCHANGED hostVars
    BY <1>12 DEF RejectRequest
  <1>13. CASE HandleSetLineCoding /\ UNCHANGED hostVars
    BY <1>13, StageFits, StageValues DEF HandleSetLineCoding, EndSetup, Requested
  <1>14. CASE HandleOtherOut /\ UNCHANGED hostVars
    BY <1>14, StageFits, StageValues DEF HandleOtherOut, EndSetup, Requested
  <1>15. CASE FillDeviceDescriptor /\ UNCHANGED hostVars
    BY <1>15 DEF FillDeviceDescriptor, DescriptorRequested, Requested
  <1>16. CASE FillConfigDescriptor /\ UNCHANGED hostVars
    BY <1>16 DEF FillConfigDescriptor, FillConfigPart, DescriptorRequested, Requested
  <1>17. CASE FillStringDescriptor /\ UNCHANGED hostVars
    BY <1>17 DEF FillStringDescriptor, DescriptorRequested, Requested
  <1>18. CASE SendDeviceQualifier /\ UNCHANGED hostVars
    BY <1>18, StageFits, StageValues DEF SendDeviceQualifier, EndSetup, DescriptorRequested, Requested
  <1>19. CASE ArmDevice /\ UNCHANGED hostVars
    BY <1>19, StageFits, StageValues DEF ArmDevice
  <1>20. CASE ArmReply /\ UNCHANGED hostVars
    BY <1>20, ResumeFits, ResumeValues DEF ArmReply
  <1>21. CASE ReadBufStatus /\ UNCHANGED hostVars
    BY <1>21, StageFits, StageValues DEF ReadBufStatus
  <1>22. CASE TakeCompletion /\ UNCHANGED hostVars
    BY <1>22, ResumeFits, ResumeValues DEF TakeCompletion
  <1>23. CASE ApplyAddress /\ UNCHANGED hostVars
    <2>1. hPacket = NoPacket /\ wired => busReset
      BY <1>23, ByteRange DEF ApplyAddress, TypeOK
    <2> QED  BY <1>23, <2>1 DEF ApplyAddress
  <1>24. CASE ContinueConfig /\ UNCHANGED hostVars
    BY <1>24 DEF ContinueConfig, FillConfigPart
  <1>25. CASE ArmStatusOut /\ UNCHANGED hostVars
    BY <1>25, ResumeFits, ResumeValues DEF ArmStatusOut
  <1>26. CASE ClearBusReset /\ UNCHANGED hostVars
    BY <1>26 DEF ClearBusReset
  <1>27. CASE ClearAddress /\ UNCHANGED hostVars
    BY <1>27, StageFits, StageValues DEF ClearAddress
  <1>28. CASE HostReset
    BY <1>28 DEF HostReset, BusReset
  <1>29. CASE \E p \in Packets : HostSetup(p)
    <2>1. PICK p \in Packets : HostSetup(p)
      BY <1>29
    <2>2. hPacket' # NoPacket
      BY <2>1 DEF HostSetup
    <2> QED  BY <2>2
  <1>30. CASE HostDropsIn
    BY <1>30 DEF HostDropsIn, Complete
  <1>31. CASE HostData
    BY <1>31 DEF HostData, Complete
  <1>32. CASE HostStatusIn
    BY <1>32 DEF HostStatusIn, Complete
  <1>33. CASE HostOut
    BY <1>33 DEF HostOut, Complete
  <1>34. CASE UNCHANGED evars
    BY <1>34 DEF evars
  <1> QED
    BY <1>1, <1>2, <1>3, <1>4, <1>5, <1>6, <1>7, <1>8, <1>9, <1>10, <1>11,
       <1>12, <1>13, <1>14, <1>15, <1>16, <1>17, <1>18, <1>19, <1>20, <1>21,
       <1>22, <1>23, <1>24, <1>25, <1>26, <1>27, <1>28, <1>29, <1>30, <1>31,
       <1>32, <1>33, <1>34
    DEF ENext, HostPolls, Boot, Handler, SetupStage, CompletionStage, ResetStage

(* Every SET_LINE_CODING is counted once by the time the handler has       *)
(* nothing left to do, whichever transfers the host gives up.              *)
THEOREM CodingsAreCounted ==
    ASSUME Patient
    PROVE  ESpec => []CodingsCounted
  <1>1. EInit => FlowInv /\ Prompt /\ CodingsInv
    BY FlowInit DEF EInit, Init, Prompt, CodingsInv
  <1>2. FlowInv /\ Prompt /\ CodingsInv /\ [ENext]_evars
            => (FlowInv /\ Prompt /\ CodingsInv)'
    BY HostStep, FlowStep, PromptStep, CodingsStep
  <1>3. Prompt /\ CodingsInv => CodingsCounted
    BY DEF Prompt, CodingsInv, Uncounted, CodingsCounted, Quiet, Ints, InterruptsEnabled
  <1> QED  BY <1>1, <1>2, <1>3, PTL DEF ESpec

(* Out of every bus reset the device comes at address 0 with no address    *)
(* pending, whichever transfer the reset cuts off.                         *)
THEOREM ResetsRecover ==
    ASSUME Patient, NoPacket \notin Packets
    PROVE  ESpec => []ResetRecovers
  <1>1. EInit => TypeOK /\ FlowInv /\ Prompt /\ ResetInv
    BY ETypeInductive DEF EInit, Init, Prompt, ResetInv
  <1>2. TypeOK /\ FlowInv /\ Prompt /\ ResetInv /\ [ENext]_evars
            => (TypeOK /\ FlowInv /\ Prompt /\ ResetInv)'
    BY HostStep, TypeStep, FlowStep, PromptStep, ResetStep
  <1>3. ResetInv => ResetRecovers
    BY DEF ResetInv, ResetRecovers, Quiet, Ints, InterruptsEnabled
  <1> QED  BY <1>1, <1>2, <1>3, PTL DEF ESpec

----
(* Where the address of a transfer is that a patient host completes,       *)
(* whatever surplus its requests leave.                                    *)

SetsAddress == hPacket.dir = "Out" /\ hPacket.request = Request.SetAddress

(* A SETUP packet is not answered yet.                                     *)
Fresh == setupRec \/ pc \in SetupPCs

(* A packet has gone that the handler has not followed up.                 *)
Done == EP0In \in bufStatus \/ pc = "ep0In"

(* A bus reset is still to be served.                                      *)
Resetting == busReset \/ pc = "clearAddr"

(* The host is at the address of its transfer as soon as the status stage  *)
(* is over, which may come before the answer to its SETUP packet: a part   *)
(* nobody has fetched is taken for it.                                     *)
FreshAddress ==
    /\ newAddr < 128 /\ setupPacket = hPacket
    /\ pc = "request" => packet = hPacket
    /\ IF SetsAddress /\ hStage = "idle"
         THEN hAddr = hPacket.value % 128 /\ EP0In \in bufStatus
         ELSE addrEndp = hAddr

(* A pending address is that of the transfer, and a completion is to come; *)
(* an address applied before the status stage is over leaves the host with *)
(* a device that does not answer, or answers at the address there was.     *)
ServedAddress ==
    IF newAddr >= 128
      THEN /\ SetsAddress /\ newAddr % 128 = hPacket.value % 128
           /\ IF hStage = "idle" THEN hAddr = newAddr % 128 /\ Done
              ELSE addrEndp = hAddr
      ELSE addrEndp = IF SetsAddress /\ hStage # "idle" THEN hPacket.value % 128 ELSE hAddr

AgreeInv ==
    /\ hStage # "idle" => wired /\ ~Resetting
    /\ ~wired => addrEndp = 0 /\ hAddr = 0
    /\ Resetting => hAddr = 0
    /\ pc = "clearAddr" => newAddr = 0
    /\ wired /\ ~Resetting => IF Fresh THEN FreshAddress ELSE ServedAddress

(* The handler is at something else, or answers a request that is not for  *)
(* an address.                                                             *)
LEMMA Elsewhere ==
    ASSUME AgreeInv, newAddr \in Nat,
           UNCHANGED <<hAddr, hStage, hPacket, newAddr, setupPacket, setupRec, busReset,
                       addrEndp, wired>>,
           EP0In \in bufStatus => EP0In \in bufStatus' \/ (pc' = "ep0In" /\ ~Fresh),
           pc = "ep0In" => newAddr < 128,
           pc # "clearAddr", pc' # "clearAddr",
           pc' = "request" => packet' = setupPacket,
           Fresh' => Fresh,
           Fresh => \/ Fresh'
                    \/ /\ pc = "request"
                       /\ ~(packet.dir = "Out" /\ packet.request = Request.SetAddress)
    PROVE  AgreeInv'
  <1> USE DEF AgreeInv, Resetting, SetsAddress
  <1>1. CASE Fresh'
    BY <1>1 DEF FreshAddress
  <1>2. CASE ~Fresh
    BY <1>2 DEF ServedAddress, Done
  <1>3. CASE ~Fresh' /\ Fresh
    BY <1>3 DEF FreshAddress, ServedAddress
  <1> QED  BY <1>1, <1>2, <1>3

LEMMA AgreeInit == EInit => AgreeInv
  BY DEF EInit, Init, AgreeInv, Resetting

LEMMA AgreeStep ==
    ASSUME Patient, ~MayAbort
    PROVE  TypeOK /\ HostTypeOK /\ FlowInv /\ Prompt /\ AgreeInv /\ [ENext]_evars => AgreeInv'
  <1> SUFFICES ASSUME TypeOK, HostTypeOK, FlowInv, Prompt, AgreeInv, [ENext]_evars
               PROVE  AgreeInv'
    OBVIOUS
  <1>a. newAddr \in Nat /\ newAddr <= 255 /\ hPacket.value \in Nat
    BY ByteRange, PacketFields, WordRange DEF TypeOK, HostTypeOK
  <1>b. ("SetupReq" \in status => pc = "setup") /\ ("BusReset" \in status => busReset)
        /\ (pc = "reset" => busReset)
    BY DEF FlowInv, StageInv
  <1> USE DEF FlowInv, BootInv, BootPCs, StageInv, Prompt, AgreeInv, FreshAddress,
              ServedAddress, Fresh, SetupPCs, Resetting, Done, SetsAddress,
              vars, cpuVars, dpramVars, sieVars, wireVars, hostVars
  <1>1. CASE ResetUsb /\ UNCHANGED hostVars
    BY <1>1 DEF ResetUsb
  <1>2. CASE ClearDpram /\ UNCHANGED hostVars
    BY <1>2 DEF ClearDpram
  <1>3. CASE ConfigureEndpoints /\ UNCHANGED hostVars
    BY <1>3 DEF ConfigureEndpoints
  <1>4. CASE Connect /\ UNCHANGED hostVars
    BY <1>4 DEF Connect
  <1>5. CASE Trap /\ UNCHANGED hostVars
    BY <1>5, StageFits, StageValues, <1>a, <1>b, Elsewhere DEF Trap, Ints, InterruptsEnabled
  <1>6. CASE ClearSetupRec /\ UNCHANGED hostVars
    BY <1>6, <1>a, <1>b, Elsewhere DEF ClearSetupRec
  <1>7. CASE ReadInCtrl /\ UNCHANGED hostVars
    BY <1>7, <1>a, <1>b, Elsewhere DEF ReadInCtrl
  <1>8. CASE ClearPid /\ UNCHANGED hostVars
    BY <1>8, <1>a, <1>b, Elsewhere DEF ClearPid
  <1>9. CASE ReadSetup /\ UNCHANGED hostVars
    BY <1>9, <1>a, <1>b, Elsewhere DEF ReadSetup
  <1>10. CASE HandleSetAddress /\ UNCHANGED hostVars
    <2>1. /\ pc = "request" /\ pc' \notin SetupPCs \cup {"clearAddr"}
          /\ packet.dir = "Out" /\ packet.request = Request.SetAddress
          /\ newAddr' = (packet.value % 128) + 128
          /\ UNCHANGED <<setupPacket, setupRec, busReset, bufStatus, addrEndp, wired>>
      BY <1>10, <1>b, StageFits, StageValues
      DEF HandleSetAddress, EndSetup, Requested, PendingAddress
    <2>2. ASSUME wired, ~busReset
          PROVE  /\ SetsAddress /\ newAddr' % 128 = hPacket.value % 128 /\ newAddr' >= 128
                 /\ IF hStage = "idle" THEN hAddr = hPacket.value % 128 /\ EP0In \in bufStatus
                    ELSE addrEndp = hAddr
      BY <2>1, <2>2, <1>a
    <2> QED  BY <1>10, <2>1, <2>2
  <1>11. CASE HandleSetConfiguration /\ UNCHANGED hostVars
    BY <1>11, StageFits, StageValues, <1>a, <1>b, Elsewhere
    DEF HandleSetConfiguration, EndSetup, Requested, Request
  <1>12. CASE RejectRequest /\ UNCHANGED hostVars
    BY <1>12, <1>a, <1>b, Elsewhere DEF RejectRequest, Request
  <1>13. CASE HandleSetLineCoding /\ UNCHANGED hostVars
    BY <1>13, StageFits, StageValues, <1>a, <1>b, Elsewhere
    DEF HandleSetLineCoding, EndSetup, Requested, Request
  <1>14. CASE HandleOtherOut /\ UNCHANGED hostVars
    BY <1>14, StageFits, StageValues, <1>a, <1>b, Elsewhere
    DEF HandleOtherOut, EndSetup, Requested
  <1>15. CASE FillDeviceDescriptor /\ UNCHANGED hostVars
    BY <1>15, <1>a, <1>b, Elsewhere DEF FillDeviceDescriptor, DescriptorRequested, Requested
  <1>16. CASE FillConfigDescriptor /\ UNCHANGED hostVars
    BY <1>16, <1>a, <1>b, Elsewhere
    DEF FillConfigDescriptor, FillConfigPart, DescriptorRequested, Requested
  <1>17. CASE FillStringDescriptor /\ UNCHANGED hostVars
    BY <1>17, <1>a, <1>b, Elsewhere DEF FillStringDescriptor, DescriptorRequested, Requested
  <1>18. CASE SendDeviceQualifier /\ UNCHANGED hostVars
    BY <1>18, StageFits, StageValues, <1>a, <1>b, Elsewhere
    DEF SendDeviceQualifier, EndSetup, DescriptorRequested, Requested
  <1>19. CASE ArmDevice /\ UNCHANGED hostVars
    BY <1>19, StageFits, StageValues, <1>a, <1>b, Elsewhere DEF ArmDevice
  <1>20. CASE ArmReply /\ UNCHANGED hostVars
    BY <1>20, ResumeFits, ResumeValues, <1>a, <1>b, Elsewhere DEF ArmReply
  <1>21. CASE ReadBufStatus /\ UNCHANGED hostVars
    BY <1>21, StageFits, StageValues, <1>a, <1>b, Elsewhere DEF ReadBufStatus
  <1>22. CASE TakeCompletion /\ UNCHANGED hostVars
    <2>1. PICK bit \in remaining :
             /\ bufStatus' = bufStatus \ {bit}
             /\ pc' = CASE bit = EP0In -> "ep0In"
                        [] bit = EP0Out -> Resume(remaining \ {bit})
                        [] OTHER -> "panic"
      BY <1>22 DEF TakeCompletion
    <2>2. /\ pc' \notin SetupPCs \cup {"clearAddr"}
          /\ EP0In \in bufStatus => EP0In \in bufStatus' \/ pc' = "ep0In"
      BY <1>22, <1>b, <2>1, BufferNumbers, ResumeFits, ResumeValues DEF TakeCompletion
    <2> QED  BY <1>22, <2>2 DEF TakeCompletion
  <1>23. CASE ApplyAddress /\ UNCHANGED hostVars
    <2>1. newAddr % 128 <= 127 /\ newAddr % 128 \in Nat /\ (newAddr % 128) % 128 = newAddr % 128
      BY <1>a
    <2>2. pc' \notin SetupPCs \cup {"clearAddr"} /\ ~setupRec
      BY <1>23, <1>b, ResumeFits, ResumeValues DEF ApplyAddress
    <2> QED  BY <1>23, <2>1, <2>2 DEF ApplyAddress
  <1>24. CASE ContinueConfig /\ UNCHANGED hostVars
    BY <1>24, <1>a, <1>b, Elsewhere DEF ContinueConfig, FillConfigPart
  <1>25. CASE ArmStatusOut /\ UNCHANGED hostVars
    BY <1>25, ResumeFits, ResumeValues, <1>a, <1>b, Elsewhere DEF ArmStatusOut
  <1>26. CASE ClearBusReset /\ UNCHANGED hostVars
    BY <1>26 DEF ClearBusReset
  <1>27. CASE ClearAddress /\ UNCHANGED hostVars
    BY <1>27, StageFits, StageValues DEF ClearAddress
  <1>28. CASE HostReset
    BY <1>28 DEF HostReset, BusReset
  <1>29. CASE \E p \in Packets : HostSetup(p)
    <2>1. PICK p \in Packets : HostSetup(p)
      BY <1>29
    <2>2. pc = "main" /\ ~setupRec /\ ~busReset /\ bufStatus = {} /\ wired /\ hStage = "idle"
      BY <2>1 DEF HostSetup, Setup, Quiet, Ints, InterruptsEnabled, TypeOK
    <2>3. newAddr < 128 /\ addrEndp = hAddr
      BY <2>2, <1>a
    <2>4. /\ setupRec' /\ setupPacket' = p /\ hPacket' = p /\ hStage' # "idle"
          /\ UNCHANGED <<pc, newAddr, addrEndp, hAddr, busReset, wired, packet, bufStatus>>
      BY <2>1 DEF HostSetup, Setup, cpuVars
    <2> QED  BY <2>2, <2>3, <2>4
  <1>30. CASE HostDropsIn
    BY <1>30 DEF HostDropsIn, Complete
  <1>31. CASE HostData
    BY <1>31 DEF HostData, Complete
  <1>32. CASE HostStatusIn
    <2>1. /\ UNCHANGED <<cpuVars, setupPacket, setupRec, busReset, addrEndp, wireVars, hPacket>>
          /\ EP0In \in bufStatus' /\ hStage = "status" /\ hStage' = "idle"
          /\ wired /\ ~Resetting
          /\ hAddr' = IF SetsAddress THEN hPacket.value % 128 ELSE hAddr
      BY <1>32 DEF HostStatusIn, Complete
    <2> QED  BY <2>1, <1>a
  <1>33. CASE HostOut
    BY <1>33 DEF HostOut, Complete
  <1>34. CASE UNCHANGED evars
    BY <1>34 DEF evars
  <1> QED
    BY <1>1, <1>2, <1>3, <1>4, <1>5, <1>6, <1>7, <1>8, <1>9, <1>10, <1>11,
       <1>12, <1>13, <1>14, <1>15, <1>16, <1>17, <1>18, <1>19, <1>20, <1>21,
       <1>22, <1>23, <1>24, <1>25, <1>26, <1>27, <1>28, <1>29, <1>30, <1>31,
       <1>32, <1>33, <1>34
    DEF ENext, HostPolls, Boot, Handler, SetupStage, CompletionStage, ResetStage

(* Between two transfers device and host agree on the device's address,    *)
(* for any requests: what a surplus part upsets is not the address.        *)
THEOREM AddressesAgree ==
    ASSUME Patient, ~MayAbort
    PROVE  ESpec => []AddressAgreement
  <1>1. EInit => TypeOK /\ HostTypeOK /\ FlowInv /\ Prompt /\ AgreeInv
    BY ETypeInductive, AgreeInit DEF EInit, Init, Prompt
  <1>2. TypeOK /\ HostTypeOK /\ FlowInv /\ Prompt /\ AgreeInv /\ [ENext]_evars
            => (TypeOK /\ HostTypeOK /\ FlowInv /\ Prompt /\ AgreeInv)'
    BY ETypeInductive, PromptStep, AgreeStep
  <1>3. TypeOK /\ AgreeInv => AddressAgreement
    BY ByteRange
    DEF TypeOK, AgreeInv, AddressAgreement, ServedAddress, Fresh, Resetting,
        Done, SetupPCs, Quiet, Ints, InterruptsEnabled
  <1> QED  BY <1>1, <1>2, <1>3, PTL DEF ESpec

===============================================================================
