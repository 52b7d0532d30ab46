--------------------------- MODULE UsbControlProofs ---------------------------
(***************************************************************************)
(* Theorems about UsbControl, for every set of packets the host may send,  *)
(* every table of endpoints without EP1 OUT, every size of the             *)
(* configuration descriptor and every content of uninitialised memory.     *)
(***************************************************************************)
EXTENDS UsbControl, TLAPS

----
(* The inductive invariants.                                               *)

(* Nothing is on the wire before the pull-up, and the handler has nothing  *)
(* to do before the first bus reset.                                       *)
BootInv ==
    /\ pc \in BootPCs => ~pullup
    /\ wired => pullup
    /\ ~wired => /\ pc \in BootPCs \cup {"main"}
                 /\ ~setupRec /\ ~busReset /\ bufStatus = {}

(* What the handler still has to do, from where it is.                     *)
StageInv ==
    /\ "SetupReq" \in status <=> pc = "setup"
    /\ "SetupReq" \in status => setupRec
    /\ "BusReset" \in status => busReset
    /\ pc = "reset" => "BusReset" \in status

(* Only buffers of endpoint 0 ever complete.                               *)
ControlOnly ==
    /\ pc \notin {"resetUsb", "clearDpram"} => EP1Out \notin enabled
    /\ bufStatus \subseteq {EP0In, EP0Out}
    /\ remaining \subseteq {EP0In, EP0Out}

(* An address the host has not asked for since its last bus reset.         *)
Stale(address) == address \notin asked \cup {0}

(* A packet that asks for such an address.                                 *)
StalePacket(p) ==
    p.dir = "Out" /\ p.request = Request.SetAddress /\ Stale(p.value % 128)

(* A stale address, wherever it is on its way from the SETUP packet to     *)
(* ADDR_ENDP, has a bus reset behind it that the handler has not served.   *)
(* The third conjunct is the delicate one: a stale SETUP packet must not   *)
(* outlive the handler's reset stage, so when this pass has the reset to   *)
(* serve it has the packet to serve first.                                 *)
StaleInv ==
    /\ Stale(addrEndp) => busReset \/ pc = "clearAddr"
    /\ newAddr >= 128 /\ Stale(newAddr % 128) => busReset \/ ~wired
    /\ setupRec /\ StalePacket(setupPacket)
           => busReset /\ ("BusReset" \in status => "SetupReq" \in status)
    /\ pc \in {"readPid", "clearPid", "readSetup"} /\ StalePacket(setupPacket) => busReset
    /\ pc = "request" /\ StalePacket(packet) => busReset

AddressInv == TypeOK /\ BootInv /\ StageInv /\ StaleInv

----
(* The functions the handler computes with.                                *)

(* The intervals the values of registers and bytes come from, so that no   *)
(* proof has to look inside them.                                          *)
LEMMA ByteRange == \A x : x \in Byte <=> x \in Nat /\ x <= 255
  BY DEF Byte

LEMMA WordRange == Word \subseteq Nat
  BY DEF Word

LEMMA AddressRange == \A x : x \in Address <=> x \in Nat /\ x <= 127
  BY DEF Address

LEMMA PacketSizeRange == \A x : x \in PacketSize <=> x \in Nat /\ x <= 64
  BY DEF PacketSize

LEMMA StageValues ==
    ASSUME NEW s
    PROVE  Stage(s) \in {"setup", "completions", "reset", "main"}
  BY DEF Stage

LEMMA ResumeValues ==
    ASSUME NEW rem
    PROVE  Resume(rem) \in {"take", "setup", "completions", "reset", "main"}
  BY StageValues DEF Resume

(* A slice is at most a packet, and a full one ends within the descriptor. *)
LEMMA SliceRange ==
    ASSUME NEW size \in Nat, NEW total \in Nat, NEW part \in Nat
    PROVE  /\ ConfigDescPacket(size, total, part).at \in Nat
           /\ ConfigDescPacket(size, total, part).length \in PacketSize
           /\ ConfigDescPacket(size, total, part).length = 64 => (part + 1) * 64 <= size
  BY PacketSizeRange DEF ConfigDescPacket, LesserOf

LEMMA StringReplyRange ==
    ASSUME NEW i \in Byte
    PROVE  StringReplyLength(i) \in PacketSize
  BY ByteRange, PacketSizeRange DEF StringReplyLength, StringUnits, LesserOf

(* The fields of a packet the handler can have read.                       *)
LEMMA PacketFields ==
    ASSUME NEW p \in Packets \cup {NoPacket}
    PROVE  /\ p.value \in Word /\ p.length \in Word
           /\ DescriptorTypeOf(p) \in Byte /\ DescriptorIndexOf(p) \in Byte
           /\ p.value % 128 \in Address
  <1>1. p \in SetupPacket
    <2>1. 0 \in Byte /\ 0 \in Word
      BY DEF Byte, Word
    <2>2. NoPacket \in SetupPacket
      BY <2>1 DEF NoPacket, SetupPacket
    <2> QED  BY <2>2, PacketsAssumption
  <1>2. p.value \in Word /\ p.length \in Word
    BY <1>1 DEF SetupPacket
  <1> DEFINE v == p.value
  <1>3. v \in Nat
    BY <1>2, WordRange
  <1> HIDE DEF v
  <1>4. (v \div 256) % 256 \in Nat /\ (v \div 256) % 256 <= 255
    BY <1>3
  <1>5. v % 256 \in Nat /\ v % 256 <= 255 /\ v % 128 \in Nat /\ v % 128 <= 127
    BY <1>3
  <1> QED
    BY <1>2, <1>4, <1>5, ByteRange, AddressRange DEF v, DescriptorTypeOf, DescriptorIndexOf

----
(* Type correctness.                                                       *)

LEMMA BufferNames == EP0In \in Buffers /\ EP0Out \in Buffers /\ EP1Out \in Buffers
  BY DEF Buffers

LEMMA SmallValues ==
    /\ 0 \in Byte /\ 0 \in PacketSize /\ 64 \in PacketSize /\ 0 \in Address
    /\ NoPacket \in Packets \cup {NoPacket}
  BY ByteRange, PacketSizeRange, AddressRange

(* What a write that arms a buffer leaves in its control register.         *)
LEMMA ArmedType ==
    ASSUME NEW f \in [Buffers -> BufferControl], NEW b \in Buffers,
           NEW n \in PacketSize, NEW bit \in {0, 1}
    PROVE  /\ f[b].available \in BOOLEAN /\ f[b].pid \in {0, 1} /\ f[b].length \in PacketSize
           /\ 1 - f[b].pid \in {0, 1}
           /\ [ available |-> TRUE, pid |-> bit, length |-> n ] \in BufferControl
           /\ [f EXCEPT ![b].available = FALSE] \in [Buffers -> BufferControl]
  <1>1. f[b] \in BufferControl
    OBVIOUS
  <1>2. f[b].available \in BOOLEAN /\ f[b].pid \in {0, 1} /\ f[b].length \in PacketSize
    BY <1>1 DEF BufferControl
  <1> DEFINE p == f[b].pid
  <1>3. p \in {0, 1}
    BY <1>2
  <1> HIDE DEF p
  <1>4. 1 - p \in {0, 1}
    BY <1>3
  <1>5. [ available |-> TRUE, pid |-> bit, length |-> n ] \in BufferControl
    BY DEF BufferControl
  <1>6. [f[b] EXCEPT !.available = FALSE] \in BufferControl
    BY <1>1 DEF BufferControl
  <1>7. [f EXCEPT ![b].available = FALSE] \in [Buffers -> BufferControl]
    BY <1>6
  <1> QED  BY <1>2, <1>4, <1>5, <1>7 DEF p

(* The registers of DPRAM after EP0 IN has been armed with n bytes.        *)
LEMMA ArmedInType ==
    ASSUME bufCtrl \in [Buffers -> BufferControl], NEW n \in PacketSize
    PROVE  /\ ArmedIn(n) \in BufferControl
           /\ [bufCtrl EXCEPT ![EP0In] = ArmedIn(n)] \in [Buffers -> BufferControl]
  <1>1. 1 - bufCtrl[EP0In].pid \in {0, 1}
    BY BufferNames, ArmedType
  <1>2. ArmedIn(n) \in BufferControl
    BY <1>1, BufferNames, ArmedType DEF ArmedIn
  <1> QED  BY <1>2

LEMMA EndpointBits ==
    /\ \A n \in EndpointId, d \in {"In", "Out"} : BufferBit(n, d) \in EndpointBit
    /\ Buffers \subseteq EndpointBit
  <1>1. \A x : x \in EndpointBit <=> x \in Nat /\ x <= 31
    BY DEF EndpointBit
  <1>2. \A x : x \in EndpointId <=> x \in Nat /\ x <= 15
    BY DEF EndpointId
  <1>3. \A n \in EndpointId, d \in {"In", "Out"} : BufferBit(n, d) \in EndpointBit
    BY <1>1, <1>2 DEF BufferBit
  <1>4. 0 \in EndpointId /\ 1 \in EndpointId
    BY <1>2
  <1> QED  BY <1>3, <1>4 DEF Buffers, EP0In, EP0Out, EP1Out

LEMMA TypeInit == Init => TypeOK
  <1> SUFFICES ASSUME Init PROVE TypeOK
    OBVIOUS
  <1>1. Idle \in BufferControl
    BY SmallValues DEF Idle, BufferControl
  <1>2. bufCtrl \in [Buffers -> BufferControl]
    <2>1. PICK a \in BOOLEAN : bufCtrl = [b \in Buffers |-> [Idle EXCEPT !.available = a]]
      BY DEF Init
    <2>2. [Idle EXCEPT !.available = a] \in BufferControl
      BY <1>1 DEF BufferControl
    <2> QED  BY <2>1, <2>2
  <1>3. flag \in 0..(FlagValues - 1)
    <2>1. PICK g \in Garbage : flag = g % FlagValues
      BY DEF Init
    <2>2. g \in Nat
      BY GarbageAssumption, ByteRange
    <2>3. FlagValues \in Nat /\ FlagValues > 0
      BY FlagAssumption
    <2> QED  BY <2>1, <2>2, <2>3
  <1>4. ep0Buffer \in [ type : Byte, index : Byte, at : Nat ]
    BY SmallValues DEF Init, NoContent, Content
  <1>5. enabled \subseteq EndpointBit
    BY EndpointBits DEF Init
  <1>6. newAddr \in Byte /\ epBufStatus \in Byte
    BY GarbageAssumption DEF Init
  <1>7. /\ pc \in PCs /\ status \subseteq Causes /\ ctrl \in BufferControl
        /\ packet \in Packets \cup {NoPacket} /\ setupPacket \in Packets \cup {NoPacket}
        /\ reply \in PacketSize /\ remaining \subseteq EndpointBit
        /\ bufStatus \subseteq EndpointBit /\ addrEndp \in Address
        /\ setupRec \in BOOLEAN /\ busReset \in BOOLEAN
        /\ pullup \in BOOLEAN /\ wired \in BOOLEAN /\ asked \subseteq Address
    BY <1>1, SmallValues DEF Init, PCs, BootPCs
  <1> QED  BY <1>2, <1>3, <1>4, <1>5, <1>6, <1>7 DEF TypeOK

(* The content of a buffer that holds a descriptor.                        *)
LEMMA ContentType ==
    ASSUME NEW type \in {DescriptorTypes.Device, DescriptorTypes.Config, DescriptorTypes.String},
           NEW index \in Byte, NEW at \in Nat
    PROVE  Content(type, index, at) \in [ type : Byte, index : Byte, at : Nat ]
  <1>1. type \in Byte
    BY ByteRange DEF DescriptorTypes
  <1> QED  BY <1>1 DEF Content

(* What FillConfigPart leaves, for every length and part it is given.      *)
LEMMA FillType ==
    ASSUME NEW total \in Word, NEW part \in Byte, FillConfigPart(total, part)
    PROVE  /\ ep0Buffer' \in [ type : Byte, index : Byte, at : Nat ]
           /\ epBufStatus' \in Byte
           /\ reply' \in PacketSize
           /\ pc' = "armReply"
  <1> DEFINE slice == ConfigDescPacket(ConfigDescSize, total, part)
  <1>1. slice.at \in Nat /\ slice.length \in PacketSize
    BY SliceRange, SizeAssumption, WordRange, ByteRange
  <1>2. /\ ep0Buffer' = Content(DescriptorTypes.Config, 0, slice.at)
        /\ epBufStatus' = (IF slice.length = 64 THEN (part + 1) % 256 ELSE 0)
        /\ reply' = slice.length
        /\ pc' = "armReply"
    BY DEF FillConfigPart, NextPart
  <1> HIDE DEF slice
  <1>3. epBufStatus' \in Byte
    BY <1>2, ByteRange
  <1>4. ep0Buffer' \in [ type : Byte, index : Byte, at : Nat ]
    BY <1>1, <1>2, ContentType, SmallValues
  <1> QED  BY <1>1, <1>2, <1>3, <1>4

LEMMA TypeStep == TypeOK /\ [Next]_vars => TypeOK'
  <1> SUFFICES ASSUME TypeOK, [Next]_vars PROVE TypeOK'
    OBVIOUS
  <1> USE DEF TypeOK, PCs, BootPCs, SetupPCs, ReplyPCs, CompletionPCs, ResetPCs,
              vars, cpuVars, dpramVars, sieVars, wireVars
  <1>1. CASE ResetUsb
    BY <1>1, SmallValues
    DEF ResetUsb
  <1>2. CASE ClearDpram
    <2>1. Idle \in BufferControl
      BY SmallValues DEF Idle, BufferControl
    <2>2. bufCtrl' \in [Buffers -> BufferControl]
      BY <1>2, <2>1 DEF ClearDpram
    <2>3. ep0Buffer' \in [ type : Byte, index : Byte, at : Nat ]
      BY <1>2, SmallValues DEF ClearDpram, NoContent, Content
    <2>4. flag' \in 0..(FlagValues - 1)
      BY <1>2, FlagAssumption DEF ClearDpram
    <2> QED
      BY <1>2, <2>1, <2>2, <2>3, <2>4, SmallValues
      DEF ClearDpram
  <1>3. CASE ConfigureEndpoints
    BY <1>3, EndpointsAssumption, EndpointBits
    DEF ConfigureEndpoints, Configured
  <1>4. CASE Connect
    BY <1>4
    DEF Connect
  <1>5. CASE Trap
    BY <1>5, StageValues
    DEF Trap, Ints, InterruptsEnabled, Causes
  <1>6. CASE ClearSetupRec
    BY <1>6
    DEF ClearSetupRec
  <1>7. CASE ReadInCtrl
    BY <1>7, BufferNames
    DEF ReadInCtrl
  <1>8. CASE ClearPid
    BY <1>8, BufferNames, SmallValues
    DEF ClearPid, Idle, BufferControl
  <1>9. CASE ReadSetup
    BY <1>9
    DEF ReadSetup
  <1>10. CASE HandleSetAddress
    <2>1. bufCtrl' \in [Buffers -> BufferControl]
      BY <1>10, ArmedInType, SmallValues DEF HandleSetAddress, Acknowledged
    <2>2. packet.value % 128 \in Address
      BY PacketFields
    <2>3. newAddr' \in Byte
      BY <1>10, <2>2, AddressRange, ByteRange DEF HandleSetAddress, PendingAddress
    <2> QED
      BY <1>10, <2>1, <2>2, <2>3, SmallValues, StageValues
      DEF HandleSetAddress, EndSetup, Requested
  <1>11. CASE HandleSetConfiguration
    <2>1. Acknowledged \in [Buffers -> BufferControl]
      BY ArmedInType, SmallValues DEF Acknowledged
    <2>2. 1 - Acknowledged[EP1Out].pid \in {0, 1}
      BY <2>1, ArmedType, BufferNames, SmallValues
    <2>3. [ available |-> TRUE, pid |-> 1 - Acknowledged[EP1Out].pid, length |-> 64 ] \in BufferControl
      BY <2>2, SmallValues DEF BufferControl
    <2>4. bufCtrl' \in [Buffers -> BufferControl]
      BY <1>11, <2>1, <2>3 DEF HandleSetConfiguration
    <2> QED
      BY <1>11, <2>1, <2>2, <2>3, <2>4, SmallValues, StageValues
      DEF HandleSetConfiguration, EndSetup, Requested
  <1>12. CASE RejectRequest
    BY <1>12
    DEF RejectRequest
  <1>13. CASE HandleSetLineCoding
    <2>1. bufCtrl' \in [Buffers -> BufferControl]
      BY <1>13, ArmedInType, SmallValues DEF HandleSetLineCoding, Acknowledged
    <2>2. flag \in Nat /\ FlagValues \in Nat /\ FlagValues > 0
      BY FlagAssumption
    <2>3. flag' \in 0..(FlagValues - 1)
      BY <1>13, <2>2 DEF HandleSetLineCoding
    <2> QED
      BY <1>13, <2>1, <2>2, <2>3, SmallValues, StageValues
      DEF HandleSetLineCoding, EndSetup, Requested
  <1>14. CASE HandleOtherOut
    <2>1. bufCtrl' \in [Buffers -> BufferControl]
      BY <1>14, ArmedInType, SmallValues DEF HandleOtherOut, Acknowledged
    <2> QED
      BY <1>14, <2>1, SmallValues, StageValues
      DEF HandleOtherOut, EndSetup, Requested
  <1>15. CASE FillDeviceDescriptor
    <2>1. ep0Buffer' \in [ type : Byte, index : Byte, at : Nat ]
      BY <1>15, ContentType, SmallValues DEF FillDeviceDescriptor
    <2>2. packet.length \in Nat
      BY PacketFields, WordRange
    <2>3. LesserOf(DeviceDescriptorLength, packet.length) \in PacketSize
      BY <2>2, PacketSizeRange DEF LesserOf, DeviceDescriptorLength
    <2>4. reply' \in PacketSize
      BY <1>15, <2>3 DEF FillDeviceDescriptor
    <2> QED
      BY <1>15, <2>1, <2>2, <2>3, <2>4, SmallValues
      DEF FillDeviceDescriptor
  <1>16. CASE FillConfigDescriptor
    <2>1. packet.length \in Word
      BY PacketFields
    <2>2. FillConfigPart(packet.length, 0)
      BY <1>16 DEF FillConfigDescriptor
    <2>3. /\ ep0Buffer' \in [ type : Byte, index : Byte, at : Nat ]
          /\ epBufStatus' \in Byte /\ reply' \in PacketSize /\ pc' = "armReply"
      BY <2>1, <2>2, FillType, SmallValues
    <2> QED
      BY <1>16, <2>1, <2>2, <2>3, SmallValues
      DEF FillConfigDescriptor
  <1>17. CASE FillStringDescriptor
    <2>1. DescriptorIndexOf(packet) \in Byte
      BY PacketFields
    <2>2. ep0Buffer' \in [ type : Byte, index : Byte, at : Nat ]
      BY <1>17, <2>1, ContentType DEF FillStringDescriptor
    <2>3. reply' \in PacketSize
      BY <1>17, <2>1, StringReplyRange DEF FillStringDescriptor
    <2> QED
      BY <1>17, <2>1, <2>2, <2>3, SmallValues
      DEF FillStringDescriptor
  <1>18. CASE SendDeviceQualifier
    <2>1. bufCtrl' \in [Buffers -> BufferControl]
      BY <1>18, ArmedInType, SmallValues DEF SendDeviceQualifier, Acknowledged
    <2> QED
      BY <1>18, <2>1, SmallValues, StageValues
      DEF SendDeviceQualifier, EndSetup
  <1>19. CASE ArmDevice
    <2>1. [ available |-> TRUE, pid |-> 1, length |-> reply ] \in BufferControl
      BY DEF BufferControl
    <2>2. bufCtrl' \in [Buffers -> BufferControl]
      BY <1>19, <2>1 DEF ArmDevice
    <2> QED
      BY <1>19, <2>1, <2>2, SmallValues, StageValues
      DEF ArmDevice
  <1>20. CASE ArmReply
    <2>1. bufCtrl' \in [Buffers -> BufferControl]
      BY <1>20, ArmedInType DEF ArmReply
    <2> QED
      BY <1>20, <2>1, SmallValues, ResumeValues
      DEF ArmReply
  <1>21. CASE ReadBufStatus
    BY <1>21, StageValues
    DEF ReadBufStatus
  <1>22. CASE TakeCompletion
    BY <1>22, ResumeValues
    DEF TakeCompletion
  <1>23. CASE ApplyAddress
    <2>1. newAddr \in Nat
      BY ByteRange
    <2>2. newAddr % 128 \in Nat /\ newAddr % 128 <= 127
      BY <2>1
    <2>3. newAddr' \in Byte /\ addrEndp' \in Address
      BY <1>23, <2>2, ByteRange, AddressRange DEF ApplyAddress
    <2> QED
      BY <1>23, <2>1, <2>2, <2>3, ResumeValues
      DEF ApplyAddress
  <1>24. CASE ContinueConfig
    <2>1. setupPacket.length \in Word
      BY PacketFields
    <2>2. FillConfigPart(setupPacket.length, epBufStatus)
      BY <1>24 DEF ContinueConfig
    <2>3. /\ ep0Buffer' \in [ type : Byte, index : Byte, at : Nat ]
          /\ epBufStatus' \in Byte /\ reply' \in PacketSize /\ pc' = "armReply"
      BY <2>1, <2>2, FillType
    <2> QED
      BY <1>24, <2>1, <2>2, <2>3
      DEF ContinueConfig
  <1>25. CASE ArmStatusOut
    <2>1. 1 - bufCtrl[EP0Out].pid \in {0, 1}
      BY ArmedType, BufferNames, SmallValues
    <2>2. [ available |-> TRUE, pid |-> 1 - bufCtrl[EP0Out].pid, length |-> 0 ] \in BufferControl
      BY <2>1, SmallValues DEF BufferControl
    <2>3. bufCtrl' \in [Buffers -> BufferControl]
      BY <1>25, <2>2 DEF ArmStatusOut
    <2> QED
      BY <1>25, <2>1, <2>2, <2>3, ResumeValues
      DEF ArmStatusOut
  <1>26. CASE ClearBusReset
    BY <1>26, SmallValues
    DEF ClearBusReset
  <1>27. CASE ClearAddress
    BY <1>27, SmallValues, StageValues
    DEF ClearAddress
  <1>28. CASE BusReset
    BY <1>28
    DEF BusReset
  <1>29. CASE \E p \in Packets : Setup(p)
    <2>1. PICK p \in Packets : Setup(p)
      BY <1>29
    <2>2. p.value % 128 \in Address
      BY PacketFields
    <2> QED  BY <2>1, <2>2 DEF Setup
  <1>30. CASE \E b \in Buffers : Complete(b)
    <2>1. PICK b \in Buffers : Complete(b)
      BY <1>30
    <2>2. [bufCtrl EXCEPT ![b].available = FALSE] \in [Buffers -> BufferControl]
      BY ArmedType, SmallValues
    <2>3. b \in EndpointBit
      BY EndpointBits
    <2> QED  BY <2>1, <2>2, <2>3 DEF Complete
  <1>31. CASE UNCHANGED vars
    BY <1>31
  <1> QED
    BY <1>1, <1>2, <1>3, <1>4, <1>5, <1>6, <1>7, <1>8, <1>9, <1>10,
       <1>11, <1>12, <1>13, <1>14, <1>15, <1>16, <1>17, <1>18, <1>19, <1>20,
       <1>21, <1>22, <1>23, <1>24, <1>25, <1>26, <1>27, <1>28, <1>29, <1>30,
       <1>31
    DEF Next, Boot, Handler, SetupStage, CompletionStage, ResetStage, Host

(* Every register, byte of memory and local keeps the values its width and *)
(* its use allow: no index or address the handler computes leaves its      *)
(* range, whatever the host sends.                                         *)
THEOREM TypeCorrect == Spec => []TypeOK
  BY TypeInit, TypeStep, PTL DEF Spec

----
(* The flow of control.                                                    *)

(* Where the handler goes says what it has left to do.                     *)
LEMMA StageFits ==
    ASSUME NEW s
    PROVE  /\ Stage(s) = "setup" <=> "SetupReq" \in s
           /\ Stage(s) = "reset" => "BusReset" \in s
           /\ Stage(s) # "main" => s # {}
  BY DEF Stage

LEMMA ResumeFits ==
    ASSUME NEW rem, "SetupReq" \notin status
    PROVE  /\ Resume(rem) # "setup"
           /\ Resume(rem) = "reset" => "BusReset" \in status
  BY StageFits DEF Resume

FlowInv == BootInv /\ StageInv

LEMMA FlowInit == Init => FlowInv
  BY DEF Init, FlowInv, BootInv, StageInv, BootPCs

LEMMA FlowStep == FlowInv /\ [Next]_vars => FlowInv'
  <1> SUFFICES ASSUME FlowInv, [Next]_vars PROVE FlowInv'
    OBVIOUS
  <1> USE DEF FlowInv, BootInv, StageInv, BootPCs,
              vars, cpuVars, dpramVars, sieVars, wireVars
  <1>1. CASE ResetUsb
    BY <1>1 DEF ResetUsb
  <1>2. CASE ClearDpram
    BY <1>2 DEF ClearDpram
  <1>3. CASE ConfigureEndpoints
    BY <1>3 DEF ConfigureEndpoints
  <1>4. CASE Connect
    BY <1>4 DEF Connect
  <1>5. CASE Trap
    BY <1>5, StageFits, StageValues DEF Trap, Ints, InterruptsEnabled
  <1>6. CASE ClearSetupRec
    BY <1>6 DEF ClearSetupRec
  <1>7. CASE ReadInCtrl
    BY <1>7 DEF ReadInCtrl
  <1>8. CASE ClearPid
    BY <1>8 DEF ClearPid
  <1>9. CASE ReadSetup
    BY <1>9 DEF ReadSetup
  <1>10. CASE HandleSetAddress
    BY <1>10, StageFits, StageValues DEF HandleSetAddress, EndSetup, Requested
  <1>11. CASE HandleSetConfiguration
    BY <1>11, StageFits, StageValues DEF HandleSetConfiguration, EndSetup, Requested
  <1>12. CASE RejectRequest
    BY <1>12 DEF RejectRequest
  <1>13. CASE HandleSetLineCoding
    BY <1>13, StageFits, StageValues DEF HandleSetLineCoding, EndSetup, Requested
  <1>14. CASE HandleOtherOut
    BY <1>14, StageFits, StageValues DEF HandleOtherOut, EndSetup, Requested
  <1>15. CASE FillDeviceDescriptor
    BY <1>15 DEF FillDeviceDescriptor, DescriptorRequested, Requested
  <1>16. CASE FillConfigDescriptor
    BY <1>16 DEF FillConfigDescriptor, FillConfigPart, DescriptorRequested, Requested
  <1>17. CASE FillStringDescriptor
    BY <1>17 DEF FillStringDescriptor, DescriptorRequested, Requested
  <1>18. CASE SendDeviceQualifier
    BY <1>18, StageFits, StageValues DEF SendDeviceQualifier, EndSetup, DescriptorRequested, Requested
  <1>19. CASE ArmDevice
    BY <1>19, StageFits, StageValues DEF ArmDevice
  <1>20. CASE ArmReply
    BY <1>20, ResumeFits, ResumeValues DEF ArmReply
  <1>21. CASE ReadBufStatus
    BY <1>21, StageFits, StageValues DEF ReadBufStatus
  <1>22. CASE TakeCompletion
    BY <1>22, ResumeFits, ResumeValues DEF TakeCompletion
  <1>23. CASE ApplyAddress
    BY <1>23, ResumeFits, ResumeValues DEF ApplyAddress
  <1>24. CASE ContinueConfig
    BY <1>24 DEF ContinueConfig, FillConfigPart
  <1>25. CASE ArmStatusOut
    BY <1>25, ResumeFits, ResumeValues DEF ArmStatusOut
  <1>26. CASE ClearBusReset
    BY <1>26 DEF ClearBusReset
  <1>27. CASE ClearAddress
    BY <1>27, StageFits, StageValues DEF ClearAddress
  <1>28. CASE BusReset
    BY <1>28 DEF BusReset
  <1>29. CASE \E p \in Packets : Setup(p)
    BY <1>29 DEF Setup
  <1>30. CASE \E b \in Buffers : Complete(b)
    BY <1>30 DEF Complete
  <1>31. CASE UNCHANGED vars
    BY <1>31
  <1> QED
    BY <1>1, <1>2, <1>3, <1>4, <1>5, <1>6, <1>7, <1>8, <1>9, <1>10,
       <1>11, <1>12, <1>13, <1>14, <1>15, <1>16, <1>17, <1>18, <1>19, <1>20,
       <1>21, <1>22, <1>23, <1>24, <1>25, <1>26, <1>27, <1>28, <1>29, <1>30,
       <1>31
    DEF Next, Boot, Handler, SetupStage, CompletionStage, ResetStage, Host

----
(* The device panics on requests it does not support only.                 *)

LEMMA BufferNumbers == EP0In = 0 /\ EP0Out = 1 /\ EP1Out = 3
  BY DEF EP0In, EP0Out, EP1Out, BufferBit

(* The table of endpoints enables no buffer that has no code.              *)
LEMMA NotEnabled ==
    EP1Out \notin {BufferBit(e.number, e.direction) : e \in {f \in Endpoints : f.number # 0}}
  <1> SUFFICES ASSUME NEW e \in Endpoints, EP1Out = BufferBit(e.number, e.direction)
               PROVE  FALSE
    OBVIOUS
  <1>1. e \in [ number : EndpointId, direction : {"In", "Out"} ]
    BY EndpointsAssumption
  <1>2. e.number \in Nat /\ e.direction \in {"In", "Out"}
    BY <1>1 DEF EndpointId
  <1> DEFINE n == e.number
             d == e.direction
  <1>3. n \in Nat /\ d \in {"In", "Out"} /\ BufferBit(n, d) = 3
    BY <1>2, BufferNumbers
  <1> HIDE DEF n, d
  <1>4. n = 1 /\ d = "Out"
    BY <1>3 DEF BufferBit
  <1>5. e = [ number |-> 1, direction |-> "Out" ]
    BY <1>1, <1>4 DEF n, d
  <1> QED  BY <1>5, EndpointsAssumption

PanicInv == ControlOnly /\ PanicJustified

LEMMA PanicInit == Init => PanicInv
  BY DEF Init, PanicInv, ControlOnly, PanicJustified

LEMMA PanicStep == FlowInv /\ PanicInv /\ [Next]_vars => PanicInv'
  <1> SUFFICES ASSUME FlowInv, PanicInv, [Next]_vars PROVE PanicInv'
    OBVIOUS
  <1> USE DEF PanicInv, ControlOnly, PanicJustified,
              vars, cpuVars, dpramVars, sieVars, wireVars
  <1>1. CASE ResetUsb
    BY <1>1 DEF ResetUsb
  <1>2. CASE ClearDpram
    BY <1>2 DEF ClearDpram
  <1>3. CASE ConfigureEndpoints
    BY <1>3, NotEnabled DEF ConfigureEndpoints, Configured
  <1>4. CASE Connect
    BY <1>4 DEF Connect
  <1>5. CASE Trap
    BY <1>5, StageValues DEF Trap, Ints, InterruptsEnabled
  <1>6. CASE ClearSetupRec
    BY <1>6 DEF ClearSetupRec
  <1>7. CASE ReadInCtrl
    BY <1>7 DEF ReadInCtrl
  <1>8. CASE ClearPid
    BY <1>8 DEF ClearPid
  <1>9. CASE ReadSetup
    BY <1>9 DEF ReadSetup
  <1>10. CASE HandleSetAddress
    BY <1>10, StageValues DEF HandleSetAddress, EndSetup, Requested
  <1>11. CASE HandleSetConfiguration
    BY <1>11, StageValues DEF HandleSetConfiguration, EndSetup, Requested
  <1>12. CASE RejectRequest
    BY <1>12 DEF RejectRequest, Supported
  <1>13. CASE HandleSetLineCoding
    BY <1>13, StageValues DEF HandleSetLineCoding, EndSetup, Requested
  <1>14. CASE HandleOtherOut
    BY <1>14, StageValues DEF HandleOtherOut, EndSetup, Requested
  <1>15. CASE FillDeviceDescriptor
    BY <1>15 DEF FillDeviceDescriptor, DescriptorRequested, Requested
  <1>16. CASE FillConfigDescriptor
    BY <1>16 DEF FillConfigDescriptor, FillConfigPart, DescriptorRequested, Requested
  <1>17. CASE FillStringDescriptor
    BY <1>17 DEF FillStringDescriptor, DescriptorRequested, Requested
  <1>18. CASE SendDeviceQualifier
    BY <1>18, StageValues DEF SendDeviceQualifier, EndSetup, DescriptorRequested, Requested
  <1>19. CASE ArmDevice
    BY <1>19, StageValues DEF ArmDevice
  <1>20. CASE ArmReply
    BY <1>20, ResumeValues DEF ArmReply
  <1>21. CASE ReadBufStatus
    BY <1>21, StageValues DEF ReadBufStatus
  <1>22. CASE TakeCompletion
    <2>1. PICK bit \in remaining :
              /\ bufStatus' = bufStatus \ {bit}
              /\ remaining' = remaining \ {bit}
              /\ pc' = CASE bit = EP0In -> "ep0In"
                         [] bit = EP0Out -> Resume(remaining \ {bit})
                         [] OTHER -> "panic"
      BY <1>22 DEF TakeCompletion
    <2>2. bit \in {EP0In, EP0Out}
      OBVIOUS
    <2>3. pc' \notin {"resetUsb", "clearDpram", "panic"}
      BY <2>1, <2>2, ResumeValues, BufferNumbers
    <2> QED  BY <1>22, <2>1, <2>3 DEF TakeCompletion
  <1>23. CASE ApplyAddress
    BY <1>23, ResumeValues DEF ApplyAddress
  <1>24. CASE ContinueConfig
    BY <1>24 DEF ContinueConfig, FillConfigPart
  <1>25. CASE ArmStatusOut
    BY <1>25, ResumeValues DEF ArmStatusOut
  <1>26. CASE ClearBusReset
    BY <1>26 DEF ClearBusReset
  <1>27. CASE ClearAddress
    BY <1>27, StageValues DEF ClearAddress
  <1>28. CASE BusReset
    BY <1>28 DEF BusReset
  <1>29. CASE \E p \in Packets : Setup(p)
    BY <1>29 DEF Setup
  <1>30. CASE \E b \in Buffers : Complete(b)
    <2>1. PICK b \in Buffers : Complete(b)
      BY <1>30
    <2>2. pc \notin {"resetUsb", "clearDpram"}
      BY <2>1 DEF Complete, FlowInv, BootInv, BootPCs
    <2>3. b \in {EP0In, EP0Out}
      BY <2>1, <2>2 DEF Complete, Buffers
    <2> QED  BY <2>1, <2>3 DEF Complete
  <1>31. CASE UNCHANGED vars
    BY <1>31
  <1> QED
    BY <1>1, <1>2, <1>3, <1>4, <1>5, <1>6, <1>7, <1>8, <1>9, <1>10,
       <1>11, <1>12, <1>13, <1>14, <1>15, <1>16, <1>17, <1>18, <1>19, <1>20,
       <1>21, <1>22, <1>23, <1>24, <1>25, <1>26, <1>27, <1>28, <1>29, <1>30,
       <1>31
    DEF Next, Boot, Handler, SetupStage, CompletionStage, ResetStage, Host

(* However tokens and handler steps fall, the handler gets into no todo!() *)
(* or assertion but those a request it does not support leads to: no       *)
(* buffer completes that the completion stage has no code for.             *)
THEOREM PanicsJustified == Spec => []PanicJustified
  <1>1. FlowInv /\ PanicInv /\ [Next]_vars => (FlowInv /\ PanicInv)'
    BY FlowStep, PanicStep
  <1>2. PanicInv => PanicJustified
    BY DEF PanicInv
  <1> QED  BY FlowInit, PanicInit, <1>1, <1>2, PTL DEF Spec

LEMMA NoPanic ==
    ASSUME \A p \in Packets : Supported(p)
    PROVE  Init /\ [][Next]_vars => [](pc # "panic")
  <1>1. TypeOK /\ PanicJustified => pc # "panic"
    <2>1. Supported(NoPacket)
      BY DEF Supported, NoPacket, Request
    <2> QED  BY <2>1 DEF TypeOK, PanicJustified
  <1>2. FlowInv /\ PanicInv /\ [Next]_vars => (FlowInv /\ PanicInv)'
    BY FlowStep, PanicStep
  <1>3. PanicInv => PanicJustified
    BY DEF PanicInv
  <1> QED
    BY <1>1, <1>2, <1>3, TypeInit, TypeStep, FlowInit, PanicInit, PTL

(* A host that keeps to the requests the device supports never sees it     *)
(* panic, whatever else the host does and however the tokens fall.         *)
THEOREM SupportedNeverPanics ==
    ASSUME \A p \in Packets : Supported(p)
    PROVE  Spec => [](pc # "panic")
  BY NoPanic, PTL DEF Spec

----
(* How long a pass of the handler takes.                                   *)

(* The accesses a pass still makes, at most: those the causes it has not   *)
(* handled yet will take, those of the completions it has not taken, and   *)
(* those of the stage the CPU is in.                                       *)
CauseWork(s) ==
    (IF "SetupReq" \in s THEN 6 ELSE 0)
    + (IF "BufStatus" \in s THEN 5 ELSE 0)
    + (IF "BusReset" \in s THEN 2 ELSE 0)

BufferWork(rem) ==
    (IF EP0In \in rem THEN 3 ELSE 0) + (IF EP0Out \in rem THEN 1 ELSE 0)

PlaceWork(p) ==
    IF p = "readPid" THEN 5
    ELSE IF p \in {"resetUsb", "clearPid"} THEN 4
    ELSE IF p \in {"clearDpram", "readSetup"} THEN 3
    ELSE IF p \in {"configure", "request", "ep0In"} THEN 2
    ELSE IF p \in {"connect", "armDevice", "armReply", "clearAddr"} THEN 1
    ELSE 0

Work == PlaceWork(pc) + CauseWork(status) + BufferWork(remaining)

(* No step of the CPU but the entry of the handler leaves it more to do,   *)
(* or as much as before; the controller and the host never do.             *)
PassShortens == [][pc = "main" \/ UNCHANGED cpuVars \/ Work' < Work]_vars

WorkBounded == Work \in 0..13

(* Completions are left in the completion stage only, and that stage is    *)
(* entered for a completion.                                               *)
PassInv ==
    /\ pc = "completions" => "BufStatus" \in status
    /\ remaining # {} => pc \in {"take", "ep0In", "armReply", "panic"}
    /\ WorkBounded

LEMMA CauseParts ==
    ASSUME NEW s
    PROVE  /\ CauseWork(s) \in 0..13
           /\ "SetupReq" \in s => CauseWork(s \ {"SetupReq"}) + 6 = CauseWork(s)
           /\ "BufStatus" \in s => CauseWork(s \ {"BufStatus"}) + 5 = CauseWork(s)
           /\ "BusReset" \in s => CauseWork(s \ {"BusReset"}) + 2 = CauseWork(s)
  BY DEF CauseWork

LEMMA BufferParts ==
    ASSUME NEW rem
    PROVE  /\ BufferWork(rem) \in 0..4
           /\ EP0In \in rem => BufferWork(rem \ {EP0In}) + 3 = BufferWork(rem)
           /\ EP0Out \in rem => BufferWork(rem \ {EP0Out}) + 1 = BufferWork(rem)
           /\ rem = {} => BufferWork(rem) = 0
  BY BufferNumbers DEF BufferWork

LEMMA PlaceParts ==
    ASSUME NEW p
    PROVE  PlaceWork(p) \in 0..5
  BY DEF PlaceWork

(* Going on with the next cause or completion is itself no access.         *)
LEMMA GoOn ==
    ASSUME NEW s, NEW rem
    PROVE  /\ PlaceWork(Stage(s)) = 0 /\ PlaceWork(Resume(rem)) = 0
           /\ Stage(s) = "completions" => "BufStatus" \in s
           /\ Resume(rem) = "completions" => "BufStatus" \in status
           /\ rem # {} => Resume(rem) = "take"
  BY DEF PlaceWork, Resume, Stage

LEMMA PassInit == Init => PassInv
  BY DEF Init, PassInv, WorkBounded, Work, PlaceWork, CauseWork, BufferWork

(* Every step of the CPU outside main.                                     *)
LEMMA PassStep ==
    ASSUME FlowInv, PanicInv, PassInv, Boot \/ Handler, pc # "main"
    PROVE  Work' < Work /\ PassInv'
  <1> DEFINE C == CauseWork(status)
             B == BufferWork(remaining)
  <1>1. C \in 0..13 /\ B \in 0..4 /\ Work = PlaceWork(pc) + C + B /\ Work <= 13
    <2>1. C \in 0..13 /\ B \in 0..4
      BY CauseParts, BufferParts
    <2>2. Work = PlaceWork(pc) + C + B
      BY DEF Work
    <2>3. Work \in 0..13
      BY DEF PassInv, WorkBounded
    <2> HIDE DEF B, C
    <2> QED  BY <2>1, <2>2, <2>3
  (* A step that leaves the causes and completions as they are, and goes   *)
  (* on to a place p.                                                      *)
  <1>2. ASSUME NEW p, pc' = p, UNCHANGED <<status, remaining>>, PlaceWork(p) < PlaceWork(pc),
               p = "completions" => "BufStatus" \in status,
               remaining # {} => p \in {"take", "ep0In", "armReply", "panic"}
        PROVE  Work' < Work /\ PassInv'
    <2>1. Work' = PlaceWork(p) + C + B
      BY <1>2 DEF Work
    <2>2. PlaceWork(p) \in 0..5 /\ PlaceWork(pc) \in 0..5
      BY PlaceParts
    <2> HIDE DEF C, B
    <2>3. Work' < Work /\ Work' \in 0..13
      BY <1>1, <1>2, <2>1, <2>2
    <2> QED  BY <1>2, <2>3 DEF PassInv, WorkBounded
  (* One that handles a cause, of weight w.                                *)
  <1>3. ASSUME NEW c \in Causes, c \in status, status' = status \ {c}, NEW p, pc' = p,
               p # "completions", remaining = {}, remaining' = {},
               PlaceWork(pc) = 0, PlaceWork(p) < C - CauseWork(status \ {c})
        PROVE  Work' < Work /\ PassInv'
    <2>1. Work' = PlaceWork(p) + CauseWork(status \ {c}) + B
      BY <1>3 DEF Work
    <2>2. PlaceWork(p) \in 0..5 /\ CauseWork(status \ {c}) \in 0..13
      BY PlaceParts, CauseParts
    <2> HIDE DEF C, B
    <2>3. Work' < Work /\ Work' \in 0..13
      BY <1>1, <1>3, <2>1, <2>2
    <2> QED  BY <1>3, <2>3 DEF PassInv, WorkBounded
  <1>4. "SetupReq" \in status <=> pc = "setup"
    BY DEF FlowInv, StageInv
  <1>5. CASE ResetUsb
    BY <1>2, <1>5 DEF ResetUsb, PlaceWork, PassInv
  <1>6. CASE ClearDpram
    BY <1>2, <1>6 DEF ClearDpram, PlaceWork, PassInv
  <1>7. CASE ConfigureEndpoints
    BY <1>2, <1>7 DEF ConfigureEndpoints, PlaceWork, PassInv
  <1>8. CASE Connect
    BY <1>2, <1>8 DEF Connect, PlaceWork, PassInv
  <1>9. CASE ClearSetupRec
    <2>1. /\ pc = "setup" /\ pc' = "readPid" /\ "SetupReq" \in status /\ remaining = {}
          /\ status' = status \ {"SetupReq"} /\ remaining' = {}
      BY <1>4, <1>9 DEF ClearSetupRec, PassInv
    <2>2. PlaceWork(pc) = 0 /\ PlaceWork("readPid") = 5
      BY <2>1 DEF PlaceWork
    <2>3. CauseWork(status \ {"SetupReq"}) + 6 = C /\ CauseWork(status \ {"SetupReq"}) \in 0..13
      BY <2>1, CauseParts
    <2> QED  BY <1>1, <1>3, <2>1, <2>2, <2>3 DEF Causes
  <1>10. CASE ReadInCtrl
    BY <1>2, <1>10 DEF ReadInCtrl, PlaceWork, PassInv
  <1>11. CASE ClearPid
    BY <1>2, <1>11 DEF ClearPid, PlaceWork, PassInv
  <1>12. CASE ReadSetup
    BY <1>2, <1>12 DEF ReadSetup, PlaceWork, PassInv
  <1>13. CASE HandleSetAddress \/ HandleSetConfiguration \/ HandleSetLineCoding
                \/ HandleOtherOut \/ SendDeviceQualifier
    <2>1. pc = "request" /\ pc' = Stage(status) /\ UNCHANGED <<status, remaining>>
      BY <1>13 DEF HandleSetAddress, HandleSetConfiguration, HandleSetLineCoding,
         HandleOtherOut, SendDeviceQualifier, DescriptorRequested, Requested, EndSetup
    <2>2. remaining = {} /\ PlaceWork(Stage(status)) < PlaceWork(pc)
      BY <2>1, GoOn DEF PassInv, PlaceWork
    <2> QED  BY <1>2, <2>1, <2>2, GoOn
  <1>14. CASE RejectRequest
    BY <1>2, <1>14 DEF RejectRequest, PlaceWork, PassInv
  <1>15. CASE FillDeviceDescriptor \/ FillConfigDescriptor \/ FillStringDescriptor
    <2>1. pc = "request" /\ pc' \in {"armDevice", "armReply"} /\ UNCHANGED <<status, remaining>>
      BY <1>15 DEF FillDeviceDescriptor, FillConfigDescriptor, FillConfigPart,
         FillStringDescriptor, DescriptorRequested, Requested
    <2> QED  BY <1>2, <2>1 DEF PlaceWork, PassInv
  <1>16. CASE ArmDevice
    <2>1. pc = "armDevice" /\ pc' = Stage(status) /\ UNCHANGED <<status, remaining>>
      BY <1>16 DEF ArmDevice
    <2>2. remaining = {} /\ PlaceWork(Stage(status)) < PlaceWork(pc)
      BY <2>1, GoOn DEF PassInv, PlaceWork
    <2> QED  BY <1>2, <2>1, <2>2, GoOn
  <1>17. CASE ArmReply \/ ApplyAddress \/ ArmStatusOut
    <2>1. pc \in {"armReply", "ep0In"} /\ pc' = Resume(remaining) /\ UNCHANGED <<status, remaining>>
      BY <1>17 DEF ArmReply, ApplyAddress, ArmStatusOut
    <2>2. PlaceWork(Resume(remaining)) < PlaceWork(pc)
      BY <2>1, GoOn DEF PlaceWork
    <2> QED  BY <1>2, <2>1, <2>2, GoOn
  <1>18. CASE ContinueConfig
    BY <1>2, <1>18 DEF ContinueConfig, FillConfigPart, PlaceWork, PassInv
  <1>19. CASE ReadBufStatus
    <2> DEFINE D == CauseWork(status \ {"BufStatus"})
               R == BufferWork(bufStatus)
    <2>1. /\ pc = "completions" /\ "BufStatus" \in status /\ remaining = {}
          /\ status' = status \ {"BufStatus"} /\ remaining' = bufStatus
          /\ pc' = IF bufStatus # {} THEN "take" ELSE Stage(status \ {"BufStatus"})
      BY <1>19 DEF ReadBufStatus, PassInv
    <2>2. PlaceWork(pc') = 0 /\ PlaceWork(pc) = 0
      BY <2>1, GoOn DEF PlaceWork
    <2>3. Work' = D + R
      <3>1. PlaceWork(pc') = 0 /\ D \in 0..13 /\ R \in 0..4
        BY <2>2, CauseParts, BufferParts
      <3>2. Work' = PlaceWork(pc') + D + R
        BY <2>1 DEF Work
      <3> HIDE DEF D, R
      <3> QED  BY <3>1, <3>2
    <2>4. D + 5 = C /\ D \in 0..13 /\ R \in 0..4 /\ B = 0
      BY <2>1, CauseParts, BufferParts
    <2> HIDE DEF B, C, D, R
    <2>5. Work' < Work /\ Work' \in 0..13
      BY <1>1, <2>2, <2>3, <2>4
    <2>6. pc' = "completions" => "BufStatus" \in status'
      BY <2>1, GoOn
    <2> QED  BY <2>1, <2>5, <2>6 DEF PassInv, WorkBounded
  <1>20. CASE TakeCompletion
    <2>1. PICK bit \in {EP0In, EP0Out} :
              /\ bit \in remaining
              /\ remaining' = remaining \ {bit}
              /\ pc' = IF bit = EP0In THEN "ep0In" ELSE Resume(remaining \ {bit})
      BY <1>20, BufferNumbers DEF TakeCompletion, PanicInv, ControlOnly
    <2> DEFINE R == BufferWork(remaining \ {bit})
    <2>2. pc = "take" /\ status' = status /\ PlaceWork(pc) = 0
      BY <1>20 DEF TakeCompletion, PlaceWork
    <2>3. Work' = PlaceWork(pc') + C + R
      BY <2>1, <2>2 DEF Work
    <2>4. PlaceWork(pc') = (IF bit = EP0In THEN 2 ELSE 0)
      BY <2>1, GoOn DEF PlaceWork
    <2>5. R \in 0..4 /\ R + (IF bit = EP0In THEN 3 ELSE 1) = B
      BY <2>1, BufferParts, BufferNumbers
    <2> HIDE DEF B, C, R
    <2>6. Work' < Work /\ Work' \in 0..13
      BY <1>1, <2>2, <2>3, <2>4, <2>5
    <2>7. /\ pc' = "completions" => "BufStatus" \in status'
          /\ remaining' # {} => pc' \in {"take", "ep0In"}
      BY <2>1, <2>2, GoOn
    <2> QED  BY <2>6, <2>7 DEF PassInv, WorkBounded
  <1>21. CASE ClearBusReset
    <2>1. "BusReset" \in status
      BY <1>21 DEF ClearBusReset, FlowInv, StageInv
    <2>2. /\ pc = "reset" /\ pc' = "clearAddr" /\ remaining = {}
          /\ status' = status \ {"BusReset"} /\ remaining' = {}
      BY <1>21 DEF ClearBusReset, PassInv
    <2>3. PlaceWork(pc) = 0 /\ PlaceWork("clearAddr") = 1
      BY <2>2 DEF PlaceWork
    <2>4. CauseWork(status \ {"BusReset"}) + 2 = C /\ CauseWork(status \ {"BusReset"}) \in 0..13
      BY <2>1, CauseParts
    <2> QED  BY <1>1, <1>3, <2>1, <2>2, <2>3, <2>4 DEF Causes
  <1>22. CASE ClearAddress
    <2>1. pc = "clearAddr" /\ pc' = Stage(status) /\ UNCHANGED <<status, remaining>>
      BY <1>22 DEF ClearAddress
    <2>2. remaining = {} /\ PlaceWork(Stage(status)) < PlaceWork(pc)
      BY <2>1, GoOn DEF PassInv, PlaceWork
    <2> QED  BY <1>2, <2>1, <2>2, GoOn
  <1> QED
    BY <1>5, <1>6, <1>7, <1>8, <1>9, <1>10, <1>11, <1>12, <1>13, <1>14, <1>15, <1>16,
       <1>17, <1>18, <1>19, <1>20, <1>21, <1>22
    DEF Boot, Handler, SetupStage, CompletionStage, ResetStage, Trap

LEMMA PassKept == FlowInv /\ PanicInv /\ PassInv /\ [Next]_vars => PassInv'
  <1> SUFFICES ASSUME FlowInv, PanicInv, PassInv, [Next]_vars PROVE PassInv'
    OBVIOUS
  <1>1. CASE (Boot \/ Handler) /\ pc # "main"
    BY <1>1, PassStep
  <1>2. CASE (Boot \/ Handler) /\ pc = "main"
    <2>1. Trap
      BY <1>2
      DEF Boot, ResetUsb, ClearDpram, ConfigureEndpoints, Connect, Handler,
          SetupStage, ClearSetupRec, ReadInCtrl, ClearPid, ReadSetup, HandleSetAddress,
          HandleSetConfiguration, HandleSetLineCoding, HandleOtherOut, RejectRequest,
          FillDeviceDescriptor, FillConfigDescriptor, FillStringDescriptor,
          SendDeviceQualifier, DescriptorRequested, Requested, ArmDevice, ArmReply,
          CompletionStage, ReadBufStatus, TakeCompletion, ApplyAddress, ContinueConfig,
          ArmStatusOut, ResetStage, ClearBusReset, ClearAddress
    <2>2. remaining = {} /\ remaining' = {} /\ status' = Ints /\ pc' = Stage(Ints)
      BY <1>2, <2>1 DEF Trap, PassInv
    <2>3. Work' = CauseWork(Ints)
      <3>1. /\ PlaceWork(pc') = 0 /\ BufferWork(remaining') = 0
            /\ CauseWork(Ints) \in 0..13
        BY <2>2, GoOn, CauseParts, BufferParts
      <3>2. Work' = PlaceWork(pc') + CauseWork(Ints) + BufferWork(remaining')
        BY <2>2 DEF Work
      <3> QED  BY <3>1, <3>2
    <2>4. CauseWork(Ints) \in 0..13
      BY CauseParts
    <2> QED  BY <2>2, <2>3, <2>4, GoOn DEF PassInv, WorkBounded
  <1>3. CASE Host \/ UNCHANGED vars
    <2>1. UNCHANGED <<pc, status, remaining>>
      BY <1>3 DEF Host, BusReset, Setup, Complete, vars, cpuVars
    <2> QED  BY <2>1 DEF PassInv, WorkBounded, Work
  <1> QED  BY <1>1, <1>2, <1>3 DEF Next

(* However fast tokens arrive, a pass of the handler ends: at most 13      *)
(* accesses follow the one that reads INTS, and none of them leaves more   *)
(* to do, for what arrives meanwhile is left to the next pass.  What       *)
(* SetupServed and CompletionServed promise rests on it.                   *)
THEOREM PassesEnd == Spec => []WorkBounded /\ PassShortens
  <1>1. FlowInv /\ PanicInv /\ PassInv /\ [Next]_vars => (FlowInv /\ PanicInv /\ PassInv)'
    BY FlowStep, PanicStep, PassKept
  <1>2. FlowInv /\ PanicInv /\ PassInv /\ [Next]_vars
          => [pc = "main" \/ UNCHANGED cpuVars \/ Work' < Work]_vars
    <2> SUFFICES ASSUME FlowInv, PanicInv, PassInv, Next, pc # "main"
                 PROVE  UNCHANGED cpuVars \/ Work' < Work
      OBVIOUS
    <2>1. CASE Boot \/ Handler
      BY <2>1, PassStep
    <2>2. CASE Host
      BY <2>2 DEF Host, BusReset, Setup, Complete
    <2> QED  BY <2>1, <2>2 DEF Next
  <1>3. PassInv => WorkBounded
    BY DEF PassInv
  <1> QED
    BY FlowInit, PanicInit, PassInit, <1>1, <1>2, <1>3, PTL DEF Spec, PassShortens

----
(* The part of the configuration descriptor to send next.                  *)

LEMMA PartInit == Init => BufStatusBound
  BY DEF Init, BufStatusBound

(* A full slice leaves the number of a part that starts within the         *)
(* descriptor, the wrap of the byte it is kept in included.                *)
LEMMA PartFilled ==
    ASSUME NEW total \in Word, NEW part \in Byte, FillConfigPart(total, part)
    PROVE  epBufStatus' * 64 <= ConfigDescSize
  <1> DEFINE slice == ConfigDescPacket(ConfigDescSize, total, part)
  <1>1. part \in Nat /\ total \in Nat /\ ConfigDescSize \in Nat
    BY ByteRange, WordRange, SizeAssumption
  <1>2. slice.length = 64 => (part + 1) * 64 <= ConfigDescSize
    BY <1>1, SliceRange
  <1>3. epBufStatus' = (IF slice.length = 64 THEN (part + 1) % 256 ELSE 0)
    BY DEF FillConfigPart, NextPart
  <1> HIDE DEF slice
  <1>4. CASE slice.length = 64
    <2>1. part + 1 \in Nat /\ (part + 1) % 256 <= part + 1 /\ (part + 1) % 256 \in Nat
      BY <1>1
    <2> QED  BY <1>1, <1>2, <1>3, <1>4, <2>1
  <1>5. CASE slice.length # 64
    BY <1>1, <1>3, <1>5
  <1> QED  BY <1>4, <1>5

LEMMA PartStep == TypeOK /\ BufStatusBound /\ [Next]_vars => BufStatusBound'
  <1> SUFFICES ASSUME TypeOK, BufStatusBound, [Next]_vars PROVE BufStatusBound'
    OBVIOUS
  <1> USE DEF BufStatusBound, vars, cpuVars, dpramVars, sieVars, wireVars
  <1>1. CASE ResetUsb
    BY <1>1 DEF ResetUsb
  <1>2. CASE ClearDpram
    BY <1>2, SizeAssumption DEF ClearDpram
  <1>3. CASE ConfigureEndpoints
    BY <1>3 DEF ConfigureEndpoints
  <1>4. CASE Connect
    BY <1>4 DEF Connect
  <1>5. CASE Trap
    BY <1>5, StageValues DEF Trap, Ints, InterruptsEnabled
  <1>6. CASE ClearSetupRec
    BY <1>6 DEF ClearSetupRec
  <1>7. CASE ReadInCtrl
    BY <1>7 DEF ReadInCtrl
  <1>8. CASE ClearPid
    BY <1>8 DEF ClearPid
  <1>9. CASE ReadSetup
    BY <1>9 DEF ReadSetup
  <1>10. CASE HandleSetAddress
    BY <1>10, StageValues DEF HandleSetAddress, EndSetup, Requested
  <1>11. CASE HandleSetConfiguration
    BY <1>11, StageValues DEF HandleSetConfiguration, EndSetup, Requested
  <1>12. CASE RejectRequest
    BY <1>12 DEF RejectRequest
  <1>13. CASE HandleSetLineCoding
    BY <1>13, StageValues DEF HandleSetLineCoding, EndSetup, Requested
  <1>14. CASE HandleOtherOut
    BY <1>14, StageValues DEF HandleOtherOut, EndSetup, Requested
  <1>15. CASE FillDeviceDescriptor
    BY <1>15 DEF FillDeviceDescriptor, DescriptorRequested, Requested
  <1>16. CASE FillConfigDescriptor
    <2>1. packet.length \in Word /\ 0 \in Byte
      BY PacketFields, SmallValues DEF TypeOK
    <2>2. FillConfigPart(packet.length, 0)
      BY <1>16 DEF FillConfigDescriptor
    <2> QED  BY <2>1, <2>2, PartFilled
  <1>17. CASE FillStringDescriptor
    BY <1>17 DEF FillStringDescriptor, DescriptorRequested, Requested
  <1>18. CASE SendDeviceQualifier
    BY <1>18, StageValues DEF SendDeviceQualifier, EndSetup, DescriptorRequested, Requested
  <1>19. CASE ArmDevice
    BY <1>19, StageValues DEF ArmDevice
  <1>20. CASE ArmReply
    BY <1>20, ResumeValues DEF ArmReply
  <1>21. CASE ReadBufStatus
    BY <1>21, StageValues DEF ReadBufStatus
  <1>22. CASE TakeCompletion
    BY <1>22, ResumeValues DEF TakeCompletion
  <1>23. CASE ApplyAddress
    BY <1>23, ResumeValues DEF ApplyAddress
  <1>24. CASE ContinueConfig
    <2>1. setupPacket.length \in Word /\ epBufStatus \in Byte
      BY PacketFields DEF TypeOK
    <2>2. FillConfigPart(setupPacket.length, epBufStatus)
      BY <1>24 DEF ContinueConfig
    <2> QED  BY <2>1, <2>2, PartFilled
  <1>25. CASE ArmStatusOut
    BY <1>25, ResumeValues DEF ArmStatusOut
  <1>26. CASE ClearBusReset
    BY <1>26 DEF ClearBusReset
  <1>27. CASE ClearAddress
    BY <1>27, StageValues DEF ClearAddress
  <1>28. CASE BusReset
    BY <1>28 DEF BusReset
  <1>29. CASE \E p \in Packets : Setup(p)
    BY <1>29 DEF Setup
  <1>30. CASE \E b \in Buffers : Complete(b)
    BY <1>30 DEF Complete
  <1>31. CASE UNCHANGED vars
    BY <1>31
  <1> QED
    BY <1>1, <1>2, <1>3, <1>4, <1>5, <1>6, <1>7, <1>8, <1>9, <1>10,
       <1>11, <1>12, <1>13, <1>14, <1>15, <1>16, <1>17, <1>18, <1>19, <1>20,
       <1>21, <1>22, <1>23, <1>24, <1>25, <1>26, <1>27, <1>28, <1>29, <1>30,
       <1>31
    DEF Next, Boot, Handler, SetupStage, CompletionStage, ResetStage, Host

(* The part number EP0_BUF_STATUS keeps from one completion to the next,   *)
(* across new SETUP packets and bus resets, is one of a part that starts   *)
(* within the descriptor, for a descriptor of any size.                    *)
THEOREM PartsWithin == Spec => []BufStatusBound
  BY TypeInit, TypeStep, PartInit, PartStep, PTL DEF Spec

----
(* The address.                                                            *)

LEMMA StaleInit == Init => StaleInv
  BY DEF Init, StaleInv, Stale

LEMMA StaleStep == TypeOK /\ FlowInv /\ StaleInv /\ [Next]_vars => StaleInv'
  <1> SUFFICES ASSUME TypeOK, FlowInv, StaleInv, [Next]_vars PROVE StaleInv'
    OBVIOUS
  <1> USE DEF StaleInv, Stale, StalePacket,
              vars, cpuVars, dpramVars, sieVars, wireVars
  <1>1. CASE ResetUsb
    BY <1>1 DEF ResetUsb, FlowInv, BootInv, BootPCs
  <1>2. CASE ClearDpram
    BY <1>2 DEF ClearDpram, FlowInv, BootInv, BootPCs
  <1>3. CASE ConfigureEndpoints
    BY <1>3 DEF ConfigureEndpoints
  <1>4. CASE Connect
    BY <1>4 DEF Connect
  <1>5. CASE Trap
    BY <1>5, StageValues DEF Trap, Ints, InterruptsEnabled
  <1>6. CASE ClearSetupRec
    BY <1>6 DEF ClearSetupRec, FlowInv, StageInv
  <1>7. CASE ReadInCtrl
    BY <1>7 DEF ReadInCtrl
  <1>8. CASE ClearPid
    BY <1>8 DEF ClearPid
  <1>9. CASE ReadSetup
    BY <1>9 DEF ReadSetup
  <1>10. CASE HandleSetAddress
    <2>1. packet.value % 128 \in Address
      BY PacketFields DEF TypeOK
    <2> DEFINE new == packet.value % 128
    <2>2. new \in Nat /\ new <= 127
      BY <2>1, AddressRange
    <2> HIDE DEF new
    <2>3. (new + 128) % 128 = new
      BY <2>2
    <2>4. newAddr' % 128 = packet.value % 128
      BY <1>10, <2>3 DEF HandleSetAddress, PendingAddress, new
    <2>5. Stale(newAddr' % 128) => busReset
      BY <1>10, <2>4, Zenon DEF HandleSetAddress, Requested
    <2>6. /\ pc' \in {"setup", "completions", "reset", "main"}
          /\ UNCHANGED <<addrEndp, busReset, wired, asked, setupRec, setupPacket, status>>
      BY <1>10, StageValues DEF HandleSetAddress, EndSetup
    <2>7. pc # "clearAddr"
      BY <1>10 DEF HandleSetAddress, Requested
    <2> QED  BY <2>5, <2>6, <2>7
  <1>11. CASE HandleSetConfiguration
    BY <1>11, StageValues DEF HandleSetConfiguration, EndSetup, Requested
  <1>12. CASE RejectRequest
    BY <1>12 DEF RejectRequest
  <1>13. CASE HandleSetLineCoding
    BY <1>13, StageValues DEF HandleSetLineCoding, EndSetup, Requested
  <1>14. CASE HandleOtherOut
    BY <1>14, StageValues DEF HandleOtherOut, EndSetup, Requested
  <1>15. CASE FillDeviceDescriptor
    BY <1>15 DEF FillDeviceDescriptor, DescriptorRequested, Requested
  <1>16. CASE FillConfigDescriptor
    BY <1>16 DEF FillConfigDescriptor, FillConfigPart, DescriptorRequested, Requested
  <1>17. CASE FillStringDescriptor
    BY <1>17 DEF FillStringDescriptor, DescriptorRequested, Requested
  <1>18. CASE SendDeviceQualifier
    BY <1>18, StageValues DEF SendDeviceQualifier, EndSetup, DescriptorRequested, Requested
  <1>19. CASE ArmDevice
    BY <1>19, StageValues DEF ArmDevice
  <1>20. CASE ArmReply
    BY <1>20, ResumeValues DEF ArmReply
  <1>21. CASE ReadBufStatus
    BY <1>21, StageValues DEF ReadBufStatus
  <1>22. CASE TakeCompletion
    BY <1>22, ResumeValues DEF TakeCompletion
  <1>23. CASE ApplyAddress
    <2>1. newAddr % 128 \in Nat /\ newAddr % 128 <= 127
      BY ByteRange DEF TypeOK
    <2>2. ~(newAddr' >= 128)
      BY <1>23, <2>1 DEF ApplyAddress
    <2>3. Stale(addrEndp') => busReset
      BY <1>23 DEF ApplyAddress, FlowInv, BootInv, BootPCs
    <2> QED  BY <1>23, <2>2, <2>3, ResumeValues DEF ApplyAddress
  <1>24. CASE ContinueConfig
    BY <1>24 DEF ContinueConfig, FillConfigPart
  <1>25. CASE ArmStatusOut
    BY <1>25, ResumeValues DEF ArmStatusOut
  <1>26. CASE ClearBusReset
    <2>1. ~(setupRec /\ StalePacket(setupPacket))
      BY <1>26 DEF ClearBusReset, FlowInv, StageInv
    <2> QED  BY <1>26, <2>1 DEF ClearBusReset
  <1>27. CASE ClearAddress
    BY <1>27, StageValues DEF ClearAddress
  <1>28. CASE BusReset
    <2>1. "BusReset" \notin status
      BY <1>28 DEF BusReset, FlowInv, StageInv
    <2> QED  BY <1>28, <2>1 DEF BusReset
  <1>29. CASE \E p \in Packets : Setup(p)
    <2>1. PICK p \in Packets : Setup(p)
      BY <1>29
    <2>2. asked \subseteq asked'
      BY <2>1 DEF Setup
    <2>3. ~StalePacket(setupPacket)'
      BY <2>1 DEF Setup
    <2>4. wired /\ wired'
      BY <2>1 DEF Setup
    <2> QED  BY <2>1, <2>2, <2>3, <2>4 DEF Setup
  <1>30. CASE \E b \in Buffers : Complete(b)
    BY <1>30 DEF Complete
  <1>31. CASE UNCHANGED vars
    BY <1>31
  <1> QED
    BY <1>1, <1>2, <1>3, <1>4, <1>5, <1>6, <1>7, <1>8, <1>9, <1>10,
       <1>11, <1>12, <1>13, <1>14, <1>15, <1>16, <1>17, <1>18, <1>19, <1>20,
       <1>21, <1>22, <1>23, <1>24, <1>25, <1>26, <1>27, <1>28, <1>29, <1>30,
       <1>31
    DEF Next, Boot, Handler, SetupStage, CompletionStage, ResetStage, Host

LEMMA AddressInductive ==
    /\ Init => AddressInv
    /\ AddressInv /\ [Next]_vars => AddressInv'
    /\ AddressInv => AddressRequested
  <1>1. Init => AddressInv
    BY TypeInit, FlowInit, StaleInit DEF AddressInv, FlowInv
  <1>2. AddressInv /\ [Next]_vars => AddressInv'
    BY TypeStep, FlowStep, StaleStep DEF AddressInv, FlowInv
  <1>3. AddressInv => AddressRequested
    BY DEF AddressInv, StaleInv, Stale, AddressRequested
  <1> QED  BY <1>1, <1>2, <1>3

(* The device takes no address the host has not given it since its last    *)
(* bus reset, except while the handler has that reset to serve.            *)
THEOREM AddressesRequested == Spec => []AddressRequested
  BY AddressInductive, PTL DEF Spec

===============================================================================
