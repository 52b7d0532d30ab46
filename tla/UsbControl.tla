------------------------------ MODULE UsbControl ------------------------------
(***************************************************************************)
(* The USB driver of src/src/usb.rs: bring-up of the controller, and       *)
(* usb_trap_handler, one step per access to a register or to memory that   *)
(* the controller can change meanwhile.  The other side is the controller  *)
(* with the most general host behind it: tokens arrive between any two     *)
(* steps of the CPU, at any time the wire allows them.                     *)
(***************************************************************************)
EXTENDS UsbRequests, FiniteSets

CONSTANTS
    Packets,         \* the SETUP packets the host may send
    Endpoints,       \* ENDPOINTS: records of a number and a direction
    ConfigDescSize,  \* CONFIG_DESC_SIZE
    Garbage,         \* what an uninitialised byte may hold at power-up
    FlagValues       \* FLAG counts modulo this: 256 in the code

ASSUME PacketsAssumption == Packets \subseteq SetupPacket

\* EP1 OUT is the buffer SetConfiguration arms although it has no descriptor.
ASSUME EndpointsAssumption ==
    /\ Endpoints \subseteq [ number : EndpointId, direction : {"In", "Out"} ]
    /\ [ number |-> 1, direction |-> "Out" ] \notin Endpoints

ASSUME SizeAssumption == ConfigDescSize \in Nat

ASSUME GarbageAssumption == Garbage \subseteq Byte

ASSUME FlagAssumption == FlagValues \in Nat \ {0}

VARIABLES
    \* The locals hold the values named next to their initial values in Init
    \* whenever they are out of scope.
    pc,           \* where the CPU is in init_usb_as_device or in the handler
    status,       \* local status: causes this pass has not handled yet
    ctrl,         \* local copy of the EP0 IN buffer control register
    packet,       \* local packet
    reply,        \* local length of the reply to be armed
    remaining,    \* local remaining: completions this pass has not handled yet
    newAddr,      \* NEW_ADDR, a byte of RAM: 128 + address while one is pending
    flag,         \* FLAG, in DPRAM
    epBufStatus,  \* EP0_BUF_STATUS, in DPRAM: next part of the descriptor, or 0
    setupPacket,  \* the SETUP packet at the start of DPRAM
    ep0Buffer,    \* what the 64 bytes of EP0_BUFFER hold
    bufCtrl,      \* buffer control registers
    enabled,      \* buffers whose endpoint control register has ENABLE set
    setupRec,     \* SIE_STATUS.SETUP_REC
    busReset,     \* SIE_STATUS.BUS_RESET
    bufStatus,    \* BUF_STATUS
    addrEndp,     \* ADDR_ENDP.ADDRESS
    pullup,       \* SIE_CTRL.PULLUP_EN
    wired,        \* the host has seen the device and reset the bus
    asked         \* addresses the host asked for since its last bus reset

cpuVars == <<pc, status, ctrl, packet, reply, remaining, newAddr, flag>>
dpramVars == <<epBufStatus, setupPacket, ep0Buffer, bufCtrl, enabled>>
sieVars == <<setupRec, busReset, bufStatus, addrEndp, pullup>>
wireVars == <<wired, asked>>
vars == <<cpuVars, dpramVars, sieVars, wireVars>>

----
Causes == {"SetupReq", "BufStatus", "BusReset"}

EP0In == BufferBit(0, "In")
EP0Out == BufferBit(0, "Out")
EP1Out == BufferBit(1, "Out")

Buffers == {EP0In, EP0Out, EP1Out}

(* AVAILABLE, DATA_PID and LENGTH of a buffer control register.  FULL goes *)
(* with AVAILABLE on every IN buffer the code arms and is left out.        *)
BufferControl == [ available : BOOLEAN, pid : {0, 1}, length : PacketSize ]

Idle == [ available |-> FALSE, pid |-> 0, length |-> 0 ]

(* A buffer holds bytes of one descriptor, from some offset on.            *)
Content(type, index, at) == [ type |-> type, index |-> index, at |-> at ]

NoContent == Content(0, 0, 0)

(* Faulty variants of InterruptsEnabled: a bit that is not in the mask.    *)
NoSetupInterrupt == {"BufStatus", "BusReset"}
NoBufferInterrupt == {"SetupReq", "BusReset"}
NoResetInterrupt == {"SetupReq", "BufStatus"}

(* The mask init_usb_as_device writes to INTE.                             *)
InterruptsEnabled == {"SetupReq", "BufStatus", "BusReset"}

(* INTS: the causes the controller reports.                                *)
Ints ==
    {c \in InterruptsEnabled :
        \/ c = "SetupReq" /\ setupRec
        \/ c = "BufStatus" /\ bufStatus # {}
        \/ c = "BusReset" /\ busReset}

(* A faulty variant of Stage: the bus reset is served first.               *)
StageResetFirst(s) ==
    IF "BusReset" \in s THEN "reset"
    ELSE IF "SetupReq" \in s THEN "setup"
    ELSE IF "BufStatus" \in s THEN "completions"
    ELSE "main"

(* Stages of the handler, in the order of its three ifs: where it goes     *)
(* with the causes s left.                                                 *)
Stage(s) ==
    IF "SetupReq" \in s THEN "setup"
    ELSE IF "BufStatus" \in s THEN "completions"
    ELSE IF "BusReset" \in s THEN "reset"
    ELSE "main"

(* Where it goes after a completion, with the completions rem left.        *)
Resume(rem) == IF rem # {} THEN "take" ELSE Stage(status)

BootPCs == {"resetUsb", "clearDpram", "configure", "connect"}
SetupPCs == {"setup", "readPid", "clearPid", "readSetup", "request"}
ReplyPCs == {"armDevice", "armReply"}
CompletionPCs == {"completions", "take", "ep0In", "continue", "armOut"}
ResetPCs == {"reset", "clearAddr"}
PCs == BootPCs \cup SetupPCs \cup ReplyPCs \cup CompletionPCs \cup ResetPCs
           \cup {"main", "panic"}

Init ==
    /\ pc = "resetUsb"
    /\ status = {} /\ remaining = {}
    /\ ctrl = Idle /\ packet = NoPacket /\ reply = 0
    /\ newAddr \in Garbage
    /\ epBufStatus \in Garbage
    /\ flag \in {g % FlagValues : g \in Garbage}
    /\ setupPacket = NoPacket
    /\ ep0Buffer = NoContent
    /\ bufCtrl \in {[b \in Buffers |-> [Idle EXCEPT !.available = a]] : a \in BOOLEAN}
    /\ enabled \in SUBSET Buffers
    /\ setupRec = FALSE /\ busReset = FALSE /\ bufStatus = {}
    /\ addrEndp = 0
    /\ pullup = FALSE
    /\ wired = FALSE /\ asked = {}

----
(* init_usb_as_device.  Interrupts are enabled before the pull-up, and     *)
(* nothing arrives before it.                                              *)

(* reset_usb: the registers of the controller get their reset values; the  *)
(* DPRAM is memory and keeps what it holds.                                *)
ResetUsb ==
    /\ pc = "resetUsb"
    /\ pc' = "clearDpram"
    /\ setupRec' = FALSE /\ busReset' = FALSE /\ bufStatus' = {}
    /\ addrEndp' = 0
    /\ pullup' = FALSE
    /\ UNCHANGED <<status, ctrl, packet, reply, remaining, newAddr, flag>>
    /\ UNCHANGED <<dpramVars, wireVars>>

(* A faulty variant of ClearDpram: it stops short of the two bytes at the  *)
(* end, FLAG and EP0_BUF_STATUS.                                           *)
ClearDpramShort ==
    /\ pc = "clearDpram"
    /\ pc' = "configure"
    /\ setupPacket' = NoPacket
    /\ ep0Buffer' = NoContent
    /\ bufCtrl' = [b \in Buffers |-> Idle]
    /\ enabled' = {}
    /\ UNCHANGED <<status, ctrl, packet, reply, remaining, newAddr, flag, epBufStatus>>
    /\ UNCHANGED <<sieVars, wireVars>>

ClearDpram ==
    /\ pc = "clearDpram"
    /\ pc' = "configure"
    /\ flag' = 0
    /\ epBufStatus' = 0
    /\ setupPacket' = NoPacket
    /\ ep0Buffer' = NoContent
    /\ bufCtrl' = [b \in Buffers |-> Idle]
    /\ enabled' = {}
    /\ UNCHANGED <<status, ctrl, packet, reply, remaining, newAddr>>
    /\ UNCHANGED <<sieVars, wireVars>>

(* A faulty variant of Configured: the directions are swapped.             *)
ConfiguredSwapped ==
    {BufferBit(e.number, IF e.direction = "In" THEN "Out" ELSE "In") :
        e \in {f \in Endpoints : f.number # 0}}

(* DeviceConfig::configure_endpoints: every endpoint but 0 has a control   *)
(* register, which enables it.                                             *)
Configured ==
    {BufferBit(e.number, e.direction) : e \in {f \in Endpoints : f.number # 0}}

(* Power, mode and interrupt enables, then the endpoints.                  *)
ConfigureEndpoints ==
    /\ pc = "configure"
    /\ pc' = "connect"
    /\ enabled' = Configured
    /\ UNCHANGED <<status, ctrl, packet, reply, remaining, newAddr, flag>>
    /\ UNCHANGED <<epBufStatus, setupPacket, ep0Buffer, bufCtrl, sieVars, wireVars>>

Connect ==
    /\ pc = "connect"
    /\ pc' = "main"
    /\ pullup' = TRUE
    /\ UNCHANGED <<status, ctrl, packet, reply, remaining, newAddr, flag>>
    /\ UNCHANGED <<dpramVars, setupRec, busReset, bufStatus, addrEndp, wireVars>>

Boot == ResetUsb \/ ClearDpram \/ ConfigureEndpoints \/ Connect

----
(* usb_trap_handler is entered: it reads INTS once.  The pass that follows *)
(* is never preempted by another one.                                      *)
Trap ==
    /\ pc = "main"
    /\ Ints # {}
    /\ status' = Ints
    /\ pc' = Stage(Ints)
    /\ UNCHANGED <<ctrl, packet, reply, remaining, newAddr, flag>>
    /\ UNCHANGED <<dpramVars, sieVars, wireVars>>

----
(* The SETUP stage.                                                        *)

ClearSetupRec ==
    /\ pc = "setup"
    /\ pc' = "readPid"
    /\ status' = status \ {"SetupReq"}
    /\ setupRec' = FALSE
    /\ UNCHANGED <<ctrl, packet, reply, remaining, newAddr, flag>>
    /\ UNCHANGED <<dpramVars, busReset, bufStatus, addrEndp, pullup, wireVars>>

(* The PID bit of EP0 IN is cleared by a read, and a write of the whole    *)
(* register: the controller may clear AVAILABLE in between.                *)
ReadInCtrl ==
    /\ pc = "readPid"
    /\ pc' = "clearPid"
    /\ ctrl' = bufCtrl[EP0In]
    /\ UNCHANGED <<status, packet, reply, remaining, newAddr, flag>>
    /\ UNCHANGED <<dpramVars, sieVars, wireVars>>

ClearPid ==
    /\ pc = "clearPid"
    /\ pc' = "readSetup"
    /\ bufCtrl' = [bufCtrl EXCEPT ![EP0In] = [ctrl EXCEPT !.pid = 0]]
    /\ ctrl' = Idle
    /\ UNCHANGED <<status, packet, reply, remaining, newAddr, flag>>
    /\ UNCHANGED <<epBufStatus, setupPacket, ep0Buffer, enabled, sieVars, wireVars>>

ReadSetup ==
    /\ pc = "readSetup"
    /\ pc' = "request"
    /\ packet' = setupPacket
    /\ UNCHANGED <<status, ctrl, reply, remaining, newAddr, flag>>
    /\ UNCHANGED <<dpramVars, sieVars, wireVars>>

(* A faulty variant of ArmedIn: the PID stays as it is.                    *)
ArmedInSame(n) == [ available |-> TRUE, pid |-> bufCtrl[EP0In].pid, length |-> n ]

(* EP0 IN armed with n bytes and the other PID, as everything but          *)
(* send_device_descriptor does.                                            *)
ArmedIn(n) == [ available |-> TRUE, pid |-> 1 - bufCtrl[EP0In].pid, length |-> n ]

(* acknowledge_out_request: an empty packet for the status stage.          *)
Acknowledged == [bufCtrl EXCEPT ![EP0In] = ArmedIn(0)]

Requested(d) == pc = "request" /\ packet.dir = d

(* The SETUP stage is over, and packet out of scope.                       *)
EndSetup == pc' = Stage(status) /\ packet' = NoPacket

(* A faulty variant of PendingAddress: it is not marked as pending.        *)
UnmarkedAddress(value) == value % 128

(* What NEW_ADDR holds between the request and its status stage.           *)
PendingAddress(value) == (value % 128) + 128

HandleSetAddress ==
    /\ Requested("Out")
    /\ packet.request = Request.SetAddress
    /\ newAddr' = PendingAddress(packet.value)
    /\ bufCtrl' = Acknowledged
    /\ EndSetup
    /\ UNCHANGED <<status, ctrl, reply, remaining, flag>>
    /\ UNCHANGED <<epBufStatus, setupPacket, ep0Buffer, enabled, sieVars, wireVars>>

HandleSetConfiguration ==
    /\ Requested("Out")
    /\ packet.request = Request.SetConfiguration
    /\ packet.value = 1
    /\ bufCtrl' = [Acknowledged EXCEPT ![EP1Out] =
                      [ available |-> TRUE, pid |-> 1 - @.pid, length |-> 64 ]]
    /\ EndSetup
    /\ UNCHANGED <<status, ctrl, reply, remaining, newAddr, flag>>
    /\ UNCHANGED <<epBufStatus, setupPacket, ep0Buffer, enabled, sieVars, wireVars>>

(* The assertion on the configuration's number, and every todo!().         *)
RejectRequest ==
    /\ pc = "request"
    /\ \/ /\ packet.dir = "Out"
          /\ packet.request = Request.SetConfiguration
          /\ packet.value # 1
       \/ /\ packet.dir = "In"
          /\ packet.request # Request.GetDescriptor
       \/ /\ packet.dir = "In"
          /\ DescriptorTypeOf(packet) \notin
                 {DescriptorTypes.Device, DescriptorTypes.Config,
                  DescriptorTypes.String, DescriptorTypes.DeviceQualifier}
    /\ pc' = "panic"
    /\ UNCHANGED <<status, ctrl, packet, reply, remaining, newAddr, flag>>
    /\ UNCHANGED <<dpramVars, sieVars, wireVars>>

HandleSetLineCoding ==
    /\ Requested("Out")
    /\ packet.request = Request.SetLineCoding
    /\ bufCtrl' = Acknowledged
    /\ flag' = (flag + 1) % FlagValues
    /\ EndSetup
    /\ UNCHANGED <<status, ctrl, reply, remaining, newAddr>>
    /\ UNCHANGED <<epBufStatus, setupPacket, ep0Buffer, enabled, sieVars, wireVars>>

(* Set control line state, and every other OUT request.                    *)
HandleOtherOut ==
    /\ Requested("Out")
    /\ packet.request \notin
           {Request.SetAddress, Request.SetConfiguration, Request.SetLineCoding}
    /\ bufCtrl' = Acknowledged
    /\ EndSetup
    /\ UNCHANGED <<status, ctrl, reply, remaining, newAddr, flag>>
    /\ UNCHANGED <<epBufStatus, setupPacket, ep0Buffer, enabled, sieVars, wireVars>>

(* A GetDescriptor request for a descriptor of type t.                     *)
DescriptorRequested(t) ==
    /\ Requested("In")
    /\ packet.request = Request.GetDescriptor
    /\ DescriptorTypeOf(packet) = t

(* send_device_descriptor up to the write that arms the buffer.            *)
FillDeviceDescriptor ==
    /\ DescriptorRequested(DescriptorTypes.Device)
    /\ ep0Buffer' = Content(DescriptorTypes.Device, 0, 0)
    /\ reply' = LesserOf(DeviceDescriptorLength, packet.length)
    /\ pc' = "armDevice"
    /\ packet' = NoPacket
    /\ UNCHANGED <<status, ctrl, remaining, newAddr, flag>>
    /\ UNCHANGED <<epBufStatus, setupPacket, bufCtrl, enabled, sieVars, wireVars>>

(* send_config_descriptor up to that write: part of the descriptor goes to *)
(* the buffer, and a full packet leaves the number of the next part.       *)
FillConfigPart(total, part) ==
    LET slice == ConfigDescPacket(ConfigDescSize, total, part)
    IN  /\ ep0Buffer' = Content(DescriptorTypes.Config, 0, slice.at)
        /\ epBufStatus' = NextPart(slice, part)
        /\ reply' = slice.length
        /\ pc' = "armReply"

FillConfigDescriptor ==
    /\ DescriptorRequested(DescriptorTypes.Config)
    /\ FillConfigPart(packet.length, 0)
    /\ packet' = NoPacket
    /\ UNCHANGED <<status, ctrl, remaining, newAddr, flag>>
    /\ UNCHANGED <<setupPacket, bufCtrl, enabled, sieVars, wireVars>>

(* send_string_descriptor, up to that write.                               *)
FillStringDescriptor ==
    /\ DescriptorRequested(DescriptorTypes.String)
    /\ ep0Buffer' = Content(DescriptorTypes.String, DescriptorIndexOf(packet), 0)
    /\ reply' = StringReplyLength(DescriptorIndexOf(packet))
    /\ pc' = "armReply"
    /\ packet' = NoPacket
    /\ UNCHANGED <<status, ctrl, remaining, newAddr, flag>>
    /\ UNCHANGED <<epBufStatus, setupPacket, bufCtrl, enabled, sieVars, wireVars>>

(* send_device_qualifier_descriptor: there is none, an empty packet goes.  *)
SendDeviceQualifier ==
    /\ DescriptorRequested(DescriptorTypes.DeviceQualifier)
    /\ bufCtrl' = Acknowledged
    /\ EndSetup
    /\ UNCHANGED <<status, ctrl, reply, remaining, newAddr, flag>>
    /\ UNCHANGED <<epBufStatus, setupPacket, ep0Buffer, enabled, sieVars, wireVars>>

(* The write that arms EP0 IN: the device descriptor always has PID 1,     *)
(* anything else the PID that was not there.                               *)
ArmDevice ==
    /\ pc = "armDevice"
    /\ bufCtrl' = [bufCtrl EXCEPT ![EP0In] =
                      [ available |-> TRUE, pid |-> 1, length |-> reply ]]
    /\ pc' = Stage(status)
    /\ reply' = 0
    /\ UNCHANGED <<status, ctrl, packet, remaining, newAddr, flag>>
    /\ UNCHANGED <<epBufStatus, setupPacket, ep0Buffer, enabled, sieVars, wireVars>>

ArmReply ==
    /\ pc = "armReply"
    /\ bufCtrl' = [bufCtrl EXCEPT ![EP0In] = ArmedIn(reply)]
    /\ pc' = Resume(remaining)
    /\ reply' = 0
    /\ UNCHANGED <<status, ctrl, packet, remaining, newAddr, flag>>
    /\ UNCHANGED <<epBufStatus, setupPacket, ep0Buffer, enabled, sieVars, wireVars>>

SetupStage ==
    \/ ClearSetupRec \/ ReadInCtrl \/ ClearPid \/ ReadSetup
    \/ HandleSetAddress \/ HandleSetConfiguration \/ HandleSetLineCoding
    \/ HandleOtherOut \/ RejectRequest
    \/ FillDeviceDescriptor \/ FillConfigDescriptor \/ FillStringDescriptor
    \/ SendDeviceQualifier \/ ArmDevice \/ ArmReply

----
(* The completion stage.                                                   *)

ReadBufStatus ==
    /\ pc = "completions"
    /\ status' = status \ {"BufStatus"}
    /\ remaining' = bufStatus
    /\ pc' = IF bufStatus # {} THEN "take" ELSE Stage(status \ {"BufStatus"})
    /\ UNCHANGED <<ctrl, packet, reply, newAddr, flag>>
    /\ UNCHANGED <<dpramVars, sieVars, wireVars>>

(* The lowest completion is taken and cleared.  That of EP0 OUT needs no   *)
(* more work, and there is code for no endpoint but 0.                     *)
TakeCompletion ==
    /\ pc = "take"
    /\ \E bit \in remaining :
          /\ \A other \in remaining : bit <= other
          /\ bufStatus' = bufStatus \ {bit}
          /\ remaining' = remaining \ {bit}
          /\ pc' = CASE bit = EP0In -> "ep0In"
                     [] bit = EP0Out -> Resume(remaining \ {bit})
                     [] OTHER -> "panic"
    /\ UNCHANGED <<status, ctrl, packet, reply, newAddr, flag>>
    /\ UNCHANGED <<dpramVars, setupRec, busReset, addrEndp, pullup, wireVars>>

(* An IN packet of EP0 has gone: a pending address takes effect.  Bit 7    *)
(* of the value written is no part of the ADDRESS field.                   *)
ApplyAddress ==
    /\ pc = "ep0In"
    /\ newAddr >= 128
    /\ newAddr' = newAddr % 128
    /\ addrEndp' = newAddr % 128
    /\ pc' = Resume(remaining)
    /\ UNCHANGED <<status, ctrl, packet, reply, remaining, flag>>
    /\ UNCHANGED <<dpramVars, setupRec, busReset, bufStatus, pullup, wireVars>>

(* Or the next part of the configuration descriptor goes: the length comes *)
(* from the SETUP packet that DPRAM holds now.                             *)
ContinueConfig ==
    /\ pc = "ep0In"
    /\ newAddr < 128
    /\ epBufStatus # 0
    /\ FillConfigPart(setupPacket.length, epBufStatus)
    /\ UNCHANGED <<status, ctrl, packet, remaining, newAddr, flag>>
    /\ UNCHANGED <<setupPacket, bufCtrl, enabled, sieVars, wireVars>>

(* Or EP0 OUT is armed for the status stage, with the PID it did not have. *)
ArmStatusOut ==
    /\ pc = "ep0In"
    /\ newAddr < 128
    /\ epBufStatus = 0
    /\ bufCtrl' = [bufCtrl EXCEPT ![EP0Out] =
                      [ available |-> TRUE, pid |-> 1 - @.pid, length |-> 0 ]]
    /\ pc' = Resume(remaining)
    /\ UNCHANGED <<status, ctrl, packet, reply, remaining, newAddr, flag>>
    /\ UNCHANGED <<epBufStatus, setupPacket, ep0Buffer, enabled, sieVars, wireVars>>

CompletionStage ==
    ReadBufStatus \/ TakeCompletion \/ ApplyAddress \/ ContinueConfig \/ ArmStatusOut

----
(* The bus reset stage.                                                    *)

ClearBusReset ==
    /\ pc = "reset"
    /\ status' = status \ {"BusReset"}
    /\ busReset' = FALSE
    /\ newAddr' = 0
    /\ pc' = "clearAddr"
    /\ UNCHANGED <<ctrl, packet, reply, remaining, flag>>
    /\ UNCHANGED <<dpramVars, setupRec, bufStatus, addrEndp, pullup, wireVars>>

ClearAddress ==
    /\ pc = "clearAddr"
    /\ addrEndp' = 0
    /\ pc' = Stage(status)
    /\ UNCHANGED <<status, ctrl, packet, reply, remaining, newAddr, flag>>
    /\ UNCHANGED <<dpramVars, setupRec, busReset, bufStatus, pullup, wireVars>>

ResetStage == ClearBusReset \/ ClearAddress

Handler == Trap \/ SetupStage \/ CompletionStage \/ ResetStage

----
(* The controller, driven by the host.  It is not code of the repository:  *)
(* what is here is what the handler relies on.                             *)

(* A bus reset.  Two are at least the 10 ms of a reset apart, so the       *)
(* handler has seen one before the next.                                   *)
BusReset ==
    /\ pullup
    /\ ~busReset
    /\ busReset' = TRUE
    /\ wired' = TRUE
    /\ asked' = {}
    /\ UNCHANGED <<cpuVars, dpramVars, setupRec, bufStatus, addrEndp, pullup>>

(* A SETUP packet is always taken, whatever the buffers of EP0 are at.     *)
Setup(p) ==
    /\ wired
    /\ setupRec' = TRUE
    /\ setupPacket' = p
    /\ asked' = IF p.dir = "Out" /\ p.request = Request.SetAddress
                  THEN asked \cup {p.value % 128} ELSE asked
    /\ UNCHANGED <<cpuVars, epBufStatus, ep0Buffer, bufCtrl, enabled>>
    /\ UNCHANGED <<busReset, bufStatus, addrEndp, pullup, wired>>

(* An IN or OUT packet goes through an armed buffer, and completes it.     *)
Complete(b) ==
    /\ wired
    /\ bufCtrl[b].available
    /\ b \in {EP0In, EP0Out} \cup enabled
    /\ bufCtrl' = [bufCtrl EXCEPT ![b].available = FALSE]
    /\ bufStatus' = bufStatus \cup {b}
    /\ UNCHANGED <<cpuVars, epBufStatus, setupPacket, ep0Buffer, enabled>>
    /\ UNCHANGED <<setupRec, busReset, addrEndp, pullup, wireVars>>

Host ==
    \/ BusReset
    \/ \E p \in Packets : Setup(p)
    \/ \E b \in Buffers : Complete(b)

Next == Boot \/ Handler \/ Host

(* The CPU runs; the host need not do anything.                            *)
Fairness == WF_vars(Boot \/ Handler)

Spec == Init /\ [][Next]_vars /\ Fairness

----
(* Properties.                                                             *)

(* Type correctness of the registers, the memory and the handler's locals. *)
TypeOK ==
    /\ pc \in PCs
    /\ status \subseteq Causes
    /\ ctrl \in BufferControl
    /\ packet \in Packets \cup {NoPacket}
    /\ reply \in PacketSize
    /\ remaining \subseteq EndpointBit
    /\ newAddr \in Byte
    /\ flag \in 0..(FlagValues - 1)
    /\ epBufStatus \in Byte
    /\ setupPacket \in Packets \cup {NoPacket}
    /\ ep0Buffer \in [ type : Byte, index : Byte, at : Nat ]
    /\ bufCtrl \in [Buffers -> BufferControl]
    /\ enabled \subseteq EndpointBit
    /\ setupRec \in BOOLEAN /\ busReset \in BOOLEAN
    /\ bufStatus \subseteq EndpointBit
    /\ addrEndp \in Address
    /\ pullup \in BOOLEAN /\ wired \in BOOLEAN
    /\ asked \subseteq Address

(* The device never answers at an address the host did not give it since   *)
(* the last bus reset, unless the handler has that reset still to serve:   *)
(* neither the byte of RAM NEW_ADDR happens to hold at power-up, nor a     *)
(* SetAddress that the reset overtook, ends in ADDR_ENDP for good.         *)
AddressRequested ==
    addrEndp \in asked \cup {0} \/ busReset \/ pc = "clearAddr"

(* EP0_BUF_STATUS, which starts as garbage and is neither reset by a new   *)
(* SETUP packet nor by a bus reset, never names a part that starts beyond  *)
(* the descriptor: the slice config_desc_packet takes is within it.        *)
BufStatusBound ==
    pc \notin {"resetUsb", "clearDpram"} => epBufStatus * 64 <= ConfigDescSize

(* The requests the handler knows how to answer.                           *)
Supported(p) ==
    IF p.dir = "Out"
      THEN p.request = Request.SetConfiguration => p.value = 1
      ELSE /\ p.request = Request.GetDescriptor
           /\ DescriptorTypeOf(p) \in
                  {DescriptorTypes.Device, DescriptorTypes.Config,
                   DescriptorTypes.String, DescriptorTypes.DeviceQualifier}

(* The device panics on a request it does not support, and on nothing      *)
(* else: the todo!() and unimplemented!() of the completion stage are out  *)
(* of reach, although SetConfiguration arms a buffer other than EP0's.     *)
PanicJustified == pc = "panic" => ~Supported(packet)

(* A SETUP packet is read by the handler, however the tokens fall.         *)
SetupServed == setupRec ~> (pc \in {"request", "panic"})

(* A completion is taken from BUF_STATUS, unless the device has panicked.  *)
CompletionServed ==
    \A b \in {EP0In, EP0Out} : (b \in bufStatus) ~> (b \notin bufStatus \/ pc = "panic")

(* Each bus reset is seen by a pass of the handler, the first and every    *)
(* later one, and takes the device back to address 0, whichever address it *)
(* has or is about to apply, unless it has panicked.                       *)
ResetServed ==
    /\ busReset ~> (~busReset \/ pc = "panic")
    /\ busReset ~> (addrEndp = 0 \/ pc = "panic")

===============================================================================
