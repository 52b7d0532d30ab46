--------------------------- MODULE ControlTransfer ---------------------------
(***************************************************************************)
(* What the device promises a host about control transfers on endpoint 0:  *)
(* a transfer that asks for a descriptor delivers it from its start, in    *)
(* order, packet by packet and up to the length it has; every transfer     *)
(* that was started ends; only a bus reset cuts in, between transfers.     *)
(***************************************************************************)
EXTENDS UsbRequests, Sequences

CONSTANTS
    Packets,        \* the SETUP packets a transfer starts with
    ConfigDescSize  \* the size of the configuration descriptor

VARIABLES
    phase,     \* where the transfer is
    request,   \* the SETUP packet of the transfer, or of the last one
    delivered  \* the packets of its data stage

vars == <<phase, request, delivered>>

(* The number of bytes the device has for request p.                       *)
ReplyLength(p) ==
    LET type == DescriptorTypeOf(p)
    IN  CASE type = DescriptorTypes.Device -> LesserOf(DeviceDescriptorLength, p.length)
          [] type = DescriptorTypes.Config -> LesserOf(ConfigDescSize, p.length)
          [] type = DescriptorTypes.String -> StringReplyLength(DescriptorIndexOf(p))
          [] OTHER -> 0

(* The n-th packet of the reply to p.  There is one device and one         *)
(* configuration descriptor, whatever index is asked for.                  *)
ReplyPacket(p, n) ==
    LET at == 64 * (n - 1)
        length == LesserOf(64, ReplyLength(p) - at)
        type == DescriptorTypeOf(p)
    IN  IF length = 0 THEN EmptyPacket
        ELSE [ type |-> type, at |-> at, length |-> length,
               index |-> IF type = DescriptorTypes.String THEN DescriptorIndexOf(p) ELSE 0 ]

(* The reply to p ends with its n-th packet: a short one, or one that      *)
(* makes up the length asked for.                                          *)
LastPacket(p, n) ==
    \/ ReplyPacket(p, n).length < 64
    \/ 64 * n >= p.length

(* The phase after the SETUP packet p.                                     *)
FirstPhase(p) ==
    IF p.dir = "In" THEN "data" ELSE IF p.length > 0 THEN "dataOut" ELSE "status"

Init ==
    /\ phase = "idle"
    /\ request = NoPacket
    /\ delivered = <<>>

Start(p) ==
    /\ phase = "idle"
    /\ phase' = FirstPhase(p)
    /\ request' = p
    /\ delivered' = <<>>

(* A packet of the data stage of an IN transfer.                           *)
Deliver ==
    LET n == Len(delivered) + 1
    IN  /\ phase = "data"
        /\ delivered' = Append(delivered, ReplyPacket(request, n))
        /\ phase' = IF LastPacket(request, n) THEN "status" ELSE "data"
        /\ UNCHANGED request

(* The data stage of an OUT transfer, a single packet.                     *)
Accept ==
    /\ phase = "dataOut"
    /\ phase' = "status"
    /\ UNCHANGED <<request, delivered>>

(* The status stage.                                                       *)
Finish ==
    /\ phase = "status"
    /\ phase' = "idle"
    /\ UNCHANGED <<request, delivered>>

Progress == Deliver \/ Accept \/ Finish

Reset ==
    /\ phase = "idle"
    /\ request' = NoPacket
    /\ delivered' = <<>>
    /\ UNCHANGED phase

Next == Progress \/ Reset \/ \E p \in Packets : Start(p)

Spec == Init /\ [][Next]_vars /\ WF_vars(Progress)

==============================================================================
