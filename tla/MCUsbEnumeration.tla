--------------------------- MODULE MCUsbEnumeration ---------------------------
(***************************************************************************)
(* Instances of UsbEnumeration.                                            *)
(***************************************************************************)
EXTENDS UsbEnumeration

Tables == INSTANCE UsbDescriptors

MCEndpoints ==
    {[ number |-> Tables!EndpointNumber(Tables!EndpointTable[i]),
       direction |-> Tables!EndpointDirection(Tables!EndpointTable[i]) ] : i \in 1..5}

MCConfigDescSize == Tables!WTotalLength

OutPacket(request, value, length) ==
    [ dir |-> "Out", request |-> request, value |-> value, length |-> length ]

GetPacket(type, index, length) ==
    [ dir |-> "In", request |-> Request.GetDescriptor,
      value |-> type * 256 + index, length |-> length ]

(* What a host sends to enumerate the device: it asks for the head of the  *)
(* configuration descriptor first, then for all of it.                     *)
EnumerationPackets ==
    { GetPacket(DescriptorTypes.Device, 0, 64),
      GetPacket(DescriptorTypes.Device, 0, 8),
      OutPacket(Request.SetAddress, 5, 0),
      OutPacket(Request.SetAddress, 6, 0),
      GetPacket(DescriptorTypes.Config, 0, 9),
      GetPacket(DescriptorTypes.Config, 0, MCConfigDescSize),
      GetPacket(DescriptorTypes.Config, 0, 255),
      GetPacket(DescriptorTypes.String, 0, 255),
      GetPacket(DescriptorTypes.String, 2, 255),
      GetPacket(DescriptorTypes.DeviceQualifier, 0, 10),
      OutPacket(Request.SetConfiguration, 1, 0),
      OutPacket(Request.SetLineCoding, 0, 0),
      OutPacket(Request.SetControlLineState, 3, 0) }

(* Opening the serial port: SET_LINE_CODING with the seven bytes of its    *)
(* data stage, which has no buffer unless an earlier transfer left one.    *)
SerialPackets ==
    { OutPacket(Request.SetAddress, 5, 0),
      GetPacket(DescriptorTypes.Config, 0, 255),
      GetPacket(DescriptorTypes.String, 1, 255),
      OutPacket(Request.SetConfiguration, 1, 0),
      OutPacket(Request.SetLineCoding, 0, 7) }

(* Transfers given up at any point: addresses, a descriptor of two packets *)
(* and one of a single packet, line codings.                               *)
AbortPackets ==
    { OutPacket(Request.SetAddress, 5, 0),
      GetPacket(DescriptorTypes.Device, 0, 18),
      GetPacket(DescriptorTypes.Config, 0, 255),
      OutPacket(Request.SetLineCoding, 0, 0) }

(* A control write, then a descriptor of two packets.                      *)
BackToBackPackets ==
    { OutPacket(Request.SetControlLineState, 3, 0),
      GetPacket(DescriptorTypes.Config, 0, 255) }

(* The request with which a host takes the device back to Addressed.       *)
DeconfigurePackets == BackToBackPackets \cup { OutPacket(Request.SetConfiguration, 0, 0) }

MCGarbage == {0, 7, 133}

(* What the theorems about transfers assume of the host holds of all of    *)
(* these.                                                                  *)
ASSUME InstancesOrderly == OrderlyRequests

===============================================================================
