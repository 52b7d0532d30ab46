----------------------------- MODULE MCUsbControl -----------------------------
(***************************************************************************)
(* Instances of UsbControl: the endpoints and the size of the              *)
(* configuration descriptor are those of the tables of usb.rs, the packets *)
(* a few that exercise every branch of the handler.                        *)
(***************************************************************************)
EXTENDS UsbControl

Tables == INSTANCE UsbDescriptors

MCEndpoints ==
    {[ number |-> Tables!EndpointNumber(Tables!EndpointTable[i]),
       direction |-> Tables!EndpointDirection(Tables!EndpointTable[i]) ] : i \in 1..5}

MCConfigDescSize == Tables!WTotalLength

OutPacket(request, value) ==
    [ dir |-> "Out", request |-> request, value |-> value, length |-> 0 ]

GetPacket(type, index, length) ==
    [ dir |-> "In", request |-> Request.GetDescriptor,
      value |-> type * 256 + index, length |-> length ]

(* A packet for each branch of the handler: the requests that are served,  *)
(* an OUT request that is only acknowledged, and a descriptor the device   *)
(* does not have.  The configuration descriptor takes two packets.         *)
ControlPackets ==
    { OutPacket(Request.SetAddress, 1),
      OutPacket(Request.SetConfiguration, 1),
      OutPacket(Request.SetLineCoding, 0),
      OutPacket(Request.SetControlLineState, 3),
      GetPacket(DescriptorTypes.Config, 0, 255),
      GetPacket(DescriptorTypes.String, 1, 255),
      GetPacket(DescriptorTypes.DeviceQualifier, 0, 10),
      GetPacket(DescriptorTypes.Interface, 0, 9) }

(* The address again, for the bus reset to take back, a descriptor in one  *)
(* packet and one in two.  The device answers all of them, so that no      *)
(* panic excuses it from what it has to serve.                             *)
ProgressPackets ==
    { OutPacket(Request.SetAddress, 1),
      GetPacket(DescriptorTypes.Device, 0, 18),
      GetPacket(DescriptorTypes.Config, 0, 255) }

(* An uninitialised byte: zero, a part number, an address flagged as new.  *)
MCGarbage == {0, 7, 133}

===============================================================================
