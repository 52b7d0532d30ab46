---------------------------- MODULE UsbDescriptors ----------------------------
(***************************************************************************)
(* The descriptor tables of src/src/usb.rs and the buffer they are laid    *)
(* out in.  A descriptor is kept as the record of the fields something     *)
(* depends on.                                                             *)
(***************************************************************************)
EXTENDS UsbRequests, Sequences, SequencesExt, FiniteSets

----
(* Endpoints.                                                              *)

Out == 0     \* Direction::Out as u8, bit 7 of an endpoint address
In == 128    \* Direction::In as u8

EndpointDescriptorLength == 7

EndpointDescriptor(direction, number, attributes, size) ==
    [ type |-> DescriptorTypes.Endpoint, length |-> EndpointDescriptorLength,
      address |-> direction + number, attributes |-> attributes, size |-> size ]

EndpointTable ==
    << EndpointDescriptor(Out, 0, "Control", 64),
       EndpointDescriptor(In, 0, "Control", 64),
       EndpointDescriptor(In, 1, "Interrupt", 8),
       EndpointDescriptor(In, 2, "Bulk", 64),
       EndpointDescriptor(Out, 2, "Bulk", 64) >>

EndpointNumber(e) == e.address % 128
EndpointDirection(e) == IF e.address >= 128 THEN "In" ELSE "Out"

----
(* The descriptors below the device descriptor.                            *)

InterfaceDescriptorLength == 9

InterfaceDescriptor(number, endpoints) ==
    [ type |-> DescriptorTypes.Interface, length |-> InterfaceDescriptorLength,
      number |-> number, endpoints |-> endpoints ]

InterfaceDescriptors == << InterfaceDescriptor(0, 1), InterfaceDescriptor(1, 2) >>

InterfaceAssociationLength == 8

InterfaceAssociation ==
    [ type |-> DescriptorTypes.InterfaceAssociation, length |-> InterfaceAssociationLength,
      first |-> 0, count |-> 2 ]

(* A functional descriptor, and the interfaces it names.                   *)
CommunicationsDescriptor(kind, interfaces) ==
    [ type |-> DescriptorTypes.CSInterface, interfaces |-> interfaces,
      length |-> IF kind = "AbstractControlManagement" THEN 4 ELSE 5 ]

CommunicationsDescriptors ==
    << CommunicationsDescriptor("Header", {}),
       CommunicationsDescriptor("CallManagement", {1}),
       CommunicationsDescriptor("AbstractControlManagement", {}),
       CommunicationsDescriptor("Union", {0, 1}) >>

ConfigurationDescriptorLength == 9

TotalLength(ds) == FoldLeft(LAMBDA sum, d : sum + d.length, 0, ds)

(* A faulty variant of WTotalLength: the control endpoints are counted.    *)
WTotalLengthOfAll ==
    ConfigurationDescriptorLength + Len(InterfaceDescriptors) * InterfaceDescriptorLength
        + InterfaceAssociationLength
        + Len(EndpointTable) * EndpointDescriptorLength
        + TotalLength(CommunicationsDescriptors)

(* wTotalLength as DEVICE_CONFIG computes it: from the number of entries   *)
(* of each table, two endpoints (the control ones) not counted.            *)
WTotalLength ==
    ConfigurationDescriptorLength + Len(InterfaceDescriptors) * InterfaceDescriptorLength
        + InterfaceAssociationLength
        + (Len(EndpointTable) - 2) * EndpointDescriptorLength
        + TotalLength(CommunicationsDescriptors)

ConfigurationDescriptor ==
    [ type |-> DescriptorTypes.Config, length |-> ConfigurationDescriptorLength,
      total |-> WTotalLength, interfaces |-> Len(InterfaceDescriptors), value |-> 1 ]

EndpointsNumbered(n) == SelectSeq(EndpointTable, LAMBDA e : EndpointNumber(e) = n)

(* CONFIG_DESC_BUF of config_desc_packet, a descriptor per element.        *)
ConfigDescBuf ==
    << ConfigurationDescriptor, InterfaceAssociation, InterfaceDescriptors[1] >>
        \o CommunicationsDescriptors \o EndpointsNumbered(1)
        \o << InterfaceDescriptors[2] >> \o EndpointsNumbered(2)

===============================================================================
