----------------------------- MODULE UsbRequests -----------------------------
(***************************************************************************)
(* Requests and the pure functions with which the USB trap handler of      *)
(* src/src/usb.rs computes its replies.  A descriptor sent to the host is  *)
(* which descriptor it is, from where and how long, never its bytes.       *)
(***************************************************************************)
EXTENDS Naturals

Byte == 0..255           \* u8
Word == 0..(2^16 - 1)    \* u16
PacketSize == 0..64      \* the bytes in a packet of endpoint 0
Address == 0..127        \* the address of a device
EndpointId == 0..15      \* EndpointId
EndpointBit == 0..31     \* the bits of BUF_STATUS

----
(* Requests, enum Request, and the two CDC codes the handler matches.      *)

Request ==
    [ SetAddress |-> 5, GetDescriptor |-> 6, SetConfiguration |-> 9,
      SetLineCoding |-> 32, SetControlLineState |-> 34 ]

(* Descriptor types, enum DescriptorType.                                  *)

DescriptorTypes ==
    [ Device |-> 1, Config |-> 2, String |-> 3, Interface |-> 4, Endpoint |-> 5,
      DeviceQualifier |-> 6, InterfaceAssociation |-> 11, CSInterface |-> 36 ]

(* A SETUP packet: bmRequestType is kept as its direction bit, the only    *)
(* part of it the code looks at; wIndex is never read.                     *)
SetupPacket ==
    [ dir : {"In", "Out"}, request : Byte, value : Word, length : Word ]

NoPacket == [ dir |-> "Out", request |-> 0, value |-> 0, length |-> 0 ]

DescriptorTypeOf(p) == (p.value \div 256) % 256
DescriptorIndexOf(p) == p.value % 256

(* The bit of an endpoint's buffer in BUF_STATUS, and its index in the     *)
(* tables of control registers: 2 * endpoint, plus one for OUT.            *)
BufferBit(number, direction) == 2 * number + (IF direction = "Out" THEN 1 ELSE 0)

----
(* Pure functions.                                                         *)

(* An empty packet of a data stage: it carries bytes of no descriptor.     *)
EmptyPacket == [ type |-> 0, index |-> 0, at |-> 0, length |-> 0 ]

DeviceDescriptorLength == 18

LesserOf(a, b) == IF a <= b THEN a ELSE b

(* Faulty variants of ConfigDescPacket: not cut to a packet, and not cut   *)
(* to the size of the descriptor.                                          *)
ConfigDescPacketUncut(size, total, part) ==
    LET start == part * 64
        end == LesserOf(total, size)
    IN  IF end < start THEN [ at |-> 0, length |-> 0 ]
        ELSE [ at |-> start, length |-> end - start ]

ConfigDescPacketUnbounded(size, total, part) ==
    LET start == part * 64
        end == LesserOf(start + 64, total)
    IN  IF end < start THEN [ at |-> 0, length |-> 0 ]
        ELSE [ at |-> start, length |-> end - start ]

(* config_desc_packet over a buffer of size bytes: the slice it returns,   *)
(* as where it starts and how long it is.                                  *)
ConfigDescPacket(size, total, part) ==
    LET start == part * 64
        end == LesserOf(LesserOf(start + 64, total), size)
    IN  IF end < start THEN [ at |-> 0, length |-> 0 ]
        ELSE [ at |-> start, length |-> end - start ]

(* A faulty variant of NextPart: another part after any that is not empty. *)
NextPartAfterAny(slice, part) == IF slice.length # 0 THEN (part + 1) % 256 ELSE 0

(* What send_config_descriptor leaves in EP0_BUF_STATUS: a full packet is  *)
(* followed by the next part.                                              *)
NextPart(slice, part) == IF slice.length = 64 THEN (part + 1) % 256 ELSE 0

(* UTF-16 units of descriptor_strings, and of the string an index without  *)
(* an entry gets.                                                          *)
StringUnits(i) == IF i \in 1..2 THEN <<10, 22>>[i] ELSE 14

(* The length send_string_descriptor replies with; index 0 is the list of  *)
(* languages.  The request's own length plays no part.                     *)
StringReplyLength(i) == IF i = 0 THEN 4 ELSE LesserOf(2 * StringUnits(i) + 2, 64)

==============================================================================
