--------------------------- MODULE ConfigDescriptor ---------------------------
(***************************************************************************)
(* How config_desc_packet and send_config_descriptor cut the configuration *)
(* descriptor into packets, for every length a host may ask for, and the   *)
(* descriptor set itself as a host parses it.                              *)
(***************************************************************************)
EXTENDS UsbDescriptors

CONSTANT MaxLength  \* the largest wLength asked for

ASSUME MaxLengthAssumption == MaxLength \in Nat

(* The descriptor has fewer parts than EP0_BUF_STATUS, a byte, can number, *)
(* and its last one is short: it has 75 bytes.                             *)
ASSUME DescriptorSizeAssumption ==
    /\ WTotalLength \in Nat /\ WTotalLength < 256 * 64
    /\ WTotalLength % 64 # 0

VARIABLES
    total,   \* wLength of the request
    part,    \* EP0_BUF_STATUS: the part to send next, 0 when there is none
    slices   \* the slices sent

vars == <<total, part, slices>>

(* The effect of send_config_descriptor for part p of request length t.    *)
Send(t, p) ==
    LET slice == ConfigDescPacket(WTotalLength, t, p)
    IN  /\ slices' = Append(slices, slice)
        /\ part' = NextPart(slice, p)

Init ==
    /\ total \in 0..MaxLength
    /\ part = 0
    /\ slices = <<>>

(* A request sends part 0, a completion the part that is due.              *)
First == slices = <<>> /\ Send(total, 0) /\ UNCHANGED total

Continue == part # 0 /\ Send(total, part) /\ UNCHANGED total

(* A request for another length, when all of the last has gone.            *)
Again ==
    /\ slices # <<>> /\ part = 0
    /\ total' \in 0..MaxLength
    /\ slices' = <<>>
    /\ UNCHANGED part

Next == First \/ Continue \/ Again

Spec == Init /\ [][Next]_vars

(* As much of the descriptor as was asked for, and where slice i ends.      *)
Due == LesserOf(total, WTotalLength)
EndOf(i) == IF i = 0 THEN 0 ELSE slices[i].at + slices[i].length

(* The slices follow one another without a gap or an overlap, each but the *)
(* last fills a packet, and together they are as much of the descriptor as *)
(* was asked for.  A length that is a multiple of 64 below the size gets   *)
(* an empty slice after its last.                                          *)
Reassembles ==
    /\ \A i \in DOMAIN slices :
          /\ slices[i].at = EndOf(i - 1)
          /\ i < Len(slices) => slices[i].length = 64
    /\ slices # <<>> /\ part = 0 => EndOf(Len(slices)) = Due

(* A part remains due that the host, which has all it asked for, will not  *)
(* fetch, for lengths that end with a full packet only.                    *)
SurplusAtFullPackets ==
    part # 0 /\ EndOf(Len(slices)) = Due
        => total > 0 /\ total % 64 = 0 /\ total < WTotalLength

----
Positions(type) == {i \in DOMAIN ConfigDescBuf : ConfigDescBuf[i].type = type}

(* The endpoint descriptors that follow the interface descriptor at i and  *)
(* come before the next one.                                               *)
EndpointsBelow(i) ==
    {j \in Positions(DescriptorTypes.Endpoint) :
        j > i /\ ~\E k \in Positions(DescriptorTypes.Interface) : i < k /\ k < j}

(* A host that has been sent all of the descriptor set walks it by         *)
(* bLength, and finds what the counts in it announce: wTotalLength bytes,  *)
(* bNumInterfaces interfaces, the endpoints of each, every endpoint of the *)
(* table but the control ones, and functional descriptors that name        *)
(* interfaces that exist.                                                  *)
DescriptorsConsistent ==
    LET interfaces == Positions(DescriptorTypes.Interface)
        numbers == {ConfigDescBuf[i].number : i \in interfaces}
        config == ConfigDescBuf[1]
    IN  slices # <<>> /\ part = 0 /\ total >= WTotalLength =>
        /\ TotalLength(slices) = config.total
        /\ config.type = DescriptorTypes.Config
        /\ config.total = TotalLength(ConfigDescBuf)
        /\ config.interfaces = Cardinality(interfaces)
        /\ \A i \in interfaces : ConfigDescBuf[i].endpoints = Cardinality(EndpointsBelow(i))
        /\ \A i \in DOMAIN EndpointTable :
              EndpointNumber(EndpointTable[i]) # 0
                  => \E j \in UNION {EndpointsBelow(k) : k \in interfaces} :
                        ConfigDescBuf[j] = EndpointTable[i]
        /\ \A i \in Positions(DescriptorTypes.CSInterface) :
              ConfigDescBuf[i].interfaces \subseteq numbers
        /\ \A i \in Positions(DescriptorTypes.InterfaceAssociation) :
              ConfigDescBuf[i].first .. (ConfigDescBuf[i].first + ConfigDescBuf[i].count - 1)
                  \subseteq numbers

===============================================================================
