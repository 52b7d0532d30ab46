--------------------------- MODULE UsbTransferProofs ---------------------------
(***************************************************************************)
(* The device keeps the promise of ControlTransfer to a host that is       *)
(* patient, lets its transfers end and asks for no surplus, whatever the   *)
(* packets it sends, the endpoints and the size of the descriptor.         *)
(***************************************************************************)
EXTENDS UsbEnumerationProofs

----
(* The inductive invariant.                                                *)

(* The DPRAM has been cleared.                                             *)
Started == pc \notin {"resetUsb", "clearDpram"}

(* What there is of a transfer on the device between Fresh, a SETUP packet *)
(* that is not answered yet, and Done, a packet that the handler has not   *)
(* followed up: a reply that is in the buffer, or a buffer that is armed.  *)
(* Never two of the four at a time.                                        *)
Filled == pc \in ReplyPCs
Armed == bufCtrl[EP0In].available

(* The packet the first length bytes of the buffer make.                   *)
Carried(length) ==
    IF length = 0 THEN EmptyPacket
    ELSE [ type |-> ep0Buffer.type, index |-> ep0Buffer.index,
           at |-> ep0Buffer.at, length |-> length ]

(* The packet that is due, and the part that follows it.                   *)
Wanted == Transfers!ReplyPacket(hPacket, Len(hReceived) + 1)
PartDue == IF Wanted.length = 64 THEN Len(hReceived) + 1 ELSE 0

PhaseInv ==
    /\ hStage # "idle" => wired /\ ~busReset /\ pc # "clearAddr" /\ setupPacket = hPacket
    /\ hStage # "idle" /\ hReceived = <<>> => hPid = 1
    /\ hStage = "data" => hPacket.dir = "In"
    /\ hStage = "dataOut" => hPacket.dir = "Out"
    /\ remaining \subseteq bufStatus
    /\ pc \in BootPCs => remaining = {}
    /\ ~Started => ep0Buffer = NoContent
    /\ ~wired => hStage = "idle"

FreshInv ==
    /\ Fresh => /\ hStage # "idle" /\ (hPacket.dir = "In" => hStage = "data")
                /\ hReceived = <<>>
                /\ ~Armed /\ ~Done
                /\ newAddr < 128 /\ epBufStatus = 0
    /\ pc = "clearPid" => ~ctrl.available
    /\ pc \in {"readSetup", "request"} => bufCtrl[EP0In].pid = 0
    /\ pc = "request" => packet = hPacket

FilledInv ==
    Filled => /\ hStage = "data" /\ ~Armed /\ ~Done
              /\ bufCtrl[EP0In].pid = 1 - hPid
              /\ Carried(reply) = Wanted /\ epBufStatus = PartDue
              /\ pc = "armDevice" => hPid = 1

ArmedInv ==
    Started /\ Armed =>
        /\ hStage # "idle" /\ ~Done
        /\ bufCtrl[EP0In].pid = hPid
        /\ hPacket.dir = "In" => hStage = "data" /\ InPacket = Wanted /\ epBufStatus = PartDue
        /\ hPacket.dir = "Out" => epBufStatus = 0

DoneInv ==
    Done =>
        /\ pc = "ep0In" => EP0In \notin bufStatus
        /\ hStage # "idle" => hPacket.dir = "In"
        /\ hStage = "data" =>
              /\ bufCtrl[EP0In].pid = 1 - hPid
              /\ epBufStatus = Len(hReceived) /\ epBufStatus # 0
              /\ DescriptorTypeOf(hPacket) = DescriptorTypes.Config
              /\ 64 * Len(hReceived) <= Transfers!ReplyLength(hPacket)

(* EP0_BUF_STATUS is not 0 in a data stage only, on its way to the next    *)
(* part: this is what the handler relies on when it tells the completions  *)
(* of a data stage from those of a status stage.                           *)
PartInv == Started /\ epBufStatus # 0 => hStage = "data" /\ (Filled \/ Armed \/ Done)

AddrInv ==
    /\ hStage # "idle" => addrEndp = hAddr
    /\ busReset \/ pc = "clearAddr" => hAddr = 0
    /\ ~wired => hAddr = 0 /\ addrEndp = 0
    /\ pc = "clearAddr" => newAddr = 0
    /\ wired /\ ~busReset /\ pc # "clearAddr" /\ newAddr < 128 => addrEndp = hAddr
    /\ wired /\ ~busReset /\ newAddr >= 128 =>
          /\ Armed \/ Done
          /\ hPacket.dir = "Out" /\ hPacket.request = Request.SetAddress
          /\ newAddr = PendingAddress(hPacket.value)
          /\ hStage = "idle" => hAddr = newAddr % 128
    /\ Started /\ Armed /\ hPacket.dir = "Out" /\ hPacket.request = Request.SetAddress
          => newAddr >= 128

TransferInv ==
    /\ Prompt /\ PhaseInv
    /\ FreshInv /\ FilledInv /\ ArmedInv /\ DoneInv
    /\ PartInv /\ AddrInv

SettledInv == TypeOK /\ HostTypeOK /\ FlowInv /\ TransferInv

----
(* The replies the host waits for.                                         *)

(* The promise of ControlTransfer, with the operators the device uses.      *)
LEMMA SameRequests ==
    ASSUME NEW p, NEW n
    PROVE  /\ Transfers!ReplyLength(p) =
                  LET type == DescriptorTypeOf(p)
                  IN  CASE type = 1 -> LesserOf(18, p.length)
                        [] type = 2 -> LesserOf(ConfigDescSize, p.length)
                        [] type = 3 -> StringReplyLength(DescriptorIndexOf(p))
                        [] OTHER -> 0
           /\ Transfers!ReplyPacket(p, n) =
                  LET at == 64 * (n - 1)
                      length == LesserOf(64, Transfers!ReplyLength(p) - at)
                      type == DescriptorTypeOf(p)
                  IN  IF length = 0 THEN EmptyPacket
                      ELSE [ type |-> type, at |-> at, length |-> length,
                             index |-> IF type = 3 THEN DescriptorIndexOf(p) ELSE 0 ]
  <1>1. /\ DescriptorTypeOf(p) = Transfers!DescriptorTypeOf(p)
        /\ DescriptorIndexOf(p) = Transfers!DescriptorIndexOf(p)
    BY DEF DescriptorTypeOf, DescriptorIndexOf, Transfers!DescriptorTypeOf, Transfers!DescriptorIndexOf
  <1>2. \A a, b : LesserOf(a, b) = Transfers!LesserOf(a, b)
    BY DEF LesserOf, Transfers!LesserOf
  <1>3. \A i : StringReplyLength(i) = Transfers!StringReplyLength(i)
    BY <1>2 DEF StringReplyLength, StringUnits, Transfers!StringReplyLength, Transfers!StringUnits
  <1>4. EmptyPacket = Transfers!EmptyPacket
    BY DEF EmptyPacket, Transfers!EmptyPacket
  <1>5. /\ Transfers!DescriptorTypes.Device = 1 /\ Transfers!DescriptorTypes.Config = 2
        /\ Transfers!DescriptorTypes.String = 3
    BY DEF Transfers!DescriptorTypes
  <1>6. Transfers!DeviceDescriptorLength = 18
    BY DEF Transfers!DeviceDescriptorLength
  <1> QED
    BY <1>1, <1>2, <1>3, <1>4, <1>5, <1>6 DEF Transfers!ReplyLength, Transfers!ReplyPacket

(* A packet of the next part is full when that much of the configuration   *)
(* descriptor was asked for, and no other descriptor fills a packet.       *)
LEMMA FullPacket ==
    ASSUME NEW p \in Packets \cup {NoPacket}, NEW k \in Nat,
           Transfers!ReplyPacket(p, k + 1).length = 64
    PROVE  /\ DescriptorTypeOf(p) = DescriptorTypes.Config
           /\ 64 * (k + 1) <= Transfers!ReplyLength(p)
  <1> DEFINE length == Transfers!ReplyLength(p)
             index == DescriptorIndexOf(p)
             type == DescriptorTypeOf(p)
  <1>1. p.length \in Nat /\ index \in Nat
    BY PacketFields, WordRange, ByteRange
  <1>2. StringReplyLength(index) \in Nat /\ StringReplyLength(index) < 64
    BY <1>1 DEF StringReplyLength, StringUnits, LesserOf
  <1>3. length \in Nat /\ (type # DescriptorTypes.Config => length < 64)
    BY <1>1, <1>2, SizeAssumption, SameRequests DEF LesserOf, DescriptorTypes
  <1> HIDE DEF length, type, index
  <1>4. LesserOf(64, length - 64 * k) = 64
    <2>1. 64 * ((k + 1) - 1) = 64 * k
      OBVIOUS
    <2>2. ~(LesserOf(64, length - 64 * k) = 0)
      BY <2>1, SameRequests DEF EmptyPacket, length
    <2> QED  BY <2>1, <2>2, SameRequests DEF length
  <1>5. 64 * (k + 1) <= length
    BY <1>3, <1>4 DEF LesserOf
  <1> QED  BY <1>3, <1>5 DEF length, type

(* send_config_descriptor puts in the buffer the packet that is due, and   *)
(* leaves in EP0_BUF_STATUS the part that follows it.                      *)
LEMMA ConfigPart ==
    ASSUME OrderlyRequests, NEW p \in Packets \cup {NoPacket}, NEW k \in Nat,
           DescriptorTypeOf(p) = DescriptorTypes.Config,
           64 * k <= Transfers!ReplyLength(p)
    PROVE  LET slice == ConfigDescPacket(ConfigDescSize, p.length, k)
               wanted == Transfers!ReplyPacket(p, k + 1)
           IN  /\ slice.length \in Nat
               /\ wanted = IF slice.length = 0 THEN EmptyPacket
                           ELSE [ type |-> DescriptorTypes.Config, index |-> 0,
                                  at |-> slice.at, length |-> slice.length ]
               /\ NextPart(slice, k) = IF wanted.length = 64 THEN k + 1 ELSE 0
  <1> DEFINE slice == ConfigDescPacket(ConfigDescSize, p.length, k)
             wanted == Transfers!ReplyPacket(p, k + 1)
             total == p.length
             size == ConfigDescSize
  <1>1. total \in Nat /\ size \in Nat /\ size < 64 * 256
    BY PacketFields, WordRange, SizeAssumption DEF OrderlyRequests
  <1>2. Transfers!ReplyLength(p) = LesserOf(size, total)
    BY SameRequests DEF DescriptorTypes
  <1>3. slice.at = 64 * k /\ slice.length = LesserOf(64, LesserOf(size, total) - 64 * k)
    <2> HIDE DEF total, size
    <2>1. 64 * k <= LesserOf(size, total)
      BY <1>2
    <2>2. ConfigDescPacket(size, total, k).at = 64 * k
      BY <1>1, <2>1 DEF ConfigDescPacket, LesserOf
    <2>3. ConfigDescPacket(size, total, k).length = LesserOf(64, LesserOf(size, total) - 64 * k)
      BY <1>1, <2>1 DEF ConfigDescPacket, LesserOf
    <2> QED  BY <2>2, <2>3 DEF total, size
  <1>4. wanted = IF slice.length = 0 THEN EmptyPacket
                 ELSE [ type |-> DescriptorTypes.Config, index |-> 0,
                        at |-> slice.at, length |-> slice.length ]
    <2>1. 64 * ((k + 1) - 1) = 64 * k
      OBVIOUS
    <2>2. DescriptorTypes.Config # 3
      BY DEF DescriptorTypes
    <2> HIDE DEF slice
    <2> QED  BY <1>2, <1>3, <2>1, <2>2, SameRequests
  <1>5. slice.length \in Nat /\ (slice.length = 64 => k + 1 < 256)
    <2> HIDE DEF slice, total, size
    <2> QED  BY <1>1, <1>2, <1>3 DEF LesserOf
  <1>6. wanted.length = slice.length
    <2> HIDE DEF slice, wanted
    <2> QED  BY <1>4 DEF EmptyPacket
  <1>7. NextPart(slice, k) = IF wanted.length = 64 THEN k + 1 ELSE 0
    <2> HIDE DEF slice, wanted
    <2>1. slice.length = 64 => (k + 1) % 256 = k + 1
      BY <1>5
    <2> QED  BY <1>6, <2>1 DEF NextPart
  <1> QED  BY <1>4, <1>5, <1>7

(* Every other descriptor goes in a single packet.                         *)
LEMMA OnlyPacket ==
    ASSUME NEW p \in Packets \cup {NoPacket}, DescriptorTypeOf(p) # DescriptorTypes.Config
    PROVE  LET n == Transfers!ReplyLength(p)
               type == DescriptorTypeOf(p)
               wanted == Transfers!ReplyPacket(p, 1)
           IN  /\ n \in Nat /\ n < 64 /\ wanted.length = n
               /\ wanted = IF n = 0 THEN EmptyPacket
                           ELSE [ type |-> type, at |-> 0, length |-> n,
                                  index |-> IF type = DescriptorTypes.String
                                              THEN DescriptorIndexOf(p) ELSE 0 ]
  <1> DEFINE n == Transfers!ReplyLength(p)
             index == DescriptorIndexOf(p)
             type == DescriptorTypeOf(p)
             wanted == Transfers!ReplyPacket(p, 1)
  <1>1. p.length \in Nat /\ index \in Nat
    BY PacketFields, WordRange, ByteRange
  <1>2. StringReplyLength(index) \in Nat /\ StringReplyLength(index) < 64
    BY <1>1 DEF StringReplyLength, StringUnits, LesserOf
  <1>3. n \in Nat /\ n < 64
    BY <1>1, <1>2, SizeAssumption, SameRequests DEF LesserOf, DescriptorTypes
  <1>4. wanted = IF n = 0 THEN EmptyPacket
                 ELSE [ type |-> type, at |-> 0, length |-> n,
                        index |-> IF type = DescriptorTypes.String THEN index ELSE 0 ]
    <2>1. LesserOf(64, n - 64 * (1 - 1)) = n /\ 64 * (1 - 1) = 0
      <3> HIDE DEF n
      <3> QED  BY <1>3 DEF LesserOf
    <2> QED  BY <2>1, SameRequests DEF DescriptorTypes
  <1>5. wanted.length = n
    <2> HIDE DEF wanted, n
    <2> QED  BY <1>4 DEF EmptyPacket
  <1> QED  BY <1>3, <1>4, <1>5

(* No data stage stops at a full packet that is not the whole descriptor.  *)
LEMMA NoSurplus ==
    ASSUME OrderlyRequests, NEW p \in Packets \cup {NoPacket}, NEW n \in Nat, p.dir = "In",
           DescriptorTypeOf(p) = DescriptorTypes.Config,
           64 * n <= Transfers!ReplyLength(p), p.length <= 64 * n
    PROVE  FALSE
  <1>1. p \in Packets
    BY DEF NoPacket
  <1>2. p.length \in Nat /\ ConfigDescSize \in Nat
    BY PacketFields, WordRange, SizeAssumption
  <1>3. Transfers!ReplyLength(p) = LesserOf(ConfigDescSize, p.length)
    BY SameRequests DEF DescriptorTypes
  <1> DEFINE total == p.length
  <1>4. total = 64 * n /\ total <= ConfigDescSize /\ total % 64 = 0
    <2>1. total \in Nat /\ total <= 64 * n /\ 64 * n <= LesserOf(ConfigDescSize, total)
      BY <1>2, <1>3
    <2> HIDE DEF total
    <2>2. total = 64 * n /\ total <= ConfigDescSize
      BY <1>2, <2>1 DEF LesserOf
    <2> QED  BY <2>2
  <1> QED  BY <1>1, <1>2, <1>4 DEF OrderlyRequests

(* What a request for the configuration descriptor, or a completion, puts  *)
(* in the buffer when part k is due.                                       *)
LEMMA PartFills ==
    ASSUME OrderlyRequests, HostTypeOK, UNCHANGED <<hPacket, hReceived>>,
           DescriptorTypeOf(hPacket) = DescriptorTypes.Config,
           64 * Len(hReceived) <= Transfers!ReplyLength(hPacket),
           FillConfigPart(hPacket.length, Len(hReceived))
    PROVE  Carried(reply)' = Wanted /\ epBufStatus' = PartDue
  <1> DEFINE k == Len(hReceived)
             slice == ConfigDescPacket(ConfigDescSize, hPacket.length, k)
  <1>1. hPacket \in Packets \cup {NoPacket} /\ k \in Nat
    BY DEF HostTypeOK
  <1>2. /\ Wanted = IF slice.length = 0 THEN EmptyPacket
                    ELSE [ type |-> DescriptorTypes.Config, index |-> 0,
                           at |-> slice.at, length |-> slice.length ]
        /\ NextPart(slice, k) = PartDue
    BY <1>1, ConfigPart DEF Wanted, PartDue
  <1>3. /\ ep0Buffer' = Content(DescriptorTypes.Config, 0, slice.at)
        /\ epBufStatus' = NextPart(slice, k) /\ reply' = slice.length
    BY DEF FillConfigPart
  <1> HIDE DEF slice, k
  <1> QED  BY <1>2, <1>3 DEF Carried, Content

LEMMA PartZero ==
    ASSUME NEW p \in Packets \cup {NoPacket}, DescriptorTypeOf(p) = DescriptorTypes.Config
    PROVE  0 <= Transfers!ReplyLength(p)
  BY PacketFields, WordRange, SizeAssumption, SameRequests DEF DescriptorTypes, LesserOf

----
(* The invariant is inductive.                                             *)

LEMMA TransferInit == EInit => TransferInv
  <1> SUFFICES ASSUME EInit PROVE TransferInv
    OBVIOUS
  <1>1. PhaseInv
    BY DEF EInit, Init, PhaseInv, Started
  <1>2. FreshInv /\ FilledInv /\ DoneInv
    BY DEF EInit, Init, FreshInv, FilledInv, DoneInv, Fresh, Filled, Done, SetupPCs, ReplyPCs
  <1>3. Prompt /\ ArmedInv /\ PartInv /\ AddrInv
    BY DEF EInit, Init, Prompt, ArmedInv, PartInv, AddrInv, Started
  <1> QED  BY <1>1, <1>2, <1>3 DEF TransferInv

(* What is due to the host changes with what the host has, what the buffer *)
(* carries with the buffer, and what the host takes with both.             *)
LEMMA Frames ==
    /\ UNCHANGED <<hPacket, hReceived>> => Wanted' = Wanted /\ PartDue' = PartDue
    /\ UNCHANGED ep0Buffer => \A n : Carried(n)' = Carried(n)
    /\ UNCHANGED ep0Buffer /\ bufCtrl'[EP0In] = bufCtrl[EP0In] => InPacket' = InPacket
  BY DEF Wanted, PartDue, Carried, InPacket

(* The host takes as much of the buffer as its control register says.      *)
LEMMA InPacketCarried ==
    /\ InPacket = Carried(bufCtrl[EP0In].length)
    /\ InPacket' = Carried(bufCtrl[EP0In].length)'
  BY DEF InPacket, Carried

(* The types the steps of the device rely on.                              *)
LEMMA InControlType ==
    ASSUME TypeOK
    PROVE  /\ bufCtrl[EP0In].available \in BOOLEAN /\ bufCtrl[EP0In].pid \in {0, 1}
           /\ newAddr \in Nat /\ epBufStatus \in Nat
  BY BufferNames, ByteRange DEF TypeOK, BufferControl

(* Where the handler goes when it is through with what it was at.          *)
Between == {"main", "completions", "take", "reset"}

LEMMA NextPlace ==
    ASSUME StageInv, pc # "setup"
    PROVE  Stage(status) \in Between /\ \A rem : Resume(rem) \in Between
  BY DEF StageInv, Stage, Resume, Between

LEMMA PacketDirection == \A p \in Packets : p.dir \in {"In", "Out"}
  BY PacketsAssumption DEF SetupPacket

(* What the steps of the handler that the next lemmas are about leave      *)
(* alone.                                                                  *)
Settings == <<setupPacket, setupRec, busReset, addrEndp, wired>>

(* The handler looks for what there is to do.                              *)
LEMMA Undisturbed ==
    ASSUME SettledInv, UNCHANGED <<hostVars, Settings, newAddr, epBufStatus, ep0Buffer>>,
           bufCtrl'[EP0In] = bufCtrl[EP0In],
           EP0In \in bufStatus' <=> EP0In \in bufStatus,
           remaining' \subseteq bufStatus',
           pc \in Between, pc' \in Between \cup {"setup", "panic"},
           pc' = "setup" => setupRec,
           setupRec => pc' \in {"main", "setup"}
    PROVE  TransferInv'
  <1> USE DEF SettledInv, TransferInv, BootPCs, SetupPCs, ReplyPCs, hostVars, Settings,
              Started, Fresh, Filled, Armed, Done, Between
  <1>1. Prompt' /\ PhaseInv'
    BY DEF Prompt, PhaseInv
  <1>2. FreshInv' /\ FilledInv'
    BY DEF FreshInv, FilledInv
  <1>3. ArmedInv' /\ DoneInv'
    BY Frames DEF ArmedInv, DoneInv
  <1>4. PartInv' /\ AddrInv'
    BY DEF PartInv, AddrInv
  <1> QED  BY <1>1, <1>2, <1>3, <1>4

(* The handler puts the packet that is due in the buffer.                  *)
LEMMA Filling ==
    ASSUME SettledInv, UNCHANGED <<hostVars, Settings, newAddr, bufCtrl, bufStatus, remaining>>,
           pc \in {"request", "ep0In"}, pc' \in ReplyPCs,
           hStage = "data", newAddr < 128, ~Armed, EP0In \notin bufStatus,
           bufCtrl[EP0In].pid = 1 - hPid,
           pc' = "armDevice" => hPid = 1,
           Carried(reply)' = Wanted, epBufStatus' = PartDue
    PROVE  TransferInv'
  <1> USE DEF SettledInv, TransferInv, BootPCs, SetupPCs, ReplyPCs, hostVars, Settings,
              Started, Fresh, Filled, Armed, Done
  <1>1. Prompt' /\ PhaseInv'
    BY DEF Prompt, PhaseInv
  <1>2. ~setupRec
    BY DEF Prompt
  <1>3. FreshInv' /\ FilledInv'
    BY <1>2, Frames DEF FreshInv, FilledInv
  <1>4. ArmedInv' /\ DoneInv'
    BY DEF ArmedInv, DoneInv
  <1>5. PartInv' /\ AddrInv'
    BY InControlType DEF PartInv, AddrInv
  <1> QED  BY <1>1, <1>3, <1>4, <1>5

(* The handler arms the buffer with it.                                    *)
LEMMA Arming ==
    ASSUME SettledInv, UNCHANGED <<hostVars, Settings, newAddr, epBufStatus, ep0Buffer,
                                   bufStatus, remaining>>,
           pc \in ReplyPCs, pc' \in Between,
           bufCtrl'[EP0In] = [ available |-> TRUE, pid |-> hPid, length |-> reply ]
    PROVE  TransferInv'
  <1> USE DEF SettledInv, TransferInv, BootPCs, SetupPCs, ReplyPCs, hostVars, Settings,
              Started, Fresh, Filled, Armed, Done, Between
  <1>1. Prompt' /\ PhaseInv'
    BY DEF Prompt, PhaseInv
  <1>2. ~setupRec
    BY DEF Prompt
  <1>3. FreshInv' /\ FilledInv' /\ DoneInv' /\ PartInv'
    BY <1>2, Frames DEF FreshInv, FilledInv, DoneInv, PartInv
  <1>4. InPacket' = Wanted
    BY InPacketCarried, Frames DEF FilledInv
  <1>5. ArmedInv'
    BY <1>4, Frames DEF ArmedInv, FilledInv, PhaseInv
  <1>6. AddrInv'
    BY InControlType DEF AddrInv, FilledInv, PhaseInv
  <1> QED  BY <1>1, <1>3, <1>5, <1>6

(* The handler answers a request with an empty packet.                     *)
LEMMA Answering ==
    ASSUME SettledInv, UNCHANGED <<hostVars, Settings, epBufStatus, ep0Buffer,
                                   bufStatus, remaining>>,
           pc = "request", pc' \in Between,
           bufCtrl'[EP0In] = [ available |-> TRUE, pid |-> 1, length |-> 0 ],
           hPacket.dir = "In" => Wanted = EmptyPacket,
           newAddr' = IF hPacket.dir = "Out" /\ hPacket.request = Request.SetAddress
                        THEN PendingAddress(hPacket.value) ELSE newAddr
    PROVE  TransferInv'
  <1> USE DEF SettledInv, TransferInv, BootPCs, SetupPCs, ReplyPCs, hostVars, Settings,
              Started, Fresh, Filled, Armed, Done, Between
  <1>1. Prompt' /\ PhaseInv'
    BY DEF Prompt, PhaseInv
  <1>2. ~setupRec
    BY DEF Prompt
  <1>3. FreshInv' /\ FilledInv' /\ DoneInv' /\ PartInv'
    BY <1>2, Frames DEF FreshInv, FilledInv, DoneInv, PartInv
  <1>4. InPacket' = EmptyPacket
    BY DEF InPacket
  <1>5. Wanted = EmptyPacket => PartDue = 0
    BY DEF PartDue, EmptyPacket
  <1>6. ArmedInv'
    BY <1>4, <1>5, Frames DEF ArmedInv, FreshInv, PhaseInv
  <1>7. PendingAddress(hPacket.value) \in Nat /\ PendingAddress(hPacket.value) >= 128
    BY PacketFields, AddressRange DEF PendingAddress, HostTypeOK
  <1>8. AddrInv'
    BY <1>7, InControlType DEF AddrInv, FreshInv
  <1> QED  BY <1>1, <1>3, <1>6, <1>8

(* A step of the device or of the host preserves what they owe each other. *)
LEMMA TransferStep ==
    ASSUME Patient, ~MayAbort, OrderlyRequests
    PROVE  SettledInv /\ [ENext]_evars => TransferInv'
  <1> SUFFICES ASSUME SettledInv, [ENext]_evars PROVE TransferInv'
    OBVIOUS
  <1>a. /\ TypeOK /\ HostTypeOK /\ FlowInv /\ BootInv /\ StageInv
        /\ Prompt /\ PhaseInv /\ FreshInv /\ FilledInv
        /\ ArmedInv /\ DoneInv /\ PartInv /\ AddrInv
    BY DEF SettledInv, TransferInv, FlowInv
  <1>b. /\ bufCtrl[EP0In].available \in BOOLEAN /\ bufCtrl[EP0In].pid \in {0, 1}
        /\ newAddr \in Nat /\ epBufStatus \in Nat /\ hPid \in {0, 1}
        /\ bufCtrl \in [Buffers -> BufferControl]
        /\ EP0In \in Buffers /\ EP0Out \in Buffers /\ EP1Out \in Buffers
    BY <1>a, InControlType, BufferNames DEF TypeOK, HostTypeOK
  <1>c. pc # "setup" => Stage(status) \in Between /\ \A rem : Resume(rem) \in Between
    BY <1>a, NextPlace
  <1>d. EP0In = 0 /\ EP0Out = 1 /\ EP1Out = 3
    BY BufferNumbers
  <1>e. hPacket \in Packets \cup {NoPacket} /\ hPacket.dir \in {"In", "Out"}
    BY <1>a, PacketDirection DEF HostTypeOK, NoPacket
  <1>f. pc = "request" => /\ packet = hPacket /\ ~setupRec /\ bufCtrl[EP0In].pid = 0
                          /\ hStage # "idle" /\ hReceived = <<>> /\ hPid = 1
                          /\ ~Armed /\ EP0In \notin bufStatus
                          /\ newAddr < 128 /\ epBufStatus = 0
                          /\ hPacket.dir = "In" => hStage = "data"
    BY <1>a DEF Prompt, PhaseInv, FreshInv, Fresh, Done, SetupPCs
  <1>g. pc = "request" => Wanted = Transfers!ReplyPacket(hPacket, 1)
    BY <1>f DEF Wanted
  <1>i. /\ pc = "request" => Acknowledged[EP0In] = [ available |-> TRUE, pid |-> 1, length |-> 0 ]
        /\ Acknowledged \in [Buffers -> BufferControl]
    <2>1. Acknowledged[EP0In] = ArmedIn(0) /\ ArmedIn(0) \in BufferControl
      BY <1>b, SmallValues DEF Acknowledged, ArmedIn, BufferControl
    <2>2. Acknowledged \in [Buffers -> BufferControl]
      BY <2>1, <1>b DEF Acknowledged
    <2>3. pc = "request" => 1 - bufCtrl[EP0In].pid = 1
      BY <1>f
    <2>4. ArmedIn(0) = [ available |-> TRUE, pid |-> 1 - bufCtrl[EP0In].pid, length |-> 0 ]
      BY Zenon DEF ArmedIn
    <2> QED  BY <2>1, <2>2, <2>3, <2>4
  <1> USE DEF vars, cpuVars, dpramVars, sieVars, wireVars, hostVars
  <1>1. CASE ResetUsb /\ UNCHANGED hostVars
    BY <1>1, <1>a, <1>b, Frames
    DEF ResetUsb, TransferInv, BootInv, Prompt, PhaseInv, FreshInv, FilledInv,
        ArmedInv, DoneInv, PartInv, AddrInv, Started, Fresh, Filled, Armed, Done,
        BootPCs, SetupPCs, ReplyPCs
  <1>2. CASE ClearDpram /\ UNCHANGED hostVars
    <2>1. /\ ~bufCtrl'[EP0In].available /\ ep0Buffer' = NoContent /\ epBufStatus' = 0
          /\ pc' = "configure" /\ ~pullup /\ ~wired
      BY <1>2, <1>a, <1>b DEF ClearDpram, Idle, BootInv, BootPCs
    <2> QED
      BY <1>2, <2>1, <1>a, <1>b
      DEF ClearDpram, TransferInv, BootInv, Prompt, PhaseInv, FreshInv, FilledInv,
          ArmedInv, DoneInv, PartInv, AddrInv, Started, Fresh, Filled, Armed, Done,
          BootPCs, SetupPCs, ReplyPCs
  <1>3. CASE ConfigureEndpoints /\ UNCHANGED hostVars
    BY <1>3, <1>a, <1>b, Frames
    DEF ConfigureEndpoints, TransferInv, BootInv, Prompt, PhaseInv, FreshInv,
        FilledInv, ArmedInv, DoneInv, PartInv, AddrInv, Started, Fresh, Filled, Armed,
        Done, BootPCs, SetupPCs, ReplyPCs
  <1>4. CASE Connect /\ UNCHANGED hostVars
    BY <1>4, <1>a, <1>b, Frames
    DEF Connect, TransferInv, BootInv, Prompt, PhaseInv, FreshInv, FilledInv,
        ArmedInv, DoneInv, PartInv, AddrInv, Started, Fresh, Filled, Armed, Done,
        BootPCs, SetupPCs, ReplyPCs
  <1>5. CASE Trap /\ UNCHANGED hostVars
    <2>1. /\ pc = "main" /\ pc' \in Between \cup {"setup"}
          /\ pc' = "setup" <=> setupRec
          /\ UNCHANGED <<hostVars, Settings, newAddr, epBufStatus, ep0Buffer, bufCtrl, bufStatus, remaining>>
      BY <1>5 DEF Trap, Settings, Ints, InterruptsEnabled, Stage, Between
    <2>2. remaining \subseteq bufStatus
      BY <1>a DEF PhaseInv
    <2> QED  BY <2>1, <2>2, Undisturbed DEF Between
  <1>6. CASE ClearSetupRec /\ UNCHANGED hostVars
    BY <1>6, <1>a, <1>b, Frames
    DEF ClearSetupRec, TransferInv, BootInv, Prompt, PhaseInv, FreshInv, FilledInv,
        ArmedInv, DoneInv, PartInv, AddrInv, Started, Fresh, Filled, Armed, Done,
        BootPCs, SetupPCs, ReplyPCs
  <1>7. CASE ReadInCtrl /\ UNCHANGED hostVars
    BY <1>7, <1>a, <1>b, Frames
    DEF ReadInCtrl, TransferInv, BootInv, Prompt, PhaseInv, FreshInv, FilledInv,
        ArmedInv, DoneInv, PartInv, AddrInv, Started, Fresh, Filled, Armed, Done,
        BootPCs, SetupPCs, ReplyPCs
  <1>8. CASE ClearPid /\ UNCHANGED hostVars
    <2>1. ctrl \in BufferControl
      BY <1>a DEF TypeOK
    <2>2. bufCtrl'[EP0In].pid = 0 /\ bufCtrl'[EP0In].available = ctrl.available
      BY <1>8, <1>b, <2>1 DEF ClearPid, BufferControl
    <2> QED
      BY <1>8, <2>2, <1>a, <1>b
      DEF ClearPid, TransferInv, BootInv, Prompt, PhaseInv, FreshInv, FilledInv,
          ArmedInv, DoneInv, PartInv, AddrInv, Started, Fresh, Filled, Armed, Done,
          BootPCs, SetupPCs, ReplyPCs
  <1>9. CASE ReadSetup /\ UNCHANGED hostVars
    BY <1>9, <1>a, <1>b, Frames
    DEF ReadSetup, TransferInv, BootInv, Prompt, PhaseInv, FreshInv, FilledInv,
        ArmedInv, DoneInv, PartInv, AddrInv, Started, Fresh, Filled, Armed, Done,
        BootPCs, SetupPCs, ReplyPCs
  <1>10. CASE HandleSetAddress /\ UNCHANGED hostVars
    <2>1. bufCtrl'[EP0In] = [ available |-> TRUE, pid |-> 1, length |-> 0 ]
      BY <1>10, <1>i DEF HandleSetAddress, Requested
    <2> QED
      BY <1>10, <2>1, <1>c, <1>f, Answering DEF HandleSetAddress, Requested, EndSetup, Settings
  <1>11. CASE HandleSetConfiguration /\ UNCHANGED hostVars
    <2>1. bufCtrl'[EP0In] = [ available |-> TRUE, pid |-> 1, length |-> 0 ]
      BY <1>11, <1>b, <1>d, <1>i DEF HandleSetConfiguration, Requested
    <2> QED
      BY <1>11, <2>1, <1>c, <1>f, Answering
      DEF HandleSetConfiguration, Requested, EndSetup, Settings, Request
  <1>12. CASE RejectRequest /\ UNCHANGED hostVars
    BY <1>12, <1>a, <1>b, Frames
    DEF RejectRequest, TransferInv, BootInv, Prompt, PhaseInv, FreshInv, FilledInv,
        ArmedInv, DoneInv, PartInv, AddrInv, Started, Fresh, Filled, Armed, Done,
        BootPCs, SetupPCs, ReplyPCs
  <1>13. CASE HandleSetLineCoding /\ UNCHANGED hostVars
    <2>1. bufCtrl'[EP0In] = [ available |-> TRUE, pid |-> 1, length |-> 0 ]
      BY <1>13, <1>i DEF HandleSetLineCoding, Requested
    <2> QED
      BY <1>13, <2>1, <1>c, <1>f, Answering
      DEF HandleSetLineCoding, Requested, EndSetup, Settings, Request
  <1>14. CASE HandleOtherOut /\ UNCHANGED hostVars
    <2>1. bufCtrl'[EP0In] = [ available |-> TRUE, pid |-> 1, length |-> 0 ]
      BY <1>14, <1>i DEF HandleOtherOut, Requested
    <2> QED
      BY <1>14, <2>1, <1>c, <1>f, Answering DEF HandleOtherOut, Requested, EndSetup, Settings
  <1>15. CASE FillDeviceDescriptor /\ UNCHANGED hostVars
    <2>1. /\ pc = "request" /\ pc' = "armDevice" /\ hPacket.dir = "In"
          /\ DescriptorTypeOf(hPacket) = 1
          /\ ep0Buffer' = Content(1, 0, 0) /\ reply' = LesserOf(18, hPacket.length)
          /\ UNCHANGED <<hostVars, Settings, newAddr, epBufStatus, bufCtrl, bufStatus, remaining>>
      BY <1>15, <1>f
      DEF FillDeviceDescriptor, DescriptorRequested, Requested, DescriptorTypes,
          DeviceDescriptorLength, Settings
    <2>2. Transfers!ReplyLength(hPacket) = reply'
      BY <2>1, SameRequests
    <2>3. Carried(reply)' = Wanted /\ PartDue = 0
      BY <2>1, <2>2, <1>e, <1>g, OnlyPacket DEF Carried, Content, PartDue, DescriptorTypes
    <2> QED  BY <2>1, <2>3, <1>f, Filling DEF ReplyPCs
  <1>16. CASE FillConfigDescriptor /\ UNCHANGED hostVars
    <2>1. /\ pc = "request" /\ pc' = "armReply" /\ hPacket.dir = "In"
          /\ DescriptorTypeOf(hPacket) = DescriptorTypes.Config
          /\ FillConfigPart(hPacket.length, 0)
          /\ UNCHANGED <<hostVars, Settings, newAddr, bufCtrl, bufStatus, remaining>>
      BY <1>16, <1>f
      DEF FillConfigDescriptor, FillConfigPart, DescriptorRequested, Requested,
          Settings
    <2>2. hReceived = <<>> /\ Len(hReceived) = 0 /\ Transfers!ReplyLength(hPacket) >= 0
      BY <2>1, <1>e, <1>f, PartZero
    <2>3. Carried(reply)' = Wanted /\ epBufStatus' = PartDue
      BY <2>1, <2>2, <1>a, PartFills
    <2> QED  BY <2>1, <2>3, <1>f, Filling DEF ReplyPCs
  <1>17. CASE FillStringDescriptor /\ UNCHANGED hostVars
    <2>1. /\ pc = "request" /\ pc' = "armReply" /\ hPacket.dir = "In"
          /\ DescriptorTypeOf(hPacket) = 3
          /\ ep0Buffer' = Content(3, DescriptorIndexOf(hPacket), 0)
          /\ reply' = StringReplyLength(DescriptorIndexOf(hPacket))
          /\ UNCHANGED <<hostVars, Settings, newAddr, epBufStatus, bufCtrl, bufStatus, remaining>>
      BY <1>17, <1>f
      DEF FillStringDescriptor, DescriptorRequested, Requested, DescriptorTypes,
          Settings
    <2>2. Transfers!ReplyLength(hPacket) = reply'
      BY <2>1, SameRequests
    <2>3. Carried(reply)' = Wanted /\ PartDue = 0
      BY <2>1, <2>2, <1>e, <1>g, OnlyPacket DEF Carried, Content, PartDue, DescriptorTypes
    <2> QED  BY <2>1, <2>3, <1>f, Filling DEF ReplyPCs
  <1>18. CASE SendDeviceQualifier /\ UNCHANGED hostVars
    <2>1. bufCtrl'[EP0In] = [ available |-> TRUE, pid |-> 1, length |-> 0 ]
      BY <1>18, <1>i DEF SendDeviceQualifier, DescriptorRequested, Requested
    <2>2. pc = "request" /\ hPacket.dir = "In" /\ DescriptorTypeOf(hPacket) = 6
      BY <1>18, <1>f DEF SendDeviceQualifier, DescriptorRequested, Requested, DescriptorTypes
    <2>3. Transfers!ReplyLength(hPacket) = 0
      BY <2>2, SameRequests
    <2>4. Wanted = EmptyPacket
      BY <2>2, <2>3, <1>e, <1>g, OnlyPacket DEF DescriptorTypes
    <2> QED
      BY <1>18, <2>1, <2>2, <2>4, <1>c, Answering
      DEF SendDeviceQualifier, EndSetup, Settings
  <1>19. CASE ArmDevice /\ UNCHANGED hostVars
    <2>1. hPid = 1
      BY <1>19, <1>a DEF ArmDevice, FilledInv, Filled, ReplyPCs
    <2>2. bufCtrl'[EP0In] = [ available |-> TRUE, pid |-> hPid, length |-> reply ]
      BY <1>19, <2>1, <1>b DEF ArmDevice
    <2> QED  BY <1>19, <2>2, <1>c, Arming DEF ArmDevice, ReplyPCs, Settings
  <1>20. CASE ArmReply /\ UNCHANGED hostVars
    <2>1. bufCtrl[EP0In].pid = 1 - hPid
      BY <1>20, <1>a DEF ArmReply, FilledInv, Filled, ReplyPCs
    <2>2. bufCtrl'[EP0In] = [ available |-> TRUE, pid |-> hPid, length |-> reply ]
      BY <1>20, <2>1, <1>b DEF ArmReply, ArmedIn
    <2> QED  BY <1>20, <2>2, <1>c, Arming DEF ArmReply, ReplyPCs, Settings
  <1>21. CASE ReadBufStatus /\ UNCHANGED hostVars
    <2>1. /\ pc = "completions" /\ pc' \in Between
          /\ UNCHANGED <<hostVars, Settings, newAddr, epBufStatus, ep0Buffer, bufCtrl, bufStatus>>
          /\ remaining' = bufStatus
      BY <1>21, <1>a DEF ReadBufStatus, Settings, StageInv, Stage, Between
    <2>2. ~setupRec
      BY <2>1, <1>a DEF Prompt
    <2> QED  BY <2>1, <2>2, Undisturbed DEF Between
  <1>22. CASE TakeCompletion /\ UNCHANGED hostVars
    <2>1. PICK bit \in remaining :
              /\ bufStatus' = bufStatus \ {bit} /\ remaining' = remaining \ {bit}
              /\ pc' = CASE bit = EP0In -> "ep0In"
                         [] bit = EP0Out -> Resume(remaining \ {bit})
                         [] OTHER -> "panic"
      BY <1>22 DEF TakeCompletion
    <2>2. /\ pc = "take" /\ ~setupRec /\ bit \in bufStatus /\ remaining' \subseteq bufStatus'
          /\ UNCHANGED <<hostVars, Settings, newAddr, epBufStatus, ep0Buffer, bufCtrl>>
      BY <1>22, <2>1, <1>a DEF TakeCompletion, Settings, Prompt, PhaseInv
    <2>3. CASE bit = EP0In
      <3>1. pc' = "ep0In" /\ EP0In \notin bufStatus' /\ EP0In \in bufStatus
        BY <2>1, <2>2, <2>3, <1>d
      <3> QED
        BY <2>2, <3>1, <1>a, <1>b, Frames
        DEF TransferInv, Prompt, PhaseInv, FreshInv, FilledInv, ArmedInv, DoneInv,
            PartInv, AddrInv, Settings, Started, Fresh, Filled, Armed, Done, BootPCs,
            SetupPCs, ReplyPCs
    <2>4. CASE bit # EP0In
      <3>1. pc' \in Between \cup {"panic"}
        BY <2>1, <2>2, <2>4, <1>c
      <3> QED  BY <2>1, <2>2, <2>4, <3>1, Undisturbed DEF Between
    <2> QED  BY <2>3, <2>4
  <1>23. CASE ApplyAddress /\ UNCHANGED hostVars
    <2>1. pc' \in Between /\ newAddr >= 128 /\ newAddr % 128 < 128 /\ newAddr % 128 \in Nat
      BY <1>23, <1>b, <1>c DEF ApplyAddress
    <2> QED
      BY <1>23, <2>1, <1>a, <1>b, Frames
      DEF ApplyAddress, TransferInv, BootInv, Prompt, PhaseInv, FreshInv, FilledInv,
          ArmedInv, DoneInv, PartInv, AddrInv, Started, Fresh, Filled, Armed, Done,
          BootPCs, SetupPCs, ReplyPCs, Between
  <1>24. CASE ContinueConfig /\ UNCHANGED hostVars
    <2>1. /\ pc = "ep0In" /\ pc' = "armReply" /\ newAddr < 128 /\ epBufStatus # 0
          /\ FillConfigPart(setupPacket.length, epBufStatus)
          /\ UNCHANGED <<hostVars, Settings, newAddr, bufCtrl, bufStatus, remaining>>
      BY <1>24 DEF ContinueConfig, FillConfigPart, Settings
    <2>2. hStage = "data" /\ setupPacket = hPacket
      BY <2>1, <1>a DEF PartInv, PhaseInv, Started
    <2>3. /\ EP0In \notin bufStatus /\ bufCtrl[EP0In].pid = 1 - hPid
          /\ epBufStatus = Len(hReceived)
          /\ DescriptorTypeOf(hPacket) = DescriptorTypes.Config
          /\ 64 * Len(hReceived) <= Transfers!ReplyLength(hPacket)
      BY <2>1, <2>2, <1>a DEF DoneInv, Done
    <2>4. ~Armed
      BY <2>1, <1>a DEF ArmedInv, Started, Done
    <2>5. Carried(reply)' = Wanted /\ epBufStatus' = PartDue
      BY <2>1, <2>2, <2>3, <1>a, PartFills
    <2> QED  BY <2>1, <2>2, <2>3, <2>4, <2>5, Filling DEF ReplyPCs
  <1>25. CASE ArmStatusOut /\ UNCHANGED hostVars
    <2>1. bufCtrl'[EP0In] = bufCtrl[EP0In] /\ pc' \in Between
      BY <1>25, <1>b, <1>c, <1>d DEF ArmStatusOut
    <2> QED
      BY <1>25, <2>1, <1>a, <1>b, Frames
      DEF ArmStatusOut, TransferInv, BootInv, Prompt, PhaseInv, FreshInv, FilledInv,
          ArmedInv, DoneInv, PartInv, AddrInv, Started, Fresh, Filled, Armed, Done,
          BootPCs, SetupPCs, ReplyPCs, Between
  <1>26. CASE ClearBusReset /\ UNCHANGED hostVars
    BY <1>26, <1>a, <1>b, Frames
    DEF ClearBusReset, TransferInv, StageInv, BootInv, Prompt, PhaseInv, FreshInv,
        FilledInv, ArmedInv, DoneInv, PartInv, AddrInv, Started, Fresh, Filled, Armed,
        Done, BootPCs, SetupPCs, ReplyPCs
  <1>27. CASE ClearAddress /\ UNCHANGED hostVars
    <2>1. pc' \in Between
      BY <1>27, <1>c DEF ClearAddress
    <2> QED
      BY <1>27, <2>1, <1>a, <1>b, Frames
      DEF ClearAddress, TransferInv, BootInv, Prompt, PhaseInv, FreshInv, FilledInv,
          ArmedInv, DoneInv, PartInv, AddrInv, Started, Fresh, Filled, Armed, Done,
          BootPCs, SetupPCs, ReplyPCs, Between
  <1>28. CASE HostReset
    BY <1>28, <1>a, <1>b
    DEF HostReset, BusReset, TransferInv, BootInv, Prompt, PhaseInv, FreshInv,
        FilledInv, ArmedInv, DoneInv, PartInv, AddrInv, Started, Fresh, Filled, Armed,
        Done, BootPCs, SetupPCs, ReplyPCs
  <1>29. CASE \E p \in Packets : HostSetup(p)
    <2>1. PICK p \in Packets : HostSetup(p)
      BY <1>29
    <2>2. /\ pc = "main" /\ ~setupRec /\ ~busReset /\ bufStatus = {} /\ wired
          /\ hStage = "idle" /\ p.dir \in {"In", "Out"}
      BY <2>1, PacketDirection DEF HostSetup, Setup, Quiet, Ints, InterruptsEnabled
    <2>3. ~Armed /\ ~Done /\ newAddr < 128 /\ epBufStatus = 0
      BY <2>2, <1>a, <1>b DEF ArmedInv, DoneInv, AddrInv, PartInv, Started, Done
    <2> QED
      BY <2>1, <2>2, <2>3, <1>a
      DEF HostSetup, Setup, TransferInv, Prompt, PhaseInv, FreshInv, FilledInv,
          ArmedInv, DoneInv, PartInv, AddrInv, Started, Fresh, Filled, Armed, Done,
          BootPCs, SetupPCs, ReplyPCs
  <1>h. Complete(EP0In) => /\ wired /\ Started /\ Armed /\ ~Armed' /\ ~Fresh /\ ~Filled
                           /\ pc # "ep0In" /\ bufCtrl'[EP0In].pid = bufCtrl[EP0In].pid
    BY <1>a, <1>b
    DEF Complete, BootInv, Started, BootPCs, FreshInv, FilledInv, ArmedInv, Armed,
        Done, BufferControl
  <1>30. CASE HostDropsIn
    BY <1>30, <1>a, <1>h DEF HostDropsIn, ArmedInv
  <1>31. CASE HostData
    <2>1. hPacket.dir = "In" /\ hStage = "data" /\ InPacket = Wanted /\ epBufStatus = PartDue
      BY <1>31, <1>a, <1>h DEF HostData, PhaseInv, ArmedInv
    <2>2. hReceived' # <<>> /\ Len(hReceived') = Len(hReceived) + 1 /\ Len(hReceived) \in Nat
      BY <1>31, <1>a DEF HostData, HostTypeOK
    <2>3. hStage' \in {"data", "status"}
      BY <1>31 DEF HostData
    <2>4. hStage' = "data" => InPacket.length = 64
      BY <1>31, <1>a, InPacketType, PacketSizeRange DEF HostData
    <2>5. hStage' = "data" =>
              /\ DescriptorTypeOf(hPacket) = DescriptorTypes.Config
              /\ 64 * Len(hReceived') <= Transfers!ReplyLength(hPacket)
              /\ epBufStatus = Len(hReceived')
      BY <2>1, <2>2, <2>4, <1>e, FullPacket DEF Wanted, PartDue
    <2>6. hStage' = "status" => epBufStatus = 0
      <3> SUFFICES ASSUME hStage' = "status", InPacket.length = 64 PROVE FALSE
        BY <2>1 DEF PartDue
      <3>1. 64 * (Len(hReceived) + 1) >= hPacket.length
        BY <1>31 DEF HostData
      <3>2. /\ DescriptorTypeOf(hPacket) = DescriptorTypes.Config
            /\ 64 * (Len(hReceived) + 1) <= Transfers!ReplyLength(hPacket)
        BY <2>1, <2>2, <1>e, FullPacket DEF Wanted
      <3> DEFINE n == Len(hReceived) + 1
      <3>3. n \in Nat /\ 64 * n <= Transfers!ReplyLength(hPacket) /\ hPacket.length <= 64 * n
        <4>1. hPacket.length \in Nat
          BY <1>e, PacketFields, WordRange
        <4> QED  BY <3>1, <3>2, <2>2, <4>1
      <3> HIDE DEF n
      <3> QED  BY <3>2, <3>3, <2>1, <1>e, NoSurplus
    <2>7. hPid' = 1 - hPid /\ bufCtrl'[EP0In].pid = 1 - hPid'
      BY <1>31, <1>b, <1>h DEF HostData
    <2> QED
      BY <1>31, <2>1, <2>2, <2>3, <2>5, <2>6, <2>7, <1>a, <1>b, <1>h
      DEF HostData, Complete, TransferInv, BootInv, Prompt, PhaseInv, FreshInv,
          FilledInv, ArmedInv, DoneInv, PartInv, AddrInv, Started, Fresh, Filled,
          Armed, Done, BootPCs, SetupPCs, ReplyPCs
  <1>32. CASE HostStatusIn
    <2>1. hPacket.value % 128 \in Nat /\ hPacket.value % 128 <= 127
      BY <1>e, PacketFields, AddressRange
    <2>2. PendingAddress(hPacket.value) % 128 = hPacket.value % 128
      <3> DEFINE a == hPacket.value % 128
      <3> HIDE DEF a
      <3>1. (a + 128) % 128 = a
        BY <2>1 DEF a
      <3> QED  BY <3>1 DEF a, PendingAddress
    <2>3. /\ hStage = "status" /\ hPacket.dir = "Out" /\ hStage' = "idle"
          /\ wired /\ ~busReset /\ pc # "clearAddr" /\ epBufStatus = 0 /\ addrEndp = hAddr
      BY <1>32, <1>a, <1>h DEF HostStatusIn, PhaseInv, ArmedInv, AddrInv
    <2>4. IF hPacket.request = Request.SetAddress
            THEN newAddr >= 128 /\ newAddr % 128 = hAddr' ELSE newAddr < 128 /\ hAddr' = hAddr
      BY <1>32, <2>2, <2>3, <1>a, <1>b, <1>h DEF HostStatusIn, AddrInv
    <2> QED
      BY <1>32, <2>3, <2>4, <1>a, <1>b, <1>h
      DEF HostStatusIn, Complete, TransferInv, BootInv, Prompt, PhaseInv, FreshInv,
          FilledInv, ArmedInv, DoneInv, PartInv, AddrInv, Started, Fresh, Filled,
          Armed, Done, BootPCs, SetupPCs, ReplyPCs
  <1>33. CASE HostOut
    <2>1. /\ bufCtrl'[EP0In] = bufCtrl[EP0In] /\ (EP0In \in bufStatus' <=> EP0In \in bufStatus)
          /\ bufStatus \subseteq bufStatus' /\ wired
          /\ UNCHANGED <<cpuVars, epBufStatus, setupPacket, ep0Buffer, setupRec, busReset, addrEndp, wired>>
      <3>1. CASE Complete(EP0Out)
        BY <1>33, <3>1, <1>b, <1>d DEF HostOut, Complete
      <3>2. CASE UNCHANGED vars
        BY <1>33, <3>2 DEF HostOut
      <3> QED  BY <1>33, <3>1, <3>2 DEF HostOut
    <2>2. hStage # "idle" /\ (hStage' = "idle" => hPacket.dir = "In" /\ hStage = "status")
      BY <1>33 DEF HostOut
    <2>3. hStage' \in {"idle", "status"} /\ UNCHANGED <<hAddr, hPacket, hPid, hReceived, hCodings>>
      BY <1>33 DEF HostOut
    <2>4. hStage # "data" /\ (hStage' # "idle" => hPacket.dir = "Out")
      BY <1>33, <1>a DEF HostOut, PhaseInv
    <2> QED
      BY <2>1, <2>2, <2>3, <2>4, <1>a, <1>b, <1>e, Frames
      DEF TransferInv, BootInv, Prompt, PhaseInv, FreshInv, FilledInv, ArmedInv,
          DoneInv, PartInv, AddrInv, Started, Fresh, Filled, Armed, Done, BootPCs,
          SetupPCs, ReplyPCs
  <1>34. CASE UNCHANGED evars
    BY <1>34, <1>a, <1>b, Frames
    DEF evars, TransferInv, BootInv, Prompt, PhaseInv, FreshInv, FilledInv, ArmedInv,
        DoneInv, PartInv, AddrInv, Started, Fresh, Filled, Armed, Done, BootPCs,
        SetupPCs, ReplyPCs
  <1> QED
    BY <1>1, <1>2, <1>3, <1>4, <1>5, <1>6, <1>7, <1>8, <1>9, <1>10, <1>11,
       <1>12, <1>13, <1>14, <1>15, <1>16, <1>17, <1>18, <1>19, <1>20, <1>21,
       <1>22, <1>23, <1>24, <1>25, <1>26, <1>27, <1>28, <1>29, <1>30, <1>31,
       <1>32, <1>33, <1>34
    DEF ENext, HostPolls, Boot, Handler, SetupStage, CompletionStage, ResetStage

LEMMA SettledInductive ==
    ASSUME Patient, ~MayAbort, OrderlyRequests
    PROVE  /\ EInit => SettledInv
           /\ SettledInv /\ [ENext]_evars => SettledInv'
  <1>1. EInit => SettledInv
    BY ETypeInductive, TransferInit DEF SettledInv
  <1>2. SettledInv /\ [ENext]_evars => SettledInv'
    BY ETypeInductive, TransferStep DEF SettledInv
  <1> QED  BY <1>1, <1>2

LEMMA Settled ==
    ASSUME Patient, ~MayAbort, OrderlyRequests
    PROVE  ESpec => []SettledInv
  BY SettledInductive, PTL DEF ESpec

----
(* What the invariant gives the host.                                      *)

(* Every reply the device arms has the data PID the host waits for.        *)
THEOREM PidsAlwaysAgree ==
    ASSUME Patient, ~MayAbort, OrderlyRequests
    PROVE  ESpec => []PidsAgree
  <1>1. SettledInv => PidsAgree
    BY DEF SettledInv, TransferInv, FlowInv, BootInv, BootPCs, PhaseInv, ArmedInv, PidsAgree,
           AsksIn, Started, Armed
  <1> QED  BY <1>1, Settled, PTL

(* With such a host the comment "set curr pid to 0 so next pid will be 1"  *)
(* at the start of the SETUP stage is true: the first packet of every      *)
(* reply has PID 1.                                                        *)
THEOREM PatientNextPid ==
    ASSUME Patient, ~MayAbort, OrderlyRequests
    PROVE  ESpec => []NextPidIsOne
  <1>1. SettledInv => NextPidIsOne
    BY DEF SettledInv, TransferInv, FlowInv, BootInv, BootPCs, PhaseInv, ArmedInv, NextPidIsOne,
           AsksIn, Started, Armed
  <1> QED  BY <1>1, Settled, PTL

(* The buffer of EP0 IN is not written while the controller may send it.   *)
THEOREM BufferStable ==
    ASSUME Patient, ~MayAbort, OrderlyRequests
    PROVE  ESpec => BufferStableWhileArmed
  <1>1. SettledInv /\ [ENext]_evars => (bufCtrl[EP0In].available => ep0Buffer' = ep0Buffer)
    <2> SUFFICES ASSUME SettledInv, [ENext]_evars, Armed PROVE ep0Buffer' = ep0Buffer
      BY DEF Armed
    <2>1. ~Fresh /\ pc # "ep0In" /\ (~Started => ep0Buffer = NoContent)
      BY DEF SettledInv, TransferInv, FreshInv, ArmedInv, DoneInv, PhaseInv, Done, Started, Fresh,
             SetupPCs
    <2>2. pc # "request"
      BY <2>1 DEF Fresh, SetupPCs
    <2>3. CASE ClearDpram
      BY <2>1, <2>3 DEF ClearDpram, Started
    <2>4. CASE UNCHANGED vars
      BY <2>4 DEF vars, dpramVars
    <2> QED
      BY <2>1, <2>2, <2>3, <2>4
      DEF ENext, Boot, Handler, SetupStage, CompletionStage, ResetStage, HostPolls,
          evars, ResetUsb, ConfigureEndpoints, Connect, Trap, ClearSetupRec,
          ReadInCtrl, ClearPid, ReadSetup, HandleSetAddress, HandleSetConfiguration,
          HandleSetLineCoding, HandleOtherOut, RejectRequest, FillDeviceDescriptor,
          FillConfigDescriptor, FillStringDescriptor, SendDeviceQualifier,
          DescriptorRequested, Requested, ArmDevice, ArmReply, ReadBufStatus,
          TakeCompletion, ApplyAddress, ContinueConfig, ArmStatusOut, ClearBusReset,
          ClearAddress, HostReset, BusReset, HostSetup, Setup, HostDropsIn, HostData,
          HostStatusIn, HostOut, Complete, dpramVars
  <1> QED  BY <1>1, Settled, PTL DEF ESpec, BufferStableWhileArmed

----
(* The refinement.                                                         *)

(* Every step of device and host is a step of the promised transfer, or    *)
(* one that does not show in it.                                           *)
LEMMA TransferRefines ==
    ASSUME Patient, ~MayAbort, OrderlyRequests
    PROVE  SettledInv /\ [ENext]_evars => [Transfers!Next]_(Transfers!vars)
  <1> SUFFICES ASSUME SettledInv, [ENext]_evars PROVE [Transfers!Next]_(Transfers!vars)
    OBVIOUS
  <1> USE DEF Transfers!vars
  <1>1. CASE UNCHANGED hostVars
    BY <1>1 DEF hostVars
  <1>2. CASE HostReset
    BY <1>2 DEF HostReset, Transfers!Next, Transfers!Reset, Transfers!NoPacket, NoPacket
  <1>3. CASE \E p \in Packets : HostSetup(p)
    BY <1>3 DEF HostSetup, Transfers!Next, Transfers!Start, Transfers!FirstPhase
  <1>4. CASE HostData
    <2>1. InPacket = Transfers!ReplyPacket(hPacket, Len(hReceived) + 1)
      BY <1>4 DEF SettledInv, FlowInv, BootInv, BootPCs, TransferInv, HostData, Complete,
                  PhaseInv, ArmedInv, Armed, Started, Wanted
    <2> QED
      BY <1>4, <2>1
      DEF HostData, Transfers!Next, Transfers!Progress, Transfers!Deliver,
          Transfers!LastPacket
  <1>5. CASE HostStatusIn
    BY <1>5 DEF HostStatusIn, Transfers!Next, Transfers!Progress, Transfers!Finish
  <1>6. CASE HostOut
    BY <1>6 DEF HostOut, Transfers!Next, Transfers!Progress, Transfers!Accept, Transfers!Finish
  <1> QED
    BY <1>1, <1>2, <1>3, <1>4, <1>5, <1>6 DEF ENext, HostPolls, HostDropsIn, evars

(* The device implements the safety part of ControlTransfer: what the host *)
(* accepts is the descriptor it asked for, from the start and in order.    *)
THEOREM TransfersAreSafe ==
    ASSUME Patient, ~MayAbort, OrderlyRequests
    PROVE  ESpec => TransferSafety
  <1>1. EInit => Transfers!Init
    BY DEF EInit, Transfers!Init, Transfers!NoPacket, NoPacket
  <1>2. SettledInv /\ [ENext]_evars => [Transfers!Next]_(Transfers!vars)
    BY TransferRefines
  <1> QED  BY <1>1, <1>2, Settled, PTL DEF ESpec, TransferSafety

----
(* No transfer gets stuck.                                                 *)

(* The host sends no data but in SETUP packets: endpoint 0 OUT is armed    *)
(* for status stages only, so a data stage would find it armed or not as   *)
(* the transfer before left it.                                            *)
NoOutData == \A p \in Packets : p.dir = "Out" => p.length = 0

(* As long as the device has not panicked, a host that waits for an IN     *)
(* packet is waiting for one the device has armed or will arm, and one     *)
(* that has its reply can tell the device so, or will be able to.          *)
WaitInv ==
    /\ hStage # "dataOut"
    /\ AsksIn /\ pc # "panic" => Fresh \/ Filled \/ Armed \/ (Done /\ epBufStatus # 0)
    /\ hStage = "status" /\ hPacket.dir = "In" /\ pc # "panic"
           => Done \/ bufCtrl[EP0Out].available

(* The step the host waits for is there for it to take when the device has *)
(* nothing left to do: one of the two can always go on.                    *)
NeverStuck ==
    Quiet /\ hStage # "idle" =>
        /\ wired /\ hAddr = addrEndp
        /\ \/ AsksIn /\ Armed /\ bufCtrl[EP0In].pid = hPid
           \/ hStage = "status" /\ hPacket.dir = "In" /\ bufCtrl[EP0Out].available

LEMMA WaitInit == EInit => WaitInv
  BY DEF EInit, WaitInv, AsksIn

(* What a step of the device has to do for the host that waits.            *)
LEMMA WaitKept ==
    ASSUME WaitInv, UNCHANGED hostVars, pc = "panic" => pc' = "panic",
           hStage # "idle" /\ (Fresh \/ Filled \/ Armed)
               => Fresh' \/ Filled' \/ Armed' \/ pc' = "panic",
           AsksIn /\ Done /\ epBufStatus # 0
               => Filled' \/ (Done' /\ epBufStatus' # 0) \/ pc' = "panic",
           hStage = "status" /\ hPacket.dir = "In" /\ Done
               => Done' \/ bufCtrl'[EP0Out].available \/ pc' = "panic",
           hStage # "idle" /\ bufCtrl[EP0Out].available
               => bufCtrl'[EP0Out].available \/ pc' = "panic"
    PROVE  WaitInv'
  BY DEF WaitInv, AsksIn, hostVars

LEMMA WaitStep ==
    ASSUME Patient, ~MayAbort, OrderlyRequests, NoOutData
    PROVE  SettledInv /\ WaitInv /\ [ENext]_evars => WaitInv'
  <1> SUFFICES ASSUME SettledInv, WaitInv, [ENext]_evars PROVE WaitInv'
    OBVIOUS
  <1>a. /\ TypeOK /\ HostTypeOK /\ BootInv /\ StageInv
        /\ Prompt /\ PhaseInv /\ FreshInv /\ FilledInv
        /\ ArmedInv /\ DoneInv /\ PartInv /\ AddrInv
    BY DEF SettledInv, TransferInv, FlowInv
  <1>b. /\ bufCtrl \in [Buffers -> BufferControl]
        /\ EP0In \in Buffers /\ EP0Out \in Buffers /\ EP1Out \in Buffers
        /\ EP0In = 0 /\ EP0Out = 1 /\ EP1Out = 3
    BY <1>a, BufferNames, BufferNumbers DEF TypeOK
  <1>c. pc \in BootPCs => hStage = "idle"
    BY <1>a DEF BootInv, PhaseInv
  <1>d. Done /\ Started => ~Armed /\ ~Fresh /\ ~Filled
    BY <1>a DEF ArmedInv, FreshInv, FilledInv
  <1>e. hStage # "idle" => wired /\ ~busReset /\ Started
    BY <1>c, <1>a DEF PhaseInv, Started, BootPCs
  <1>f. Done /\ hStage # "idle" => hPacket.dir = "In" /\ newAddr < 128
    BY <1>a, <1>e, InControlType DEF DoneInv, AddrInv
  <1>g. /\ hStage # "idle" /\ (Fresh \/ Filled \/ Armed) => ~Done
        /\ AsksIn /\ Done => hStage = "data" /\ epBufStatus # 0
        /\ hStage # "data" /\ Started => epBufStatus = 0
    BY <1>a, <1>d, <1>e, <1>f DEF AsksIn, DoneInv, PartInv
  <1>h. Acknowledged[EP0In].available /\ Acknowledged[EP0Out] = bufCtrl[EP0Out]
        /\ Acknowledged \in [Buffers -> BufferControl]
    <2>1. ArmedIn(0) \in BufferControl /\ ArmedIn(0).available
      <3>1. ArmedIn(0) \in BufferControl
        BY <1>b, ArmedInType, SmallValues
      <3>2. ArmedIn(0).available
        BY DEF ArmedIn
      <3> QED  BY <3>1, <3>2
    <2> QED  BY <2>1, <1>b DEF Acknowledged
  <1> USE DEF cpuVars, dpramVars, sieVars, wireVars
  <1>1. CASE Boot /\ UNCHANGED hostVars
    <2>1. pc # "panic" /\ hStage = "idle"
      BY <1>1, <1>c DEF Boot, ResetUsb, ClearDpram, ConfigureEndpoints, Connect, BootPCs
    <2> QED  BY <1>1, <2>1, WaitKept DEF AsksIn
  <1>2. CASE Trap /\ UNCHANGED hostVars
    BY <1>2, WaitKept DEF Trap, Fresh, Filled, Armed, Done, SetupPCs, ReplyPCs
  <1>3. CASE (ClearSetupRec \/ ReadInCtrl \/ ReadSetup) /\ UNCHANGED hostVars
    <2>1. Fresh' /\ UNCHANGED <<bufCtrl, bufStatus, epBufStatus>> /\ pc # "panic" /\ pc # "ep0In"
      BY <1>3 DEF ClearSetupRec, ReadInCtrl, ReadSetup, Fresh, SetupPCs
    <2> QED  BY <1>3, <2>1, WaitKept DEF Done
  <1>4. CASE ClearPid /\ UNCHANGED hostVars
    <2>1. /\ Fresh' /\ UNCHANGED <<bufStatus, epBufStatus>> /\ pc = "clearPid"
          /\ bufCtrl'[EP0Out] = bufCtrl[EP0Out]
      BY <1>4, <1>b DEF ClearPid, Fresh, SetupPCs
    <2> QED  BY <1>4, <2>1, WaitKept DEF Done
  <1>5. CASE (\/ HandleSetAddress \/ HandleSetConfiguration \/ HandleSetLineCoding
              \/ HandleOtherOut \/ SendDeviceQualifier) /\ UNCHANGED hostVars
    <2>1. pc = "request" /\ UNCHANGED <<bufStatus, epBufStatus>>
      BY <1>5
      DEF HandleSetAddress, HandleSetConfiguration, HandleSetLineCoding, HandleOtherOut,
          SendDeviceQualifier, DescriptorRequested, Requested
    <2>2. bufCtrl'[EP0In].available /\ bufCtrl'[EP0Out] = bufCtrl[EP0Out]
      BY <1>5, <1>b, <1>h
      DEF HandleSetAddress, HandleSetConfiguration, HandleSetLineCoding, HandleOtherOut,
          SendDeviceQualifier
    <2> QED  BY <1>5, <2>1, <2>2, WaitKept DEF Done, Armed
  <1>6. CASE RejectRequest /\ UNCHANGED hostVars
    BY <1>6, WaitKept DEF RejectRequest
  <1>7. CASE (FillDeviceDescriptor \/ FillConfigDescriptor \/ FillStringDescriptor)
                /\ UNCHANGED hostVars
    <2>1. /\ pc = "request" /\ pc' \in ReplyPCs
          /\ UNCHANGED <<bufCtrl, bufStatus>>
      BY <1>7
      DEF FillDeviceDescriptor, FillConfigDescriptor, FillConfigPart, FillStringDescriptor,
          DescriptorRequested, Requested, ReplyPCs
    <2> QED  BY <1>7, <2>1, WaitKept DEF Done, Filled
  <1>8. CASE (ArmDevice \/ ArmReply) /\ UNCHANGED hostVars
    <2>1. /\ pc \in ReplyPCs /\ bufCtrl'[EP0In].available /\ bufCtrl'[EP0Out] = bufCtrl[EP0Out]
          /\ UNCHANGED <<bufStatus, epBufStatus>>
      BY <1>8, <1>b DEF ArmDevice, ArmReply, ArmedIn, ReplyPCs
    <2> QED  BY <1>8, <2>1, WaitKept DEF Done, Armed, ReplyPCs
  <1>9. CASE ReadBufStatus /\ UNCHANGED hostVars
    <2>1. pc = "completions" /\ UNCHANGED <<bufCtrl, bufStatus, epBufStatus, setupRec>>
      BY <1>9 DEF ReadBufStatus
    <2> QED  BY <1>9, <2>1, WaitKept DEF Fresh, Filled, Armed, Done, SetupPCs, ReplyPCs
  <1>10. CASE TakeCompletion /\ UNCHANGED hostVars
    <2>1. PICK bit \in remaining :
              /\ bufStatus' = bufStatus \ {bit}
              /\ pc' = CASE bit = EP0In -> "ep0In"
                         [] bit = EP0Out -> Resume(remaining \ {bit})
                         [] OTHER -> "panic"
      BY <1>10 DEF TakeCompletion
    <2>2. pc = "take" /\ UNCHANGED <<bufCtrl, epBufStatus, setupRec>>
      BY <1>10 DEF TakeCompletion
    <2>3. Done => Done'
      BY <2>1, <2>2, <1>b DEF Done
    <2> QED
      BY <1>10, <2>2, <2>3, WaitKept DEF Fresh, Filled, Armed, SetupPCs, ReplyPCs
  <1>11. CASE ApplyAddress /\ UNCHANGED hostVars
    <2>1. pc = "ep0In" /\ newAddr >= 128
      BY <1>11 DEF ApplyAddress
    <2>2. hStage = "idle"
      BY <2>1, <1>a, <1>f, InControlType DEF Done
    <2> QED  BY <1>11, <2>1, <2>2, WaitKept DEF AsksIn
  <1>12. CASE ContinueConfig /\ UNCHANGED hostVars
    <2>1. /\ pc = "ep0In" /\ pc' = "armReply" /\ epBufStatus # 0
          /\ UNCHANGED <<bufCtrl, bufStatus>>
      BY <1>12 DEF ContinueConfig, FillConfigPart
    <2>2. hStage = "data" /\ Filled'
      BY <2>1, <1>a DEF PartInv, Started, Filled, ReplyPCs
    <2> QED  BY <1>12, <2>1, <2>2, WaitKept
  <1>13. CASE ArmStatusOut /\ UNCHANGED hostVars
    <2>1. /\ pc = "ep0In" /\ epBufStatus = 0 /\ bufCtrl'[EP0Out].available
          /\ UNCHANGED <<bufStatus, epBufStatus>>
      BY <1>13, <1>b DEF ArmStatusOut
    <2>2. ~AsksIn
      BY <2>1, <1>g DEF Done
    <2>3. hStage # "idle" => ~Fresh /\ ~Filled /\ ~Armed
      BY <2>1, <1>g DEF Done
    <2> QED  BY <1>13, <2>1, <2>2, <2>3, WaitKept
  <1>14. CASE (ClearBusReset \/ ClearAddress) /\ UNCHANGED hostVars
    <2>1. pc \in {"reset", "clearAddr"} /\ UNCHANGED <<bufCtrl, bufStatus, epBufStatus, setupRec>>
      BY <1>14 DEF ClearBusReset, ClearAddress
    <2> QED  BY <1>14, <2>1, WaitKept DEF Fresh, Filled, Armed, Done, SetupPCs, ReplyPCs
  <1>15. CASE HostReset
    BY <1>15 DEF HostReset, WaitInv, AsksIn
  <1>16. CASE \E p \in Packets : HostSetup(p)
    <2>1. PICK p \in Packets : HostSetup(p)
      BY <1>16
    <2>2. p.dir = "Out" => p.length = 0
      BY DEF NoOutData
    <2>3. hStage' \in {"data", "status"} /\ (hStage' = "status" => hPacket'.dir # "In")
      BY <2>1, <2>2, PacketDirection DEF HostSetup
    <2>4. Fresh'
      BY <2>1 DEF HostSetup, Setup, Fresh
    <2> QED  BY <2>3, <2>4 DEF WaitInv
  <1>i. Complete(EP0In) => /\ EP0In \in bufStatus' /\ pc # "ep0In" /\ Armed /\ Started
                           /\ UNCHANGED <<pc, epBufStatus>>
    BY <1>a, <1>b
    DEF Complete, BootInv, Started, BootPCs, ArmedInv, Armed, Done
  <1>17. CASE HostDropsIn
    BY <1>17, <1>a, <1>i DEF HostDropsIn, ArmedInv
  <1>18. CASE HostData
    <2>1. hPacket.dir = "In" /\ InPacket = Wanted /\ epBufStatus = PartDue
      BY <1>18, <1>a, <1>i DEF HostData, PhaseInv, ArmedInv
    <2>2. hPacket' = hPacket /\ hStage' \in {"data", "status"} /\ Done'
      BY <1>18, <1>i DEF HostData, Done
    <2>3. hStage' = "data" => epBufStatus' # 0
      <3>1. hStage' = "data" => InPacket.length = 64
        BY <1>18, <1>a, InPacketType, PacketSizeRange DEF HostData
      <3>2. Len(hReceived) \in Nat
        BY <1>a DEF HostTypeOK
      <3> QED  BY <1>18, <2>1, <3>1, <3>2, <1>i DEF HostData, PartDue
    <2> QED  BY <2>1, <2>2, <2>3 DEF WaitInv, AsksIn
  <1>19. CASE HostStatusIn
    BY <1>19 DEF HostStatusIn, WaitInv, AsksIn
  <1>20. CASE HostOut
    <2>1. hStage' = "idle"
      BY <1>20 DEF HostOut, WaitInv
    <2> QED  BY <2>1 DEF WaitInv, AsksIn
  <1>21. CASE UNCHANGED evars
    <2>1. UNCHANGED hostVars /\ UNCHANGED <<pc, bufCtrl, bufStatus, epBufStatus, setupRec>>
      BY <1>21 DEF evars, vars
    <2> QED  BY <2>1 DEF WaitInv, AsksIn, hostVars, Fresh, Filled, Armed, Done
  <1> QED
    BY <1>1, <1>2, <1>3, <1>4, <1>5, <1>6, <1>7, <1>8, <1>9, <1>10, <1>11,
       <1>12, <1>13, <1>14, <1>15, <1>16, <1>17, <1>18, <1>19, <1>20, <1>21
    DEF ENext, HostPolls, Handler, SetupStage, CompletionStage, ResetStage

(* Device and host never wait for each other: when the handler has nothing *)
(* left to do, the packet that goes on with the host's transfer goes, and  *)
(* with the PID the host accepts.  With PassesEnd and SupportedNeverPanics *)
(* it is the safety half of the promise that transfers end.                *)
THEOREM TransfersNeverStuck ==
    ASSUME Patient, ~MayAbort, OrderlyRequests, NoOutData
    PROVE  ESpec => []NeverStuck
  <1>1. SettledInv /\ WaitInv => NeverStuck
    <2> SUFFICES ASSUME SettledInv, WaitInv, Quiet, hStage # "idle"
                 PROVE  /\ wired /\ hAddr = addrEndp
                        /\ \/ AsksIn /\ Armed /\ bufCtrl[EP0In].pid = hPid
                           \/ hStage = "status" /\ hPacket.dir = "In" /\ bufCtrl[EP0Out].available
      BY DEF NeverStuck
    <2>1. /\ TypeOK /\ HostTypeOK /\ PhaseInv /\ ArmedInv /\ AddrInv
          /\ pc = "main" /\ ~setupRec /\ bufStatus = {}
      BY DEF SettledInv, TransferInv, Quiet, Ints, InterruptsEnabled
    <2>2. ~Fresh /\ ~Filled /\ ~Done /\ Started
      BY <2>1 DEF Fresh, Filled, Done, Started, SetupPCs, ReplyPCs
    <2>3. hPacket.dir \in {"In", "Out"}
      BY <2>1, PacketDirection DEF HostTypeOK, NoPacket
    <2>4. AsksIn \/ (hStage = "status" /\ hPacket.dir = "In")
      BY <2>1, <2>3 DEF HostTypeOK, WaitInv, AsksIn
    <2> QED  BY <2>1, <2>2, <2>4 DEF WaitInv, PhaseInv, AddrInv, ArmedInv
  <1> QED
    BY <1>1, WaitInit, WaitStep, SettledInductive, PTL DEF ESpec

----
(* Replies are whole.                                                      *)

(* The packets of a data stage that is over are the descriptor the host    *)
(* asked for, all of it up to the length it has or was asked for: all but  *)
(* the last are full, and the last one ends it.                            *)
RepliesWhole ==
    hPacket.dir = "In" /\ hStage # "data" =>
        LET n == Len(hReceived)
        IN  /\ n > 0
            /\ \A i \in 1..n : hReceived[i] = Transfers!ReplyPacket(hPacket, i)
            /\ \A i \in 1..(n - 1) : hReceived[i].length = 64
            /\ 64 * (n - 1) + hReceived[n].length = Transfers!ReplyLength(hPacket)

(* The same while packets are still due.                                   *)
RepliesInv ==
    LET n == Len(hReceived)
    IN  /\ \A i \in 1..n : hReceived[i] = Transfers!ReplyPacket(hPacket, i)
        /\ \A i \in 1..n : hReceived[i].length = 64 \/ (i = n /\ hStage # "data")
        /\ hPacket.dir = "In" /\ hStage # "data" => n > 0 /\ Transfers!LastPacket(hPacket, n)

LEMMA RepliesInit == EInit => RepliesInv
  BY DEF EInit, RepliesInv, NoPacket

(* The promise of ControlTransfer preserves it, whoever keeps that.        *)
LEMMA RepliesStep ==
    ASSUME HostTypeOK, HostTypeOK', RepliesInv, [Transfers!Next]_(Transfers!vars)
    PROVE  RepliesInv'
  <1>1. CASE UNCHANGED Transfers!vars
    BY <1>1 DEF Transfers!vars, RepliesInv
  <1>2. CASE Transfers!Reset
    BY <1>2 DEF Transfers!Reset, Transfers!NoPacket, RepliesInv
  <1>3. CASE \E p \in Packets : Transfers!Start(p)
    BY <1>3 DEF Transfers!Start, Transfers!FirstPhase, RepliesInv
  <1>4. CASE Transfers!Accept \/ Transfers!Finish
    BY <1>4 DEF Transfers!Accept, Transfers!Finish, RepliesInv
  <1>5. CASE Transfers!Deliver
    <2> DEFINE n == Len(hReceived)
               next == Transfers!ReplyPacket(hPacket, n + 1)
    <2>1. /\ hStage = "data" /\ hPacket' = hPacket
          /\ hReceived' = Append(hReceived, next)
          /\ hStage' = IF Transfers!LastPacket(hPacket, n + 1) THEN "status" ELSE "data"
      BY <1>5 DEF Transfers!Deliver
    <2>2. n \in Nat /\ \A i \in 1..n : hReceived[i].length = 64
      BY <2>1 DEF HostTypeOK, RepliesInv
    <2> DEFINE R == [ type : Byte, index : Byte, at : Nat, length : PacketSize ]
    <2>3. hReceived \in Seq(R) /\ hReceived' \in Seq(R)
      BY DEF HostTypeOK
    <2> HIDE DEF next, R
    <2>4. /\ Len(hReceived') = n + 1 /\ hReceived'[n + 1] = next
          /\ \A i \in 1..n : hReceived'[i] = hReceived[i]
      BY <2>1, <2>3
    <2>5. next \in R
      BY <2>2, <2>3, <2>4
    <2>6. next.length \in Nat /\ next.length <= 64
      BY <2>5, PacketSizeRange DEF R
    <2> HIDE DEF n
    <2>7. hStage' = "data" => next.length = 64
      BY <2>1, <2>6 DEF Transfers!LastPacket, next
    <2>8. ASSUME NEW i \in 1..(n + 1)
          PROVE  /\ hReceived'[i] = Transfers!ReplyPacket(hPacket, i)
                 /\ hReceived'[i].length = 64 \/ (i = n + 1 /\ hStage' # "data")
      <3>1. CASE i = n + 1
        BY <2>4, <2>7, <3>1 DEF next
      <3>2. CASE i # n + 1
        <4>1. i \in 1..n
          BY <2>2, <3>2
        <4> QED  BY <2>2, <2>4, <4>1 DEF RepliesInv, n
      <3> QED  BY <3>1, <3>2
    <2>9. hStage' # "data" => n + 1 > 0 /\ Transfers!LastPacket(hPacket, n + 1)
      BY <2>1, <2>2
    <2> QED  BY <2>1, <2>4, <2>8, <2>9 DEF RepliesInv
  <1> QED
    BY <1>1, <1>2, <1>3, <1>4, <1>5 DEF Transfers!Next, Transfers!Progress

LEMMA ReplyRange ==
    ASSUME NEW p \in Packets \cup {NoPacket}
    PROVE  /\ Transfers!ReplyLength(p) \in Nat /\ p.length \in Nat
           /\ Transfers!ReplyLength(p) < 64 \/ Transfers!ReplyLength(p) <= p.length
  <1>1. p.length \in Nat
    BY PacketFields, WordRange
  <1>2. CASE DescriptorTypeOf(p) # DescriptorTypes.Config
    BY <1>1, <1>2, OnlyPacket
  <1>3. CASE DescriptorTypeOf(p) = DescriptorTypes.Config
    BY <1>1, <1>3, SizeAssumption, SameRequests DEF DescriptorTypes, LesserOf
  <1> QED  BY <1>2, <1>3

LEMMA RepliesAddUp ==
    ASSUME HostTypeOK, RepliesInv
    PROVE  RepliesWhole
  <1> SUFFICES ASSUME hPacket.dir = "In", hStage # "data", NEW n \in Nat, n = Len(hReceived)
               PROVE  /\ n > 0
                      /\ \A i \in 1..n : hReceived[i] = Transfers!ReplyPacket(hPacket, i)
                      /\ \A i \in 1..(n - 1) : hReceived[i].length = 64
                      /\ 64 * (n - 1) + hReceived[n].length = Transfers!ReplyLength(hPacket)
    BY DEF HostTypeOK, RepliesWhole
  <1>1. /\ n > 0 /\ Transfers!LastPacket(hPacket, n)
        /\ \A i \in 1..n : hReceived[i] = Transfers!ReplyPacket(hPacket, i)
        /\ \A i \in 1..(n - 1) : hReceived[i].length = 64
    BY DEF RepliesInv
  <1>2. PICK p \in Packets \cup {NoPacket} : p = hPacket
    BY DEF HostTypeOK
  <1>3. PICK k \in Nat : k = n - 1
    <2>1. n - 1 \in Nat
      BY <1>1
    <2> QED  BY <2>1
  <1>4. PICK total \in Nat : total = Transfers!ReplyLength(p)
    BY ReplyRange
  <1>5. 64 * k <= total
    <2>1. CASE k = 0
      BY <1>4, <2>1
    <2>2. CASE k # 0
      <3>1. PICK j \in Nat : k = j + 1
        BY <1>3, <2>2
      <3>2. k \in 1..(n - 1) /\ k \in 1..n
        BY <1>1, <1>3, <2>2
      <3>3. Transfers!ReplyPacket(p, j + 1).length = 64
        BY <1>1, <1>2, <3>1, <3>2
      <3>4. 64 * (j + 1) <= Transfers!ReplyLength(p)
        BY <3>3, FullPacket
      <3> QED  BY <1>4, <3>1, <3>4
    <2> QED  BY <2>1, <2>2
  <1> DEFINE length == Transfers!ReplyPacket(p, n).length
  <1>6. length = LesserOf(64, total - 64 * k)
    <2>1. 64 * (n - 1) = 64 * k
      BY <1>3
    <2> QED  BY <1>4, <2>1, SameRequests DEF EmptyPacket
  <1>7. hReceived[n].length = length
    BY <1>1, <1>2
  <1>8. length < 64 \/ 64 * n >= p.length
    BY <1>1, <1>2 DEF Transfers!LastPacket
  <1>9. p.length \in Nat /\ (total < 64 \/ total <= p.length)
    BY <1>4, ReplyRange
  <1> HIDE DEF length
  <1>10. 64 * k + length = total
    <2>1. 64 * n = 64 * k + 64
      BY <1>3
    <2>2. length = IF 64 <= total - 64 * k THEN 64 ELSE total - 64 * k
      BY <1>6 DEF LesserOf
    <2> QED  BY <1>5, <1>8, <1>9, <2>1, <2>2
  <1> QED  BY <1>1, <1>2, <1>3, <1>4, <1>7, <1>10

(* A transfer that comes to its status stage has given the host the whole  *)
(* of the descriptor it asked for, no packet missing, doubled or out of    *)
(* place, for a descriptor of any size.                                    *)
THEOREM RepliesAreWhole ==
    ASSUME Patient, ~MayAbort, OrderlyRequests
    PROVE  ESpec => []RepliesWhole
  <1>1. SettledInv /\ SettledInv' /\ RepliesInv /\ [ENext]_evars => RepliesInv'
    BY TransferRefines, RepliesStep DEF SettledInv
  <1>2. SettledInv /\ RepliesInv => RepliesWhole
    BY RepliesAddUp DEF SettledInv
  <1> QED
    BY <1>1, <1>2, RepliesInit, Settled, PTL DEF ESpec

================================================================================
