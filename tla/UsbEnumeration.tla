---------------------------- MODULE UsbEnumeration ----------------------------
(***************************************************************************)
(* UsbControl with a host that runs control transfers on endpoint 0, as a  *)
(* host does that enumerates the device and opens its serial port: SETUP   *)
(* packet, data stage and status stage, polling while the device is not    *)
(* ready, checking the data PIDs, and using the address it has set.  The   *)
(* host takes the steps of UsbControl's host, and no others.               *)
(***************************************************************************)
EXTENDS UsbControl, Sequences

CONSTANTS
    Patient,   \* the host leaves the device time to finish before a SETUP
    MayAbort   \* the host may give up a transfer, or reset the bus within it

ASSUME HostAssumption ==
    /\ Patient \in BOOLEAN /\ MayAbort \in BOOLEAN
    /\ \A p \in Packets : p.dir = "In" => p.length > 0

(* The requests that leave no surplus: a host that stops at a full packet  *)
(* of the configuration descriptor has asked for more than there is of it, *)
(* and the number of every part fits in the byte EP0_BUF_STATUS.           *)
OrderlyRequests ==
    /\ ConfigDescSize < 64 * 256
    /\ \A p \in Packets :
          p.dir = "In" /\ DescriptorTypeOf(p) = DescriptorTypes.Config /\ p.length % 64 = 0
              => ConfigDescSize < p.length

VARIABLES
    hAddr,      \* the address the host uses
    hStage,     \* where its transfer is
    hPacket,    \* its SETUP packet
    hPid,       \* the PID its next data packet has to have
    hReceived,  \* the packets of the data stage it has accepted
    hCodings    \* how many line codings it has set, modulo FlagValues

hostVars == <<hAddr, hStage, hPacket, hPid, hReceived, hCodings>>
evars == <<vars, hostVars>>

EInit ==
    /\ Init
    /\ hAddr = 0 /\ hStage = "idle" /\ hPacket = NoPacket
    /\ hPid = 0 /\ hReceived = <<>> /\ hCodings = 0

(* The handler is not running, and has nothing to serve.                   *)
Quiet == pc = "main" /\ Ints = {}

HostReset ==
    /\ MayAbort \/ hStage = "idle"
    /\ BusReset
    /\ hAddr' = 0 /\ hStage' = "idle" /\ hPacket' = NoPacket
    /\ hReceived' = <<>>
    /\ UNCHANGED <<hPid, hCodings>>

(* Only the device at the address the host uses listens to it.             *)
HostSetup(p) ==
    /\ MayAbort \/ hStage = "idle"
    /\ Patient => Quiet
    /\ hAddr = addrEndp
    /\ Setup(p)
    /\ hPacket' = p
    /\ hStage' = IF p.dir = "In" THEN "data" ELSE IF p.length > 0 THEN "dataOut" ELSE "status"
    /\ hPid' = 1
    /\ hReceived' = <<>>
    /\ hCodings' = IF p.dir = "Out" /\ p.request = Request.SetLineCoding
                     THEN (hCodings + 1) % FlagValues ELSE hCodings
    /\ UNCHANGED hAddr

(* The host asks for an IN packet: in the data stage of an IN transfer,    *)
(* and in the status stage of an OUT one.                                  *)
AsksIn == hStage = "data" \/ (hStage = "status" /\ hPacket.dir = "Out")

(* A packet with the wrong PID is one it has seen: the host drops it.      *)
HostDropsIn ==
    /\ AsksIn
    /\ bufCtrl[EP0In].pid # hPid
    /\ Complete(EP0In)
    /\ UNCHANGED hostVars

InPacket ==
    IF bufCtrl[EP0In].length = 0 THEN EmptyPacket
    ELSE [ type |-> ep0Buffer.type, index |-> ep0Buffer.index,
           at |-> ep0Buffer.at, length |-> bufCtrl[EP0In].length ]

(* The data stage ends with a packet that is short, or that makes up the   *)
(* length asked for.                                                       *)
HostData ==
    /\ hStage = "data"
    /\ bufCtrl[EP0In].pid = hPid
    /\ Complete(EP0In)
    /\ hReceived' = Append(hReceived, InPacket)
    /\ hPid' = 1 - hPid
    /\ hStage' = IF InPacket.length < 64 \/ 64 * (Len(hReceived) + 1) >= hPacket.length
                   THEN "status" ELSE "data"
    /\ UNCHANGED <<hAddr, hPacket, hCodings>>

HostStatusIn ==
    /\ hStage = "status" /\ hPacket.dir = "Out"
    /\ bufCtrl[EP0In].pid = hPid
    /\ Complete(EP0In)
    /\ hStage' = "idle"
    /\ hAddr' = IF hPacket.request = Request.SetAddress THEN hPacket.value % 128 ELSE hAddr
    /\ UNCHANGED <<hPacket, hPid, hReceived, hCodings>>

(* The data stage of an OUT transfer, and the status stage of an IN one:   *)
(* an OUT packet with PID 1.  The controller acknowledges it whenever the  *)
(* buffer is armed, but takes it for a repetition, and leaves the buffer   *)
(* armed, when the buffer has the other PID.                               *)
HostOut ==
    /\ hStage = "dataOut" \/ (hStage = "status" /\ hPacket.dir = "In")
    /\ wired
    /\ bufCtrl[EP0Out].available
    /\ IF bufCtrl[EP0Out].pid = 1 THEN Complete(EP0Out) ELSE UNCHANGED vars
    /\ hStage' = IF hStage = "dataOut" THEN "status" ELSE "idle"
    /\ UNCHANGED <<hAddr, hPacket, hPid, hReceived, hCodings>>

(* Only the device at the address the host uses answers.                   *)
HostPolls ==
    /\ hAddr = addrEndp
    /\ HostDropsIn \/ HostData \/ HostStatusIn \/ HostOut

ENext ==
    \/ (Boot \/ Handler) /\ UNCHANGED hostVars
    \/ HostReset
    \/ \E p \in Packets : HostSetup(p)
    \/ HostPolls

(* The CPU runs, and the host polls until its transfer is over.            *)
EFairness ==
    /\ WF_evars((Boot \/ Handler) /\ UNCHANGED hostVars)
    /\ WF_evars(HostPolls)

ESpec == EInit /\ [][ENext]_evars /\ EFairness

----
(* Properties.                                                             *)

(* Type correctness of what the host keeps.                                *)
HostTypeOK ==
    /\ hAddr \in Address
    /\ hStage \in {"idle", "dataOut", "data", "status"}
    /\ hPacket \in Packets \cup {NoPacket}
    /\ hPid \in {0, 1}
    /\ hReceived \in Seq([ type : Byte, index : Byte, at : Nat, length : PacketSize ])
    /\ hCodings \in 0..(FlagValues - 1)

(* The PID of an armed reply is the one the host waits for, once the       *)
(* handler has read the SETUP packet.                                      *)
PidsAgree ==
    AsksIn /\ ~setupRec /\ pc \notin SetupPCs /\ bufCtrl[EP0In].available
        => bufCtrl[EP0In].pid = hPid

(* The comment at the start of the SETUP stage, "set curr pid to 0 so next *)
(* pid will be 1": as long as the host has accepted no packet since its    *)
(* SETUP packet, a reply the device has armed carries PID 1.               *)
NextPidIsOne ==
    AsksIn /\ ~setupRec /\ pc \notin SetupPCs /\ hReceived = <<>> /\ bufCtrl[EP0In].available
        => bufCtrl[EP0In].pid = 1

(* The buffer a reply is in is not written while the controller may send   *)
(* it: no packet mixes two replies.                                        *)
BufferStableWhileArmed ==
    [][bufCtrl[EP0In].available => ep0Buffer' = ep0Buffer]_evars

(* When the handler has nothing left to do between two transfers, device   *)
(* and host agree on the device's address.                                 *)
AddressAgreement == Quiet /\ hStage = "idle" => addrEndp = hAddr

(* Whatever transfer a bus reset cuts off, the device comes out of it at   *)
(* address 0 with no address pending, until the host sends a SETUP packet. *)
ResetRecovers ==
    Quiet /\ wired /\ hPacket = NoPacket => addrEndp = 0 /\ newAddr < 128

(* When the handler has nothing left to do, FLAG has counted every         *)
(* SET_LINE_CODING once, whether or not its transfer came to an end.       *)
CodingsCounted == Quiet /\ wired => flag = hCodings

(* The device keeps the promise of ControlTransfer, seen from the host:    *)
(* what the host accepts is the descriptor it asked for, and every         *)
(* transfer it starts ends.                                                *)
Transfers == INSTANCE ControlTransfer
                 WITH phase <- hStage, request <- hPacket, delivered <- hReceived

TransferSpec == Transfers!Spec

(* The part of that promise that holds even of a transfer that gets stuck. *)
TransferSafety == Transfers!Init /\ [][Transfers!Next]_(Transfers!vars)

(* The comment at the assertion of SET_CONFIGURATION, "device only has one *)
(* configuration": no request of a host that runs proper transfers fails   *)
(* it.                                                                     *)
ConfigurationAccepted ==
    ~(pc = "panic" /\ packet.dir = "Out" /\ packet.request = Request.SetConfiguration)

===============================================================================
