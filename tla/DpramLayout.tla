----------------------------- MODULE DpramLayout -----------------------------
(***************************************************************************)
(* Where src/src/usb.rs puts things in the 4 KiB of DPRAM it shares with   *)
(* the controller: the SETUP packet, the control registers and buffers of  *)
(* the endpoints, and the two bytes it uses as memory of its own.          *)
(***************************************************************************)
EXTENDS Naturals

CONSTANTS
    Numbers,   \* endpoint numbers
    DpramSize  \* USBCTRL_DPRAM_LEN

ASSUME LayoutAssumption == Numbers \subseteq 0..15 /\ DpramSize = 4096

Directions == {"In", "Out"}

(* The index of an endpoint's entry in each table.                         *)
Slot(number, direction) == 2 * number + (IF direction = "Out" THEN 1 ELSE 0)

(* A region of DPRAM.                                                      *)
Region(at, length) == [ at |-> at, length |-> length ]

SetupPacketRegion == Region(0, 8)
Flag == Region(DpramSize - 2, 1)
Ep0BufStatus == Region(DpramSize - 1, 1)

(* endpoint_ctrl_register, which endpoint 0 does not have.                 *)
EndpointCtrlRegister(number, direction) == Region(4 * Slot(number, direction), 4)

EndpointBufferCtrlRegister(number, direction) == Region(128 + 4 * Slot(number, direction), 4)

(* A faulty variant of EndpointBuffer: one slot for each endpoint.         *)
EndpointBufferTight(number, direction) ==
    Region(256 + 64 * (number + (IF direction = "Out" THEN 1 ELSE 0)), 64)

(* endpoint_buffer: the two directions of endpoint 0 share one.            *)
EndpointBuffer(number, direction) ==
    Region(256 + (IF number = 0 THEN 0 ELSE 64 * Slot(number, direction)), 64)

(* Everything in DPRAM: its kind, and the endpoint it belongs to.          *)
Objects ==
    [ kind : {"setup", "flag", "status"}, number : {0}, direction : {"In"} ]
        \cup [ kind : {"ctrl"}, number : Numbers \ {0}, direction : Directions ]
        \cup [ kind : {"bufCtrl"}, number : Numbers, direction : Directions ]
        \cup [ kind : {"buffer"}, number : Numbers, direction : Directions ]

Place(o) ==
    CASE o.kind = "setup" -> SetupPacketRegion
      [] o.kind = "flag" -> Flag
      [] o.kind = "status" -> Ep0BufStatus
      [] o.kind = "ctrl" -> EndpointCtrlRegister(o.number, o.direction)
      [] o.kind = "bufCtrl" -> EndpointBufferCtrlRegister(o.number, o.direction)
      [] o.kind = "buffer" -> EndpointBuffer(o.number, o.direction)

(* Two objects that are meant to be one: the buffer of endpoint 0.         *)
Shared(a, b) == a.kind = "buffer" /\ b.kind = "buffer" /\ a.number = 0 /\ b.number = 0

Apart(r, s) == r.at + r.length <= s.at \/ s.at + s.length <= r.at

VARIABLES
    a, b  \* the objects of the last two accesses

vars == <<a, b>>

Init == a \in Objects /\ b = a

Access == a' \in Objects /\ b' = a

Spec == Init /\ [][Access]_vars

(* No access through a pointer the driver builds reaches into another      *)
(* object, or out of DPRAM: for no endpoint does a buffer run into the     *)
(* next one's or into FLAG and EP0_BUF_STATUS at the end of the memory.    *)
(* The controller has no room for the low six bits of a buffer's place.    *)
ObjectsDisjoint ==
    /\ Place(a).at + Place(a).length <= DpramSize
    /\ a.kind = "buffer" => Place(a).at % 64 = 0
    /\ a = b \/ Shared(a, b) \/ Apart(Place(a), Place(b))

==============================================================================
