-------------------------- MODULE DpramLayoutProofs --------------------------
(***************************************************************************)
(* The layout of DpramLayout keeps its objects apart for every set of      *)
(* endpoint numbers, not only those of an instance.                        *)
(***************************************************************************)
EXTENDS DpramLayout, TLAPS

(* The endpoint of an object is one there may be.                          *)
LEMMA ObjectFields ==
    ASSUME NEW o \in Objects
    PROVE  o.number \in 0..15 /\ o.direction \in Directions
  <1>1. o.number \in Numbers \cup {0}
    BY DEF Objects
  <1>2. o.direction \in Directions
    BY DEF Objects, Directions
  <1>3. \A n \in Numbers \cup {0} : n \in 0..15
    BY LayoutAssumption
  <1>4. o.number \in 0..15
    BY <1>1, <1>3, Zenon
  <1> QED  BY <1>2, <1>4

(* Every object starts and ends where its kind says.                       *)
LEMMA PlaceRange ==
    ASSUME NEW o \in Objects
    PROVE  /\ Place(o).at \in Nat /\ Place(o).length \in Nat
           /\ o.kind = "setup" => Place(o).at = 0 /\ Place(o).length = 8
           /\ o.kind = "flag" => Place(o).at = 4094 /\ Place(o).length = 1
           /\ o.kind = "status" => Place(o).at = 4095 /\ Place(o).length = 1
           /\ o.kind = "ctrl" =>
                 /\ Place(o).at = 4 * Slot(o.number, o.direction)
                 /\ Place(o).length = 4
           /\ o.kind = "bufCtrl" =>
                 /\ Place(o).at = 128 + 4 * Slot(o.number, o.direction)
                 /\ Place(o).length = 4
           /\ o.kind = "buffer" =>
                 /\ Place(o).at = 256 + (IF o.number = 0 THEN 0
                                           ELSE 64 * Slot(o.number, o.direction))
                 /\ Place(o).length = 64
  <1>0. Slot(o.number, o.direction) \in Nat
    BY ObjectFields DEF Slot
  <1>1. CASE o.kind = "setup"
    BY <1>1 DEF Place, SetupPacketRegion, Region
  <1>2. CASE o.kind = "flag"
    BY <1>2, LayoutAssumption DEF Place, Flag, Region
  <1>3. CASE o.kind = "status"
    BY <1>3, LayoutAssumption DEF Place, Ep0BufStatus, Region
  <1>4. CASE o.kind = "ctrl"
    BY <1>0, <1>4 DEF Place, EndpointCtrlRegister, Region
  <1>5. CASE o.kind = "bufCtrl"
    BY <1>0, <1>5 DEF Place, EndpointBufferCtrlRegister, Region
  <1>6. CASE o.kind = "buffer"
    BY <1>0, <1>6 DEF Place, EndpointBuffer, Region
  <1> QED  BY <1>1, <1>2, <1>3, <1>4, <1>5, <1>6 DEF Objects

(* Two entries of a table are the same only for the same endpoint and      *)
(* direction, and there are 32 of them.                                    *)
LEMMA SlotInjective ==
    ASSUME NEW m \in 0..15, NEW n \in 0..15, NEW d \in Directions, NEW e \in Directions
    PROVE  /\ Slot(m, d) \in 0..31
           /\ m # 0 => Slot(m, d) >= 2
           /\ Slot(m, d) = Slot(n, e) => m = n /\ d = e
  BY DEF Slot, Directions

(* What ObjectsDisjoint says of the two accesses holds of any two objects. *)
LEMMA PairApart ==
    ASSUME NEW x \in Objects, NEW y \in Objects
    PROVE  /\ Place(x).at + Place(x).length <= DpramSize
           /\ x.kind = "buffer" => Place(x).at % 64 = 0
           /\ x = y \/ Shared(x, y) \/ Apart(Place(x), Place(y))
  <1> DEFINE sx == Slot(x.number, x.direction)
             sy == Slot(y.number, y.direction)
  <1>1. /\ x.number \in 0..15 /\ y.number \in 0..15
        /\ x.direction \in Directions /\ y.direction \in Directions
    BY ObjectFields
  <1>2. /\ sx \in 0..31 /\ sy \in 0..31
        /\ x.number # 0 => sx >= 2
        /\ y.number # 0 => sy >= 2
        /\ sx = sy => x.number = y.number /\ x.direction = y.direction
    BY <1>1, SlotInjective
  <1>3. /\ x.kind = "ctrl" => x.number # 0
        /\ y.kind = "ctrl" => y.number # 0
        /\ x.kind \in {"setup", "flag", "status"} => x.number = 0 /\ x.direction = "In"
        /\ y.kind \in {"setup", "flag", "status"} => y.number = 0 /\ y.direction = "In"
        /\ x.kind \in {"setup", "flag", "status", "ctrl", "bufCtrl", "buffer"}
        /\ y.kind \in {"setup", "flag", "status", "ctrl", "bufCtrl", "buffer"}
    BY DEF Objects
  <1>4. x.kind = y.kind /\ x.number = y.number /\ x.direction = y.direction => x = y
    BY DEF Objects
  <1>5. DpramSize = 4096
    BY LayoutAssumption
  <1> HIDE DEF sx, sy
  <1>6. Place(x).at + Place(x).length <= DpramSize
    BY <1>2, <1>3, <1>5, PlaceRange DEF sx
  <1>7. x.kind = "buffer" => Place(x).at % 64 = 0
    BY <1>2, PlaceRange DEF sx
  <1>8. x = y \/ Shared(x, y) \/ Apart(Place(x), Place(y))
    BY <1>2, <1>3, <1>4, PlaceRange DEF sx, sy, Shared, Apart
  <1> QED  BY <1>6, <1>7, <1>8

(* The objects in DPRAM never overlap, whatever endpoints are used.        *)
THEOREM LayoutDisjoint == Spec => []ObjectsDisjoint
  <1> DEFINE Inv == a \in Objects /\ b \in Objects
  <1>1. Init => Inv
    BY DEF Init
  <1>2. Inv /\ [Access]_vars => Inv'
    BY DEF Access, vars
  <1>3. Inv => ObjectsDisjoint
    BY PairApart DEF ObjectsDisjoint
  <1> QED  BY <1>1, <1>2, <1>3, PTL DEF Spec

==============================================================================
