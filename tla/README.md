# Verification of the RP2350 USB firmware

The repository is bare-metal Rust firmware for the Hazard3 (RISC-V) cores of an
RP2350. It brings up the clocks, a timer and the USB controller, and then
enumerates as a CDC serial device: "worlds worst USB stick". Everything after
bring-up happens in trap handlers, against hardware that changes registers and
shared memory on its own. There are no tests. This directory holds TLA+ models of
the code, TLC configurations that check them, and TLAPS proofs.

All paths below are relative to the repository; `usb.rs` is `src/src/usb.rs`.

## 1. Inventory

| Part | State it keeps | Operations | What makes it correct |
|---|---|---|---|
| USB driver, `usb.rs:78-425` | DPRAM (SETUP packet, buffers, control registers, `FLAG`, `EP0_BUF_STATUS`), the byte `NEW_ADDR` in RAM, `SIE_STATUS`, `BUF_STATUS`, `ADDR_ENDP`, `INTE` | `init_usb_as_device`, `usb_trap_handler` | the address is one the host gave; each cause is served; no panic but for unsupported requests; replies are whole and carry the right PID |
| Descriptors, `usb.rs:429-795`, `957-1045` | constants | `config_desc_packet`, the `write` functions | `wTotalLength`, `bNumInterfaces`, `bNumEndpoints` agree with what is sent; the parts add up |
| DPRAM layout, `usb.rs:15-76`, `809-955` | none | `DPRAMPtr::offset`, `endpoint_ctrl_register`, `endpoint_buffer_ctrl_register`, `endpoint_buffer`, `configure_endpoints` | no object reaches into another |
| Trap entry, `trap.rs` | `MSTATUS.MIE`, `MEPC`, `MCAUSE`, `MEICONTEXT`, the saved registers | `trap_handler`, `handle_external_interrupt` | what a nested trap overwrites is restored; no handler is entered twice; main is resumed |
| Timer, `timer.rs`, `main.rs:74-91` | the 64-bit counter, alarms, `INTR`, `INTE`, `INTF` | `set_alarm`, `clear_alarm_event`, `timer_trap_handler` | an alarm set is an alarm fired, across the wrap of the low word |
| Clocks, `clocks.rs`, `main.rs` | multiplexers, PLL registers | `init_xosc`, `switch_sys_clock_to_xosc`, `enable_usb_clock`, `Pll::setup`, `PllParams::from_vco` | the CPU is clocked all the time; no source is changed while it is selected; the parameters are within the limits, overflow included; the clocks run at the frequencies the code computes |
| Register and CSR access, `common.rs` | none | atomic set, clear and xor aliases, `csr_*`, `defer!` | deferred writes run in the reverse order |
| Firmware, `main.rs` | the LED | `main`, `extract_bits`, the blink patterns, `panic_handler` | order of bring-up; `extract_bits` at bit 31 |
| GPIO, resets, startup | output registers | single writes | nothing that goes over several steps |

How they interact. `main` calls the others in order and then toggles an LED for
ever. `trap_handler` calls `timer_trap_handler` or `usb_trap_handler`, with
interrupts enabled. No code writes the priorities of interrupts (`MEIPRA`), which
are equal after a reset, so a handler is not preempted by another one:
`TrapDispatch` says so, and the models of the two handlers rely on it.
The USB handler shares two things with the controller: registers that the
controller sets and the handler clears, and DPRAM. The host is on the other
side of the controller.

What is hard. The handler reads `INTS` once and then serves three causes in a
fixed order, while the controller goes on: tokens arrive between any two
register accesses. A completion may belong to a transfer that is no more;
`NEW_ADDR`, `EP0_BUF_STATUS` and the data PIDs live from one pass to the next; a
SETUP packet overwrites the last one in place. `PROJECT.json` lists these points
as hazards, each at its line, with the properties that cover it.

## 2. The modules

| Module | What it models |
|---|---|
| `UsbRequests` | requests, SETUP packets, and the pure functions of the replies: `ConfigDescPacket`, `NextPart`, `StringReplyLength` |
| `UsbDescriptors` | the descriptor tables, `wTotalLength`, `CONFIG_DESC_BUF` |
| `UsbControl` | the driver and the controller, with the most general host |
| `MCUsbControl` | instances of it for TLC |
| `ControlTransfer` | abstract specification: what a host is promised of a control transfer |
| `UsbEnumeration` | `UsbControl` composed with a host that runs control transfers; implements `ControlTransfer` |
| `MCUsbEnumeration` | instances of it for TLC |
| `ConfigDescriptor` | the cutting of the configuration descriptor, for every requested length |
| `DpramLayout` | where things are in DPRAM |
| `Registers` | words as sets of bits: the aliases of `AliasedRegister`, `extract_bits`, the windows of `MEIEA` and `MEIFA` |
| `Timer` | `init_alarms`, `set_alarm`, `timer_trap_handler` and a counter that wraps |
| `InterruptService` | abstract specification: what a trap handler promises of interrupts |
| `TrapDispatch` | the wrapper, `trap_handler`, the `MEINEXT` loop, and the core that takes traps; implements `InterruptService` |
| `MCTrapDispatch` | an instance of it for TLC |
| `PllParams` | `PllParams::new`, `from_vco` and `f_out_post_div_hz` in the arithmetic of `u32` |
| `BringUp` | the clocks: `init_xosc`, `Pll::setup`, the switches, `enable_usb_clock`, and the hardware |
| `MCBringUp` | an instance of it for TLC |
| `UsbControlProofs`, `UsbEnumerationProofs`, `UsbTransferProofs`, `ConfigDescriptorProofs`, `DpramLayoutProofs`, `TimerProofs`, `TrapDispatchProofs`, `BringUpProofs` | theorems |

### UsbControl

`pc` says where the CPU is: in `init_usb_as_device` (`BootPCs`), in `main`, or in
one of the three stages of `usb_trap_handler`, which are its three `if`s. A step
is one access to something the controller can change at the same time; accesses
nothing can come between are merged with it. The locals of the handler are
variables (`status`, `ctrl`, `packet`, `reply`, `remaining`). The variables with
the names of registers are those registers, each reduced to the bits the code
looks at.

| Actions | Code |
|---|---|
| `ResetUsb`, `ClearDpram`, `ConfigureEndpoints`, `Connect` | `init_usb_as_device` |
| `Trap` | the read of `INTS` at the start of the handler |
| `ClearSetupRec`, `ReadInCtrl`, `ClearPid`, `ReadSetup` | the head of the SETUP stage; the PID is cleared by a read and a write of the whole register |
| `HandleSetAddress`, `HandleSetConfiguration`, `HandleSetLineCoding`, `HandleOtherOut`, `RejectRequest` | the arms of the `match` on OUT requests, and every `todo!()` and failed assertion |
| `FillDeviceDescriptor`, `FillConfigDescriptor`, `FillStringDescriptor`, then `ArmDevice` or `ArmReply`; `SendDeviceQualifier` | the `send_*` functions: the buffer is written, and then armed |
| `ReadBufStatus`, `TakeCompletion`, `ApplyAddress`, `ContinueConfig`, `ArmStatusOut` | the loop over `BUF_STATUS` |
| `ClearBusReset`, `ClearAddress` | the bus reset stage |
| `BusReset`, `Setup`, `Complete` | the controller, driven by the host: external |

Abstractions. A buffer holds "bytes of this descriptor from this offset". Of
`bmRequestType` only the direction is kept, `wIndex` is never read. `FULL` is set
with `AVAILABLE` wherever the code arms an IN buffer and is left out. Waiting for
the two clock domains (`wait_sync_usb_dpsram`) has no counterpart. Arithmetic is
that of the release build, which is what `build.sh` builds: `FLAG` and
`EP0_BUF_STATUS` wrap.

The controller is not code of the repository. What the model says of it is what
the handler relies on: a SETUP packet is taken whatever the buffers of endpoint 0
are at and overwrites the one before; a packet completes an armed buffer and
leaves the PID bit as it is; nothing arrives before the pull-up; two bus resets
are at least a pass of the handler apart (a reset lasts 10 ms). The eight bytes of
a SETUP packet are read and written as one: a SETUP packet that arrives within
the read of another is left out.

`NEW_ADDR` is a byte of RAM at a fixed address that nothing initialises, and
DPRAM is memory the reset of the controller does not clear: both start as any
member of `Garbage`.

### UsbEnumeration

The host sends a SETUP packet, goes through the data and the status stage,
polls while a buffer is not armed, drops a packet whose PID it has seen, takes
over the address it has set, and may reset the bus. Its tokens carry the address it
uses, so that only a device at that address answers. Every one of its steps is a
step of `UsbControl`'s host (theorem `HostIsGeneral`). `Patient` says that the
host leaves the device time to finish before its next SETUP packet: the handler
takes microseconds, a host schedules control transfers by frames of a
millisecond, but nothing in the code guarantees it. `MayAbort` says that the
host may give up a transfer. The controller's treatment of an OUT packet with
the PID the buffer does not have, acknowledged and dropped, is USB's rule for
repeated packets. `OrderlyRequests` is for the proofs: the requests that leave no part
due beyond what the host has asked for (section 4). All instances meet it.

`ControlTransfer` says what this host is promised: phases in order, the packets
of the reply from the start of the descriptor on, nothing left out or repeated,
and an end to each transfer. `TransferSpec` is `ControlTransfer!Spec` under the
mapping `phase <- hStage, request <- hPacket, delivered <- hReceived`.

### Timer

| Actions | Code |
|---|---|
| `StartTicks`, `ResetTimer`, `EnableIrqs`, `EnableAlarms` | `init_alarms`: `TickGenerator::enable`, `Timer::reset`, `enable_alarm_interrupts`, the rest of `enable_alarms` |
| `CheckDuration`, `ReadNow`, `ArmAlarm` | `enable_timer`, that is `set_alarm` with its caller's `expect`: the test of the duration, the read of the counter, the write of the alarm |
| `Trap`, `ClearAlarmEvent` | the head of `timer_trap_handler` with its assertion, and `clear_alarm_event`; then it calls `enable_timer` |
| `Tick` | the counter: external |

The low word of the counter is what alarms compare with; it has `WordSize` values.
What the boot ROM may have left (alarms that are armed, events, enables, targets,
forced interrupts, a counter that runs) is chosen in `Init`. The one thing assumed
of time is `Latency`: fewer ticks than the duration pass between `set_alarm`'s read
of the counter and its write of the alarm, two neighbouring accesses against a
duration of a second. Without it the target is in the past when it is written, and
the alarm late by a wrap. Nothing bounds the time until a trap is taken or between
the clearing of the event and the read: a handler that is put off makes the next
alarm count from a later time, which is what the code does.

### TrapDispatch

`frames` is the stack of traps that are being handled. A frame has the trap's copies
of `MCAUSE` and `MEPC` (`trap_handler`), and of `MEICONTEXT`
(`handle_external_interrupt`), and where it is; `from`, `reason` and `lost` are
ghosts that say what it must go back to and which registers are still to be
loaded.

| Actions | Code |
|---|---|
| `ReadCause` | the wrapper's stores, and `trap_handler` up to the `match` on the cause |
| `SaveContext` | `MEICONTEXT` is saved |
| `NextIrq`, `NoNextIrq` | the read of `MEINEXT` with its update, the IRQ got from it by a shift (`IrqOf`), and the end of the loop |
| `EnableInterrupts` | `MSTATUS.MIE` is set and the IRQ looked up: 1 and 14 have a handler |
| `Acknowledge` | the handler: its source lowers the interrupt |
| `DisableInterrupts` | the `defer!` of the loop's body |
| `Unwind` | the other three `defer!`s, last one first, and the wrapper's loads |
| `Interrupt`, `Fault`, `Return`, `Raise` | the core takes an interrupt or an exception, `mret`, a source: external |

Places are a depth and, for main, a step: what matters of a program counter is that
a trap returns to the one it came from. An exception, an interrupt without a handler
and a panic never return; the frame stays `"stuck"`. `InterruptService` knows
requests, a stack of active handlers, and whether one has given up; the mapping is
`requested <- pending, active <- Active, halted <- Halted`. Every frame but the
innermost serves an interrupt, so `Active` has the interrupts of the first
`ServingDepth` frames. `ServiceSafety` is `ServiceSpec` without its fairness.

### PllParams and BringUp

`pc` is in `main` and the two functions it calls or, within them, in the setup of one
of the PLLs. The registers of clk_ref, clk_sys and clk_usb are sets of bits, written
by the operators of `Registers`, and apart from them is the source each multiplexer
has selected: the two differ while it switches, which is what the loops wait for.

| Actions | Code |
|---|---|
| `StartXosc`, `WaitXosc` | `init_xosc` |
| `CheckMuxes`, `SwitchRef`, `WaitRef`, `SwitchSysToRef`, `WaitSysRef`, `SwitchSysToAux`, `WaitSysAux` | `switch_sys_clock_to_xosc` |
| `Check`, `Reset`, `Release`, `WaitReset`, `Divide`, `Power`, `WaitLock`, `PostDivide`, `PowerPost` | `Pll::setup`, of `PLL_SYS` and of `PLL_USB` |
| `EnableUsb`, `WaitUsb` | `enable_usb_clock` |
| `Stabilise`, `LeaveReset`, `Lock`, `SelectRef`, `SelectSys`, `StartUsb` | the hardware: external |

The CPU makes a step only while clk_sys runs. The frequencies of the hardware are
fractions, of no fixed width and never rounded: a PLL locks only if `WithinVco` holds
of its registers, and its output is at a frequency if `RunsAt` does. The code's are
`u32`: `VcoFreq`, which wraps, and `OutFreq`, which is rounded down. The properties
compare the one with the other. `Init` lets a boot loader have left
the oscillator on, a PLL set up, clk_ref or clk_sys switched, or clk_usb on.

## 3. Runs

| Run | Instance | Shows |
|---|---|---|
| `control` | a packet for each branch of the handler but the device descriptor: SetAddress 1, SET_CONFIGURATION, two class requests, the configuration descriptor in two packets, a string, the device qualifier, a descriptor there is not; the most general host | `TypeOK`, `AddressRequested`, `BufStatusBound`, `PanicJustified` |
| `control_progress` | SetAddress 1, the device descriptor in one packet, the configuration descriptor in two; the most general host | `SetupServed`, `CompletionServed`, `ResetServed` |
| `enumeration` | thirteen requests of an enumeration, patient host | `HostTypeOK`, `PidsAgree`, `AddressAgreement`, `BufferStableWhileArmed`, the refinement `TransferSpec` |
| `serial` | with the 7 bytes of SET_LINE_CODING | `TransferSafety`, the refinement without its liveness |
| `aborts` | address, descriptors and line coding, transfers given up and bus resets within them | `ResetRecovers`, `CodingsCounted` |
| `config_descriptor` | every wLength up to 260 | `Reassembles`, `SurplusAtFullPackets`, `DescriptorsConsistent` |
| `dpram_layout` | endpoints 0, 1, 2 and 15 | `ObjectsDisjoint` |
| `timer` | a counter of 12 values; durations that fit and two that do not; any leftovers | `TypeOK`, `NeverSilent`, `PanicsTooFar`, `AlarmOnTime`, `Heartbeat` |
| `trap_dispatch` | alarm 1, alarm 2 (no handler) and USB, in every assignment of three priorities; exceptions anywhere | `TypeOK`, `ContextRestored`, `PreemptedByHigher`, `MainInterruptible`, `MostUrgentServed`, `MainResumed`, the refinement `ServiceSpec` |
| `bring_up` | the firmware's parameters and others at the limits; any leftovers but AUXSRC | `TypeOK`, `CpuClocked`, `PllsWithinLimits`, `ClocksAsPlanned`, `VcoReached`, `PanicsIfLeft`, `NoGlitch`, `ClocksComeUp` |
| `next_pid` | impatient host | `NextPidIsOne` is violated |
| `deconfigure` | SET_CONFIGURATION 0 | `ConfigurationAccepted` is violated |

Bounds, and why they are enough.
- Packets: the handler looks at a packet only to choose a branch, an address, a
  string or a length. Each instance has a packet for the branches its properties
  are about, and lengths below and above the size of the descriptor. One address is
  enough for `AddressRequested`: a stale one is told from none by the bus reset
  that came between. The theorems cover every set of packets.
- `Garbage = {0, 7, 133}` of `UsbControl` (`control_progress` leaves out the 7): nothing
  pending; a part number beyond the descriptor; an address marked as pending. These
  are the cases the code tells apart.
- `FlagValues = 4` in place of 256: the counter wraps within a run. It is the
  only bound on a counter of the driver; the others are bounded by the code. `control`
  has 1 and `control_progress` 2: none of their properties looks at the counter, which
  `CodingsCounted` of `aborts` is about.
- `WordSize = 12` in place of 2^32, with durations of 3, 7 and 11 ticks, the last of
  which is the longest that fits, and of 12 and 15, which do not. A run goes around
  the counter as often as it likes, so that counter and target wrap at every
  distance; `Latency = 2` is the most for which 3 is a legal duration.
- `Irqs = {1, 2, 14}`, `Levels = 2`: the three kinds the `match` tells apart, and as many
  priorities as interrupts, so that traps nest three deep, one deeper than the
  levels `MEICONTEXT` has beside the current one. `MainSteps = 2`: two places to tell apart.
- Frequencies in units of 100 kHz and `Values = 42949`, which is 2^32 Hz in that unit:
  products wrap as in the code, and two of the calls wrap to within the VCO's limits.
  Rounding to the unit does not matter, since all frequencies of the firmware are
  multiples of it and the other calls are there to be rounded.
- `MaxLength = 260`: more than three packets beyond the 75 bytes there are; and a
  length above the size is cut to it.
- Number of transfers: not bounded, the state spaces are finite without.

The device answers every request of `control_progress`, so that nothing holds there
because the handler has panicked. Bus resets and addresses come again and again:
`ResetServed` says of each reset that it is cleared from `SIE_STATUS`, and that the
device gets back to address 0 from whatever address it has.

Fairness. `WF(Boot \/ Handler)`: the CPU goes on, which is all that is assumed for
`control_progress`; the host may do anything or nothing there. For `enumeration`
the host also polls until its transfer is over, as hosts do until a timeout of
seconds. It need never start a transfer, and never resets the bus in order to
get unstuck. Deadlock is checked except where the device may have panicked or
the host may wait for ever (`serial` and the two violation runs), and where there is
nothing left to do (`bring_up`).

For `timer`, `WF(Cpu)` and `WF(Tick)`: the CPU takes the interrupt and goes on, and
the counter counts. For `trap_dispatch`, `WF(Cpu)`: nothing need ever interrupt it.
`MainResumed` has a premise, that the sources are quiet from some point on: a source
that is asserted for ever keeps the `MEINEXT` loop busy. `MostUrgentServed` has none.
What `InterruptService` promises is that some handler begins while requests wait, not that
each request is served: an interrupt that is raised again and again may keep a less
urgent one waiting. `MostUrgentServed` says for the first in order that it is served.
For `bring_up`, `WF(Cpu)` and `WF(Hardware)`: the oscillator settles, a PLL within its
limits locks, a multiplexer switches, which is what each loop of the code waits for,
without a timeout.

The operators called faulty variants are slips one could make in the code (a
limit forgotten, an interrupt not enabled, directions swapped). Each property is
violated when such a variant takes the place of the operator it varies;
`PROJECT.json` pairs them.

## 4. What the checks found

Two statements in the code do not hold.

1. `usb.rs:306`, "set curr pid to 0 so next pid will be 1". If the last completion
   of a transfer and the SETUP packet of the next one are served in one pass, the
   SETUP stage comes first: it arms part 0 of the configuration descriptor with
   PID 1, and leaves 1 in `EP0_BUF_STATUS`. The completion stage takes the old
   completion for that of part 0, and arms part 1 over it, with PID 0. (`next_pid`)
2. `usb.rs:317`, the assertion "device only has one configuration". A host may
   send SET_CONFIGURATION with value 0, whether it has configured the device or not;
   the firmware panics. (`deconfigure`)

Other behaviour worth knowing. No document or comment says otherwise, so no run
reports it, and the packets of `enumeration` and `serial` avoid the first two.

USB driver:

- A request for exactly 64 bytes of the configuration descriptor: the part is
  full, so a next one is due although the host has all it asked for. After it, an
  empty packet is armed and EP0 OUT is not: the status stage may wait for ever,
  and the empty packet may be taken for a part of the next reply. `TransferSpec`
  fails with such a request. The same goes for any multiple of 64 below the size;
  `SurplusAtFullPackets` says that it goes for no other length. If the next transfer is a
  SET_ADDRESS, the completion of the empty packet may apply the address before the status
  stage, which the host then waits for at the old one.
- A string reply ignores `wLength` (`usb.rs:271`).
- The data stage of SET_LINE_CODING has a buffer only because EP0 OUT is armed
  after every completion that is not followed by a part, control writes
  included. Without such a transfer before it, the host waits: `serial` checks
  safety only.
- SetConfiguration arms EP1 OUT; the endpoint table has EP1 IN and EP2 IN and OUT.
  As EP1 OUT is not enabled, its completion, which would panic, never comes: that is
  the assumption about `Endpoints` under which `PanicJustified` is proved.
- After a transfer that was given up, the agreement of PIDs and the refinement no
  longer hold: `aborts` checks what does. In particular, an IN buffer that is still
  armed for the transfer given up may be taken for the next one's.
- An address that was pending when its transfer was given up is applied by the
  completion of the next one. `AddressRequested` still holds: the host did ask for
  it, since the last bus reset.
- A SETUP packet that arrives between the clearing of `SETUP_REC` and the read of
  the packet is handled twice; the line coding counter then counts it twice. A
  patient host does not do this (`CodingsCounted`).
- `EP0_BUF_STATUS` is cleared neither by a SETUP packet nor by a bus reset. If a transfer
  of the configuration descriptor ends early, a later completion goes on with it, and
  with the length of whatever packet is in DPRAM by then (`usb.rs:383`).
  `BufStatusBound` only says that the part stays within the descriptor.
- The PID is cleared by a read and a write of the whole register (`usb.rs:307`): a packet
  that goes out in between makes its buffer unavailable, and the write makes it available
  again. `UsbControl` has the two accesses apart; a patient host leaves nothing to race with.
- `USB_DPSRAM_WAIT_CYCLES` is a number of cycles (`usb.rs:97`), and `wait_sync_usb_dpsram`
  makes that many iterations of a loop around an empty `asm!` (`usb.rs:101-105`,
  `common.rs:81-85`). How many cycles that takes is up to the compiler. It is not
  modelled, and no property speaks of it.

Timer, traps and clocks:

- `enable_alarm_interrupts` enables the IRQs of alarms 1 to 3: its mask is `0b1110`
  (`timer.rs:190`), while the masks of `INTE` and `INTF` have all four alarms. An alarm
  0 would never interrupt. The firmware uses alarm 1 only, and `Heartbeat` depends on
  that.
- `TIMER1_BASE` is the address of TIMER0. Nothing uses TIMER1.
- `MSTATUS.MPP` is not among what a trap saves. If interrupts had different
  priorities, the `mret` of a nested trap would leave MPP at U-mode, and that of the
  outer one would go there. As priorities are equal, the firmware never nests
  interrupts; `ContextRestored` states the mode for that case only (`OnePriority`),
  and everything else for any priorities.
- `CLK_SYS_CTRL.set((read ^ 0) & mask)` (`clocks.rs:56`) sets bits that are set
  already: AUXSRC of clk_sys stays as it was. That is right for the reset value,
  PLL_SYS. With `LeftAuxes = {{}, {0}}` `CpuClocked` fails: clk_sys goes to a PLL that
  may not run. `bring_up` has the reset value, and the theorems that need it say so.
- The assertions on clk_usb come after PLL_USB has been set up (`clocks.rs:67-71`): where a
  boot loader has left clk_usb running from it, the clock stops before they fail.
  `NoGlitch` makes an exception for that, `PanicsIfLeft` says that they fail then only.
- `Pll::setup` keeps a PLL that is locked with the same parameters, without looking at
  whether its post dividers are powered. A boot loader that leaves a PLL locked is taken
  to have powered them.
- `set_ref_clock_to_rosc`, which nothing calls, clears bit 0 of SRC only: called when
  clk_ref runs from the crystal, it would wait for ever.

## 5. Proofs

For every value of the constants that meets the assumptions named in the modules:

| Module | Theorem | States |
|---|---|---|
| `UsbControlProofs` | `TypeCorrect` | `Spec => []TypeOK` |
| | `AddressesRequested` | `Spec => []AddressRequested` |
| | `PartsWithin` | `Spec => []BufStatusBound` |
| | `PanicsJustified` | `Spec => []PanicJustified` |
| | `SupportedNeverPanics` | supported requests: `Spec => [](pc # "panic")` |
| | `PassesEnd` | `Spec => []WorkBounded /\ PassShortens`: a pass of the handler takes 13 accesses at most |
| `UsbEnumerationProofs` | `HostIsGeneral` | `ESpec => Init /\ [][Next]_vars` |
| | `EnumeratedAddress` | `ESpec => []AddressRequested` |
| | `EnumerationNeverPanics` | supported requests: `ESpec => [](pc # "panic")` |
| | `EnumerationTypeCorrect` | `ESpec => [](TypeOK /\ HostTypeOK)` |
| | `CodingsAreCounted` | patient host: `ESpec => []CodingsCounted` |
| | `ResetsRecover` | patient host: `ESpec => []ResetRecovers` |
| | `AddressesAgree` | patient host that gives no transfer up: `ESpec => []AddressAgreement`, for any requests |
| `UsbTransferProofs` | `PidsAlwaysAgree` | orderly host: `ESpec => []PidsAgree` |
| | `PatientNextPid` | orderly host: `ESpec => []NextPidIsOne` |
| | `BufferStable` | orderly host: `ESpec => BufferStableWhileArmed`, an action property |
| | `TransfersAreSafe` | orderly host: `ESpec => TransferSafety`, the refinement of `ControlTransfer` without its liveness |
| | `TransfersNeverStuck` | orderly host, no OUT data stages: `ESpec => []NeverStuck` |
| | `RepliesAreWhole` | orderly host: `ESpec => []RepliesWhole` |
| `ConfigDescriptorProofs` | `SlicesReassemble` | `Spec => []Reassembles`, for every `wLength` |
| | `SurplusOnlyAtFullPackets` | `Spec => []SurplusAtFullPackets`, for every `wLength` |
| `DpramLayoutProofs` | `LayoutDisjoint` | `ObjectsDisjoint` for any endpoint numbers up to 15 |
| `TimerProofs` | `TypeCorrect` | `Spec => []TypeOK` |
| | `AlarmNeverSilent` | `Spec => []NeverSilent`, for a counter of any width |
| | `OnlyTooFarPanics` | `Spec => []PanicsTooFar` |
| | `AlarmsOnTime` | `Spec => AlarmOnTime`, an action property |
| `TrapDispatchProofs` | `TypeCorrect` | `Spec => []TypeOK` |
| | `Restored` | `Spec => []ContextRestored`, for traps nested to any depth |
| | `HigherPreempts` | `Spec => []PreemptedByHigher` |
| | `InterruptibleMain` | `Spec => []MainInterruptible` |
| | `NestingIsBounded` | `Spec => []NestingBounded`: a handler per priority and an exception at most |
| | `ServiceIsSafe` | `Spec => ServiceSafety`, the refinement of `InterruptService` without its fairness |
| `BringUpProofs` | `TypeCorrect` | `Spec => []TypeOK` |
| | `WithinLimits` | `Spec => []PllsWithinLimits` |
| | `PanicsOnlyIfLeft` | `Spec => []PanicsIfLeft` |
| | `VcoAsAsked` | `Spec => []VcoReached` |
| | `AlwaysClocked` | `AuxReset => (Spec => []CpuClocked)` |
| | `Glitchless` | `AuxReset => (Spec => NoGlitch)`, an action property |
| | `BroughtUpAsPlanned` | `AuxReset => (Spec => []ClocksAsPlanned)` |

A patient host is one with `Patient`; it may give up transfers and reset the bus
within them. `ResetsRecover` also takes it that no request has the bytes of
`NoPacket`, which stands for a SETUP buffer nothing has been written to. An orderly
host has `Patient`, `~MayAbort` and `OrderlyRequests`: the instance of
`enumeration` is one, and so is that of `serial`. `Patient` cannot be dropped: `NextPidIsOne` holds for such
a host and `next_pid` refutes it for an impatient one. Nor can `OrderlyRequests`: with a request for
64 bytes of the configuration descriptor TLC finds `PidsAgree`, `NextPidIsOne`,
`BufferStableWhileArmed` and `TransferSafety` violated (section 4). `AddressesAgree` does
without: what a surplus part upsets is not the address.

Supported requests are a set of packets that all meet `Supported`, which every request
of the instances of `enumeration`, `serial` and `aborts` does. `TransfersNeverStuck` also takes it
that no OUT transfer has a data stage (`NoOutData`): SET_LINE_CODING has a buffer for its seven
bytes only if an earlier transfer has left one (section 4). The requests of `enumeration` have none.

The theorems that name no property of a run state things TLC was asked of the same instances
before they were proved, `NestingBounded` in particular with both of its bounds attained.

`AuxReset` is
`LeftAuxes \subseteq {{}}`: AUXSRC of clk_sys and clk_usb have their reset values. `Glitchless`
says of clk_usb what it says of clk_sys only where the boot loader has not left a clock
switched or enabled (`left`). `BroughtUpAsPlanned` compares the code's frequencies with exact
fractions, and so needs `CrystalAssumption`: a reference divider that the limits admit
divides the crystal evenly, as 1 and 2 do 12 MHz. For another crystal, `RefFreq` would be
rounded, and then multiplied.

Each rests on an inductive invariant with one proof step per action.

- `TypeOK` is inductive by itself. Intervals such as `Byte` are used by lemmas only
  (`ByteRange` and the like), so that no proof enumerates them; the bounds of
  replies are lemmas about the pure functions (`SliceRange`, `StringReplyRange`).
- `FlowInv` (`BootInv /\ StageInv`): nothing is on the wire before the pull-up; a
  cause in `status` is one the handler has still to serve, from where it is.
- `StaleInv` is why `AddressRequested` holds. It follows an address the host has
  not asked for since the last bus reset through all the places it may be: a
  SETUP packet in DPRAM, the handler's `packet`, `NEW_ADDR`, `ADDR_ENDP`. In each,
  the bus reset is still to be served. The delicate place is the SETUP packet:
  when the handler has seen the reset, but not the SETUP packet before it, it
  would serve the reset first and the packet later. This cannot happen, as
  `INTS` is read once, and both are in it or the reset alone is not.
- `ControlOnly` gives `PanicJustified`: no buffer completes that the completion
  stage has no code for.
- `PassesEnd` counts the accesses a pass has still to make (`Work`): those of the causes in `status`,
  of the completions in `remaining`, and of the stage the CPU is in. As `INTS` and `BUF_STATUS` are
  read once, what arrives meanwhile is no work of this pass. It is the reason why the fairness of the CPU
  is enough for the handler to come back to `main`.
- `HostTypeOK` is inductive with `TypeOK` and `FlowInv`: the host keeps what it takes
  from the wire.
- `CodingsInv` counts the codings that are on their way, in DPRAM, in the handler's
  `packet` or about to be counted (`Uncounted`). `Prompt` is what patience gives: a
  SETUP packet finds the handler with nothing else to do, and is served before
  another arrives. `ResetInv` follows a bus reset to the step that clears the address.
- `AgreeInv` follows the address of a transfer from both ends, before the SETUP packet is answered
  (`FreshAddress`) and after (`ServedAddress`). It says nothing of PIDs and parts, and so holds of any
  requests. With a surplus part the two ends may be out of step: the host may take the empty packet for the status
  stage before its request has been served, or drop it and so have the device apply the address before
  the status stage. In the first case a completion is still to come, which applies the address; in the
  second the host waits at the old address, and there is no next transfer to disagree in.
- `SettledInv` is the invariant of a transfer from both ends. It goes round the four places a
  reply can be at: the SETUP packet is still to be served (`FreshInv`), the buffer is
  filled but not armed (`FilledInv`), armed (`ArmedInv`), or completed and the
  completion not yet taken (`DoneInv`). In each it says which PID, which part and
  which packet are due on the side of the device, in terms of what the host has
  accepted. `PartInv` is the key to `PidsAgree`: `EP0_BUF_STATUS` is not 0 in a data stage
  only, so the completion stage never takes the completion of a status stage for one
  of a part. `AddrInv` follows the address from SET_ADDRESS through the status stage to
  `ADDR_ENDP`. `OrderlyRequests` enters at one lemma, `NoSurplus`: a part is due
  only while the host wants it. Of the refinement, `TransferRefines` has one step for
  each of the host's actions; the device's are stutters.
- `WaitInv` is what `NeverStuck` adds: a host that waits for an IN packet waits for a SETUP packet to be
  answered, a reply to be armed, an armed one, or the next part of one that has gone; a host that waits to
  end an IN transfer has EP0 OUT armed, or its last completion is still to arm it. `RepliesInv` says
  that each packet the host has accepted is the one `ControlTransfer` wants in its place, full unless it is the last.
- `CutInv` of the descriptor: slice `i` starts at byte `64 * (i - 1)`, and fills a packet
  or reaches the end of what is due, so the parts are numbered without
  wrapping. It needs of the size what `DescriptorSizeAssumption` says, which TLC
  evaluates for the 75 bytes of the tables.
- `BufStatusBound` is inductive with `TypeOK`: a full slice ends within the
  descriptor, and the next part starts there. That the byte wraps at 256 makes the
  part number smaller, never larger.

- `TimerInv` of the timer: what each step of the bring-up has cleared of what the boot ROM
  left, up to the forced interrupts (`BootInv`); and that from then on no alarm but
  alarm 1 is armed or has an event, and while it is armed the distance from the counter to
  the target, around the wrap, is what is left of the duration (`AlarmInv`). The
  arithmetic of the wrap is in lemmas about `%`. Assumed: `PeriodAssumption`, the
  latency below every duration.
- `TrapInv` of traps. `FramesInv` is a fact of each frame, not only of the innermost one:
  its copies of `MEPC`, `MCAUSE` and `MEICONTEXT` are what it entered with, and an outer frame
  is serving an interrupt and lets others in. `ContextInv` says what the
  three levels of `MEICONTEXT` hold, in terms of the two innermost frames: a nested trap
  leaves two levels, and the third is why the saved copy is needed. `PreemptedByHigher`
  is inductive with it. `NestInv` has what equal priorities add.
  `ClimbInv` numbers the frames: a frame serves a priority no lower than its place, since
  levels rise from each frame to the next, which bounds their number.
  `ActiveInv` reads the stack of `InterruptService` off the frames. That no handler is
  entered within itself follows from `PreemptedByHigher` after the step: an interrupt that
  `MEINEXT` shows a second time would have a higher priority than itself. Traps that are
  taken and that return, and all steps between two handlers, are stutters.
- `BootInv` of the clocks: `SetupInv` says for each PLL how far its setup is and so what its
  registers hold, `MuxInv` when a multiplexer may lag behind its register, `UsbInv` what
  follows for clk_usb if nothing was left switched. `AuxInv`, under `AuxReset`, adds that
  PLL_SYS runs when bit 0 of `CLK_SYS_CTRL` is set. The arithmetic rests on lemmas about
  `Accepted`: a product of what is accepted is below 2^32 (`PllAssumption` states the
  sizes of the crystal and the limits this needs), and what follows for quotients: `VcoExact` frees the
  code's frequency of its rounding and its modulus, `Scaled` carries an inequality of two products
  across a common factor.

Only model-checked:

- everything about liveness (`SetupServed`, `CompletionServed`, `ResetServed`, `Heartbeat`,
  `MostUrgentServed`, `MainResumed`, `ClocksComeUp`, and the fairness of
  `TransferSpec` and `ServiceSpec`), which is out of the proof system's reach. `PassesEnd` and
  `TransfersNeverStuck` prove the steps of it that are safety: no pass goes on for ever, and no transfer is
  stuck;
- `DescriptorsConsistent`, which is about one value, the tables of the firmware, and sums
  over them by a fold: TLC evaluates it, the provers have no induction for it. For the
  same reason the size of the descriptor enters the proofs by an assumption.

## 6. Not modelled, and the plan

Not modelled:

- GPIO: single writes to output registers that no other code reads. Startup: a stack
  pointer and a jump. The blink patterns of panics and faults: output.
- The bytes of descriptors and the fields nothing depends on: the tables are modelled,
  their serialisation is a concatenation.
- `read_time`, `write_time`, `set_ref_clock_to_rosc`, `set_sys_clock_to_ref`, `freq_counters`:
  nothing calls them.
- The assembly of single CSR accesses in `common.rs`, each of which is taken as the access
  it is.

What could come next:

1. Proofs: what else, beside the address, still holds when a transfer ends with a full packet;
   `PidsAgree` from a bus reset on, for a host that has given up a transfer before it.
2. More of hosts that abort: what a bus reset leaves behind beside the address
   (`EP0_BUF_STATUS`, an armed reply), and what it does to the next transfer.
3. Replies cut to `wLength` in `ControlTransfer`, once the code cuts strings.
4. A `Firmware` module that runs `UsbControl` and `Timer` under `TrapDispatch`. It would show
   what `PreemptedByHigher` is assumed for now: that one handler does not begin
   within the other.

## 7. Running it

    tlc -workers 2 -config MCUsbControl.cfg MCUsbControl.tla
    tlc -workers 2 -config MCUsbEnumeration.cfg MCUsbEnumeration.tla
    tlc -workers 2 -config Timer.cfg Timer.tla
    tlc -workers 2 -config TrapDispatch.cfg MCTrapDispatch.tla
    tlc -workers 2 -config BringUp.cfg MCBringUp.tla
    tlapm UsbControlProofs.tla
    tlapm UsbEnumerationProofs.tla
    tlapm UsbTransferProofs.tla
    tlapm ConfigDescriptorProofs.tla
    tlapm DpramLayoutProofs.tla
    tlapm TimerProofs.tla
    tlapm TrapDispatchProofs.tla
    tlapm BringUpProofs.tla

The other runs are in `PROJECT.json`, each with its module and configuration. The
longest takes about two and a half minutes, the longest proof about one and a half.
