# TLA+ models of ostiole

ostiole is a Go library and command-line tool for talking to Arm debug targets
through USB probes. This directory holds TLA+ modules that model its stateful
parts, TLC configurations that check them on small instances, and theorems with
proofs that TLAPS checks. Everything is translated from the Go source;
`PROJECT.json` maps every definition to the lines it stands for and lists the
runs, their properties, the hazards they are about and the theorems.

    tlc -workers 2 -config Owners.cfg Owners       # a run of section 3
    tlapm OwnersProofs.tla                         # the proofs of section 5

## 1. The system and its modules

A call travels down a stack of owners and protocol engines.

| Part | State | Operations | Modules |
| --- | --- | --- | --- |
| `target/cortexm` | halt, step and register ownership of one core | Acquire, Halt, Halted, Resume, Step, ReadRegister, WriteRegister, Release | `CortexTarget` on `CortexCore` |
| `coresight` | a bounded walk | Walk | `RomWalk` |
| `dap` | SELECT, power, epochs of handles, response state | Connect, Release, transfers, AP access | `DapPort`, `DapSession` on `SwdLink` |
| `armdebug` | probe, port and MEM-APs of one connection | Connect, OpenMemAP, Close | `ArmConn`, `ConnOwner` |
| `probe`, `internal/probeusb` | backend session, surfaces, USB device | activation, Close | `ProbeOwner`; the contract of an adapter is `Backend` |
| `swd` | response grammar, DP bank, ORUNDETECT ownership | Connect, Release, LineReset, transfers, batches | `SwdConn`, `SwdBatch`, `SwdSession` on `SwdTarget` |
| `jtag` | TAP state, instructions, chain | moves, scans, discovery, measuring, Release | `JtagConn`, `JtagChain` |
| `cmsisdap` | command session, SWD port, register transport | Open, ConfigureSWD, SWDIO, register transfers, Close | `CmsisSession`, `CmsisHost`, `CmsisPlan`, `CmsisRegister` |
| `jlink` | command session, selected interface | Open, configuration, scans, Close | `JlinkSession`, `JlinkHost` |
| `ftdi` | MPSSE channel and its receive goroutine | Open, exchanges, Close | `FtdiChannel`, `FtdiStream` |
| `usb` (Linux) | claimed interface, URBs, engine and watcher goroutines | SubmitBulk, Wait, AbortBulk, SetAltSetting, Close | `UsbBulk` |

Modules that compose them:

- `Owners` is one of four owners: a CMSIS-DAP, J-Link or FTDI session with the
  code that opens, uses and closes it (`CmsisAdapter`, `JlinkAdapter`,
  `FtdiAdapter`), or a connection with its probe (`ConnOwner`). `Adapter` declares
  what the adapters share. The sessions are shown to implement `Backend`, which is
  all that `ArmConn` assumes of them.
- `SwdAccess` runs `swd.Conn` over a wire, or the register transport of CMSIS-DAP,
  against the same target.
- `Calls` runs the pure parts: the cutting of SWD streams into CMSIS-DAP packets
  (`CmsisPlan`), MPSSE commands and the decoding of samples (`FtdiStream`), and
  walks over ROM tables (`RomWalk`).
- `MC*` modules give the constants of the runs.
- `UsbBulkProofs`, `RomWalkProofs`, `CmsisConnProofs`, `JlinkProofs`, `FtdiProofs`,
  `OwnersProofs`, `CortexInvariant` and `CortexProofs` hold the theorems.

## 2. How the models correspond to the code

A variable is a field or a group of fields of a Go value, an action is a whole
call where nothing else can run in between, and a part of a call up to the next
point where something can (a channel operation, an ioctl, an access to the target,
a frame on the wire). The Boolean fields of a session are a set of flags (`on`,
`flags`), so that `"poisoned" \in on` is the field `poisoned`. Calls of an adapter
are operators that give the set of results they may have, `[x |-> session after,
r |-> what is returned]`, because every fault of the device is a choice.

**USB.** One action per step of the engine goroutine, the watcher, the caller and
the kernel. A write to the wake-up pipe is assumed not to fail; closing
`watchStop` and writing to the pipe are one step, and so are a reply and closing
`e.closed`. A failed `openBulkTransfers` changes nothing. The caches of endpoints
and alternate settings are not modelled. The first Close of a lost device may fail
with ENODEV; a repeated one succeeds.

**CMSIS-DAP.** A session counts the replies it has not read; `synchronizeInput`
drains what a previous user left. Like the code, the model promises nothing about
answers that arrive after the quiet interval of Open: there are none. An exchange whose reply may come later poisons the session. A session
that Open retains after a failed cleanup (`held = "leftover"`) is only closed.

**J-Link.** Replies arrive in packets that need not coincide with the items the
session reads. Replies to a previous user that come later than the quiet interval of
Open are outside its guarantee (docs/protocols/jlink.md) and are left out, and so
`AnswersMatch` says nothing about them. An extra item in a packet of its own, the bit alignment of `delayInputSamples` and the value of
`MaxTransferBits` are not modelled.

**FTDI.** The receive goroutine, the posted reads, the queue and the caller are
interleaved. A packet carries one byte; answers alternate between `"a"` and `"b"`,
so a byte of another call is told apart; the chip answers exactly what it was
asked. A completion `decodeCompletion` refuses is a fault the goroutine reports,
after a stop request too. A wrong marker is a fault in `endResponse`. At least two reads are posted
(`Depth >= 2`), which is why Close returns although the chip is silent.
`FtdiStream`: pins keep their level between commands, samples are shifted in from
the top and older bits are arbitrary. `clockDivisor` is not modelled.

**Conn.** The adapter session is known by contract. `discover.OpenProbe` leaves
nothing behind when it fails, and a failed `dap.OpenMemAP` leaves its access port
clean. A failed release of the debug port may leave it `"refused"`: every later
Release fails although the probe is healthy, which is what `dap_release` shows of
`releaseLink`. Close then keeps the probe, and `ClosesEnd` promises the release of the
USB resources only where this is not the case. A new OpenProbe starts afresh.

**SWD.** The target has sticky flags, overrun detection, banks and a write buffer.
A line reset clears the bank of a DPv3 and keeps that of an older port; a target may
be either. A target exchanged in the middle of a session is one just powered up.
`IdentityKept` tells targets apart by DPIDR, as the code does, and an identification
may be malformed (`BadIds`). The first
Release without faults can be refused by a sticky flag in another bank; the second
succeeds.

**DAP.** The binding to `swd.Conn` is modelled, by the contract `SwdLink`; those to
JTAG and to register transports, DPv3 and the sticky compare flag are not. Inherited transaction modes are a choice of `initialize`. A call meets at most one
fault. `maxWaits` is 0 (no limit) or 1. That a posted read loses
its data in an overrun WAIT cannot be observed and is left out.

**JTAG.** Bit by bit. Counters of generations are abstracted to `current` and
`live`. Any prefix of a wire call may be clocked before it fails, and the context
may end between calls of `Limit` bits. Words have `WordBits` bits instead of 32 and
an instruction register at most `MaxIR` instead of 65536. Chips start in their
reset instructions in any TAP state. Capture bits may match a layout that divides the instruction chain at other places
than the chips do (docs/protocols/jtag.md); Connect accepts it, and one layout of the
run is of that kind. `Fits` says that the layout is the right one, `Matches` that it
is accepted: `TapsAgree` needs the second only, because it speaks of the whole chain
of instruction bits; `ScansTruthful` and `ReleaseConverges` need the first.

**ROM tables.** Addresses count pages. A table has as many entries as its
`EntryCount`; reads fail nondeterministically and the context may end at any
`next()`. Identification is abstracted to what `ROMTable` makes of it.

**Cortex-M.** Every access to DHCSR, DFSR, DCRSR and DCRDR is a step; between two
of them the core completes requests and has events of its own (reset, restart, halt
and changes of Secure permission, as `target/cortexm/sim` describes them). A write
may succeed and be ignored, except for a halt request. M0 does not report a restart, so
one may take a halt of this target away unnoticed. A Release that succeeds drops the
memory of the target and keeps its other fields; a new Acquire makes a new Target.
C_MASKINTS, S_RETIRE_ST and the other reasons of DFSR are left out. Single
stepping, register transfers and C_SNAPSTALL in the core are external. An access
may race with an event after the last read of DHCSR; the ghost `quiet` says that
none has. `claim` tells whose the present halt is, and `unsure` that a write has an
unknown effect.

## 3. The runs

| Run | Checks |
| --- | --- |
| `owners` | `TypesOK`, `AnswersMatch`, `NothingOrphaned`, `WorkInPlace`, `CloseConverges`, `AbandonReported`, `ClosesEnd`, `ImplementsBackend` |
| `calls` | `StreamKept`, `WalkFaithful`, `WalkBounded` |
| `cortex` | `TypeOK`, `UncertainBlocks`, `NoControlDuringTransfer`, `StepClearedHalted`, `NoForeignResume`, `ReleaseClean`, `ReleasedOrBlocked` |
| `dap_port` | `TypeOK`, `SelectionAgrees`, `PowerOwned`, `HandlesRevoked`, `ReleaseConverges`, `IdleRestored` |
| `jtag_chain` | `TapsAgree`, `ScansTruthful`, `ReleaseConverges`, `ReleasedParked` |
| `swd_access` | `TypesOK`, `FramingAgrees`, `RestorationOwned`, `BatchTruth`, `RestoreConverges`, `IdentityKept` |
| `usb_bulk` | `TypeOK`, `KernelOwned`, `DoneMeansSettled`, `QuietInterface` |
| `usb_close` | `CallsReturn`, `ClaimReleased` |

Each property is stated in words, with the code it is about, above its definition.

Bounds, and why they are enough:

- `owners`: two unread packets, packets per call and stale answers are one more
  than the code tells apart (none, one, the rest); two posted reads are the least
  with which one can be aborted while another is reposted; two access ports are
  the least with an order of release.
- `calls`: streams of ten bits are longer than two packets of every size tried, and
  three packet sizes put the end of a run before, at and after a packet boundary;
  the ROM tables have at most eight pages, enough for a chain, a cycle, a table
  that is listed twice and an offset that leaves the address space.
- `cortex`: no bound; the state of one core is finite. Four worlds: an M33 with every
  event, an M33 without reset and change of permission, an M0 with halts, restarts and
  resets, and an M0 with halts only; the second and the fourth are the ones
  `NoForeignResume` speaks of.
- `dap_port`: one identification, two access ports and two power domains (which are
  interchangeable, hence the symmetry set), one fault per call, and two limits on
  WAIT answers.
- `jtag_chain`: two chains of two chips, with instruction registers of two to four
  bits, and four layouts: the right one for the first chain, one with a chip less, one
  that is refused for its division of the instruction bits and one that is accepted
  although it divides them wrongly.
- `swd_access`: two faults per call cover a failure and a failure of its recovery;
  identifications are interchangeable.
- `usb_bulk`, `usb_close`: two transfers on two endpoints and on one, so that abort
  and close have something to wait for beside their own.

`cortex`, `calls`, `usb_bulk` and `usb_close` do not check deadlock: a walk and a
stream end, and a closed interface or a core without events may stop.

Four runs show where the code and its documentation disagree:

- `cortex_reset` (`ResumeOwnHalt`): on an M0 the claim to a halt survives a reset that
  DHCSR reported, and a restart that M0 does not report; Resume then ends a stop this
  target did not request.
- `cortex_denied` (`LostHaltRelinquished`): a readback that shows the halt request
  lost returns the Secure permission error before the claim is given up.
- `cortex_restart` (`RestartBlocksCleanup`): a failed read of DHCSR consumes the
  report of a restart, and cleanup resumes the core.
- `dap_release` (`ReleaseRetriable`): a Release whose context ends between two
  frames of the link release cannot be repeated.

## 4. Fairness

Safety runs use none. The liveness properties assume what the runtime gives:

- `ClosesEnd` (`owners`): goroutines that can run do run, and the kernel completes
  an aborted read; nothing is assumed of a chip, which may stay silent. A Conn
  that is being closed is closed again until it succeeds.
- `ReleasedOrBlocked` (`cortex`): a call goes on, and a caller whose Release failed
  repeats it. Failures and events end at some point (`CalmDown`).
- `CallsReturn`, `ClaimReleased` (`usb_close`): weak fairness of engine, watcher and
  kernel, strong fairness of `ReceiveCompletion`, because Go's `select` chooses at
  random among the channels that are ready. `calm` means that no more ioctl fails, no
  call is interrupted and no deadline expires. `Awaited` names the transfers
  somebody waits for.

## 5. What is proved

TLC shows a property on one instance; the theorems hold for every value of the
constants under the named assumptions of the modules.

**The adapters and the connection** (`CmsisConnProofs`, `JlinkProofs`, `FtdiProofs`,
`OwnersProofs`).
For every number of unread packets, packets per call, stale answers and access
ports, and every `Depth` of at least two posted reads:

| Theorem | Property |
| --- | --- |
| `TypesCorrect` | `TypesOK` |
| `AnswersNeverMixed` | `AnswersMatch` |
| `NothingIsOrphaned` | `NothingOrphaned` |
| `WorkStaysInPlace` | `WorkInPlace` |
| `OneCloseConverges` | `CloseConverges` |
| `AbandonmentReported` | `AbandonReported` (an action property) |
| `AdaptersImplementBackend` | `ImplementsBackend` (the refinement) |

The inductive invariant `OwnersInv` says of the owner in use that it has its own
invariant. None of the properties is inductive alone. `CmsisInv` adds what a
session is between two calls (`CmsisFit`): a connected port and a connected probe
imply each other unless the session is poisoned or gone, and a usable session has
nothing unread. The commands are composed, so there is a lemma for each of them, from
the reply of the device up to `Close`; `SWDIO` sends any number of packets, and its
lemma is an induction, written with the least packet after which the session is not fit
(`LeastNat`, from the well-foundedness of the natural numbers). `JlinkInv` adds
which packets of an answer may still be on their way (`JlinkLast`, `JlinkTwo`), so
that `readResponse` is shown to read its own answer and to leave nothing, and that
interface on the wire and selected interface agree in a configured session.
`FtdiInv` counts what is in flight: the bytes on the wire, in the
posted reads, with the goroutine and in the queue are together what the
exchange in progress still expects (`FtdiResponse`), which is why a byte that is taken is its own.
`ConnInv` says which of probe and connection holds the resources, and that the
access ports and the port a connection still owes are exactly those changed in the
target. For the refinement every adapter step is shown to satisfy `Keeps`, the step
of `Backend` in terms of the two answers `CleanupPending` and
`RestorationPossible`.

**One processor** (`CortexInvariant`, `CortexProofs`). For every set
of profiles and events:

| Theorem | Property |
| --- | --- |
| `TypeCorrect` | `TypeOK` |
| `UncertaintyBlocks` | `UncertainBlocks` |
| `TransferUndisturbed` | `NoControlDuringTransfer` |
| `StepClearedWhenHalted` | `StepClearedHalted` |
| `ForeignHaltKept` | `NoForeignResume` |
| `ReleaseLeavesClean` | `ReleaseClean` |

`IInv` has a part for the states in which a target is held or none was acquired
(`Held`) and one for those after a Release that succeeded (`Gone`), in which the fields
of the target say nothing about the core any more and only what the target left at the
core matters. `Held` relates the flags of the target to the registers: which step of a call may
meet which flags (`Placed`), when a register transfer can be under way (`Transfer`),
that an unresolved request has its flag (`Unsure`), whose halt DHCSR shows as long
as nothing went unnoticed (`Claimed`, `HaltKept`), and what a stopped step has left
(`Stopped`). The proof has one lemma for every access of the target, one for what the
core completes by itself, one for its events. `NoForeignResume` has the premise
that no reset, change of permission or, on M0, restart takes a halt away
unnoticed; `cortex_reset` shows that it is needed.

**USB** (`UsbBulkProofs`). For any finite set of transfers: `TypeOK`, `KernelOwned`,
`DoneMeansSettled`, `QuietInterface`, and beside them that the pending count is exact
(`CountCorrect`) and that watcher and engine end together (`WatcherCorrect`). The
strengthening says where the engine is in a call, how far each transfer has come, and
how far Close has come.

**ROM tables** (`RomWalkProofs`). For any memory and any limits: `WalkFaithful` and
`WalkBounded`.

The inductive invariants were checked by TLC, on the instances of the runs, before
they were proved.

Only model-checked:

- the liveness properties `ClosesEnd`, `ReleasedOrBlocked`, `CallsReturn` and
  `ClaimReleased`: the prover does not reason about fairness and ENABLED;
- the properties of `jtag_chain`: scans are recursive operators over bits, which the
  prover cannot use;
- the properties of `dap_port` and `swd_access`: a call is one step made of some
  forty operators over frames, and the invariant that holds between the frames of a
  call has not been worked out;
- `StreamKept`, which says what recursive definitions compute for every input.

## 6. What is not modelled

The Darwin backend of `usb` (its concurrency is in the operating system);
enumeration, descriptors, `discover` and identification, which keep no state beyond
tables; MEM-AP block access and transaction queues of `dap`; groups of processors;
`cmd/ost` and the examples. `PROJECT.json` gives the reason for each.
