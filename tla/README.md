# TLA+ models of smiusb

These modules model the parts of smiusb that have state, the TLC runs check
them on small instances, and the `*Proofs` modules hold theorems that TLAPS
proves for every value of the constants. `PROJECT.json` lists, for each
definition, the source lines it stands for.

## The system and its parts

smiusb works around, observes and will eventually replace the vendor driver of
the SM768 USB display adapter. Its parts share little at run time, so most
modules stand alone; those that share code share a module.

| Part | Source | Module | Extent |
|---|---|---|---|
| Frame queue, sink gate | `rust/src/frame.rs` | `PipelineState`, `FramePipeline`, `NewestFrames` | all operations |
| Frame layout, test pattern | `rust/src/frame.rs` | `FrameLayout` | sizes, offsets and errors, not colours and checksum |
| JPEG compressor | `rust/src/jpeg.rs` | `Compressor` | `compress_bgrx`; TurboJPEG is external |
| Command line, pattern simulation | `rust/src/main.rs` | `CommandLine`, `PatternSimulation` | from the arguments to the exit code |
| ScreenCast query | `rust/src/screencast.rs` | `CommandLine` | `discover` up to its outcome; `gdbus` is external |
| Wire protocol, decoder | `rust/src/protocol.rs`, `main.rs` | `JpegScan`, `Decode` | all parsers and builders; the hexadecimal input is in `CommandLine` |
| USB observer | `rust/src/main.rs`, `usb.rs` | `UsbObserver` | polling loop |
| Session manager daemon | `src/daemon/smiusbd.cpp` | `SessionManager` | both threads, signal handler, callbacks |
| LD_PRELOAD guard | `src/guard/smiusb_guard.c`, systemd override | `GuardedService` | fence, NULL guards, dispatch, restart; not registration and symbol resolution |
| EVDI GEM mapping | `kernel/evdi/patches/0001-*.patch` | `EvdiGem` | vmap, vunmap, free, the painter's use |
| EVDI scripts | `scripts/install-patched-evdi.sh`, `rollback-patched-evdi.sh` | `EvdiDeploy` | every command that changes the disk, except the backup copy |
| Capture script | `scripts/capture-kvm-cycle.sh` | `CaptureCycle` | profile, temporary files, traps |

### Not modelled

- The probe: one thread that prints descriptors and keeps no state from one
  device to the next. The option parsing of the probe and of the C++ daemon.
- The guard's registration of its dispatcher and its symbol resolution. A
  registration that finds no memory is refused, and what the vendor's binary
  does then is unknown; a missing symbol is a fault of the build.
- The EVDI scripts running at the same time. Nothing in them prevents it, but
  they do not determine what DKMS and `update-initramfs` do when two of their
  commands meet on one version. A model would check guesses about those tools.
- The EVDI install script's backup copy, which no script reads.
- The guard's install and uninstall scripts, evidence collection, the Ghidra
  helper, the shared C header, the build files: no state to follow.
- Colours and checksum of the test pattern; all wording and formatting except
  the hexadecimal one; the panic of `env::args` on an argument that is not
  Unicode; the text of `gdbus`'s answer, which only decides between outcomes.
- Departures of other USB devices, which the guard hands to the vendor's callback.

## How the models correspond to the code

**PipelineState / FramePipeline.** `PipelineState` has the fields of the Rust
structure and one action per branch of `submit`, `try_take` and
`begin_generation`. Each is one step, since the code holds the mutex
throughout. `FramePipeline` composes it with encoders, capture and a teardown
thread. The closure of `with_current_generation` is the exception: it runs
under the mutex but takes several steps and may panic, which poisons the mutex.
`NewestFrames` states what the queue promises without a queue. `sink` is a
history variable.

**PatternSimulation** uses the same `PipelineState` from a single thread, and
**CommandLine** starts it with what it made of the arguments. An argument is its
word, the numbers between its `x`s and its characters; a character is the value
of a hexadecimal digit or one of three classes. Input is read byte by byte up to
`read_limit`, so a file that grows after its length was checked and a pipe are
the same case. `observe`, `decode` and the ScreenCast query end in one of their
outcomes here; the steps of the first two are in `UsbObserver` and `Decode`. `PipelineState` has one capacity: a
simulation with another one is followed up to its checks.

**SessionManager.** A critical section is one step; notifications are separate
steps because they are sent after the unlock. libusb's reference counts and the
bus are external. The worker starts before `generation_` is initialised, as the
member order in the class makes it; a generation made from the uninitialised
value is no number a session may have.

**GuardedService.** The vendor's workers and callback are external, modelled
from what the guard intercepts. A process ends by the fence, by a crash, or by
a NULL handle that reaches libusb; systemd starts another. `readable` says
whether the guard can read the descriptor of a departed device, as it always can
since libusb 1.0.16; where it cannot, the vendor's callback may run in spite of
the fence. The load, `getenv` and store of `restart_fence_enabled` are one step,
because every thread stores the same value.

**EvdiGem.** Each kernel primitive is one step and each may fail. References to
the object decide who frees it.

**JpegScan / Decode.** The scanner goes marker by marker over real bytes;
packets are otherwise the header fields the code looks at. A packet that is read
as a list of modes has its payload row by row, and zero rows behind those given.
The scanner refuses the marker TEM everywhere, inside a scan too
(`protocol.rs:384`), and so does the reference it is compared with; the comment
at `protocol.rs:433` says TEM is "only meaningful inside entropy-coded scan data".

**Compressor / FrameLayout.** One step per external call. The scratch vector is
its length and its capacity.

**EvdiDeploy.** Module files are told apart by version and by passing the
scripts' checks. `Stop` is any failed command, signal or power loss; either
script may be run next, one at a time.

**CaptureCycle** follows the script.

**UsbObserver.** A poll reads the device list once, so it is one step. The bus
gives an arriving adapter any address that is free. A reset in place does not
show in the device list.

## Runs

The passing runs explore every reachable state of their instance; the two
violated ones stop at a counterexample.

| Run | Instance | What it shows |
|---|---|---|
| `pipeline_two` | 2 encoders (symmetric), capacity 2, counters saturate at 2, 2 generations, 3 sequence numbers | no stale or duplicated delivery, the queue keeps the newest, statistics add up, refinement of `NewestFrames` |
| `pipeline_one` | 1 encoder, capacity 2 | capture order at the sink; a panic does not strand the teardown |
| `session_manager` | 2 devices, 2 further arrivals | references balance, no session outlives its device unnoticed, clean and certain shutdown |
| `evdi_gem` | 3 threads | one shared mapping, valid while used, undone before release; the object is released |
| `guarded_service` | 2 workers, 3 pending events, fence on and off, descriptors readable or not | the fence precedes the vendor's cleanup and prevents every crash; the service recovers, even where a removal slips past the fence |
| `decode` | payloads of up to 4 pieces, up to 2 with metadata and padding | the end of the JPEG is the structural one; exactly the frames are accepted; the modes are the plausible rows before the trailer |
| `command_line` | option lists of up to 3 options, 10 sizes, texts of up to 5 bytes, capacity 2, up to 7 frames | options mean what was given; hexadecimal text is decoded whole or not at all; the summary is exact; the later checks never refuse what the first accepted |
| `compressor` | 5 dimensions, 6 buffer sizes | the buffer only grows by the allocation that can fail; TurboJPEG gets true sizes |
| `evdi_deploy` | 3 kernels, one of them installed later | no kernel without a module, complete rollback, only checked modules selected |
| `evdi_deploy_concurrent` | the same, kernel installation at any time | violated, see below |
| `capture_cycle` | one failing command, any signals | violated, see below |
| `usb_observer` | 2 ports, 3 addresses, 3 arrivals | a reconnected adapter gets a new generation, unless it is given an address that the last poll saw |

**Why the bounds suffice to be interesting.** Two encoders and two generations
let one encoder hold a frame across a generation change while the other
delivers; three sequence numbers overflow a queue of two and pass the point
where counters saturate. Two devices and two arrivals let a pointer be reused
after its session closed. Three threads let two race while a third holds the
mapping. Three arrivals let two adapters swap addresses, or one come back under
an address that a poll had found free. Four pieces hold a segment, a scan, a restart or stuffed byte and an
end marker. These are arguments, not proofs: what is proved beyond the bounds
is listed below.

The bounds `MaxPlugs`, `MaxPending`, `MaxArrivals`, `MaxGeneration`, `Pieces`,
`LongPieces` are constants, and so are the limits that the runs set lower than
the code: `StatMax`, `MAX_PATTERN_FRAMES` (7), `MAX_PATTERN_WORK_BYTES` (100),
`USIZE_MAX` (255) and `MAX_HEX_TEXT_BYTES` (4). A byte of text
below, at and above the limit is what tells the cases of `read_hex_text` apart,
and so it is with the work limit and the overflow. `CHECK_DEADLOCK FALSE` is used only
for the capture script and the observer, which end. Modules whose `TypeOK` is
in no run (`SessionManager`, `EvdiGem`, `GuardedService`, `Compressor`,
`EvdiDeploy`, `CaptureCycle`, `UsbObserver`) have it as documentation of their
variables; TLC confirms it on the same instances.

## Fairness

- `SessionManager`: weak fairness of both threads. `libusb_handle_events`
  returns after 250 ms, `libusb_open` and `libusb_close` are assumed to return.
- `EvdiGem`: weak fairness of each thread inside the driver.
- `GuardedService`: weak fairness of the threads and of the start;
  `Restart=always` with `StartLimitIntervalSec=0` justifies the latter.
- `Decode`: weak fairness of its one thread.
- `FramePipeline`: weak fairness of a running closure, and **strong** fairness
  of `begin_generation` taking the mutex. The second is an assumption about the
  platform: Rust's `Mutex` does not promise it. `TeardownNotStranded` thus says
  that poisoning strands nobody, not that the mutex is fair.

## Disagreements found

1. **Rollback and a concurrent kernel installation.** The script lists the
   patched kernels once. A kernel installed between that and `dkms remove` gets
   the patched module and escapes; the rollback still reports success. This
   rests on the model of DKMS (`AUTOINSTALL=yes`, `remove --all`).
2. **Capture script.** `restore_apparmor` is set after `aa-complain`. If that
   rewrites the profile and then fails, cleanup does not restore it. That
   `aa-complain` can fail so is an assumption about an external command.

The observer has a limit rather than a disagreement: an adapter that returns
between two polls under the address the last poll saw is taken for the old one.
`ReconnectIsNewGeneration` excludes exactly these arrivals (`aliased`).

## Proofs

| Module | Theorems |
|---|---|
| `FramePipelineProofs` | `TypeCorrect`, `QueueBounded`, `StatsAccount`, `NothingStale`, `GenerationOrder`, `Ownership`, `GenerationAdvances`, `CaptureOrder`, `Refinement` (`FramePipeline` implements `NewestFrames`) |
| `SessionManagerProofs` | `NoZombie`, `GenerationsFresh`, `DrainAlone`, `RefsBalanced`, `CleanExit` |
| `EvdiGemProofs` | `TypeCorrect`, `SharedMapping`, `MappedWhileUsed`, `BalancedRelease` |
| `GuardedServiceProofs` | `NoCrash` |
| `CompressorProofs` | `ScratchGrowsFallibly`, `CallIsSound`, `LayoutNeverOverflows`, `PatternInBounds`, `SquareInside`, `BarInRange` |
| `DecodeProofs` | `SpeedGuess`, `Types`, `StructuralEnd`, `ExactlyFrames`, `ModeList`, `RequestsParse` |
| `CommandLineProofs` | `WholeText`, `Lossless`, `AsGiven`, `Unreachable`, `ExactSummary` |
| `EvdiDeployProofs` | `Verified`, `ModuleEverywhere`, `Restored` |

Together they state every safety property that a passing run checks, action
properties and the refinement included, except `ReconnectIsNewGeneration` of the
observer, and `EvdiDeploy`'s under concurrent kernel installation, where two of
them do not hold.

The assumptions are the named `ASSUME`s of the modules: positive capacity and
saturation point, identifiers that are natural numbers, a finite and non-empty
set of devices, distinct markers. `PacketAssumption` says that a packet is bytes
and at least as long as its header and payload. `CommandAssumption` says that
arguments are UTF-8, and `SimulationAssumption` that the number of frames a
simulation may have does not saturate a `u64`. Three theorems have a hypothesis
beyond these, stated in them: `CaptureOrder` has one encoder, and
`ModuleEverywhere` and `Restored` have no kernel package installed while a
script runs (`~ Concurrent`).

What needs an induction over a payload or a text is proved by looking at a least
counterexample, which the well-foundedness of `<` on the naturals provides
(`Least`). Recursive functions are unfolded from a lemma that says they exist.

**Pipeline.** That frames are moved is not inductive: nothing in it keeps a
frame that was delivered from being submitted again. The invariant adds that
every frame which left the queue is *behind* it: of an earlier generation, or
with a number at most `last_sequence` and below all queued ones. `submit` only
accepts what is not behind, and no step brings a frame back. `GateInv` says a
running closure owns the mutex and its frame is of the active generation, hence
`NothingStaleAtSink`.

**Capture order.** What `try_take` hands out is newer than every frame behind the
queue, and the sink's frames are behind it. With one encoder the frame in its
hand is therefore newer than all that was delivered (`InOrder`). With two it is
not true: the one that took the newer frame may deliver first.

**Refinement.** In a queue in capture order the frames newer than the i-th are
those behind it, so dropping from the front keeps exactly the newest `Capacity`
frames. With the pipeline's invariant every step maps to an offer, a take or an
advance of `NewestFrames`, or leaves its variables as they are.

**SessionManager.** The properties speak of the whole system, the invariant of
where each event is:

- `Shape` and `Finished`: callbacks run only inside the two libusb calls,
  `stopping_` is set after the last of them, the worker ends only after that
  with an empty queue, and `main` waits for it. Hence `DrainUncontended` and
  most of `ExitIsClean`.
- `Numbering`: no event can reach the worker before `generation_` is
  initialised, hence `FreshGenerations`.
- `Stream`: queue, running callbacks and libusb's messages are one stream to the
  worker. For a device that is gone, every arrival in it and every session has a
  departure behind it. `NoZombieSession` alone says nothing of an arrival that
  has not been handled yet and would open the session later.
- `Balance`: a count per holder (libusb's list,
  enumeration, queue, worker, session) whose sum is the reference count, and at
  most one departure of a device between the bus and the callback. Without the
  latter the list could drop its reference twice.

**EvdiGem.** Mapping, counter and pin agree whenever the mutex is free; while
it is held they differ by what the owner's program counter says. A thread that
uses the mapping holds a reference, so no teardown can have begun. Once one
thread tears the object down every other is idle (`TearingAlone`).

**GuardedService.** With the fence on the cache never says "off". If descriptors
can be read as well (`FenceWorks`), no thread gets past the fence in a live
process. A handle that passed the NULL check is not NULL, with or without it.

**Compressor.** The invariant records what each step of `compress_bgrx`
established for the next.

**Decode.** `EndIsStructural` compares the scanner with a definition of a JPEG
that knows no cursor: a chain of segments and scans up to an end marker.

- A *boundary* is a position to which a chain of whole pieces leads from the
  start of the payload. `ScanInv` says that outside a scan the cursor is at a
  boundary, and inside one at a place reached from a boundary by bytes that do
  not end the scan.
- The piece that begins at a boundary is determined by the bytes there. Hence
  every JPEG the payload may hold goes through the scanner's boundaries: when the
  scanner finds an end there is no other, and when it fails there is none.
- `Types` follows from the checks before each read.
- `Verdict` says that `decode` reports what `EnvelopeLayout` makes of the end
  that was found. `ExactlyFrames` then needs `SpeedGuess`, since the code tries
  one packet size where the property allows two.
- `Collected`: the modes are the rows looked at so far, all plausible, and the
  next is none when the list is returned. `RequestPath` follows a built request.

**CommandLine, PatternSimulation.** Three invariants, each using the one before
it:

- `HexInv`: which command each control point belongs to, what the text is there,
  and that `pc = "decode"` is only reached with valid digits. That `format` undoes
  `Pairs` is arithmetic on each pair.
- `OptionInv`: when `parse_pattern_args` has read the options before place `p`
  (`Parsed(p)`), `rest` is the list from `p` on, `saw` the words before it and
  every field what its option says, or its default. At the end this is the
  reading by position of `Given` and `WellFormed`.
- `SimulationInv`: while frames are submitted the queue holds consecutive ones,
  as many as the capacity allows, and `dropped_capacity` counts those in front of
  them; while they are taken the report and the queue together are these frames.
  Both products of the size checks are compared there: the resident frames are at
  most all frames, so the second check cannot fail after the first.

**EvdiDeploy.** `Control` records what each script has established when it
arrives at a step; it holds whenever kernel packages come, and gives `Verified`.
`Alone` adds that a patched module in use has a build DKMS knows of (`Deployed`),
so that the rollback's list misses no kernel, and that kernels outside the list
or done with are clear of patched modules (`RollingBack`). `Deployed` does not
depend on where a script was stopped, which is why an interrupted run can be
followed by any other.

**Only model-checked:** liveness (`ShutdownCompletes`, `DepartureClosesSession`,
`ClosedIsReleased`, `ServiceRecovers`, `DecodeTerminates`,
`TeardownNotStranded`). It rests on fairness and `ENABLED`, which the prover does
not handle. The observer's `ReconnectIsNewGeneration` is checked by TLC alone as
well. `CaptureCycle` has no theorem: its one property is violated.

## What could be added

1. Ranking arguments for the liveness properties as safety theorems, such as
   that every step of `parse_jpeg_end` moves its cursor forward.
2. The guard's registration, once it is known what the vendor's binary does when
   it is refused.
3. A proof of `ReconnectIsNewGeneration`. Its invariant would say that an adapter
   whose arrival is not aliased and was not yet reported has an address outside
   `previous`, and that no report has a generation above the current one.
