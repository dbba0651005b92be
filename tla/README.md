# Verification of the magic screen (télécran) and of the Nios V software

The repository holds two FPGA projects for a DE10-Nano board: `telecran/`, an
electronic magic screen written in VHDL (README.md, first part), and
`tp_nios_v/`, a Nios V processor that drives LEDs from an accelerometer
(README.md, second part). This directory models the logic of both, checks the
models with TLC on small instances, and proves the main results with TLAPS.

## 1. The system: components, state, operations

| Component | State it keeps | Operations | What makes it hard |
| --- | --- | --- | --- |
| Rotary encoder decoder (`encoder_manager.vhd`) | two-bit synchronisers of A and B per knob, coordinates X and Y | a clock edge samples and counts; reset | contact bounce, reversal between any two quarters, saturation |
| Raster (`hdmi_controler.vhd`) | counters, active window, hs/vs/de, pixel address | a pixel clock edge; loss of the PLL lock | registers of different delays that must agree; wrap of the address; reset in mid-frame |
| Magic screen (`telecran.vhd`, `dpram.vhd`) | frame buffer, wipe automaton, coordinates | 50 MHz edge (pen or wipe writes), 27 MHz edge (raster reads), button, resets | two unrelated clocks on one memory; a wipe restarted or cut; a pen off the picture |
| HDMI transmitter configuration (`i2c/*.v`) | table index, GO/END handshake, bus writer | configuration clock edge, interrupt of the transmitter | two automata in lock step; acknowledge failure and retry; restart in mid-transfer |
| PLL (`pll/`) | generated IP | lock | not modelled, its lock is an input |
| JTAG UART driver (`altera_avalon_jtag_uart_*.c`) | two ring buffers with an index at each end, interrupt enables, host timeout count | read, write, ioctl, close, interrupt handler, one-second alarm | application and interrupt share the rings; lost wake-ups; host that goes away |
| JTAG UART peripheral (`altera_avalon_jtag_uart.sv`) | two FIFOs, interrupt enables, activity flag | bus accesses, host | what the driver sees of it |
| I2C master driver (`altera_avalon_i2c.c`) | retry counts, `IRQ_DATA_t`, the callback | polled and interrupt transfers, handler, status call | arbitration loss, refusal, timeouts, the order in which status is checked and cleared |
| I2C controller IP (`sopc/.../altera_avalon_i2c*.v`) | FIFOs, main automaton, sticky status, enables | register accesses, bytes on the bus | flush of both FIFOs on an error, an enable that comes while the machine is at work |
| Interrupt dispatch (`machine_trap.S`, `alt_irq_handler.c`, `alt_iic_isr_register.c`) | `mstatus`, `mie`, `mip`, handler table | register, enable, trap, dispatch | a source raised at any step of its own registration |
| Start-up (`crt0.S`, `alt_main.c`, `alt_sys_init.c`) | what is initialised so far | the steps from `_start` to `main` | interrupts between any two steps; a restart that leaves core and devices as they were |
| Application (`soft/app/main.c`) | accelerations, flip flag, LED pattern | start-up, polling loop, wipe animation | failed reads, hysteresis |
| File descriptors (`alt_open.c`, `alt_close.c`, ...) | descriptor table, highest descriptor used | open, close, fcntl, lock and unlock a device, redirect | exclusive locks found by scanning the table |
| Alarms (`alt_tick.c`, `alt_alarm_start.c`, `alt_llist.h`) | linked list, tick counter | start, stop, tick, callbacks that change the list | callbacks that stop alarms while the list is walked |
| Machine timer (`mtimer.c`) | 64-bit count and compare registers, two words each | read, set compare, interrupt | a carry between two reads, a match between two writes |
| Busy sleep (`alt_busy_sleep.c`) | start and end of a sleep | `alt_busy_sleep`, `usleep` | time read in two words while interrupts come |
| Device feature list walker (`intel_fpga_api_cmn_dfl.c`, `intel_fpga_api_cmn_inf.c`), which this build compiles and does not call (section 7) | stack of parents, table of interfaces | scan, open, close, cleanup | recursion twice over the same lists, a stack that grows by pieces |
| Other HAL calls, Nios V core, interconnect, build files, tutorials | | | not modelled (section 7) |

How they interact: the decoder gives the coordinates to the magic screen, which
writes the frame buffer that the raster reads; the configuration automaton
shares with them the reset only. In the second project start-up registers the
handlers of the I2C controller and of the JTAG UART and starts the timer; the
application then calls the I2C driver, `usleep` and `printf`, which goes through
the descriptor table to the JTAG UART driver. Handlers run between any two
instructions of the program, and alarms run in the timer's.

Hard behaviours by kind: two clock domains on one memory (magic screen); two
automata that answer one another a clock late (transmitter configuration);
interrupt handler, alarm and program on shared rings (JTAG UART); a handler that
clears what the program has yet to read (I2C driver); callbacks that change the
list they are called from (alarms); words read and written one at a time while a
counter runs (machine timer); interrupts and restarts during start-up; resets at
any moment (everywhere in `telecran/`); a full pool, ring or stack, a failed
`open()`; waits that must end.

What makes each component correct: the decoder loses no step but at the ends of
the range; the raster sends every cell at its place; the frame buffer holds the
trail of the pen and a wipe empties it; only whole table entries reach the
transmitter, each of them, and the table gets done; bytes go through the JTAG
driver once and in order, and calls return; an I2C call that reports success
took place, and leaves the controller ready for the next; no interrupt finds its
handler missing; the lamps are wiped once per turn of the board; no descriptor
is lost or given out twice and locks are respected; the alarm list is exact and
no alarm overdue or early; a time read was the time, no tick comes early and a
sleep is as long as asked; a scan collects the interfaces it counted.

## 2. Modules and what they stand for

| Module | Models | Remarks |
| --- | --- | --- |
| `Pen` | abstract: coordinates that follow shafts | specification of the decoder |
| `EncoderManager` | `telecran/encoder_manager.vhd` | `Clock` is one edge of both clocked processes, `Reset` the asynchronous reset; `Turn` is the hand |
| `HdmiControler` | `telecran/hdmi_controler.vhd` | `Tick` is one edge of the five processes, each reading the registers before the edge |
| `VideoLink` | raster, port B of `dpram.vhd`, receiver | the receiver knows only hs, vs and de |
| `MagicScreen` | abstract: a set of lit cells, a pen, a wipe | specification of the top level |
| `Telecran` | `telecran/telecran.vhd`, `dpram.vhd`, with `HdmiControler` | extends the raster; `Clk50` and `Clk27` are the two domains |
| `HdmiConfig`, `HdmiConfigProps` | `telecran/i2c/*.v` and its properties | `ConfigTick` is one edge of the divided clock for both automata, with an action for each state of the writer; the bus is decoded by a modelled transmitter |
| `BytePipe` | abstract: a bounded byte queue | specification of each direction of the driver |
| `JtagUart`, `JtagUartProps` | `altera_avalon_jtag_uart_*.c`, its properties and refinement mappings | one action per access to shared state; device and host are actions too |
| `I2cController` | `altera_avalon_i2c_mstfsm.v`, `_csr.v`, `_fifo.v` | one action per byte on the bus; a monitor compares the bus with the transfer asked for |
| `I2cDriver` | `altera_avalon_i2c.c` | extends the controller; one action per access to a register that another actor changes |
| `Interrupts` | `machine_trap.S`, `alt_irq_handler.c`, `alt_irq.h` | trap entry, the two loops of the dispatcher, `mret` |
| `Boot` | `crt0.S`, `alt_main.c`, `alt_sys_init.c`, `alt_iic_isr_register.c` | extends `Interrupts`; `Script` is the order of the steps |
| `AccelerometerApp` | `soft/app/main.c` | an I2C call gives bytes or an error |
| `NiosSystem` | the three above composed | restarts touch all three |
| `Mtimer` | `mtimer.c`, `alt_busy_sleep.c`, the time stamp of `mtimer.c` | one action per access to a word of the timer |
| `Alarms` | `alt_tick.c`, `alt_alarm_start.c`, `alt_llist.h` | one action per element the walk passes |
| `SystemClock` | timer, alarms and one program composed | the timer's handler calls `alt_tick`; time goes on in it |
| `FdPool` | `alt_open.c`, `alt_close.c`, `alt_get_fd.c`, `alt_fd_lock.c`, `alt_fcntl.c`, ... | one action per call, which nothing interrupts |
| `DflWalker` | `intel_fpga_api_cmn_dfl.c`, `intel_fpga_api_cmn_inf.c`, `intel_fpga_platform_api_niosv.c` | one action per call or return of the recursion |
| `EncoderManagerProofs`, `TelecranProofs`, `FdPoolProofs`, `SystemClockProofs`, `NiosSystemProofs`, `JtagUartProofs`, `I2cDriverProofs`, `DflWalkerProofs` | theorems | section 6; `TelecranProofs` is about `VideoLink`, `Telecran` and `HdmiConfig` |
| `MC...` | instances for TLC | the other runs name the specification itself |

How state and actions correspond to the code:

* VHDL and Verilog signals keep their names, and an action is a clock edge: the
  processes of a clock are conjuncts, primed variables are what the registers
  hold after the edge. An asynchronous reset is an action that may come between
  any two edges.
* `EncoderManager`: the four two-bit registers are functions of the knob. The
  history variable `sample` remembers which shaft positions the two bits show;
  the refinement mapping needs it to say what the pen has accounted for.
* `Telecran`: the decoder is replaced by what `Pen` allows a coordinate to do at
  an edge (`Near`), which `NextCoordNear` proves of the decoder. The memory is
  the set `lit` of cells that hold `x"FF"`; it has no initial value and no reset.
* `HdmiConfig`: the table is the one of the code. `bits` and `written` are what
  the transmitter has shifted in since the last start, and the last write it
  acknowledged in full. A byte is acknowledged or not as `acking` says, which
  changes at every edge.
* `JtagUart`: `pc` and `isr` say where the program and the handler are, `arg`
  and `ctl` hold their locals. Program steps need the handler to be idle. Places
  where the code turns interrupts off are one step. `use` is the direction the
  program uses: the two directions share the interrupt enables and nothing else.
  No behaviour of the model uses both. A `timeout` of `INT_MAX` says that the
  one-second alarm was refused at start-up: `Alarm` and `SetTimeout` are then
  without effect for good.
* `I2cController`, `I2cDriver`: `plan` is the sequence of bus symbols the call
  stands for and `seen` how many of them the bus has shown since its START, -1
  once it showed others. `mishap` remembers what went wrong in this attempt:
  a refusal (`NACK`), lost arbitration (`ARB`), a byte that found the FIFO full
  (`OVER`), and a wait that was given up while the machine was at work (`LATE`).
  A data byte is its place in the buffer, so that a byte doubled or passed over
  shows; a received byte is TRUE while it belongs to the present call.
  `retry = 10000` is `MaxRetry`.
* `Interrupts`, `Boot`, `NiosSystem`: `trap` is the place in `handle_trap`;
  `"lost"` is a jump through an empty entry of the table. `mip` has the sources
  raised; a handler lowers its own. A restart is a program loaded again by a
  debugger, which leaves the enables of the core and the lines of the devices.
* `AccelerometerApp`: `turns` counts how often the samples moved from one side
  to the other, without hysteresis of its own: a sample between the thresholds
  shows no side. `wipes` counts animations begun; both are taken modulo
  `MaxTurns`.
* `Mtimer`: words have `Base` values instead of 2^32; `main` and `isr` are the
  labels between accesses, `mloc` and `iloc` the locals.
* `Alarms`: the two links of a node are two functions. A callback does nothing,
  starts an alarm or stops one, and returns any period. In `SystemClock`,
  `promise` is the time before which an alarm must not be called back.
* `FdPool`: a descriptor is its device and its flags; looking a name up is a
  choice of a device, whose own `open` may fail.
* `DflWalker`: a header has the next header and its blocks, of which some branch.
  Link 0 is the next header, link i is block i, and the list is a tree (`IsTree`).
  `calls` is the recursion, `head` and `top` the stack of parents, `heap` the
  allocations not given back: of the stack, the table and each interface.

Outside the source, and modelled as far as the code depends on it: the shafts
and the button, the PLL's lock, the HDMI transmitter as I2C slave and as
receiver of the picture, the JTAG host, the target and the other masters of the
I2C bus, the user's callbacks, the counter of the machine timer (its RTL is
encrypted), the interrupt entry of the core.

## 3. Runs

| Run | Instance | Question |
| --- | --- | --- |
| `encoder` | two knobs, three coordinates, shafts of eight quarters | do bounces, reversals, saturation and resets ever lose or invent a step (`FollowsShaft`), and does the decoder come to rest (`CatchesUp`) |
| `video_link` | 4 by 3 pixels, porches and pulses of 1 and 2 | is every cell sent at its place (`PictureAligned`), in whole lines (`WholeLines`), with blank blanking (`BlankDuringSync`), again and again, after any reset |
| `telecran` | 2 by 2 pixels, pen range of 3, 5 bus addresses | does the frame buffer behave as a magic screen under any interleaving of both clocks, button and resets (`IsMagicScreen`, `SweptCellsAreOut`); do wipes end; is what stays lit shown |
| `telecran_mux` | the same | violation: the pen leaves the picture (section 5) |
| `hdmi_config` | the real table of 31 entries | are entries passed over, torn or invented when bytes are refused, the board is reset or the transmitter asks for a restart; does the table get done |
| `jtag` | rings of 3, FIFOs of 2, timeouts 2 and for ever, the alarm granted or refused | is a byte lost, doubled or stranded in either direction (`TxIsPipe`, `RxIsPipe`, `TxNeverStranded`); do `write()` and `close()` return, is a waiting reader woken |
| `i2c` | FIFOs of 2, one retry, each operation polled and by interrupt | does success mean that the transfer took place (`HonestSuccess`, `HonestStatus`); is the controller left ready (`RestsClean`); are timeouts the bus's fault (`TimeoutHasCause`); does a transfer left to the handler end (`IrqEnds`) |
| `system` | 3 interrupts, 1 restart, samples on both sides of both thresholds | does an interrupt find its handler missing at any step of start-up (`NoStrayCall`); is all enabled in main (`ReadyInMain`); one wipe per turn; do traps end |
| `clock` | words of 4 values, period 2, 5 units of time, 2 alarms, a sleep of 2 | is a time read whole, a tick early, the list exact whatever callbacks start during a walk, an alarm passed over or early, a sleep short; does every tick end |
| `alarms_stop` | 2 alarms, 9 units of time, callbacks that stop alarms | violation: a stopped alarm is called back (section 5) |
| `fd_pool` | 6 descriptors, 3 devices, two access modes | are descriptors lost or given out twice, locks ignored or held twice, rights other than those asked for |
| `dfl` | every tree of 4 headers, pieces of 4 for the stack | does the second pass find what the first counted (`TableMatchesList`), do the arrays hold (`StackHolds`), is all memory given back (`NoLeak`) |

Why the bounds are enough. The decoder looks at two samples of a knob and at the
two ends of the range: three coordinates have both ends and an inside, eight
quarters turn past both. The knobs do not interact. The raster's behaviour
depends on the order of its boundaries only; the porches differ from the sizes
in `video_link`, so that a confused constant shows. A 2 by 2 picture has first
and last cells, line ends and, with a pen range of 3, a pen outside it on both
axes; one bus address lies beyond the memory. A ring of three has a free slot, a
wrap and two bytes, so a copy in two pieces occurs; alternating bytes tell
neighbours apart in a ring of odd length; a FIFO of two fills up and has a
threshold inside. In `i2c` one call receives a byte more than the FIFO holds, so
that requests and bytes are both at their limit, and one retry is a first and a
last attempt. In `system` three interrupts are two pending at once and one
raised while they are served; a restart may come at any of the 18 steps, and in main. The samples are
the values next to each threshold on either side and both ends of the level. Two
alarms are the one called and the one the walk saved; a word of four values
carries within five units, and so does the time a sleep ends at. Six descriptors
are three besides the standard streams: two of a device, and one of another or
free. Four headers nest three deep, which with pieces of four reaches the last
place of the stack and the one after it. `MaxTime`, `MaxPeriod`, `MaxShaft`,
`MaxCount`, `MaxRaises`, `MaxRestarts`, `MaxTurns` and `MaxRetry` bound
behaviours, not the code.

Deadlock is looked for except in `clock` and `alarms_stop`, where time stops at
`MaxTime`, and in `dfl`, where a walk that left its arrays does.

Every property of a passing run has a mutant: a plausible slip in a definition,
kept beside the definition in the module, under which TLC finds the property
violated. The type invariants (`TypeOK`, `TelecranTypeOK`, `ControllerOK`) hold
on the same instances; those of the modules with proofs are part of the
inductive invariants.

## 4. Fairness

* Oscillators run: weak fairness of `Clock`, `Clk50`, `Clk27` and the
  configuration's `ConfigTick`. Resets, turns, presses and the PLL are not fair.
* The liveness of the picture, of a wipe and of the configuration supposes that
  resets stop, for each reset starts them over; the wipe also that the button is
  released, for a held button restarts it at every edge; the configuration also
  that the transmitter acknowledges from some time on.
* JTAG UART: the processor serves pending interrupts (`Isr`), the timer's alarm
  and the call in progress (`AppSteps`). A connected host fetches what the FIFO
  holds and keeps polling; whether it types is its own affair. `WriterReturns`
  and `ReaderWakes` suppose that the host stays connected in the end, or stays
  away while the timeout is finite: with the timeout of `INT_MAX - 1`, or with
  that of `INT_MAX` of a driver without its alarm, which is what this build
  has, the code waits for a host that is away, as it says.
* I2C: weak fairness of the program, of a handler once it runs, and of the bus,
  on which no target stretches a byte for ever. Taking an interrupt is strongly
  fair: the status call switches the enables off and on again, so an interrupt
  is pending infinitely often rather than all the time.
* `system`: weak fairness of the program and of the trap. `TrapEnds` is about a
  number of interrupts bounded by `MaxRaises`: a device that never stops raising
  its line keeps the dispatcher in its loop for ever, as the code has it.
* `clock`: a handler, once entered, runs (`TimerSteps`, `TickSteps`). Neither
  time nor the program is fair.
* `video_link`, `fd_pool` and `dfl` have safety properties only.

## 5. Disagreements between the code and what is said of it

Checked by a run of their own:

* `telecran_mux`: the address multiplexer is declared for the 720 by 480
  picture (`telecran.vhd:121`), the coordinates saturate at 1023
  (`encoder_manager.vhd:27`). Simulation stops; in hardware a pen off the
  picture writes to a cell of another place. `MagicScreen` allows this one pixel
  per step and nothing more, and the refinement holds with it.
* `alarms_stop`: `alt_tick` saves the next alarm before a callback; when the
  callback stops that alarm it is called back after it was stopped, and as it
  then points to itself the walk does not end. The run `clock` therefore takes
  callbacks that start alarms and end themselves, but stop no other.

Shown inside a passing run, where the property says how far the promise holds:

* After a reset the first table entry of the transmitter is passed over on an
  `END` that belongs to no transfer, because the writer holds `END` high when
  idle (`I2C_WRITE_WDATA.v:33`). `EntryWritten` holds from the second entry on;
  entry 16 repeats the first.
* The done table goes on sending its last entry, since the writer starts on `GO`
  low (`I2C_WRITE_WDATA.v:96`), and a restart by interrupt in the middle gives
  the transmitter a write that mixes two entries: `Torn` in `OnlyTableEntries`.
* `alt_fd_lock` does not look at the descriptor at the high water mark
  (`alt_fd_lock.c:61`) and grants a lock beside it, against its comment
  (`alt_fd_lock.c:44-46`). `Lock` in `FdPool` does the same; `OneLocker` says,
  and section 6 proves, that two locks never result.
* The I2C driver looks for lost arbitration after every command but not after
  the last (`altera_avalon_i2c.c:681`): a transfer that loses the bus there
  reports success. `HonestSuccess` excepts `ARB` for it.
* Under interrupts the handler clears the sticky bits before anybody reads them
  (`altera_avalon_i2c.c:108`), and a refusal, which empties the command FIFO,
  raises that very interrupt. The status call then reports success, where
  `altera_avalon_i2c.h:1153-1163` promises a refusal. `HonestStatus` excepts
  `NACK` and `ARB` for it and so does not catch it: it says that nothing else
  makes the status call report a transfer that did not take place.
* Under interrupts, too, a reception of more bytes than the FIFO holds overruns it,
  since all requests are queued before the first byte is taken
  (`altera_avalon_i2c.c:919`), and one that loses arbitration has its bytes
  flushed: both leave the transfer `BUSY` for ever. `IrqEnds` excepts these
  mishaps and so does not catch them.
* A wait for the end of a transfer is given up after a number of readings. If
  the machine is still at work then, it stays so, misses the next enable and
  takes the next call's commands for its own: `LATE` in all I2C properties.
* The stack of parents is tested for room before a push and grows one push too
  late, so a list nested one short of a piece runs over its arrays
  (`StackHolds`: nesting 7 with the pieces of 8 of the code). A second branch of
  the same interface gets the last interface found under the first one as its
  parent (`TableMatchesList`).

Seen while translating, with no property of their own: README.md:56-58 counts A
falling with B high, where the code counts B falling with A low (the README's
rule is the mutant `StepUpReadme`, which `FollowsShaft` refutes);
`o_x_counter` and `o_y_counter` run from 1 while pixels are sent
(`hdmi_controler.vhd:138` says 0); the next tick is counted from the handler's
reading of the time, so interrupt latency adds to the period
(`mtimer.c:65-70`); `alt_nticks` loads 64 bits in two words with interrupts
enabled (`alt_alarm.h:112`); data still available after a receive means a full
ring only most of the time (`altera_avalon_jtag_uart_init.c:157-160`), because
RVALID and RAVAIL are sampled a clock apart; a `write()` that waited gives up as
soon as the host has been quiet for a second, although the loop waits for the
timeout (`altera_avalon_jtag_uart_write.c:179`, `:183`); `alt_sys_init` starts
the JTAG UART before the system clock, so that `alt_alarm_start` refuses the
one-second alarm for want of a tick rate (`alarm_started` stays FALSE in `Boot`,
`Refused` in `JtagUart`) and a `write()` with a full ring waits for a host that is
away for ever;
`alt_irq_handler` searches without end when a line is withdrawn before it looks
(`alt_irq_handler.c:182-206`), which no device of this system does once its
handler is the only one to serve it; the 32-bit product of `alt_busy_sleep`
wraps beyond 85 seconds at 50 MHz (`alt_busy_sleep.c:100`), which `Sleeps`
excludes and no caller comes near.

## 6. Theorems

All are proved by `tlapm` from the assumptions on the constants alone
(`MaxCoordAssumption`, `MaxShaftAssumption`, `GenericsAssumption`,
`TelecranAssumption`, `FdPoolAssumption`, `MtimerAssumption`, `AlarmsAssumption`,
`JtagUartAssumption`, `DepthAssumption`, `CallsAssumption`, `AppAssumption`,
`DflAssumption`), which TLC evaluates on the instances, and where a theorem says
so from `~CallbackStops` or `BothSizes`, explained with it.

* `EncoderManagerProofs`: `TypeCorrect` and `Refinement`, that the decoder
  implements `Pen` (the formula `FollowsShaft`) for every number of knobs and
  range. The inductive invariant `IndInv` adds to the types what the registers
  remember of the shaft (`Remembers`): bit 1 shows the position before, bit 0
  the last one, and they are at most a quarter apart. Without it nothing links
  registers and shaft. The heart is the lemma `QuarterTurn`: for neighbouring
  positions the decoder's rule is the difference of the ideal coordinates,
  clamped.
* `TelecranProofs`, first part: `BlankTheorem`, `AlignedTheorem`,
  `WholeLinesTheorem` and `AddressTheorem` for all generics, the 720 by 480 of the board included. Every
  register of the raster is a function of the two counters, each with its own
  delay, and so is what the receiver has counted once it has seen its first
  pulses after a reset; the invariant gives these functions. None of the
  properties is inductive without them: they relate registers that are set a
  clock, a line or a frame apart.
* `TelecranProofs`, second part: `SweepTheorem`, the cells behind a running sweep
  are out, and `ScreenRefinement`, the frame buffer implements `MagicScreen`
  (`IsMagicScreen`), for every picture, pen range and bus. The invariant
  `DrawInv` is the types of the 50 MHz domain with `SweptCellsAreOut`; the wipe
  ends at the last cell, so what lies behind it is then the whole picture. The
  raster appears nowhere: it only reads.
* `TelecranProofs`, third part: `WritesAreEntries` and `AdvancesWhenWritten`, the
  two safety properties of the transmitter configuration (`OnlyTableEntries`,
  `EntryWritten`), and `ConfigTypeCorrect`. Neither is inductive: what the
  transmitter takes is decided by 27 clocks, each with an address of its own in
  the writer's state. `Shifted` follows a byte through the nine-bit register:
  after c clocks the c bits on the bus and what is left of the register make up
  the byte, one equation for each c, and one clock takes each equation to the
  next (`NextBit`). The words are loaded byte by byte, so `SendsHigh` and
  `SendsLow` say which word a byte belongs to (`Loaded`): an entry, or after a
  restart in between the torn word. `Steady` ties it to the entry the table asks
  for, `Together` bounds what the table may do while the writer is in a given
  state (it leaves `ACK_OK` and `END_OK` of the transfer before for one edge, which
  must not be taken for an answer), and `Parked` says what a reset in the middle
  of a bit leaves to be clocked in once more. The table enters only through
  `TableTyped`, that it is not empty and its words have 16 bits: the proof holds
  as it is when its values are changed, which the run, exhaustive for the
  table of the code, does not show.
* `FdPoolProofs`: `PoolTheorem`, `OneLockerTheorem`, `OpenTheorem` and
  `RightsTheorem` for every pool and set of devices. `OneLocker` is not
  inductive, because `alt_fd_lock` misses a descriptor; what saves it is
  `LockerIsLowest`: a locked descriptor is the lowest of its device, and
  `open()`, which looks at all, adds none. With it go the relations of flags and
  mark (`Marked`, `LockedIsDev`) and of the start-up (`BootMark`, `BootClosed`).
  A descriptor has the rights it was opened for because `fcntl` keeps them and
  a closed one is cleared before it is given out again.
* `SystemClockProofs`, for every word size, period, set of sleeps and set of
  alarms, in four parts.
  `ReadTheorem`, `NeverEarlyTheorem`, `SleepTheorem`, the timer. `Reading`: the
  high word read is at most that of the time, the low word belongs to a time
  since the reading began, and it is one time when both high words agree.
  `Compare`: between the writes of the compare register its high word is the
  greatest, so that it lies beyond every time; outside them it is the goal the
  handler computed. `Sleeping`: the start of a sleep is not after what the loop
  subtracts it from.
  `ListTheorem`, the list, whatever callbacks start or stop. `Linked` gives each
  element a rank that falls along `next` from the head, each element's successor
  being the next rank below: `alt_llist_insert` puts the new alarm under a raised
  head, `alt_llist_remove` closes a gap, and an element left over would have no
  least rank. No walk is counted and no induction over the list is needed, which
  is why `ListIsExact` says "every set that holds the head and the successors of
  its members holds the list" where a loop would follow `next`.
  `NoneOverdueTheorem`: `Ahead` says every alarm due at this tick and not passed
  ranks at or below the element the walk goes to next. An alarm a callback starts ranks
  above and is due later.
  `AlarmTheorem`: `Waits` bounds each promise by the ticks still to come, counted
  from a time (`From`) that depends on where the timer's handler is: the goal
  between its words, the time of the interrupt while it computes the next one.
  The last two assume `~CallbackStops`, as the run does: with it the program
  breaks them, which `alarms_stop` shows.
* `JtagUartProofs`, for every ring length, FIFO depth, threshold and timeout:
  `JtagTyped`, `JtagNeverStranded`, and the two refinements `JtagTransmits` and
  `JtagReceives`: each direction is a byte pipe (`TxIsPipe`, `RxIsPipe`). The
  invariant holds at every access to the shared state: `WritePiece` says what
  `write()` fills between `tx_in` and the end is free and stays so while the
  handler runs (it only takes away), `ReadPiece` that what `read()` copies stays
  held (the handler only adds), `Awake` that the handler switches transmit
  interrupts off only with an empty ring or while `write()` is about to switch
  them on. For the refinement a ring's content is the sequence of its `Place`s;
  the lemmas say what one byte or one piece more or less does to it, over the
  wrap too, and every step of the driver is then a put, a get or a stutter of
  `BytePipe`.
* `I2cDriverProofs`, for every depth of the FIFOs and every set of calls:
  `HonestSuccessTheorem`, `HonestStatusTheorem`, `RestsCleanTheorem` and
  `TimeoutTheorem`, all from one invariant, `Strong`. None of the four is
  inductive: each speaks of a call that has returned, and nothing in that state
  says how the bus got there. `CommandOf(c, j)` is the j-th command of a call as
  the controller should get it, and `Flow(c, w)` says where w written commands
  are: the last ones in the queue, the one before in the machine, the earlier
  ones done. From that place alone follow the symbols the monitor must have seen
  (`SeenAt`) and the bytes that must have come (`Arrived`). `Held` adds what the
  program took: bytes taken and bytes waiting are those that came (`Exact`), or
  fewer once the FIFO overran. Every step of the program, the handler and the bus
  moves this relation along (`WriteFlow`, `FlowStep`, `TakeCarries`); after a
  refusal or a lost arbitration it is replaced by `Aborted`, empty queues and a
  machine on its way to rest. `Working` is this with the place in the code,
  `Run` the same for a transfer the handler ends while the program does something
  else, `Between` says the controller is `Quiet` when there is none, and `Mine`
  tells which of them applies. `Always` is what holds without them: who may enable
  interrupts, and that no transfer begins while another is left to the handler.
  Everything else holds until a wait is given up with the machine at work
  (`Late`), and again from the first call that finds the controller clean.
  `BothSizes`: a call that sends and receives has bytes for both, as every call of
  the application has (`main.c:57`, `main.c:62`), and `MCCalls` in the run. Without it the driver breaks the
  properties (section 7).
* `NiosSystemProofs`: `NoStrayCallTheorem` and `ReadyTheorem`, for any number of
  interrupts and restarts, and `OneWipeTheorem` with `LevelInRange` for any
  samples. The invariant of start-up says what each place of `Script` has
  achieved: a source is enabled only with its handler in the table, the BSS is
  cleared only with all sources disabled, and within the locked sections
  interrupts are off and `context` remembers that they were on. For the
  application `wipes = turns` except between a sample and the decision about it,
  where the flag and the side shown tell whether a wipe is due.

* `DflWalkerProofs`: `TableTheorem`, `StackTheorem` and `LeakTheorem` for every
  tree of lists, of any size and nesting, and every piece of the stack. The tree
  is what `DflAssumption` says of a memory (`IsTree`): every header but the first
  is linked once, and each can be reached. No other memory is walked to an end
  with each header met once. The recursion needs no induction over its depth: `Walk(l, V, c)`
  relates the headers met so far (`V`), the frames of the recursion (`c`) and the
  tree. What is ahead of a frame has not been met (`Ahead`), nothing behind one is
  left out (`Forward`), a header is met only after the one that links to it
  (`Back`, `Entered`), and the frame under another is the one whose branch leads
  to its list (`Owners`). One lemma per step of the recursion shows that it keeps
  this; once no frame is left, `V` holds the first header and whatever its members
  link to, so it is everything (`WalkEnds`). Both passes keep the same relation,
  which is why the second fills the table that the first measured and never
  writes beyond it. `Parents` and `LastEntry` say what the stack and
  `s_interface_index` know of the owner of a list; a frame for which the stack has
  no place closes a chain of `Owners` as long as a piece. For the heap, each entry
  owns what `set_parameter_properties` allocated for it. "Under" and "in the list"
  are stated by closed sets, as for the alarms, so no definition recurses.

Only model-checked: all liveness, which the prover cannot do under fairness:
`LitIsShown`, `WipeEnds`, `CatchesUp`, `ConfigEnds`, `WriterReturns`, `ReaderWakes`,
`TickReturns`, `IrqEnds` and `TrapEnds`. Every invariant and every action property
of a passing run is a theorem.

## 7. Not modelled

* Metastability of the synchronisers (README.md:73): a sample is a bit. A hand
  slow against 50 MHz (`SlowShaft`) is an assumption on the environment.
* Which cell a write beyond the memory hits: any, or none.
* What a compiler does to plain stores: the order of the source is kept
  (`tx_buf` is not volatile). The semaphores of an RTOS build: they are empty
  here.
* Callers' errors that the code does not guard against: `close()` of a closed
  descriptor, an alarm started twice, a transfer begun while another is left to
  the handler. Nor an alarm stopped that was never started, whose null links
  `alt_llist_remove` would follow (`alt_llist.h:107-117`): in `Alarms` it points to
  itself, so that to stop it changes nothing.
* I2C: ten-bit addresses and general calls, which no caller uses; the speed
  registers; `tx_rx` with no byte to receive, which leaves the bus held, or none
  to send, which never takes it. A byte on the bus is a step: shift registers, clock counters,
  condition generators and spike filters of the controller are vendor IP below
  what the driver can tell apart. The accelerometer is a source of samples.
* Interrupts: exceptions, which stop in a debugger; saving of registers; the
  vectored controller (`alt_vic_isr_wrapper.c`), which is not built.
* Start-up: stacks, caches, `alt_load`, constructors; `exit` after main, which
  does not return.
* The list walker: lists that loop, allocations that fail (the program ends),
  the decoding of a header's fields and the printed report. `DflWalker` is of the
  library as a program would use it: `system.h:170` sets
  `INTEL_FPGA_USE_DFL_WALKER` to 0, which empties
  `intel_fpga_platform_api_niosv.c` (`fpga_platform_init`,
  `fpga_platform_cleanup`), and nothing else in this build calls the walk.
* Other HAL calls: `alt_gettod`, `alt_settod` and `times` add ticks to a stored
  offset, `sbrk` moves a pointer, `lseek`, `fstat`, `isatty` and `find_dev`
  forward or search a list. Code this build leaves out: logging
  (`alt_log_printf.c`), profiling (`alt_gmon.c`, `alt_mcount.S`), DMA and flash
  interfaces.
* Generated and encrypted IP: PLL, Nios V, interconnect, reset controller, the
  top level, which wires pins.
* `chenillard.txt`, `Led .txt`: tutorials of one counter each. Documents,
  pin files, build products.

How much of the source the models stand for. By line count most of the
repository's C is the Altera BSP: three fifths of its lines are licences,
comments and blank, and of the rest a large part is register macros, prototypes, headers of devices
this system has not got and the files above that the build leaves out. What the
program runs and has state to get wrong is in the modules: drivers, interrupts,
start-up, clock, descriptors, walker and application, and all the hand-written
VHDL and Verilog of the magic screen.

## 8. Plan

Done, in this order: decoder, raster, magic screen with its composition; JTAG
driver; transmitter configuration; descriptors; alarms; machine timer and busy
sleep, composed with the alarms; I2C driver on its controller; interrupts,
start-up and application, composed; list walker. Proofs of the decoder, the
raster's link, the magic screen, the transmitter configuration, the descriptors, the timer with the alarms and
the sleep, the JTAG driver, the I2C driver, the Nios system and the list walker.

Next:

1. The bit level of the I2C controller (`_condt_gen`, `_txshifter`,
   `_rxshifter`, `_condt_det`) with two masters on a wired-and bus, as an
   implementation of `I2cController`.
2. `alt_settod` and `alt_gettod` in `SystemClock`, whose two stored values are
   read while the ticks go on.
