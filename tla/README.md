# A verification of frame_buffer

The repository is a frame buffer on an FPGA: a Nios II processor draws into two
buffers in SDRAM, a DMA reads the one that is shown, a pipeline of Avalon-ST
components turns its pixels into a scan of 800 by 600, and an HDMI transmitter
sends it. The processor runs a demonstration on top of the drivers and the
hardware abstraction layer (HAL) of a board support package. This directory
holds TLA+ modules of those parts, translated from `src/`, TLC configurations
that check them on small instances, and proofs, checked by TLAPS, of what
matters most for every value of the parameters.

- [The system](#the-system)
- [What can go wrong](#what-can-go-wrong)
- [Modules](#modules)
- [Runs](#runs)
- [What the models assume](#what-the-models-assume)
- [Fairness](#fairness)
- [Proofs](#proofs)
- [Where the code disagrees with what is said of it](#where-the-code-disagrees-with-what-is-said-of-it)
- [Not modelled](#not-modelled)
- [What is left](#what-is-left)

`V/` stands for `src/sopc/synthesis/submodules/`, `BSP/` for
`src/software/test_frame_buffer_bsp/`, `HAL/` for `BSP/HAL/src/`.

## The system

```
 main.c, simple_graphics.c                        120 MHz (altpll c0)
        | draw            | swap, poll
        v                 v
 SDRAM controller <--- pixel buffer DMA -> RGB resampler -> scaler -> dual clock buffer
   and chip   ^ read      400 x 300, 16 bit    8 bit      800 x 600        |
        ^     |                                                     40 MHz (c2)
        +-- interconnect: processor and DMA                                v
                     serializer <- TMDS encoders <- RGB8_RGB24 <- video sync generator
                   200 MHz (c3)    HDMI_ANY (own counters)

 program -> files -> JTAG UART driver -> JTAG UART -> host
   ^          timer -> alarms, time of day, profiler's sampler
   +------- exceptions and interrupts
```

| Component | Keeps | Does |
|---|---|---|
| pixel buffer DMA, `V/sopc_video_pixel_buffer_dma_0.v` | an FSM of four states, two buffer addresses, the swap request, a count of pending reads, the address of the next pixel, a FIFO of 128 pixels | reads the front buffer pixel by pixel while the FIFO is neither almost full nor too many reads are pending; marks the first and last pixel of a frame; exchanges the buffers when the last pixel is accepted |
| its driver, `BSP/drivers/src/altera_up_avalon_video_pixel_buffer_dma.c` | its own copy of the two addresses | asks for a swap and exchanges its copies at once; polls; draws boxes, lines and pixels |
| `simple_graphics.c`, `main.c` | the circle, the place and direction of a text | draws everything twice, once per buffer, swapping in between |
| SDRAM controller, `V/sopc_new_sdram_controller_0.v` | two FSMs, a FIFO of two requests, the request looked at last, a refresh timer | opens rows, serves requests in order, closes and refreshes |
| interconnect's multiplexer, `V/sopc_mm_interconnect_0_cmd_mux*.sv` | the grant, a packet in progress, a round-robin pointer | lets one master's packet at a time through to a slave |
| RGB resampler | one output register | five, six and five bits of colour become three, three and two |
| scaler: `multiply_height`, `multiply_width` | a FIFO of one line and one word, counters of the line in and the line out, which copy is sent | sends every line twice and every pixel twice |
| dual clock buffer | a dcfifo of 128 words | crosses from the system's clock to the pixel clock |
| video sync generator | a column and a row counter | takes a pixel whenever one is displayed; holds the first pixel of a frame until its place comes |
| `HDMI_ANY`, `src/hdmi_any.v` | a second pair of counters | decides by them what is sent as picture and where the sync pulses are |
| TMDS encoders | the running balance | a byte becomes ten bits |
| serializer | a count of five, two shift registers | sends two bits per edge of the 200 MHz clock |
| JTAG UART and driver, `BSP/drivers/src/altera_avalon_jtag_uart_*.c` | two rings, a copy of the interrupt enables, the seconds of the host's silence | read, write, ioctl and close beside an interrupt routine and an alarm; or, in the small build this BSP selects, by polling |
| video DMA controller driver, `BSP/drivers/src/altera_up_avalon_video_dma_controller.c` | the registers as they were at start-up | draws in every width of a pixel and both addressing modes; compiled, but no device of this system uses it |
| HAL: files, `HAL/alt_open.c` and others | the table of descriptors, a semaphore | open, close, exclusive access, redirection at start-up |
| HAL: interrupts and exceptions, `HAL/alt_exception_entry.S`, `alt_irq_*.c`, `alt_iic*.c`, `alt_instruction_exception_*.c` | the table of handlers, two masks, frames on a stack | dispatches, nests, emulates, calls the program's handler, goes back |
| HAL: clock, `HAL/alt_tick.c`, `alt_alarm_start.c`, `alt_gettod.c`, `alt_settod.c`, `alt_busy_sleep.c` | a counter of ticks, a ring of alarms, the time at tick 0 | calls alarms, tells the time, waits |
| HAL: profiler and log, `HAL/alt_gmon.c`, `alt_mcount.S`, `alt_sbrk.c`, `alt_log_printf.c` | lists of callers, a slab, the heap's end; flags and a count | counts every call, samples at every tick; prints from program and interrupts by polling |
| HAL: devices and caches, `HAL/alt_find_*.c`, `alt_flash_dev.c`, `alt_dma_*.c`, `alt_*cache_*.c`, `alt_load.c` | lists of devices | registers and finds them; writes caches back and discards them |

They interact in four ways. Down the pipeline it is `valid` and `ready` at every
edge, each side combinational in the other's registers, and the packet marks of
the DMA are all that tells the scaler and the generator where a frame begins.
Software and DMA share the slave port of the DMA, accessed at any edge, and
memory behind one arbiter. The transmitter shares only a clock with the
generator: it ignores the sync signals it is given. And within the software the
program, interrupt routines and the timer's callbacks share tables, rings and
registers that only some of the code protects.

## What can go wrong

`PROJECT.json` lists the hazards with their lines. In short:

- **a pixel too many or too few.** Thresholds are compared before the pixels
  already asked for have arrived, counts have four bits or lag behind, no FIFO
  checks for overflow. One lost pixel shifts all that follow.
- **a frame of two buffers, or marked in the wrong place.** Requests come at any
  edge; the marks belong to answers, not to the reads being issued.
- **software and hardware disagreeing about which buffer is shown.** The driver
  exchanges its copies long before the DMA does, and never looks again.
- **requests looked at, taken and executed at different edges,** with refreshes
  in between and two masters whose order must be the memory's.
- **a picture that does not come back** after the buffer has run dry or one side
  has been reset, and a full pipeline that waits for a place in the scan.
- **two clocks or two scans with an unknown phase.**
- **arithmetic at edges:** unsigned comparison of signed coordinates, error terms
  of lines and circles, four-bit two's complement, counters of ticks that turn,
  times multiplied in 32 bits.
- **two buffers in the demonstration's drawing,** each with what was drawn two
  swaps ago.
- **interrupts between two instructions:** a wake-up lost between looking at a
  ring and writing the enables, a handler's table written in two words, a mask
  restored out of order, a list changed while it is walked, a count stored over
  a newer one, a return address overwritten by a second exception.
- **threads in the table of descriptors,** most of whose accesses take no lock.

## Modules

| Module | Models | Extends or uses |
|---|---|---|
| `FrameStream` | what the stream of pixels promises: whole frames, in order, marked, each of one buffer, for ever | |
| `PixelBufferDMA` | the DMA, with memory and sink as inputs | refines `FrameStream` |
| `DoubleBuffering` | driver and program against the DMA, access by access | `PixelBufferDMA` |
| `MemoryPort` | what a memory promises its masters | |
| `SDRAMController` | the controller, with the chip as its environment | refines `MemoryPort` |
| `CommandMux` | masters before a slave, the arbiter | |
| `VideoScaler` | resampler and scaler | uses `FrameStream` as its source and as its specification |
| `DualClockBuffer` | the dcfifo, edges of two clocks | uses `FrameStream` as its source |
| `VideoSyncGenerator` | the generator behind the buffer, resets of either side | `DualClockBuffer` |
| `HDMITiming` | the transmitter's counters beside the generator's | `VideoSyncGenerator` |
| `TMDSEncoder`, `TMDSSerializer` | one channel | |
| `ColourPath` | a colour from memory to the transmitter | |
| `SoftwareColours` | the names and macros by which a program makes a colour of sixteen bits | `ColourPath` |
| `Drawing`, `DrawingCalls` | what every drawing function writes, as sets of addresses; calls of them, and what they should have written | |
| `Animation` | the loop of `main.c` and the contents of the two buffers | `Drawing` |
| `VideoDMADriver` | the other driver, with the buffers it asks for and swaps | |
| `JTAGUART` | device, driver, interrupt routine, alarm and host | |
| `FileDescriptors` | the table of descriptors under several threads | |
| `Interrupts` | dispatch, nesting, registration, masks | |
| `Exceptions` | entry, cause, emulation, handler and return | |
| `Alarms`, `TimeOfDay`, `BusySleep` | alarms, time of day and `usleep` | |
| `Clock` | the three side by side | `Alarms`, `TimeOfDay`, `BusySleep` |
| `Profiling`, `Logging` | mcount, sampler and heap; the log and its numbers | |
| `Devices`, `Caches` | lists and searches; flushes, loading, uncached memory | |
| `..._proofs` | theorems and proofs about the module of that name; `PixelBufferDMA_proofs` also about `DoubleBuffering`, `Drawing_proofs` about `DrawingCalls`, `Animation` and `SoftwareColours`, `HDMI_proofs` about the two clocks' buffer, the generator and the transmitter with its encoder and serializer, `Memory_proofs` about controller and multiplexer, `Processor_proofs` about interrupts, exceptions and caches, `HAL_proofs` about file descriptors, clock, profiler and lists of devices, `JTAGUART_proofs` also about the log | that module |
| `MC...` | constants for TLC | the module of that name |
| `MCDoubleBuffering` | the DMA with the program, or alone: `part` says which | `DoubleBuffering` |
| `MCHDMI`, `MCDrawing`, `MCHAL`, `MCMemory` | several modules that do not interact, one at a time: the variable `part`, chosen at the beginning, says which one runs | those modules |

**Clocked modules.** One step is one rising edge. All `always` blocks of a
component act at that edge, so there is one action per state of its FSM
(`Idle`, `ReadAccepted`, `GetCurrentLine`, ...), and each conjoins the operators
that are the other blocks (`BufferAddresses`, `PendingReads`, `Fifo`, ...).
Wires are operators of the same name. What the environment does at the edge is
the action's parameters, chosen freely: a read is accepted or held, an answer
arrives, the sink takes a pixel, the processor writes a register. So every
interleaving of stalls is covered. FIFOs are sequences; a pixel is the address it
was read from, which is what the properties are about.

**Chaining.** `FrameStream` is stated once and used at both ends of each stage.
`PixelBufferDMA` implements it (`StreamsFrames`), `VideoScaler` takes any
behaviour of it as its input and implements it for the enlarged size
(`StreamsScaledFrames`), `DualClockBuffer` takes that. No run needs the product
of all the stages. In the same way `MemoryPort` is what `PixelBufferDMA` expects
of its memory (answers in order, no read forgotten), `SDRAMController` implements
it (`MemoryInOrder`), and `CommandMux` shows that what is requested reaches it
(`TurnsTaken`). Together they close the gap between drawing and showing: a pixel
whose write the controller accepted before a read of it is the pixel shown.

**Software.** An action is what code does between two points at which another
actor can come in: an access to a register the hardware changes, a look at an
entry of a shared table, an instruction of the path an interrupt may split. In
`DoubleBuffering` it is the access to the slave port a function makes at one
edge, or none, with any number of edges between two of them (`Elsewhere`). In
`JTAGUART` the program's call has a label at each access of a ring's index or of
the shadow of the control register, and the interrupt routine is whole, as
nothing interrupts it on this processor. In `FileDescriptors` every look at an
entry is a step of its thread, in `Interrupts` and `Exceptions` what was
interrupted waits on a stack. Code that runs with interrupts disabled is one
step. `Drawing` and `VideoDMADriver` define functions by the addresses they
write, with the loop variables as recursive functions of the iteration.

Operators whose comment begins with "Mutant:" are plausible faults of the code;
`PROJECT.json` says which definition each one replaces and which property
notices. No specification uses them. History variables are marked as such where
they are declared, and no action that models code reads them.

## Runs

`tlc -config X.cfg MCModule`; the sizes are distinct states.

| Run | Shows | States |
|---|---|---|
| `dma` | no pixel is dropped, duplicated, reordered, mismarked or taken from the wrong buffer; `pending_reads` is exact (`RoomForEveryRead`, `PipelineInRasterOrder`, `PacketsAreFrames`, `DMAInv`); the DMA implements `FrameStream`, its liveness included (`StreamsFrames`); driver and DMA agree about the buffers and drawing is off screen, unless a request came between two frames (`DriverMirrorsHardware`, `DrawsOffScreen`); polling ends (`PollingEnds`) | 63,710 |
| `swap_lost` | *violated:* polling says complete though nothing was exchanged (`ZeroMeansComplete`) | |
| `memory` | the controller implements `MemoryPort` and goes on accepting (`MemoryInOrder`), gives its chip only legal commands at legal times and misses no refresh (`ChipObeyed`); every master before the multiplexer gets its turn in a bounded time and packets stay whole (`TurnsTaken`) | 720,000 |
| `scaler` | every word in the line FIFO is accounted for (`ScalerInv`), the picture is enlarged and nothing else (`Enlarged`), packets stay frames (`StreamsScaledFrames`) | 857 |
| `hdmi` | the dual clock buffer never overflows (`NeverOverflows`); from the second frame after any disturbance the picture is in place (`Recovers`); the transmitter's counters settle and keep their distance (`OffsetSettles`); at distance zero it sends the right pixels (`PictureInPlace`); frames keep coming (`KeepsShowing`); every word decodes, picture and control are told apart and the balance is true (`EncodingTrue`); bits leave in order (`BitsInOrder`), no word is skipped or repeated whatever the phase (`NoWordSkippedOrRepeated`) | 314,008 |
| `drawing` | both drivers and the graphics library write exactly the addresses of the figure that are on the screen, lines and circles included (`FiguresExact`, `VideoFiguresExact`); the demonstration leaves no trail, and its box keeps legal coordinates (`AnimationClean`); the colours it may name or make from three bytes are what the hardware would make of them, and the tables of names agree, all but `ROYALBLUE` (`ColoursTrue`) | 48,488 |
| `clipping` | *violated:* what is said of clipping, for negative coordinates (`ClippedToScreen`) | |
| `colour` | *violated:* the order of the eight bits (`EveryChannelShown`) | |
| `names` | *violated:* the names for RGB are shown in their colour (`NamedColoursShown`) | |
| `widening` | *violated:* a colour made wider is still the colour (`WidenedColoursShown`) | |
| `uart` | no character is lost, repeated or overtaken in rings and device (`CharactersIntact`), no wake-up is lost (`WakeUpsKept`), a blocking call that asked for something reports an error only after a second of silence (`ErrorsMeanSilence`), and calls end (`CallsEnd`) | 712,662 |
| `hal` | descriptors stay what `open` made them (`DescriptorsKept`), a lock excludes (`LockExclusive`), handlers nest by urgency with the context they were registered with (`InterruptsNested`), alarms, time of day and sleeping (`ClockKept`); nothing gets stuck (`NothingStuck`); the profile counts every call (`ProfileKept`), the log reads as it was written (`LogKept`), exceptions go back where they came from (`ExceptionsPrecise`), names find their device (`DevicesFound`), flushes show every master the last value (`CachesCoherent`) | 445,227 |

### Bounds, and why they are enough

- `dma`: a frame of six pixels is one more than FIFO and next address hold
  together, so two frame boundaries are never in the pipeline at once unless the
  code puts them there; three by two has first, inner and last pixels. The
  thresholds are the smallest `DMAAssumption` allows, which let every FSM
  transition happen, with no slack in the FIFO's depth: a bound the code passes by
  one would be seen. The DMA runs with the program, or with a processor that
  writes anything at any edge. Three buffers, so that
  `change_back_buffer_address` can install one that is neither: the spare third
  is what tells a wrong exchange from a right one. The proofs remove these bounds.
- `memory`: two banks of two rows of two cells; reads, writes and a masked write
  that agree or differ in row, bank and column. `Period` is 24 instead of 937
  cycles, little more than a refresh takes, so that one becomes due at every
  distance from every request, `PowerUp` 3 instead of 24,000 and `InitRefs` 2
  instead of 8. The chip's times are the real ones, from `src/sopc.qsys:556-579`
  at 120 MHz. The multiplexer has three masters and packets of up to two beats
  (`MaxBeats`), so that a packet can be interrupted; its bound on waiting was
  also checked for one to four masters and up to three beats, and is tight.
- `scaler`: three by two pixels and four copies of a line, twice as many as in
  the system, so that the looping state loops.
- `hdmi`: two by two pixels of two buffers, a scan of three by three, and counters
  of the transmitter with one value outside it. The dual clock buffer holds three
  words, its threshold of one may be passed by the one word its own count has not
  seen, which leaves one to spare, as `BufferAssumption` asks for
  (`BufferNeverOverflows` is the proof for every size). Recovery is claimed after
  `Settled = 2` frame starts. All 256 bytes, and the balance has few values, so
  the encoder is complete; all five phases of the serializer, and three word
  numbers tell the right word from a repeated and from a skipped one.
- `drawing`: a screen of sixteen by twelve; coordinates at, inside and beyond
  each edge, negative ones, all slopes that occur between six columns and twelve
  rows, all the radii `main.c` asks for, and strings with and without new lines.
  Four circles that cover the text, miss it or leave the screen; text, box and
  turning points are related as in `main.c` (`AnimationAssumption`): the box is as
  wide as the text, and one row lower than the glyphs reach. In `main.c` that last
  fact rests on the font: the glyphs of "visuale.ru" leave the last two rows of
  their cells empty. For the other driver a screen of six by five, pixels of one,
  two and four bytes, both modes; points, boxes and lines at `VideoXs`,
  `VideoYs`, strings of `Lengths`. For the colours all of one byte, three of two
  (`Colours`), 216 of three (`Colours24`) whose levels differ in every bit a
  conversion may drop, and every name that both tables of a setting have: 139 for
  RGB, 143 for the other. (Seven names for RGB have sixteen bits only and eight
  have three bytes only, one of these by its spelling, `MEDIUMSEAGREEN_24_24`;
  three of the other setting have sixteen bits only.)
- `uart`: rings that hold two characters, so that they wrap within a request; a
  device that holds two and one; requests of two characters and of none, `MaxIn = 3` from the
  host and `MaxOut = 4` from the program (`Sizes`); a timeout of two alarms, which
  the program may set to "never" (`Timeouts`), in a word (`INT_MAX = 5`) in which
  the count of silent seconds saturates.
- `hal`: *files:* two threads, two descriptors beside the three standard ones, a
  device and a file system to open (`Openable`, `OpenModes`): enough for two
  opens of one device, a lock and a release between them. *Interrupts:* three, of
  which the middle one both interrupts and is interrupted, one call of a
  registration or mask function in each handler's run (`MaxCalls`), and room for
  one nesting more than the masks allow (`MaxDepth`). *Alarms:* two, in a counter
  of four ticks, so that it turns all the time, with `Periods` from none to two.
  *Time:* four ticks a second, a word of 27 values that the product passes after
  six seconds (`LastTick = 26`, `TimesOfDay` with and without a borrow).
  *Sleep:* `SleepTimes` below, at and beyond multiples of a big loop. *Profiler:*
  two functions of one hash bucket and one caller, slabs of two entries, a heap
  that fills up, three calls of the program (`ProgramCalls`) and two of the
  handler (`HandlerCalls`), enough to come into a call twice. *Log:* words of a
  byte, signed and unsigned `Conversions` of `Values` at the ends of the range,
  `Texts` that are cut and filtered, a UART of two characters and two interrupts
  (`LogInterrupts`) in a message. *Exceptions:* a program with an instruction of
  every kind in every build. *Devices:* two of each list (`MaxUnits`), names that
  are prefixes of each other. *Caches:* two lines before a memory of four, so that
  lines displace each other, and `CacheRegions` that begin and end in a line or at
  one.

## What the models assume

- Memory answers reads in the order it accepted them, at the earliest one edge
  later, and a pixel is the content of its address when the read was accepted.
  `memory` shows it of the SDRAM controller.
- The SDRAM chip does what its commands say, two cycles after a read the data
  are there, and a row it was told to open stays open until it is closed.
- A packet of a master goes on until it ends; the slave is ready in the end.
- The processor writes whole words to the slave port, as `IOWR_32DIRECT` does.
- An `scfifo` in show-ahead mode shows its head at the next edge; the vendor's
  extra cycle of latency after a write to an empty FIFO is left out (it delays
  the head and changes no order).
- The lags of the dcfifo's two sides are external: any number of edges for what
  crosses the clocks, up to `WrLatency` for the write side's own words.
- A reset of the DMA resets the SDRAM controller, scaler and resampler with it
  (`rst_controller_002`), so for each of them it is a return to `Init`. It does
  not reset the chip, whose rows may be open (`SDRAMInit`). What it does to the
  dcfifo, which is not reset, and to the generator, which is reset in another
  clock, is modelled in `VideoSyncGenerator`.
- The registers of `HDMI_ANY` that have no initial value hold anything at first.
- The DMA reports 16 bit colour and X-Y addressing
  (`V/sopc_video_pixel_buffer_dma_0.v:246-248`), so its driver's other modes
  cannot be reached. The registers of the controller behind the other driver take
  the behaviour its comments describe.
- The JTAG UART holds its interrupt while a FIFO is past its mark or the host has
  paused; the host reads and sends when it likes, or never.
- `FileDescriptors` is the build with an operating system's semaphore; in this
  BSP there is one thread and the semaphore is a macro of nothing, which is the
  special case of one thread. A driver's own `open` succeeds or fails at will.
- `Interrupts` is the build that saves its frame on the interrupted stack.
  This BSP defines `ALT_EXCEPTION_STACK`, where every exception begins at the
  same top: there no handler may let itself be interrupted, which `Exceptions`
  covers (`Endangered`).
- `TimeOfDay` has a tick rate that divides 10^6, as the BSP's does.
- The names of mounted file systems are not empty and none is registered twice
  (`DevicesAssumption`). Cache lines are a power of two and not zero.
- The log is compiled in with `ALT_LOG_ENABLE`, the profiler with
  `ALT_PROVIDE_GMON`; the divide emulation is in the builds where `build.emulates`
  is true, and this system's is not among them
  (`-DALT_NO_INSTRUCTION_EMULATION` in `BSP/public.mk`).

## Fairness

Every clock runs (`WF` of its edges). Beyond that:

- memory does not hold a read off for ever and answers those it accepted
  (`MemoryAccepts`, `MemoryAnswers`): `MemoryInOrder` shows both of the SDRAM
  controller, from its clock alone, and `TurnsTaken` that the arbiter lets the DMA
  through after a bounded number of edges;
- the sink takes a pixel in the end (`SinkTakes`): the scan of the generator
  never stops and `KeepsShowing` shows that it goes on taking pixels;
- the program goes on (`SystemFairness`): there is one thread and no interrupt
  that does not return;
- each side of the dcfifo learns in the end of what the other did;
- the interrupt routine of the UART runs when it is requested, its alarm when it
  is due, and a call that can go on does (`UARTFairness`); of the host nothing is
  asked;
- a thread that has begun a call of the HAL's files goes on with it
  (`FilesFairness`); the processor goes on (`WF`) and takes an interrupt that is
  requested and enabled again and again (`SF`, as a critical section may close in
  between) (`IrqFairness`); the clock's routine goes on (`AlarmsFairness`).

`KeepsShowing` is claimed of behaviours in which resets come to an end. In the
runs with a `part` each fairness condition concerns one part and says nothing
where another one runs.

## Proofs

| Module | Theorem | Says |
|---|---|---|
| `PixelBufferDMA_proofs` | `TypeCorrect`, `InvariantHolds` | `DMASpec => []TypeOK`, `DMASpec => []FramesInv` |
| | `NothingIsLost` | `pending_reads` is the number of reads owed, and the FIFO has room for them |
| | `NeverTorn` | pixels are in raster order and change buffers between frames only |
| | `FramesAreMarked` | marks are right, and two frames are never owed together |
| | `Refinement` | `DMASpec => Frames!SafeSpec`: the DMA implements the safety part of `FrameStream` |
| | `SystemTypeCorrect` | types, and the composed system implements the DMA, so all of the above holds of it |
| | `DriverInStep` | driver and DMA agree about the buffers, unless a request came between two frames |
| | `NeverDrawsOnScreen` | under the same condition drawing is off screen |
| `HDMI_proofs` | `TypeCorrect` | types, through resets of either side |
| | `BufferNeverOverflows` | no word of the dual clock buffer is written over |
| | `PictureRecovers` | however the picture was disturbed, it is back in place from the second frame on |
| | `DistanceKept`, `RightPictureSent` | the transmitter's scan keeps its distance from the generator's; if they coincide, what is sent as picture is what the generator puts out as picture, at its place |
| | `SerialBitsInOrder` | the bits on the wire are the next ones of the word loaded last |
| | `EveryWordOnce` | no word is skipped or repeated, whatever the phase |
| | `EncodingAlwaysTrue` | every byte is decoded, picture and control are told apart, and the account of ones and zeros is true and fits four bits |
| `Memory_proofs` | `MuxInvariant`, `TurnsAreTaken` | no master waits longer than a packet of everyone else's and one edge; packets are not mixed |
| | `ControllerInvariant`, `ChipAlwaysObeyed` | the chip is given legal commands at legal times, its data wires never collide and no refresh is missed |
| | `DataInvariant`, `ControllerImplementsPort` | `SDRAMSpec => Port!SafeSpec`: the controller implements the safety part of `MemoryPort` |
| `JTAGUART_proofs` | `UARTTypeCorrect`, `NoWakeUpLost`, `CharactersArrive`, `ErrorsMeanSilent` | the driver's rings lose no character and no wake-up wherever the interrupt routine comes, for rings, FIFOs and requests of any size |
| | `LoggingInvariant` | what is left of every message is its end, an interrupt's report is whole but the last, and each character that is missing has an interrupt of its own that took its space |
| | `LogAlwaysKept` | numbers read as what they are, in their width; the host gets the program's characters in order, one less at most for each interrupt that logged; an echo fits its buffer and ends no session |
| `VideoScaler_proofs` | `ScalerInvariant` | counters, states and words in the FIFO belong together: no word is lost, repeated or thrown away |
| | `PictureEnlarged` | what the sink is shown is the pixel of the small picture at its place divided by the copies, marked at first and last |
| | `Refinement` | `ScalerSpec => ScaledFrames!SafeSpec`: the chain implements the safety part of `FrameStream` at the large size |
| `HAL_proofs` | `FilesInvariant` | the inductive invariant: who owns which entry at every label |
| | `DescriptorsStay` | a descriptor stays what `open` made it until it is closed, whatever other threads do |
| | `LocksExclude` | a locked device is open nowhere else but at the descriptor `alt_fd_lock` does not look at |
| | `AlarmsInvariant`, `AlarmsAlwaysKept` | the list of alarms is whole whatever callbacks do, and each alarm is called at its tick |
| | `TimeAlwaysKept`, `AlwaysSleptEnough` | the time of day is the time set and the ticks since, to the microsecond; a sleep is as long as asked for |
| | `ClockAlwaysKept` | `ClockSpec => []ClockKept`: the three side by side |
| | `ProfilingInvariant`, `ProfileAlwaysKept` | every call of the program is counted once wherever a handler interrupts `mcount`; pieces of memory lie apart |
| | `DevicesInvariant`, `DevicesAlwaysFound` | a search finds the newest device of exactly this name, or the file system mounted last at or above a path, and refuses the rest |
| `Processor_proofs` | `InterruptsInvariant` | masks and table follow the stack of handlers |
| | `NestedAsMeant` | the handler called is registered whole; only what may be interrupted is, by more urgent interrupts, unless a handler has bypassed the mask |
| | `ExceptionsInvariant`, `AlwaysPrecise` | every instruction is executed, emulated or skipped once and in order, the handler is told the truth, and only the endangered builds lose the way back |
| | `CachesInvariant`, `AlwaysCoherent` | who reads a byte, the program, the other master or the processor, finds what was written last; only the line after an unaligned region may be lost |
| `Drawing_proofs` | `AnimationInvariant` | each buffer holds nothing but its text, and the boxes to come cover it in both |
| | `AnimationAlwaysClean` | the demonstration leaves no trail and asks for no box that would be drawn elsewhere, for any screen, text and circles |
| | `FiguresAlwaysExact` | every drawing call writes its figure, cut at the screen, and nothing else; lines and circles are where geometry puts them, characters in their cells |
| | `VideoFiguresAlwaysExact` | the same of the other driver's boxes, lines and texts, in every width and addressing mode and in either buffer, after any sequence of swaps that was waited for |
| | `ColoursInvariant`, `ColoursAlwaysTrue` | all 2^24 colours come out with the bits that sixteen keep, and each name is one colour in both tables of its setting, but for `ROYALBLUE` |

They hold for every value of the constants that the modules' assumptions allow,
which are what the instances of the code satisfy:

- `DMAAssumption`: `AlmostEmpty < AlmostFull` (32, 96), `AlmostFull + StallAt + 1
  <= Depth` (96 + 12 + 1 in 128), `ResumeAt < StallAt` (7, 12), `StallAt + 1 <
  PendingMod` (13 in 16), and a picture of more than one pixel;
- `BuffersAssumption`: the buffers are a set without the value that stands for
  none;
- `MuxAssumption`: there is an input, and a packet has a beat;
- `SDRAMAssumption`: the chip's times are those the generated waits cover (at the
  120 MHz of the code it asks for 3, 3, 9, 2 and 3 edges), and a refresh is due every 13
  edges at the most often (937 in the code): banks, rows, columns, values, requests and
  the length of the initialisation are arbitrary;
- `UARTAssumption`: a ring has two places at least, the FIFOs' mark lies below their
  depths, and the default timeout below `INT_MAX - 1`, which stands for never; requests
  have any length from 0 on (that an `int` holds it is not checked: the driver takes a
  longer one for a negative number);
- `BufferAssumption`: the threshold of the dual clock buffer leaves room for the
  words its write side has not counted yet;
- `TimingAssumption`: transmitter and generator are given the same totals and the
  same picture, the generator no blanking before it (as in
  `src/sopc/synthesis/sopc.v:326-333`), and porch and pulse fit into the rest;
- `ScalerAssumption`: a picture has a pixel, and width and height are multiplied by two
  at least (`HeightCopies`, `WidthCopies`); there is a buffer;
- `FilesAssumption`: room for more than the three standard descriptors, and the
  null device, the console and what can be opened are different devices;
- `InterruptsAssumption`: there is an interrupt, and no handler is `NULL`;
- `ExceptionsAssumption`: the program has an instruction;
- `CachesAssumption`: lines, caches and memory have a size, and the regions the
  program asks for lie in memory;
- `AlarmsAssumption`: there are finitely many alarms, the list's head is none of
  them, and an alarm is started for less than the largest value of the counter;
- `AnimationAssumption`: the text turns two pixels before the edge at the latest (320 of
  400 columns, 290 of 300 rows) and starts before it turns; it has no newline, no glyph
  uses the last row of its cell, and a screen and a box fit into an `unsigned int`;
- `LineAssumption`: `2^(n+1) = 2 * 2^n` for the exponent of a line, and the bytes of a
  buffer are lines times the bytes of a line. That is no assumption about the code: no
  prover installed knows powers of a variable, so TLC evaluates it;
- `VideoDMAAssumption`: the other driver's controller has address fields that can hold the
  screen, at most 16 bits for each of at most four colours, and one of two addressing
  modes; coordinates are those of its `unsigned` arguments. `ShiftAssumption`:
  `2^(wiw+n) = 2^wiw * 2^n` for the shift by a pixel's width, evaluated by TLC for the same
  reason;
- `CallsAssumption`: coordinates, and what is added to them, are values of an `int`; a
  line's ends are on the screen, as the comment of `draw_line` asks for; glyphs fill their
  cells at most; and the screen is an even number of pixels wide, because `clear_screen`
  writes two at a time (with an odd width it leaves the last column behind);
- `ColoursAssumption`, `Colours24Assumption`: colours have two and three bytes;
- `ProfilingAssumption`: a slab has room for an entry, entries are whole words, and the
  program has text;
- `DevicesAssumption`: names are sequences of characters without the NUL that ends them, and
  a device's is not empty (every one in the generated `system.h` has a name and
  `alt_dev_llist_insert` refuses a null one);
- `LoggingAssumption`: a long has whole hexadecimal digits (32 bits, 8 digits), values fit it,
  the UART holds a character. `PowersAssumption`: `b^0 = 1` and `b^(n+1) = b * b^n` for
  the three bases as far as there are digits, and octal digits enough for a long: true
  of every size, but what `^` means is for the provers no more than that it is a number;
- `TimeOfDayAssumption`, `SleepAssumption`: the tick rate divides 10^6, and the
  processor does a loop in a microsecond at least.

**The DMA.** None of the properties is inductive alone. That there is room for a
read needs to know in which FSM state it was issued: reading is entered either
from `IDLE`, with a nearly empty FIFO and at most `StallAt` reads pending, or from
a stall; once the FIFO is almost full the next accepted read leaves
`READ_BUFFER`. That is `FlowControl`, inductive with `TypeOK`. That the marks are
right needs to know which reads are pending when they are computed: the last
pixel of a frame is owed only in `WAIT_FOR_LAST_PIXEL`, which waits for it, so
nothing is owed when the next frame begins, and `reading_first_pixel_in_image`
belongs to the next answer. That is `FrameControl`; it rests on `FlowControl` (the
count is exact) and on raster order. `StreamInStep` ties the beat the sink took
last to the oldest pixel on its way, which is what the refinement needs. So

    FramesInv == FlowControl /\ PipelineInRasterOrder /\ FrameControl
                   /\ PacketsAreFrames /\ StreamInStep

and the proof goes step by step: what an edge does to a queue
(`ShiftedProperties`), to the pixels on their way (`OnTheWayStep`), to each
conjunct, state by state. `dma` checks every conjunct as an invariant.

**Double buffering.** That driver and DMA agree is not inductive either: it holds
at the end of a request because the driver wrote it while the DMA was in a frame,
and it must be known at which point of `swap_buffers` the copies have been
exchanged and the request not yet written. `SwapInv` says so for every value of
`pc`; that drawing is off screen follows from it with the DMA's raster order.

**The buffer of two clocks.** What the write side counts is old, so `NeverOverflows`
needs how old: `Occupied` bounds the words really in it by the count the
write side has seen and the words it has written since (`late`), at most
`WrLatency`.

That the picture recovers needs to know what is on the way. The words between the
stream and the generator are consecutive but for frames that begin anew
(`InOrder`), and the next one the generator finds (`Upcoming`) is `Expected`: in the
first frame after a disturbance it is not behind the place that is displayed
next (`NotBehind`), so this frame ends before the scan does and the start of the
second one waits for its place; from then on it is exactly the one that is due
(`Exactly`).

**The transmitter.** Its scan is started at the generator's frame and then runs
by itself. Both count modulo `h * v`, so their distance is a number that no step
but a reset changes (`ScanStep`, `AroundOnce`); that equal numbers are equal
places is the uniqueness of division (`DivModUnique`). If the distance is nothing,
the transmitter's picture is the generator's (`SentIsShown`), and `PictureRecovers`
says what that shows.

**The serializer.** `HoldsTheRest` says which bits of the word loaded last are
still in the shift register at every phase, `InStep` that the count of the pixel
clock's word and the count of five are a fixed distance apart from the second
word after an interruption on.

**The encoder.** Words are sets of places, counted bit by bit (`Counted`). The chain is a
recursive function of seven steps, so the one that exists can be written down
(`ChainBits`); which neighbours in it differ is read off the byte's bits, and the rule by
which the encoder flips makes that three at most (`ChainChanges`). The account is
inductive with its range: it stays within four either way (`Account`), because a word
that adds in the direction the account already has is inverted (`AccountKept`).

**The arbiter.** That a wait is bounded is not inductive: it must be known how much
of the bound is left. `Turns` adds to what an input has waited what the others may
still take before its turn: the rest of the packet that is going on and a whole
packet for every place of the circle between `top_priority_reg` and the input
(`Ahead`). A beat takes one off the first and adds one to the wait; at the end of
a packet `Ahead` falls (`ComesCloser`), which pays for the next packet. That the
first of the circle exists, for any number of inputs, is the well-foundedness of
the numbers (`HasLeast`); that the lock keeps nobody out is `locked = {}`.

**The JTAG UART.** That the characters arrive in order needs to know where each one
is. `InputInv` and `OutputInv` say it by number: the caller's, the ring's and the
FIFO's are consecutive, the ring's being read off from `rx_out` around the circle;
between `ReadCopy` and `ReadAdvance` the call holds `n` characters that are still
in the ring, and they are counted once (`Copied`). What a call has looked up before
it copies stays true while the interrupt routine runs, because the routine moves
the other index only: `ReadInv` and `WriteInv` say for the labels between look and
move that the span looked up is still the call's. A wake-up could be lost because
both sides write the enable bits from the same copy; `EnableInv` says that the copy
is the device's mask at every label, and the two halves of `WakeUpsKept` are then
inductive, action by action. The small driver shares the invariant with empty rings
(`ModeInv`).

**The scaler.** Between the resampler's register and the sink a pixel may be in five
places, and the line of the height scaler's FIFO is gone through several times. The
invariant tells every register its place in the picture by counting back from the
sink (`InPlace`): a register holds the beat that comes after the one behind it.
The FIFO's words are numbered by the place of the line they belong to
(`WordNo`, `Consecutive`): while a line is looped the words are those of one line
turned around, while it is sent for the last time the head's are the rest of one
line and the tail's the beginning of the next. `SameBuffer` says that all beats of a
frame are of one buffer, `Counted` that the counters say how many copies of the line
have gone. `Enlarged` and the refinement follow from the sink's end of it.

**The descriptors.** `DescriptorsKept` speaks of descriptors that are in use by the
program, but a descriptor is also in the hands of a call that is opening or closing
it, and with several threads the entry may be taken, refused, released and taken
again in between. `OwnInv` says for every label which entry the thread owns and that
no other thread owns it (what the semaphore around `alt_get_fd` is for), `EntryInv` that a
free entry has no flags and none in use lies above `alt_max_fd`, `HeldInv` and `WorkInv` what it says while its
call goes on, `CallInv` what the call has already looked up. `SemaphoreInv` and `LookInv` are
about the searches: everything below the place a search has come to has been seen, and
nobody can change it while the semaphore is held. `LockExclusive` needs
`ExclInv` beside: a mark of exclusive use is set only at the end of a search
that found the device nowhere, and an open that came meanwhile has looked for
such a mark after it made its entry visible, or will.

**The interrupts.** The masks are saved by the handlers themselves, each in its own
frame, so what is in force is told from the whole stack. `PriorityInv` says that it
is the mask of the uppermost interruptible handler, and that each of them has kept
the mask of the one below; `ControllerInv` that `ienable` follows, and does so
again whenever the mask is everything, which is why the bypassing is over with the
return to the program. `TableInv` says which of the two halves of a table entry is
old at each label of a registration, and that no handler is called meanwhile follows
from `EnabledInv`, which knows where interrupts are enabled and what the critical
section will restore. That the search for a bit has an end is the least element of a
set of numbers (`HasLeast`). The bound on the stack's depth may be any number.

**The SDRAM controller.** The chip's rules are about the past (which row was opened,
how long ago, how many refreshes there were), and the controller keeps none of it: it
counts down a wait and goes on. `ChipInv` therefore says for every state of both FSMs
what the past must have been. `RowInv` says in which states all rows are closed, or
will be by the command that is out, and that the open one is the row of the request
looked at last; `TimeInv` gives every command's age (`Age`) together with what is
left of the wait, which always makes up the chip's time; `WireInv` says when no read
is on its way through the chip, so that a write may use the wires; `FirstRefreshes`
counts those of the initialisation with the ones that are still on their way. That no
refresh is missed needs a bound on the way to one from wherever it becomes due:
`Rank`, at most 13 edges, falls at every edge while it waits.

That requests take effect in order is about the distance between accepting and
executing. `DataInv` closes it: the memory as its masters know it is the chip's cells
with the command that is out (`Settled`) and then every request without a command yet
(`Queue`: the one looked at, if it has not been served, and the FIFO) applied; what is
owed is what is in the chip's pipeline and then what the reads in the queue will find.
An edge takes requests off the queue's head by giving their command and appends what it
accepts (`QueueStep`, `CommandServes`), which leaves both sides equal (`DataStep`). The
refinement reads the step of `MemoryPort` off the ends.

**The exceptions.** What `ExceptionsPrecise` says of the way back is looked at only in
`eret`; it must be known what the frame says from the entry on. `InsideInv` says it for
every label: until the test for an interrupt the frame's address is the
instruction's, afterwards the next one's, and `ea` is the next one's too, from which the
emulation and the handler take the instruction. `WithinInv` says the same of an
exception in the routine or the handler, which can only be a division that is emulated,
and so is over before anything else comes: two frames are enough for any program. With
an exception stack the second frame is the first one (`Overwritten`), which the invariant
follows to the `eret` that finds the wrong `sp`: only the builds in `Endangered` come to
it.

**The caches.** `CachesCoherent` asks of each reader only what it looks at. Behind it
are two facts that hold of all of memory: a byte's last value is where it is looked for
(`LatestKept`), and what the cache has of a clean line memory has too (`CleanIsSame`),
so that it doesn't matter which line an access pushes out. For the regions there is
`AwayKept`: no line of a region that was handed over, is executed or is uncached is in
the data cache, and none comes back, because the program keeps its hands off
(`HandsOff`; if the region begins and ends with a line, no byte of others is in its
lines, `OnlyItsBytes`). What the functions have to do with it is arithmetic: the loops
touch one line after another from the region's first to its last and, if it does
not begin with a line, perhaps the one after that (`TouchedLines`); and as many lines as
the cache has places are in all its places (`EveryPlace`), which is why
`alt_icache_flush` may stop there.

**The alarms.** Whether an alarm is due is a comparison of two numbers that wrap and a
flag, and neither says how far it is away. The invariant measures every alarm's distance
by `remaining` and says what counter, due time and flag make of it, in two forms: as
`alt_tick` leaves an alarm it has served (`Served`) and as the next tick finds it
(`Unserved`), where the flag may still be the old turn's. Which form holds depends on
where `alt_tick` stands in the list, and the list changes meanwhile: `Standing`
numbers the ring's nodes and puts `alt_tick` between two of them, and an alarm that is
started goes in behind it, one that is stopped moves it up. The ring itself (`RingInv`)
holds even when a callback has led `alt_tick` astray. `ListWhole` walks along the list by
a recursive function; that the walk goes round the ring is shown for the least place at
which it wouldn't (`WalkGoesRound`, `Lowest`).

**Time of day and sleep.** Both are division with remainder. A number of ticks is whole
seconds and a rest (`TicksSplit`), because the rate divides a second, and later ticks
have no fewer seconds and, in the same second, no smaller rest (`TicksOrdered`): so one
carry or borrow is enough. A sleep is big loops and a rest (`AskedSplit`); each big loop
but the first may do a word's more turns (`AnotherBigLoop`), and the last one does if the
rest is nothing (`RestCounted`).

**The profiler.** Every call's count is a sum over the places of an arc's copies, and the
community modules' sum is a recursive function of sets. That there is one such function
and that any place may be taken out of it first (`SumsExist`, `SumAdd`) is shown for the
smallest set where it wouldn't hold (`Smallest`), in the place of an induction. What the
program's call has in registers stays true because lists only grow (`FoundInv`); it may
put in a second copy of what the handler has put in meanwhile, but no third (`OnceInv`); and
the count it stores may be old. `CountInv` therefore says more than the property: even if
all that the handler has counted since the load is taken back, the program's calls are
still all there, and where the handler has not counted this arc at all, the loaded count
is the present one. `MemInv` keeps what is left of the slab apart from everything given
out, below the heap's end, as long as there was room.

**The names of devices.** The code compares bytes up to a length; the property compares
paths, step by step. A path is cut at its slashes, and its steps are numbered by how many
cuts there are up to a place (`Rank`, which grows with the place and takes every value on
the way, `RankTaken`). If one path's bytes begin another's up to the other's slash or end,
the cuts below agree (`SameCuts`), and so do the steps (`BegunSteps`); the other way
round, equal first steps make the cuts of both equal one after the other, shown for the
least one that isn't (`FirstCut`, `PrefixCuts`), and so the bytes between them
(`BeginsIsPrefix`). A list is in descending order of registration, so the first match is the
newest (`FirstIsNewest`). The answer stays right because what registers later has a number
above those it knew of (`FoundKept`).

**The log.** A number's digits are its quotients by the powers of the base, each cut to one
digit: the value read from the left is, after every digit, the number with the rest of its
digits cut off (`Cutoff`, `CutoffsAre`, `DigitsRead`), shown for the least place at which
it would not be, and the least power above a number makes its first digit something else
than zero. The zeros that fill the width add nothing (`Padded`), and where blanks and sign
end is a matter of three pieces put together (`Laid`, `LaidStands`). For what the host gets,
the property asks for a set of lost characters; the invariant keeps one (`LostInv`) that is
as large as there were interrupts, and smaller by one while the program has seen space
that an interrupt has taken since: only then may the next character be dropped. That the others
come in their order is said by ranks, the number of the characters up to each in what was
sent and in what was written, and a character at the end of both disturbs no rank
(`RankAppend`, `OrderedGrows`).

**The demonstration.** That the text leaves no trail is a matter of two passes: a box drawn
now must cover what was drawn in this buffer two swaps ago, when the text was somewhere
else. `AnimationInv` therefore says of both buffers where text may be left (`Marked`):
within the box that goes with the place where it is drawn next (`TextBox`), before the
first draw of a pass in both, before the second in one; a draw leaves exactly the text
(`TextOnly`), and a move by one pixel in either direction stays within the next box
(`NextBoxCovers`), even where the text turns. The places of the characters are a recursive
function; that they stand side by side is shown for the least place at which one
wouldn't (`PlacesInARow`).

**The figures.** A call is one step, so the invariant is simple and the weight is in what
the loops compute. For each of them a lemma says what one turn does (`WalkSteps`,
`RowSteps`, `OctantSteps`), another what therefore holds after every one, shown for the
least turn at which it wouldn't (`UpTo`, `Lowest`). A line's error is the distance from
the ideal line, in units of the longer side, and stays within one unit (`WalkError`), so a
pixel is at most half a row away, and the last one is the other end; from the other end the
code sorts the ends first and walks the same way (`LineBack`). The filled circle's error is the square of the distance
of the next pixel outwards, so each row ends where it should (`RowBounds`); the loop stops where
rows meet the diagonal, and that the reflected rows cover the other eighth is a
discrete intermediate value: a row's end falls by one at most, so every column is passed
(`Passes`, `DiscCovers`, `DiscWithin`). So does the other circle's height, whose parameter is
the square at the middle between two pixels (`HeightBounds`, `OutlineRound`,
`OutlineWhole`). That addresses are those the DMA fetches, no two pixels sharing one, is
division with remainder (`PixelAddress`, `PixelsApart`), and where a character stands depends
on the last newline before it only (`LastMoves`, `PlacesAre`).

**The other driver's figures.** Its drawing calls read the device structure, and a swap
exchanges its two addresses at once, the controller's at the end of the screen only;
`VideoInv` says that the structure is what the driver would read from the registers
once the exchange that was asked for is made (`Exchanged`), and that it has been made
whenever the program draws. Every branch of every call
computes an offset of its own; `OffsetsAgree` shows that all of them are the place of
`PixelAt`, and `VideoPixelsApart` that no two pixels of the two buffers share one. The walk
along a line is written out twice in this file, and both are the other driver's walk
(`WalksAgree`), so what was shown of that one is used again; that a line has one pixel for
each step of the longer side is a bijection between its pixels and an interval
(`JoinsCount`).

**The colours.** Bits cut twice are bits cut once, by division of division
(`SixteenToEight`, `TwentyFourToEight`); the names are checked
one by one, for either setting in one step of the prover (`RGBNames`, `BGRNames`).

Only model-checked: everything under fairness, because the provers have no rules for
it. Every invariant and every action property of the runs is a theorem, and of the three
refinements the safety parts are. An induction
theorem takes an operator as its parameter, which no prover installed can instantiate; the
proofs about recursive functions (the walk along the alarms' list, lines and circles, the
places of the characters, the sums of the profile, the digits of the log) take the least
number or set at which it would go wrong (`Lowest`, `UpTo`, `Smallest`) instead.

## Where the code disagrees with what is said of it

Shown by a run:

- **A swap can be lost** (`swap_lost`). The DMA clears the request whenever it
  stands at (0,0), but exchanges the buffers only when it accepts the last pixel.
  A request that arrives in between is dropped; polling returns 0, "complete",
  and from then on the program draws into the buffer that is shown. The
  window is not short: between two frames the DMA stays at (0,0) until the last
  pixels have come back and the FIFO is nearly empty.
- **Negative coordinates are not clipped** (`clipping`) by `draw_box`,
  `draw_hline` and `draw_vline`, which say they clip. `main.c` never passes one
  (`BoxArgumentsLegal`).
- **The order of the colour bits** (`colour`): the resampler puts out 3-3-2, and
  `RGB8_RGB24` reads 3-2-3, so green's low bit is shown as the high bit of blue.
- **The names of colours** (`names`): `simple_graphics.h` offers the sixteen-bit
  names "in RGB format", and they have red and blue exchanged: `BLUE_16` is
  0xF800, which is shown red. The names of the other setting are the right ones.
  `ROYALBLUE_16` is wrong in a way of its own: 0x9080, which comes from 0x041690,
  where `ROYALBLUE_24` is 0x4169E1 (both tables of the other setting have the
  former). `NamesAgree` excepts it by name (`Misnamed`) and says that it is the only
  one and that it does disagree. `main.c` takes its colours at random and uses none of them.
- **The macros for more bits** (`widening`) in the resampler's driver put blue in
  green's place, let one bit of green and none of blue out of eight bits, and
  narrow thirty bits to sixteen with the shifts for 24. Nothing here uses them.

Seen while modelling; the models do what the code does, and the properties say
what it leaves true:

- *Files.* `alt_fd_lock` looks at descriptors below `alt_max_fd`, so not at the
  highest one in use, although its comment promises that a lock fails if the
  device is open anywhere (`lockedAt` in `LockExclusive`). Closing a standard
  descriptor leaves its `ALT_FD_EXCL` set, against `BSP/HAL/inc/priv/alt_file.h:99-101`.
  `write` of the UART gives up with `EIO` at the first look that finds the host
  inactive, even if it has just made room; the comment says "Host not connected".
  The comment stands also where a `write` of no characters ends
  (`altera_avalon_jtag_uart_write.c:199-214`), which `HAL/alt_write.c:119` passes on:
  unless it may not block it is answered with `EIO` though the host is there, and so is
  a `read` of none in both forms of the driver (`altera_avalon_jtag_uart_read.c:86-91`
  and `:197-202`). `ErrorsMeanSilence` tells these calls apart (`AskedForNothing`).
- *Clock.* An alarm started with 2^32-1 is called at the next tick. A callback
  that stops the alarm which is next in the list leaves `alt_tick` in a loop
  (`strayed`). `settimeofday` multiplies in 32 bits and `gettimeofday` in 64
  (`HAL/alt_settod.c:84`), so a time set after 71 minutes is wrong (`EarlySet`);
  and with a rate that does not divide 10^6 the microseconds run away. A busy
  sleep of an exact multiple of 53.687091 s takes 107 s more, since its last loop
  counts down from zero, and its assembler code changes an operand it declares as
  input only (`SleptEnough`).
- *Interrupts.* `alt_irq_enable` and `alt_irq_disable` do not apply the priority
  mask, so a handler that calls one may be interrupted by less urgent ones
  (`bypassed`). With an exception stack a second exception overwrites the first
  one's frame, and reissuing an instruction trusts `ea` after the handler has
  returned (`Endangered`). The comment at `HAL/alt_exception_entry.S:276` ("Return
  code was 0: Skip") contradicts the enumeration, where 0 is to reissue.
- *Profiler.* The sampler's alarm is started twice if an interrupt comes between
  the test and the clearing of `pcsample_need_init`; a count stored after an
  interrupt loses the handler's calls; the -1 of `sbrk` is never looked at
  (`mem.short`); a last bucket the text fills in part lies beyond the histogram.
  The comment in `__mcount_record` that two entries would both have a count of
  one does not hold.
- *Log.* Each message of an interrupt routine may cost one character of the
  program's, and the clock's message comes every interval and one ticks.
- *Caches.* `alt_dcache_flush_no_writeback` of an unaligned region discards the
  line after it (`LineAfter`), and with lines of no bytes, as on this processor, it
  would not end: it alone has no `#if` around it.
- *Devices.* The file system mounted last wins, not the longest mount point; an
  empty name would be read before its beginning; `alt_flash_open_dev` sets no
  `errno`.
- *The other driver.* In consecutive mode its `draw_string` still shifts by
  `y_coord_offset`; in four-byte pixels it writes one byte of a character; the
  frame of a box that is cut is drawn at the screen's edge.
- *Hardware.* The DMA's `arbiterlock` is high in the states in which it does not
  read (`V/sopc_video_pixel_buffer_dma_0.v:349`), and has no effect there
  (`CommandMux`). The generator is instantiated with no blanking before the picture and a vertical
  pulse over its first 28 lines (`src/sopc/synthesis/sopc.v:326-333`), where its
  header expects the picture after the pulse; the transmitter ignores both signals.

## Not modelled

- The Nios II core, the on-chip memory, system id and interrupt mapper: generated
  vendor cores. The processor is the program it runs.
- Of the interconnect everything but the multiplexers: routers, width and burst
  adapters, limiters and agents translate one master's packets and keep their
  order. They are the edges at which the environment holds a request.
- Of the JTAG UART's hardware what the driver does not see.
- Of the HAL: stubs that refuse (`alt_fork`, `alt_link` and others), the way out of
  the program (`exit`, and what `alt_main` does after `main`), wrappers of the C
  library, constructors, the arithmetic of the emulated instructions, the
  branches for uC/OS and for drivers bound at link time (`ALT_USE_DIRECT_DRIVERS`),
  and `alt_remap_uncached`, a link error in every build.
- The Avalon-ST adapters: combinational as configured.
- The DMA controller, SGDMA, VGA controller, frame buffer and the scaler's
  shrinking half: in the directory, not in `sopc.v`.
- Of the pixel buffer's driver the branches for 8 and 32 bit colour and for linear
  addressing, which this DMA never reports. The corresponding branches of the
  other driver are in `VideoDMADriver`.
- Reset controllers and clocks: only their effect, in `VideoSyncGenerator`.
- Colours as values outside `ColourPath` and `SoftwareColours`; the font's bitmaps.

`system.h`, `linker.h` and the tables of register macros hold constants; they
appear as the CONSTANTS of the modules.

## What is left

1. *Composition.* With the two refinements proved, a theorem that what the
   generator takes are whole frames of one buffer each, from the DMA's `Init` on;
   and one that `PixelBufferDMA` with `MemoryPort` as its memory shows what was
   drawn.
2. *Larger products.* The UART's driver called through the table of descriptors
   by two threads, and the profiler's sampler as a callback of `Alarms`: each pair
   is too large for TLC at the bounds above.
