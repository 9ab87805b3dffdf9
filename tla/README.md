# FemtoRV SoC: models, checks and proofs

This directory holds TLA+ models of `src/femtoRV`: the system on chip of the
digital-electronics course (`basic`: a RISC-V processor, its memory, five
arithmetic peripherals, a UART, the assembly drivers that use them, the tool that
makes the memory's image) and its BIOS (`litex/my_bios`: console, commands and
boots), with the TLC runs that check them and the TLAPS proofs about them. Paths
below are relative to `src/femtoRV/` unless they start with `src/`.

## 1. Inventory

| Component | State it keeps | Operations | Talks to |
|---|---|---|---|
| Processor `basic/rtl/cores/cpu/femtorv32_quark_V2.v` | FSM state, PC, latched instruction, rs1/rs2, register file, shifter, cycle counter | one clock edge: fetch, wait, execute, wait for shifter or memory, reset | memory bus |
| Block memory `cores/bram/bram.v` | words, read register | read, byte-lane write | processor |
| Interconnect `basic/rtl/SOC.v` | none (combinational) | chip select, read multiplexer | all |
| Multiplier `cores/mult_ASM` | bus registers, control FSM with registered outputs, shifters, accumulator | register write, read, clock period, reset | bus |
| Divider `cores/div` | bus registers, FSM, remainder/quotient pair | same | bus |
| Square root `cores/sqrt_ASM` | bus registers (falling edge), FSM, three shift registers, counter | same | bus |
| Radix converters `cores/bin2bcd`, `cores/bcd2bin` | bus registers (falling edge), shared FSM, 36-bit shift register, digit signs, counter | same | bus |
| UART `cores/uart` | bus registers, tick generator, synchroniser, receiver, transmitter | register write, read, clock edge, reset | bus, serial line |
| SPI flash reader `cores/spi_flash` | shift registers, bit counters | read of a word | processor (`SOC_flash.v`) |
| Assembly firmware `basic/firmware/asm` | registers, stack | drivers `*_hw`, software `mult`, `div`, `bin_to_bcd`, `putchar`, `getchar`, `wait`, the calculator | bus |
| C library `basic/firmware/c/libfemtorv` | none | `putchar`, `getchar`, print | UART |
| BIOS line editor and history `litex/my_bios/readline.c` | line buffer, cursor, length, insert mode; the terminal's screen; history ring of lines with its write slot, shown slot and highest slot | one key: a character, cursor movement, three deletions, insert toggle, ^C, Tab, Up, Down, Enter | terminal, completion |
| BIOS completion `complete.c` | list of at most ten matches, whether Tab was just pressed | Tab | line editor, command table |
| BIOS serial boot `boot.c` | search for the magic string, frame buffer and position, timer, failure count, what is loaded | one byte from the line, a timeout | uploading host over the UART |
| BIOS commands `helpers.c`, `cmds/`, `sim_debug.c` | the devices' registers, markers; memory and flash | split a line, look a name up, the handlers of 64 commands, which check their parameters and then act | console, LiteX libraries outside the repository |
| BIOS boots from a medium `boot.c`, `cmds/cmd_spiflash.c` | mounted volume, open file, token list of `boot.json`, what is loaded | `netboot`, `sdcardboot`, `sataboot`, `flashboot`, `romboot`, a file of the card into the flash | FatFs, TFTP, jsmn, the flash |
| Firmware image tool `basic/firmware/firmware_words_src` | image of the RAM, occupied cells, address | options, a hex or ELF file in, words out | files |
| Vendored or generated: `verilog_model`, `sim_models_efx`, `*_synth.v`, `*.vpp`, `IC`, `simulation/` (upstream FemtoRV) | | | |

What makes each part hard, and what makes it correct:

* **Two clocks edges, several processes.** The Verilog mixes blocking and
  nonblocking assignments between processes of one edge, and wrappers at the
  rising edge with datapaths at the falling edge. A unit is correct when the
  result is right *whenever* `done` is high, whatever software writes meanwhile
  and wherever a reset falls.
* **A handshake without acknowledgement.** A unit announces a result for a
  fixed number of cycles and then clears it. Driver and unit never wait for
  each other, so what a driver returns depends on the cycle count of its poll
  loop. Correct: a call returns, with the result of *its* operands.
* **A multi-cycle processor.** One instruction takes two to many edges, writes
  the register file twice when it waits, and can be interrupted by a reset at
  any edge. Correct: it implements the RV32I instruction set.
* **A serial line.** Asynchronous to the clock; bytes arrive while software is
  elsewhere, one is held, and the flag that announces it is cleared by a bit of
  a register that software sets and must clear. Correct: what is sent is what
  is received, in order, and a program that answers every byte loses none.
* **An editor that prints differences.** The line is in a buffer and on a
  terminal, and nothing ever redraws it. Correct: after any keys both agree,
  and the lines Up and Down bring back are the last ones kept, newest first.
* **Commands that refuse.** A handler checks its parameters one by one, and any
  library call may fail; the reset button may come between any two steps.
  Correct: what is refused has changed nothing, what is done is what was asked.
* **Boots with several attempts.** A volume is mounted for every file, a JSON
  file names several, and a failure half way is followed by the next attempt.
  Correct: nothing stays mounted or open, and the program started is whole, the
  one that was told, at the place that was told.
* **A tool that reads text.** Origins may go anywhere. Correct: the words written
  are the bytes read, or it fails and for a reason.
* **A dialogue over a lossy line.** Frames have a checksum and a timer, replies
  have no number. Correct: the board starts the uploaded program only when all
  of it is in memory, and gives up at some point.

## 2. Plan

1. `PeriphBus`, `Mult32`, `Div`, `Sqrt`, `Bcd`: the peripherals, one step per
   clock period. *Done.*
2. `RvInstr`, `Quark`, `Isa`, `QuarkRam`: processor, memory and the abstract
   machine they implement. *Done.*
3. `SocCpu`, `Soc`: everything of `SOC.v` that computes, cycle by cycle, with
   the drivers. *Done.*
4. `Mult32Proofs`: type correctness and functional correctness of the
   multiplier for every operand size. *Done.*
5. `Uart`, `UartEcho`: the UART and the firmware that uses it. *Done.*
6. `Recall`, `History`, `Completion`, `Readline`: the BIOS console and the
   abstract history it implements. *Done.*
7. `SerialBoot`: the upload protocol. *Done.*
8. `Commands`, `MediaBoot`, `Bios`: every command handler, every boot, and the
   console that runs them. *Done.*
9. `FirmwareWords`: the image tool. *Done.*
10. `DivProofs`, `SqrtProofs`: the divider and the square root are right for every
    operand width. `QuarkRamProofs`: the processor implements `Isa`. *Done.*
11. `SerialBootProofs`: the board's side of the serial boot for any line, and its
    dialogue with the host over a line with one fault. `ReadlineProofs`: the history
    ring and the whole console. `BiosProofs`: what every command and boot leaves
    behind. `FirmwareWordsProofs`: the image tool. *Done.*
12. The software routines of `firmware/asm` (`mult`, `div`, `bin_to_bcd`, the
   calculator) as programs of `Isa`, checked against arithmetic; `div`'s stack
   frame (`div.S:15`) is the first thing to look at.
13. The flash reader behind `SOC_flash.v`, with the processor's wait for memory.
14. Proofs, in this order: the phases of a poll loop of any length against an end
    flag of any width (`PhaseDecides`, `AlwaysLate`); the bit counters of the UART.

Every module is written to be proved about: sizes are constants with named
assumptions, each operation is one definition, invariants are conjunctions of
named parts. Only `Bcd` uses a RECURSIVE operator (the decimal value of a digit
sequence), and no module with a theorem reaches it.

## 3. The modules and the code

### Conventions

Names are the source's names. One action, or one step built from named parts,
is one clock edge or period in the hardware modules, one key in the editor, one
byte in the serial boot, one step of a handler or one library call in the
BIOS, one byte in the image tool. A *history variable* is marked as such where it is
declared; nothing in the code reads it. Definitions introduced as mutants are
wrong versions of the definition below them; no specification uses them, they
are what the properties are tried against.

`Simulated` (module `PeriphBus`): several peripherals assign a register with a
blocking assignment in one process and read it in another process of the same
edge. The synthesised circuit uses the old value; an event-driven simulator may
use either, because the order of the processes is not defined. `Seen(old, new)`
is the set of values the reader may get: both when `Simulated`, the old one
otherwise. The choice is made anew at every edge, which contains every order a
simulator may keep and the order of the circuit. The runs of the peripherals
alone and of the UART are `Simulated`; the runs of the whole SoC model the
synthesised circuit.

### Peripherals

| Module | Code | State | Actions |
|---|---|---|---|
| `PeriphBus` | ports and address decoder of the `perip_*.v` | none | bus cycles: `Idle`, `Load`, `Store` |
| `Mult32` | `mult_ASM/*.v` | wrapper `A B init d_out`; FSM `state count done sh reset add`; datapath `sA sB pp`; history `opA opB` | `Start Check Add Shift End` inside `RunPeriod`, `ResetPeriod` |
| `Div` | `div/*.v` | wrapper; FSM; `rem quo` (the 32-bit pair), `regB`, `result` | `Start Start1 Shift CheckGreater CheckEnd End`, reset |
| `Sqrt` | `sqrt_ASM/*.v` | wrapper; FSM; `rem low R TMP`; counter `cont`, its zero flag `z` | `Start ShiftDec LoadTmp Check LoadA2 CheckZ End1`, reset |
| `Bcd` | `bin2bcd/*.v`, `bcd2bin/*.v` | wrapper; shared FSM; `bcd bin` (the shift register), `msb`, `cont`, `z`; `toBcd` says which of the two | as `Sqrt` |
| `Uart` | `uart/uart.v`, `uart/perip_uart.v` | wrapper `d_in_uart uart_ctrl d_out`; tick counter; synchroniser; receiver; transmitter | `Edge` = `Wrapper`, `Tick`, `Synchronise`, `Receive`, `Transmit`; `ResetEdge` |

In the units whose wrapper and datapath use opposite clock edges one step is
the whole period, rising edge first. Registers are numbers with their width as a
modulus; a UART byte is the sequence of its bits. Widths, the time an end flag
is held and the baud divisor are constants.

### Processor and SoC

`Quark` is `femtorv32_quark_V2.v`: its four-state FSM with the write back in two
states, the ALU, the serial shifter with its three competing assignments, the
load and store lane logic, the cycle counter, and the reset that keeps the
latched instruction. An instruction is a record of its fields (`RvInstr`): the
bit positions are the encoding of RV32I and are left out, every field the
processor decodes is there (`Instructions`). `QuarkRam` adds `bram.v` and the reset button, and
`Isa` is the abstract machine: one instruction at a time over registers and
bytes, with `Restart` for what a reset may do. The refinement is by `arch`, the
state the program saw at the last fetch.

`SocCpu` is the processor with a caller that calls one driver of `firmware/asm`
over and over as fast as it can; `Soc` attaches all peripherals of `SOC.v` at
their addresses. Time is what the FSM makes it cost: nothing is assumed about
the length of a poll loop, the loop is executed. The net `reset`, which `SOC.v`
uses at the converters and declares nowhere, is a constant of unknown value.

### UART with its firmware

`UartEcho` runs `Uart` with the accesses of `getchar.S` and `putchar.S`, in their
order, in a loop that answers every byte, after a first byte as prompt. `pc`
names the next access. Between two accesses `MinPause` to `MaxPause` clocks pass,
for the instructions between; on this processor an instruction takes at least
four clocks, so that the UART always sees the two writes of `putchar` apart. The
peer is not in the repository: it sends well-formed frames with its own bit
time and at least `Gap` clocks between frames, at any phase, and samples what
comes back in the middle of each bit. `Press` is the reset button, at any clock
at which the peer is not sending; as in the code, the wrapper's registers keep
their values. `Due` is what the peer may hear next: the byte it waits for, and in
the place of the prompt the byte a reset left in those registers (`leftover`).

### BIOS

`Readline` is `readline.c` with the macros of `readline.h`, in the loop of
`main.c`. `ed` holds the buffer, `num`, `eol_num`, `insert` and, since the code
only prints differences, the terminal: its cells and its cursor, changed only by
what is printed. One action per key; the escape sequence of a key arrives whole,
and a sequence `read_key` does not know is the delete key, because it returns -1
into an `unsigned char`. A write outside an array sets `spilled` and ends the
behaviour: C says nothing about what follows. That happens with Enter or Tab on
a line that fills the buffer (`readline.c:208` and `:344` put the terminator one
cell beyond it)
and with numbered escape sequences too long for `esc`.

`History` is the ring: `hist_lines`, `hist_add_idx`, `hist_cur`, `hist_max`, with
`KeepLine`, `SkipLine`, `hist_prev`, `hist_next`. `Recall` is what it promises:
the last `HIST_MAX - 1` lines, newest first, and a position. The refinement maps
the k-th newest line to the slot k behind the one being filled (`Behind`).
`Completion` is `complete.c` on whole texts; the list a second Tab prints is a
fresh prompt with the line after it.

`SerialBoot` is `serialboot` and `check_ack` of `boot.c`, one action per byte or
timeout, with an external host that sends the next frame after a success and the
same one after any other reply. A byte is the frame and the place it was sent in;
a byte read as a length that is none may be any length; the checksum is ideal.
`Faults` bounds the bytes lost and the pauses longer than the timer. A byte stored
beyond `frame.payload` ends the model (`overrun`), which is no end of the code's
(`Ended`).

`Commands` has one definition for every handler of `cmds/`: the sequence of the
checks it makes and of what it does, in the order of its code. `Need`, `Num` and
`Opt` are the recurring fifteen lines that test `nb_params` and the character
`strtoul` stopped at. What a handler only prints is left out, the bytes of a
memory dump excepted. The library functions behind the handlers are external: a
setting is a register of `dev`, a transfer may be refused (`Try`), a memory test
leaves a pattern. A word is a number or begins with none: `strtoul` makes 0 of it,
where it is not checked. The names of the table are its keys, as `define_command` and
`command_dispatcher` make it.

`Bios` is the loop of `main.c`: `TypeLine` reads a line, splits it (`get_param`;
`WordsOf` are the words of a line in their order) and looks the name up; the other actions carry the handler out, one action per
kind of step, and leave it at a check that fails. `before` is a history variable:
memory, flash and devices when the command was called. `shown` is what a dump
printed, `same` the result of `mem_cmp`. More words than `params` has room for,
or more fields of an address than its array, end the model (`overrun`): C says
nothing about what follows.

`MediaBoot` has the boots of `boot.c`. `job` holds the locals of the function that
runs; `mounted` and `opened` are FatFs's pointers to two of them. `Mount`, `Open`,
`ReadJson`, `ReadChunk` and `ReadEnds` are the library calls, each of which may
fail; `Token` is one round of the loop over the tokens of `boot.json`. The code
repeats the same three functions for the card, the disk and the network; the
model names each of the copies and keeps the differences (an empty file is an
error over the network only, a name given to `netboot` rules out `boot.bin`). The
JSON buffer has no terminator, so the parser may find tokens behind the text
(`Residues`). The image in the flash is a length, a checksum and bytes; a cell
written twice without an erasure is spoilt.

`FirmwareWords` is `firmware_words.cpp`: `Begin` reads the options and makes the
RAM, `Origin`, `string_to_byte`, `OddLine`, `LineEnds` and `FileEnds` are the loop
of `load_RAM_rawhex`, `load_RAM_elf` the other input, `Finish` the limit and
`save_RAM`. The loop over the options is what it leaves: the last value of each
name. An address below zero, an interval beyond the RAM, or a binary file of fewer
than no bytes, ends the model (`undefined`).

## 4. The runs

| Run | Question | Bounds | Result |
|---|---|---|---|
| `units` | is the result right whenever `done` is high, do the loop invariants hold, does every computation end | one unit per behaviour: multiplier operands 0 to 3, three-bit division, six-bit root, nine bits and three digits; any write and any reset at any clock | holds; division for divisors up to the sign bit |
| `quark` | does the processor implement `Isa`, is every instruction finished | words of four 1-bit bytes, three registers; scenario *isa*: every form from many states; scenario *reset*: three instructions, a reset at any edge | holds |
| `soc` | what each driver returns | real widths and end flags; seven multipliers, four divisors, four radicands, three numbers | see below |
| `soc_mult_product` | does `mult_hw` return the product | same | violated |
| `soc_sqrt_hang` | does `sqrt_hw` return | same | violated |
| `readline` | does the screen show the line, is the history `Recall`, does Tab complete | three-cell lines, two letters, three slots, five commands | holds |
| `serialboot` | is what is started whole, does the dialogue end, what does it take to overrun a frame | one fault, three uploads of up to three frames, payloads of up to three bytes, three failures | holds; one fault can end in an overrun, see below |
| `serialboot_gives_up` | does the board give up after `MAX_FAILURES` errors in a row | four faults | violated |
| `uart_echo` | are bytes echoed in order, and none lost | two-bit bytes, two clocks a tick, peers with bits of 30 and 36 clocks (the UART's is 32), one and a half bits between frames, one reset | holds |
| `bios` | does a command do what it was asked or change nothing, is every volume handed back, is only what was loaded whole started and from the flash only what was made whole, does every command end | three lines: one that changes memory, flash or a device, then any command with right and wrong parameters, then one that shows the result; one reset between any two steps; 16 bytes of memory, 6 cells of flash, four media | holds |
| `boot_registers` | does `boot` pass its registers as its usage line says | same | violated |
| `firmware_words` | is what is written what was read, is there a reason for every failure | every hex file of three lines out of nine kinds, eight ELF files, seventeen sets of options; RAM of up to eight bytes | holds |

**Why these bounds.** The small units keep the end flag for two periods
(`DoneHold` = 1): what happens in it is the same at every period, and reset and
rewrites are tried in each. They share no state, so one at a time is all of them. Their real hold times matter only against the poll
loop, which is `soc`. Widths of two to nine bits make every carry, every
last-iteration case and every sign test happen; the divider's threshold is the
sign bit at any width. In the processor a byte has one bit, so that the four
lanes, sign extension from byte and half word and all shift amounts occur and
the register files can be many. In `soc` a byte has seven bits and a word 28,
because TLC's integers have 32 bits including the sign; peripheral addresses and
16-bit operands fit. Two 15-bit operands are the largest whose product does.
In `bios` a command's effect is set up by the first line and seen through the
third; no handler keeps more than that from one command to the next. A byte has
four values and a dump line three bytes, so that words have bytes of every
position, dumps have a short last line and copies overlap by one word. The media
hold a JSON file with two images, one with the entry first and an empty image,
one that names a missing file, and none, each with or without `boot.bin`. In
`firmware_words` three lines are an origin between two runs of bytes, or three
runs: enough to write a byte twice, to come back below an earlier one and to
cross the end of the RAM in the middle of a line.
For the editor three cells make full, almost full and empty lines and every
position of the cursor; three slots make the ring wrap; a line that begins with
the letter b is one the user hides. In `uart_echo` two-bit bytes leave the bit
counter, the shift register and the sampling as they are; the margin scales
with the frame, 30 and 36 clocks in a frame of four bits being as far from 32 at
the last sample as a few percent in one of ten.

`CHECK_DEADLOCK FALSE` is set where a model is meant to stop: the processor runs
at the end of their `Budget` of instructions, the editor at a write outside an
array, the serial boot when the dialogue has ended, the BIOS when a program is
booted or the last line is done, the image tool when it exits.

**What they show.**

* The units compute correctly whatever software does meanwhile, with one
  exception that belongs to the divider's design: it takes the sign of a 16-bit
  difference for its borrow, so it is right for divisors up to 2^15 only.
* `mult_hw` and its unit do not wait for each other. The driver samples the end
  flag every thirteen cycles and reads the result ten cycles after the sample;
  the unit holds both for fifteen. So the product is returned exactly when the
  unit finishes in five of the thirteen phases (`PhaseDecides`), decided by the
  length and the number of ones of the multiplier; otherwise the driver returns
  the zero of a cleared accumulator. Nothing else is ever returned.
* `div_hw` is right for those divisors: its unit holds the flag thirty periods.
* `sqrt_hw` returns a root or zero, and with some radicands the end flag falls
  between all samples and the driver never returns: the counter that sizes the
  flag is cleared by reset only.
* All this is said of the circuit. With `Simulated = TRUE` in `Soc.cfg` the run's
  other properties hold too, but `PhaseDecides` is violated: in a simulator the
  order of the processes has a say in which phases find the product.
* The converters take the same time for every number, their flag always meets
  the poll in the same phase, and in that one the result is already cleared.
* After one fault on the line, anywhere, what the board starts is still whole and
  what it acknowledges is loaded. The fault can stop the dialogue, though. A
  pause in the middle of a frame makes the board reply with a timeout; the next
  byte on the line, read as the length of a new frame, may be zero; nothing
  completes that frame, since its end is looked for from the fifth byte on; and
  the frame the host sends again runs past `frame.payload` (`boot.c:211`), after
  which C defines nothing. A byte lost where the length should be can lead there
  too. The model stops at that write (`phase = "overrun"`), and `BootEnds` names
  it next to the ends the code has: without that case TLC finds it violated, by
  a pause in the first `LOAD` frame, in 23 states. What holds is that it
  takes a fault and an announced length of zero to get there (`BootEnds`,
  `OnlyEmptyOverruns`). Two faults are too many even for what is started
  (`Faults = 2` breaks `JumpsIntoWholeImage`): replies carry no number, so a late
  reply is taken for that of the next frame. The host of the model is the
  simplest one; this says what the protocol can give, not a fault of the board.
* A program that answers every byte keeps up with a peer that leaves one and a
  half bits between frames. An answer takes one bit time more than a frame, as
  the transmitter stays busy for a bit after the stop bit; with half a bit
  between frames (`Gap = 16`) the echo falls behind and `NothingLost` is
  violated. `getchar` leaves
  the acknowledge bit set; only `putchar` clears it, soon enough here
  (`SeenBeforeAcknowledged`). A reset between `putchar`'s two writes of the
  control register sends the byte before it again, once, in the place of the
  prompt (`leftover`); the answers after it are right (`EchoesInOrder`).

* The BIOS's handlers check every parameter before they act (`i2c_write` its slave
  address after the register address). Every path through the boots
  unmounts what it mounted. A reset while the flash is written leaves a header
  whose checksum does not fit, and `flashboot` refuses it. A JSON boot runs its
  images whole and the entry it was told, or fails; one that fails may leave part
  of an image in memory and goes on with `boot.bin`, which overwrites it only as
  far as it reaches.
* The image tool writes exactly what it read.

**Findings** (in `PROJECT.json`, each with its violated run): `mult_hw` returns
zero for products, `sqrt_hw` may not return, the serial boot's "too many
consecutive errors" does not count timeouts, which are errors it replies with,
and the fourth parameter of `boot` overwrites r2 instead of setting r3
(`cmd_boot.c:54`).

**Also noticed, outside any run.** `div` saves one register at `1(sp)`, inside the
word of the other (`div.S:15`); the library's `getchar` polls a bit of the data
register that this UART wrapper always reads as zero (`libfemtorv/uart.S`,
`perip_uart.v:47`), though its only program does not call it; a `LOAD` frame
shorter than an address makes the length of the copy negative (`boot.c:264`).
In the BIOS: `get_param` stores one pointer per word of a line without comparing
with `MAX_PARAM` (`helpers.c:107`), and the parsers of addresses store fields
before they count them; names in `boot.json` are compared as prefixes, so a file
called `r1.bin` or `address.bin` is taken for a parameter (`boot.c:496`); the buffer
of `boot.json` is not terminated and the result of reading it from a volume is not
looked at (`boot.c:749`); `json_name` and `json_value` are filled without comparing
with their size; `jsmn_parse` answers a text it refuses, or one of more than 32
tokens, with a negative number, which the `uint8_t` `count` makes 253 or more, so
the loop reads tokens behind the array (`boot.c:485`, `:759`, `:940`; the model's
files all parse); Tab adds what the first ten matching names share, which with more
matches may hide one of them (`complete.c:34`; the model does the same and
`TabAddsCommonPart` says nothing of that case); an empty `boot.bin` on a volume
counts as loaded; `mem_write`
reads its size only when it is given exactly four parameters, and does not check
that it is a number, so that `4x` is a size of four; `i2c_dev` and `sdram_spd` cut a number to eight bits before
they compare it; the 32-byte limit of `i2c_write` cannot be reached with eight
parameters. In the image tool: output named `.bin` is refused and raw binary is
written for a name that ends in `elf`
(`firmware_words.cpp:316`, against its usage text and `:302`).

## 5. Fairness

* Hardware modules: weak fairness of the clock edge. Nothing can stop it. In
  `MCUnits` it is the edge of the unit that runs. In `QuarkRam` it is fairness of
  the edges that are neither a reset nor a fetch (`Tick`): a button held for ever
  is not a schedule of the code, and an instruction once fetched needs no other.
* `Bios`: weak fairness of the steps of a command: the processor goes on with the
  handler it is in. None of the user, of resets, or of the outcome of a library
  call.
* `UartEcho`: weak fairness of `Clock`; the peer may stay silent for ever, and the
  reset is pressed at most `Resets` times.
* `SerialBoot`: weak fairness of the board's loop (it polls the UART or its timer
  in every turn), of the timer of `check_ack`, and of the host's reading of
  replies. No fairness of faults.
* The editor has no liveness property: it waits for keys.

## 6. Proofs

**Multiplier** (`Mult32Proofs`, for every operand size, hold time and set of
written values; assumptions `SizeAssumption`, `HoldAssumption`, `DataAssumption`,
`SimulatedAssumption`).

* `TypeCorrect`: every register keeps its width, one lemma per group of
  registers.
* `Inductive`: `Spec => []IInv`. `ProductWhenDone` is not inductive: nothing in
  it says how the accumulator got there. `IInv` adds `Remaining`, which says in
  each state what is still to be added
  (`pp + sA * sB = opA * opB` while checking, the low bit already added in
  `SHIFT`), and `DoneAlone`: `done` comes with every other output low, so that a
  reset, which freezes the outputs, freezes a datapath that idles. The
  arithmetic that makes the truncation of the shifters harmless (`ProductFits`,
  `Truncation`, `Halving`) is in lemmas of its own; the preservation proof has one lemma per state
  of the FSM.
* `ProductCorrect`: the property the run checks follows from `IInv`.

**History** (`ReadlineProofs`, for every ring size and set of lines; assumption
`HistoryAssumption`).

* `RingCorrect`: `HistInv` is inductive. The conjunct that carries it is
  `hist_max < HIST_MAX - 1 => hist_add_idx = hist_max`: before the ring wraps the
  slot being filled is the highest one. Without it neither "the oldest slot is
  never shown" nor the refinement can be proved.
* `ShowsOnlyKeptLines`: no slot that was never written is shown.
* `RingImplementsRecall`: `HistSpec => Recall!Spec` under the mapping of
  `History`; each step maps to a step or a stutter, `KeepLine` by showing that
  `Behind` moves by one for every line kept. It is about the ring driven on its
  own; the next paragraph lifts it to the editor.

**Console** (`ReadlineProofs`, for every buffer size, alphabet, command table,
depth of the list of matches and ring size; assumptions `ReadlineAssumption`,
`HistoryAssumption`: the terminator is no character a key sends, and the lines the
history may keep are those that fit the buffer and do not begin with `!`).

* `ConsoleScreen` (`ScreenShowsLine`), `ConsoleLine` (`LineWasTyped`),
  `ConsoleTypes` (`TypeOK`): consequences of the inductive invariant `Console`.
  `InOrder` in it says of the editor that `num <= eol_num <= Size`, that the
  terminal's cursor is at `num`, that every cell of the screen left of `eol_num` is
  the buffer's and every other one blank, and that the buffer holds characters
  left of `eol_num` and anything behind. Screen and line have to be in one
  invariant because a key prints from the buffer and changes the buffer by where
  the cursor is. `Size` is a constant, so no theorem unrolls a
  loop: `Put`, `Typed`, the three deletions and the list of `complete` are
  described cell by cell (`PutText`, `AddChars`, `DropOrder`, ...), and each key has a
  lemma that it keeps `InOrder`.
* `ConsoleTail` (`TailKept`): an action property, from `Console` and what a key
  does to the cells right of the cursor.
* `ConsoleRecalls` (`ShowsRecalled`) and `ConsoleImplementsRecall`
  (`ImplementsRecall`): the editor takes the steps of the ring and no others, and a
  step of the ring that brings a line back puts that line into the buffer, so the
  refinement holds under the editor's own specification.
* `ConsoleCompletes` (`TabAddsCommonPart`): the characters `Tab` adds are the longest
  common continuation of the matching names. Where the code loops until two names
  differ, the proof takes the *least* place at which they would (`LeastNumber`, from
  the well-foundedness of `<`): the induction theorems of the library cannot be
  used, the existence of a least counterexample can.

**Divider** (`DivProofs`, for every operand width up to 31 bits, hold time and
set of written values, whether `Simulated` or not; premise `ConstantsOK` of
`Div`, which `MCUnits` assumes of its values).

* `TypeCorrect`: every register keeps its width, whichever of two values a
  process sees.
* `QuotientCorrect`: `QuotientWhenDone` and `DivideByZero`. The invariant cuts
  the dividend at bit `c = count`. `Parts` says that the upper part, which has
  been shifted in, is `q` divisors and the remainder, and that the lower half of
  the pair holds what is left of the dividend above the `Bits - c` bits of `q`.
  It is needed because the pair is one register whose halves change meaning
  bit by bit. `rem < opB` after each round, with `opB <= Half`, is what keeps
  the sign test honest: `rem` before it is below `2 * opB`, so the difference
  is within the range of a signed word. For the divisor zero the same cut
  holds with other bounds (`ZeroDividing`): the remainder is what was shifted
  in, every quotient bit is one as long as the remainder is below the sign
  bit, and that ends at the earliest in the last round.

**Square root** (`SqrtProofs`, for every operand width from four bits; premises
`ConstantsOK` of `Sqrt` and `Iter >= 2`).

* `TypeCorrect` as above.
* `RootInvariant` (`RootSoFar`) and `RootCorrect` (`RootWhenDone`): the operand
  is cut at digit `cont` of base four, and between `SHIFT_DEC` and `CHECK` the
  root already has its next bit open (`Doubled`): it is even, the remainder is at most
  `4 * R + 3`, and `4 * R + 4` is below the width, so that the trial difference
  keeps its sign. That last bound is `EvenRootIsSmall`; it is false for
  two-bit operands, where the unit returns 0 for the root of 3, hence `Iter >= 2`.

**Processor** (`QuarkRamProofs`, for every program, initial registers and memory,
pattern of resets, width of byte, word and address, and set of registers).
Assumptions: a byte has an even number of values, a word of four bytes has `XBits`
bits (`Pow2[XBits] = WSize`) and holds an address and the cycle counter; a fetch
returns an instruction the processor decodes; a program starts with numbers
in its registers and memory and zero in `x0`. The sizes of the code (256, 2^24, 32
and 2^32) meet all of them.

* `TypeCorrect` (`TypeOK`): registers, memory, shifter and counters stay in range,
  what the lane logic of loads and stores and the shifter compute included.
* `ProcessorImplementsIsa` (`ImplementsIsa`): every edge is a step of `Isa` or none.
  Its invariant, `IInv` (`InstructionInFlight`), says what the processor holds of
  an instruction between two fetches. Until it executes, `arch` is the state of the
  machine and the shifter is at rest (`AtFetch`), and the operands are those
  `arch` has (`Latched`). While it waits, only its target may differ in the
  register file (`OthersKept`), because `quark_V2.v` writes back at *every* edge of
  `EXECUTE` and `WAIT_ALU_OR_MEM`, values that are not final included; what is
  still to come is either the rest of the instruction (`Retiring`: the
  shifter holds what is left of the shift, the read register the word addressed,
  the memory what the store made of it) or a reset (`Restarting`: the same
  instruction is written back once more, with operands that are gone). `Isa` allows
  a reset to spoil the target of the last instruction for the latter.
  The steps rest on what the operators compute: the byte lanes of `bram.v` are
  the little-endian bytes of `Isa` (`LoadCorrect`, `StoreCorrect`), the borrow and
  the two sign bits order signed numbers (`SignedComparison`), a serial shift by
  one leaves the same shift to be done by one place less, arithmetic ones included
  (`ShiftStep`), and the powers of two and the bitwise operations, which are folds
  over the bits, give words (`Powers`). For a proof these are recursive
  functions, and what is known of them comes from a least counterexample.

**Serial boot** (`SerialBootProofs`, for every magic string whose first byte
occurs once in it, payload size, failure limit and upload; assumption
`UploadsAssumption` and premise `ConstantsOK`, which the values of
`MCSerialBoot`, like the code's `SFL_MAGIC_ACK`, meet). The first three hold for any
number of faults:

* `TypeCorrect`: no failure is counted past the limit, because the board leaves
  the loop with the one that reaches it (`Shape`: still running means below it).
* `AnnouncedFits`: `OnlyEmptyOverruns`. The index never passes the end of a frame
  that announces a payload, since the test for the last byte is made at each.
* `MagicRecognized`: `MagicFound`. `Recent` says byte by byte that `recognized`
  is the longest beginning of the magic string that the bytes read so far end
  with; a mismatch may fall back to one byte, without looking for a longer
  beginning, because no two beginnings end together (`NoBorder`).

Two more have the premise `DialogueConstants`: at most one fault on the line, and
no program frame after the jump. Neither is needed to exclude a difficulty of the
proof: two faults do break both properties, since replies carry no number.

* `JumpCorrect` (`JumpsIntoWholeImage`) and `AcknowledgedCorrect`
  (`AcknowledgedIsLoaded`). The invariant `Dialogue` says where in the exchange board
  and host may be. Before the fault they take turns (`OneAtATime`). After it they are
  in one of three situations. `InStep`: the bytes on the line are frames in
  sequence and the board is where the first of them belongs; frames may be sent twice,
  because a reply was late. `TooShort`: a byte of the frame being received is
  missing and nothing else is on its way, so the timer will run out. `OutOfStep`: the
  board began in the middle of a frame; it then never acknowledges, so that the
  host only repeats. The proof has one lemma per action, each of which shows which
  situation follows which; the delicate fact is that a board out of step cannot meet
  a valid checksum, because what it holds is not one frame from its start.

**BIOS** (`BiosProofs`, for every command line, content of the media, memory, flash
and number of commands and resets; assumptions `ConsoleAssumption`,
`InputsAssumption`: a line, a token list and a residue are sequences, a value among
the tokens is a number, as `strtoul` makes one of any text, no line of length zero
reaches a handler, memory and flash cover their addresses; and `PlacesAssumption` on the
memory map).

* `BiosRefuses` (`RefusedChangesNothing`): a refused command has changed nothing.
  `Good(handler)` is a property of the *sequence of steps* a handler is: every check
  that may refuse for its parameters stands before every change. It is proved of
  each of the 64 entries of `Table` for any parameters (`TableGood`), from lemmas
  on the shapes they are written in (checks followed by deeds, checks
  followed by a controlled sequence, several files). The invariant `CheckedInv`
  carries it along what is left of the handler: as long as a check is
  still to come, the state is the one the command was called in.
* `BiosHandsBack` (`HandsBack`): a volume is mounted only while a file of it is opened
  or read, and at the prompt and in a booted program nothing is mounted or open
  and the memory controller has the memory back. `ControlInv` says that a handler that
  has taken the control away gives it back with its next step or the one after
  (the other half of `Good`; no check or library failure can come between).
  `JobInv` does the same for the boots: `Uses` ties `mounted` and `opened` to where the
  job is, whichever call fails.
* `BiosDoesWhatWasAsked` (`DoesWhatWasAsked`). Here the loops count. In the model a handler is the sequence of its steps, so `Rest` says that
  what is left to do is the end of the called handler's sequence, and `Rounds` how
  many rounds of its loop are therefore over. `RoundsInv` has one part for each of
  the four loops, true after every number of rounds: `Written` (`mem_write`), `Copied`
  (`mem_copy`, from a source that is memory: overlapping ranges are copied as the code
  copies them, upwards), `Printed` (`mem_read`, also its last line when it is not full)
  and `Compared` (`mem_cmp`). `EndedInv` says the same of a command that has ended.
  `WritesInv` says who may write at all: `Allowed`, proved of every entry of
  `Table`, keeps memory and flash as they were for all other commands.
* `BiosJumpsAsTold` (`JumpsAsTold`): a program is started only when it is there. The
  property speaks of the whole list of tokens at the moment of the jump; the
  invariant `LoadInv` of the keys that the loop has `Passed`. `Told` says that each of
  the variables of the loop (`boot_r1` to `boot_r3`, `boot_addr`, `boot_addr_found`,
  `image_found`) is what the last of those keys makes it, `Landed` that each image among
  them exists and lies at its address except where a later one covers it or the one
  that is being read (`Fresh`), and `Part` that as much of that one as has been read is
  in place. A step of `f_read` moves a cell from `Landed` to `Fresh`; at the end of the
  file the image becomes the last one that has landed (`LandedWhole`), and at the end of
  the tokens the keys passed are all of them. Images may overlap, be empty, reach
  beyond the memory or be named twice. `boot.bin` and the image of the flash need
  `Part` alone, whatever a JSON boot left behind before; that the checksum is right at
  the jump needs that nothing programs the flash meanwhile. For the `boot` command
  `BootsAlways` reads the entry and the registers off the parameters.
* `BiosTypes` (`TypeOK`): with `JobShape`, which keeps the counter of the token loop
  within its list, also for the list of a buffer without terminator.

**Image tool** (`FirmwareWordsProofs`, for every command line, RAM size, hex file and
ELF file; assumption `InputsAssumption`: `parse_int` gives numbers, a RAM size is not
negative, a line of a file is an origin or bytes, an ELF image lies at addresses from
zero on and has a highest one).

* `ImageCorrect` (`WritesWhatWasRead`) and `FailureHasReason` (`FailsForAReason`). The
  properties say where a byte of a file belongs without reading it in order:
  the last origin before it, plus the number of bytes between (`Address`). The
  invariant `Reading` says that after the bytes before a place the address is that
  of the place and the image holds just those bytes (`InImage`), each at its own
  address, with nothing else (`Occupied`). Its steps rest on what `Address` does from
  one place to the next: one more within a line (`NextByte`), the same from the end of
  a line to the next (`NextAddress`), anew at an origin (`OriginAddress`). `Loaded` is the
  outcome both inputs share, and `Written` the order of the bytes in a word.

**Only model-checked.** The liveness properties (`EveryUnitCompletes`,
`Retires`, `CallReturns`, `BootEnds`, `EveryByteAnswered`, `CommandEnds`),
which the prover cannot do under fairness; the converters, whose reference is
the recursive decimal value; the timing of the drivers
(`Soc`) and the UART; and

* `FlashBootsMade`: whether what `flashboot` starts was made as a whole depends on a
  checksum that tells images apart, which is true of the images of the run and of no
  checksum in general (that it starts what the flash holds, whole and with the right
  checksum, is proved);
* the invariants of `MCUnits` (`ResultsWhenDone`, `UnitsInv`): they
  put the units' own invariants side by side for one run; the theorems are about the
  units' modules, for every size.

## 7. Not modelled

* Software `mult`, `div`, `bin_to_bcd`, `wait` and the calculator: planned as
  programs of `Isa`.
* The flash reader and `SOC_flash.v`: planned.
* `dpRAM`: part of `SOC_flash.v` only; `SOC.v` decodes its address and attaches
  nothing.
* `libfemtorv`: formatting and delay loops over the same `putchar`.
* What is behind the BIOS's calls: FatFs, TFTP, jsmn, the drivers of LiteX, and the
  ELF reader behind the image tool. They are external; that a mount that fails
  leaves nothing mounted is assumed of FatFs. Text the BIOS prints, other than the
  editor's line and memory dumps.
* The `set_*` parameters of a network boot (TFTP server, ports), the delays and
  `Press Q or ESC` before the boot sequence at power-up.
* `simulation/` is a copy of the upstream project; `*_synth.v`, `*.vpp`,
  `verilog_model` and `sim_models_efx` are generated or the vendor's; `IC`,
  `SOC_old.v`, `mult`, `divider_ASM` are earlier versions.
* Analogue and electrical matters: metastability behind the synchroniser, clock
  skew between the edges, glitches on the serial line.
