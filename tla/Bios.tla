-------------------------------- MODULE Bios --------------------------------
(***************************************************************************)
(* The BIOS console (main.c, helpers.c): it reads a line, splits it, looks *)
(* the command up and carries its handler out.  Every step of a handler is *)
(* a step here, so that the reset button, or the failure of a library      *)
(* call, can come between any two of them.                                 *)
(*                                                                         *)
(* A line is a sequence of words and spaces; the line editor is the        *)
(* subject of Readline.                                                    *)
(***************************************************************************)
EXTENDS Commands, MediaBoot

CONSTANTS
  Space,
  MaxParam,    \* MAX_PARAM (8)
  MaxMarkers,  \* MAX_N_MARKERS (254)
  Pattern,     \* what a memory test leaves
  Lines,       \* Lines[k]: what the user may type as the k-th command
  MaxResets,   \* bound: presses of the reset button
  FirstMem, FirstFlash,
  Made         \* the images someone made for the flash

ASSUME ConsoleAssumption ==
  MaxParam \in Nat /\ MaxMarkers \in Nat \ {0} /\ MaxResets \in Nat

(* Elements of a line and of a token may be numbers as well as names.       *)
IsSequence(s) == Len(s) \in Nat /\ s = [k \in 1..Len(s) |-> s[k]]

(* The tokens of a text; strtoul makes a number of every value. *)
AreTokens(s) == IsSequence(s) /\ \A k \in DOMAIN s : s[k].kind = "value" => s[k].text \in Nat

(* main calls no handler for an empty line. *)
ASSUME InputsAssumption ==
  /\ IsSequence(Lines)
  /\ \A k \in DOMAIN Lines : \A line \in Lines[k] : IsSequence(line) /\ Len(line) > 0
  /\ \A files \in Contents : \A f \in DOMAIN files : AreTokens(files[f].tokens)
  /\ \A rest \in Residues : AreTokens(rest)
  /\ FirstMem = [x \in Addr |-> FirstMem[x]] /\ DOMAIN FirstFlash = 0..FlashTop

VARIABLES
  phase,     \* "prompt", "command", "booted", or "overrun": an array was overrun
  cmd,       \* the command called last, with its parameters
  prog,      \* what is left of its handler
  reply,     \* how it ended
  dev,       \* the registers of the devices and the variables of the drivers
  before,    \* memory, flash and dev when it was called
  shown,     \* the lines mem_read printed
  same,      \* the local of mem_cmp
  ncommands, nresets

console == <<phase, cmd, prog, reply, before, shown, same, ncommands, nresets>>
vars == <<media, console, dev>>

Counters == {"n_markers", "marker"}
PowerOn == [r \in Registers \cup Counters |->
              IF r = "control" THEN <<"hardware">> ELSE IF r \in Counters THEN 0 ELSE <<>>]

Snapshot == [mem |-> mem, flash |-> flash, dev |-> dev]
NoCommand == [name |-> "", params |-> <<>>]

Init ==
  /\ MediaInit /\ mem = FirstMem /\ flash = FirstFlash
  /\ phase = "prompt" /\ cmd = NoCommand /\ prog = <<>> /\ reply = "none"
  /\ dev = PowerOn /\ before = Snapshot /\ shown = <<>> /\ same = TRUE
  /\ ncommands = 0 /\ nresets = 0

-----------------------------------------------------------------------------
(* The words of a line, in order: the n-th has n - 1 before it. *)
WordPlaces(line) == {k \in DOMAIN line : line[k] # Space}
WordsOf(line) ==
  [n \in 1..Cardinality(WordPlaces(line)) |->
     line[CHOOSE k \in WordPlaces(line) : Cardinality({j \in WordPlaces(line) : j < k}) = n - 1]]

(* The first word is the command, an empty one if the line begins with a    *)
(* space.                                                                  *)
get_param(line) ==
  IF line[1] = Space THEN [name |-> "", params |-> WordsOf(line)]
                     ELSE [name |-> line[1], params |-> Tail(WordsOf(line))]

(* One round of the loop of main, up to the call of the handler.  params    *)
(* has room for MaxParam words, and nothing counts them.                   *)
Enter(line) ==
  LET call == get_param(line)
      found == call.name \in CommandNames
  IN  /\ ncommands' = ncommands + 1 /\ before' = Snapshot
      /\ shown' = <<>> /\ same' = TRUE
      /\ cmd' = call
      /\ phase' = IF Len(call.params) > MaxParam THEN "overrun"
                  ELSE IF found THEN "command" ELSE "prompt"
      /\ prog' = IF phase' = "command" THEN Handler(call.name, call.params) ELSE <<>>
      /\ reply' = IF found THEN "none" ELSE "not found"
      /\ UNCHANGED <<media, dev, nresets>>

TypeLine ==
  /\ phase = "prompt" /\ ncommands < Len(Lines)
  /\ \E line \in Lines[ncommands + 1] : Enter(line)

-----------------------------------------------------------------------------
(* The steps of a handler. *)
Now == Head(prog)
At(kinds) ==
  /\ phase = "command" /\ job = Idle
  /\ prog # <<>> /\ Now.do \in kinds
Advance ==
  prog' = Tail(prog) /\ UNCHANGED <<phase, cmd, before, ncommands, nresets>>

(* A check that fails, or a transfer that is refused, ends the command. *)
LeavesWith(word) ==
  /\ prog' = <<>> /\ reply' = word
  /\ UNCHANGED <<media, dev, phase, cmd, before, shown, same, ncommands, nresets>>

CheckStep ==
  /\ At({"check"})
  /\ IF Now.ok THEN Advance /\ UNCHANGED <<media, dev, reply, shown, same>>
               ELSE LeavesWith(Now.reply)

Refused == At({"try"}) /\ LeavesWith("error")

(* Mutant: the wrap-around one marker late. *)
sim_markLate(d) ==
  [d EXCEPT !.marker = d.n_markers + 1,
            !.n_markers = IF d.n_markers + 1 > MaxMarkers THEN 0 ELSE d.n_markers + 1]

(* sim_mark numbers the markers from one: zero means that there is none.    *)
sim_mark(d) ==
  [d EXCEPT !.marker = d.n_markers + 1,
            !.n_markers = IF d.n_markers + 1 >= MaxMarkers THEN 0 ELSE d.n_markers + 1]

RegisterStep ==
  /\ At({"set", "try", "set_one_of", "toggle", "mark"})
  /\ dev' \in CASE Now.do \in {"set", "try"} -> {[dev EXCEPT ![Now.reg] = Now.value]}
                [] Now.do = "set_one_of" -> {[dev EXCEPT ![Now.reg] = v] : v \in Now.values}
                [] Now.do = "toggle" -> {[dev EXCEPT ![Now.reg] = IF @ = <<>> THEN <<1>> ELSE <<>>]}
                [] Now.do = "mark" -> {sim_mark(dev)}
  /\ Advance /\ UNCHANGED <<media, reply, shown, same>>

(* Memory.  A word is four bytes, the lowest first. *)
Bytes(a, n) == [k \in 1..n |-> mem[a + k - 1]]
ByteOf(v, k) == (v \div Byte^k) % Byte
Overlay(cells, a, n, New(_)) ==
  [x \in DOMAIN cells |-> IF x \in a..(a + n - 1) THEN New(x - a) ELSE cells[x]]

MemoryStep ==
  /\ At({"store", "copy", "scratch"})
  /\ mem' = CASE Now.do = "store" -> Overlay(mem, Now.a, Now.size, LAMBDA k : ByteOf(Now.v, k))
              [] Now.do = "copy" -> Overlay(mem, Now.d, 4, LAMBDA k : mem[Now.s + k])
              [] Now.do = "scratch" ->
                   Overlay(mem, Now.a, IF Now.n = -1 THEN MemTop + 1 ELSE Now.n, LAMBDA k : Pattern)
  /\ Advance
  /\ UNCHANGED <<flash, mounted, opened, job, jump, dev, reply, shown, same>>

FlashStep ==
  /\ At({"program", "erase"})
  /\ flash' = IF Now.do = "erase"
              THEN Overlay(flash, Now.d, Now.n, LAMBDA k : Erased)
              ELSE Overlay(flash, Now.d, Now.n,
                           LAMBDA k : Programmed(flash[Now.d + k], mem[Now.s + k]))
  /\ Advance
  /\ UNCHANGED <<mem, mounted, opened, job, jump, dev, reply, shown, same>>

ShowStep ==
  /\ At({"show"})
  /\ shown' = Append(shown, [addr |-> Now.a, bytes |-> Bytes(Now.a, Now.n)])
  /\ Advance /\ UNCHANGED <<media, dev, reply, same>>

CompareStep ==
  /\ At({"compare"})
  /\ same' = (same /\ Bytes(Now.a, 4) = Bytes(Now.b, 4))
  /\ Advance /\ UNCHANGED <<media, dev, reply, shown>>

(* boot, and overrunning the fields of an address, do not come back. *)
Leave ==
  /\ At({"jump", "overrun"})
  /\ prog' = <<>>
  /\ IF Now.do = "jump" THEN phase' = "booted" /\ boot_helper(Now.r1, Now.r2, Now.r3, Now.a)
                        ELSE phase' = "overrun" /\ UNCHANGED <<job, jump>>
  /\ UNCHANGED <<mem, flash, mounted, opened, dev, cmd, reply, before, shown, same,
                 ncommands, nresets>>

(* The boot commands and flash_from_sdcard start here. *)
MediaStart ==
  /\ At({"media"})
  /\ \/ Now.from = "flashboot" /\ flashboot /\ UNCHANGED jump
     \/ Now.from = "romboot" /\ boot_helper(0, 0, 0, RomBoot)
     \/ \E files \in Contents :
          /\ \/ Now.from = "netboot" /\ netboot(Now.file, files)
             \/ Now.from = "sdcardboot" /\ sdcardboot(files)
             \/ Now.from = "sataboot" /\ sataboot(files)
             \/ Now.from = "toflash" /\ flash_from_card(Now.file, files)
          /\ UNCHANGED jump
  /\ phase' = IF jump' # None THEN "booted" ELSE phase
  /\ prog' = Tail(prog)
  /\ UNCHANGED <<mem, flash, mounted, opened, dev, cmd, reply, before, shown, same,
                 ncommands, nresets>>

MediaRuns ==
  /\ phase = "command" /\ MediaStep
  /\ phase' = IF jump' # None THEN "booted" ELSE phase
  /\ UNCHANGED <<dev, cmd, prog, reply, before, shown, same, ncommands, nresets>>

(* The handler returns to the loop of main. *)
Return ==
  /\ phase = "command" /\ job = Idle /\ prog = <<>>
  /\ phase' = "prompt" /\ reply' = IF reply = "none" THEN "done" ELSE reply
  /\ UNCHANGED <<media, dev, cmd, prog, before, shown, same, ncommands, nresets>>

-----------------------------------------------------------------------------
(* A reset, by the button or by the reboot command: memory and flash keep   *)
(* what they hold, everything else starts again.                           *)
Restarted ==
  /\ phase' = "prompt" /\ prog' = <<>> /\ cmd' = NoCommand /\ reply' = "none"
  /\ dev' = PowerOn /\ mounted' = FALSE /\ opened' = FALSE /\ job' = Idle /\ jump' = None
  /\ UNCHANGED <<mem, flash, before, shown, same, ncommands>>

ctrl_reset_write == At({"restart"}) /\ Restarted /\ UNCHANGED nresets
ResetButton ==
  /\ phase = "command" /\ nresets < MaxResets
  /\ nresets' = nresets + 1 /\ Restarted

CommandStep ==
  \/ CheckStep \/ Refused \/ RegisterStep \/ MemoryStep \/ FlashStep \/ ShowStep
  \/ CompareStep \/ Leave \/ MediaStart \/ MediaRuns \/ Return \/ ctrl_reset_write

Next == TypeLine \/ CommandStep \/ ResetButton

(* The processor goes on with the command it has begun. *)
Spec == Init /\ [][Next]_vars /\ WF_vars(CommandStep)

-----------------------------------------------------------------------------
(* Types, and the volume of MediaBoot. *)
TypeOK ==
  /\ phase \in {"prompt", "command", "booted", "overrun"}
  /\ reply \in {"none", "done", "usage", "bad", "error", "not found"}
  /\ DOMAIN mem = Addr /\ DOMAIN flash = 0..FlashTop
  /\ DOMAIN dev = DOMAIN PowerOn /\ dev.n_markers \in 0..(MaxMarkers - 1)
  /\ same \in BOOLEAN /\ JobOK
  /\ phase = "booted" <=> jump # None

(* A command leaves nothing open: while a volume is mounted a file of it is *)
(* being opened or read, and at the prompt or in the booted program no      *)
(* volume is mounted, no file is open and the memory controller is in       *)
(* charge of the memory again.                                             *)
HandsBack ==
  /\ VolumeInUse
  /\ phase \in {"prompt", "booted"} =>
       ~mounted /\ ~opened /\ dev.control = <<"hardware">>

(* A command that is refused, for its name or for its parameters, has       *)
(* changed nothing.                                                        *)
RefusedChangesNothing ==
  phase = "prompt" /\ reply \in {"usage", "bad", "not found"} => Snapshot = before

(* What a command was asked, of the state it was called in. *)
Asked(i, default) == Arg(cmd.params, i, default)
Finished(name) == phase = "prompt" /\ reply = "done" /\ cmd.name = name
ValueSize == IF Len(cmd.params) = 4 THEN Asked(4, 4) ELSE 4
ReadCount == IF Len(cmd.params) = 1 THEN 4 ELSE Asked(2, 0)
WordAt(cells, a) == [k \in 0..3 |-> cells[a + k]]

(* mem_write: count values side by side. *)
Written(count) ==
  mem = Overlay(before.mem, Asked(1, 0), ValueSize * count,
                LAMBDA k : ByteOf(Asked(2, 0), k % ValueSize))

(* mem_copy: count words, the lowest first, so that where the two ranges    *)
(* overlap a word is copied from one that was copied before.               *)
Copied(count) ==
  LET d == Asked(1, 0)  s == Asked(2, 0) IN
  mem = Overlay(before.mem, d, 4 * count,
                LAMBDA k : IF s + k \in d..(d + 4 * (k \div 4) - 1) THEN mem[s + k]
                                                                 ELSE before.mem[s + k])

(* mem_read: lines that join up from the address to the end of the range,   *)
(* each with what lies at its address.                                     *)
Dumped(count) ==
  /\ shown = <<>> => count = 0
  /\ shown # <<>> => shown[1].addr = Asked(1, 0)
  /\ \A k \in 1..Len(shown) :
       LET line == shown[k]  n == Len(line.bytes) IN
       /\ n \in 1..LineBytes
       /\ line.bytes = [j \in 1..n |-> before.mem[line.addr + j - 1]]
       /\ line.addr + n = IF k = Len(shown) THEN Asked(1, 0) + count ELSE shown[k + 1].addr

(* mem_cmp: count words of two ranges. *)
Compared(count) ==
  same <=> \A k \in 0..(count - 1) :
             WordAt(before.mem, Asked(1, 0) + 4 * k) = WordAt(before.mem, Asked(2, 0) + 4 * k)

MemWriters == {"mem_write", "mem_copy", "mem_test", "mem_speed", "sdram_bist", "sdram_hw_test",
               "sdram_init", "sdram_test"} \cup Booters
FlashWriters == {"flash_write", "flash_from_sdcard", "flash_erase_range"}

(* mem_write, mem_copy, mem_read and mem_cmp do in the end what their       *)
(* parameters say of the memory they were called with (mem_copy of a source *)
(* that is memory); no command but these, the memory tests and the boots    *)
(* writes memory, and three write the flash.                               *)
DoesWhatWasAsked ==
  /\ Finished("mem_write") => Written(Asked(3, 1))
  /\ Finished("mem_copy") /\ Asked(2, 0)..(Asked(2, 0) + 4 * Asked(3, 1) - 1) \subseteq Addr =>
       Copied(Asked(3, 1))
  /\ Finished("mem_read") => Dumped(ReadCount)
  /\ Finished("mem_cmp") => Compared(Asked(3, 0))
  /\ cmd.name \notin MemWriters \cup {""} => mem = before.mem
  /\ cmd.name \notin FlashWriters \cup {""} => flash = before.flash

(* The boot command jumps to its address with its first two registers. *)
BootsWhereTold ==
  phase = "booted" /\ cmd.name = "boot" =>
    /\ jump.a = Asked(1, 0) /\ jump.r1 = Asked(2, 0)
    /\ Len(cmd.params) <= 3 => jump.r2 = Asked(3, 0)

(* The BIOS jumps where it was told: into what a medium held, whole, or to  *)
(* the address of the boot command.                                        *)
JumpsAsTold == RunsWhatWasLoaded /\ BootsWhereTold

(* What flashboot runs is one of the images made for the flash, whatever    *)
(* was written over it, erased or broken off before.                       *)
FlashBootsMade == RunsMadeImages(Made)

(* Every command comes to its end: back at the prompt, in the program it    *)
(* boots, or, when an address has more fields than its array, in the       *)
(* overrun that ends the model: no loop over tokens, files or words goes   *)
(* on for ever.                                                            *)
CommandEnds == phase = "command" ~> phase # "command"

(* The usage line of boot: the fourth parameter is r3. *)
BootPassesRegisters ==
  phase = "booted" /\ cmd.name = "boot" =>
    jump.r2 = Asked(3, 0) /\ jump.r3 = Asked(4, 0)
=============================================================================
