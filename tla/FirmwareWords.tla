--------------------------- MODULE FirmwareWords ---------------------------
(***************************************************************************)
(* firmware_words (firmware_words_src/firmware_words.cpp): it loads a hex  *)
(* file of bytes, or an ELF file, into an image of the RAM and writes that *)
(* as the words that the RAM of the SoC is initialized with.               *)
(*                                                                         *)
(* A file name stands for its file: a record with the extension and, of an *)
(* input, what it holds.  A line of a hex file is an origin ('@'), or the  *)
(* bytes of its digits; Bad stands for two characters that are not both    *)
(* hexadecimal digits.  The ELF reader is external.                        *)
(***************************************************************************)
EXTENDS Integers, Sequences, FiniteSets, FiniteSetsExt

CONSTANTS
  CommandLines,  \* what main may be called with
  NoName,        \* the empty file name
  Bad

VARIABLES
  argv,
  step,          \* where main is; "undefined" after an access outside the RAM
  opts,          \* its options
  RAM, OCC, address, max_address,
  line, i,       \* the line and the byte of it that come next
  out            \* the words or bytes of the output file, if it was written

vars == <<argv, step, opts, RAM, OCC, address, max_address, line, i, out>>
ram == <<RAM, OCC, address, max_address>>

NoOutput == [kind |-> "none"]
Defaults == [error |-> FALSE, verilog |-> NoName, out |-> NoName, from_addr |-> 0, to_addr |-> -1,
             RAM_SIZE |-> 0, MAX_ADDR |-> 0]
Input == argv[1]

-----------------------------------------------------------------------------
(* The options, in pairs: the last of a name counts, and a name that is     *)
(* none, or has no value, is an error of the whole line.                    *)
Pairs(args) == {k \in 1..Len(args) : 2 * k + 1 <= Len(args)}
Names == {"-verilog", "-out", "-from_addr", "-to_addr", "-ram", "-max_addr"}
Option(args, name, default) ==
  LET named == {k \in Pairs(args) : args[2 * k] = name}
  IN  IF named = {} THEN default ELSE args[2 * Max(named) + 1]

Options(args) ==
  [error |-> Len(args) = 0 \/ Len(args) % 2 = 0 \/ (\E k \in Pairs(args) : args[2 * k] \notin Names),
   verilog |-> Option(args, "-verilog", NoName), out |-> Option(args, "-out", NoName),
   from_addr |-> Option(args, "-from_addr", 0), to_addr |-> Option(args, "-to_addr", -1),
   RAM_SIZE |-> Option(args, "-ram", 0), MAX_ADDR |-> Option(args, "-max_addr", 0)]

(* The last `define of NRV_RAM with a number counts. *)
Numbered(defines) == {k \in DOMAIN defines : defines[k].name = "NRV_RAM" /\ defines[k].value # NoName}
get_RAM_size_from_verilog(file) ==
  LET numbered == Numbered(file.defines)
  IN  IF numbered = {} THEN 0 ELSE file.defines[Max(numbered)].value

(* parse_int and sscanf give numbers; a negative size is refused by the     *)
(* vector that is made of it.                                               *)
IsSequence(s) == Len(s) \in Nat /\ DOMAIN s = 1..Len(s)
OptionsAssumption(args) ==
  \A k \in Pairs(args) :
    /\ args[2 * k] = "-ram" => args[2 * k + 1] \in Nat
    /\ args[2 * k] \in {"-from_addr", "-to_addr", "-max_addr"} => args[2 * k + 1] \in Int
    /\ args[2 * k] = "-verilog" /\ args[2 * k + 1] # NoName =>
         LET defines == args[2 * k + 1].defines
         IN  IsSequence(defines) /\ \A d \in DOMAIN defines : defines[d].value \in Nat \cup {NoName}
InputAssumption(input) ==
  /\ input.ext = "hex" =>
       /\ IsSequence(input.lines)
       /\ \A l \in DOMAIN input.lines :
            \/ input.lines[l].kind = "origin" /\ input.lines[l].address \in Int
            \/ input.lines[l].kind = "bytes" /\ IsSequence(input.lines[l].bytes)
  /\ input.ext = "elf" =>
       /\ DOMAIN input.image \subseteq Nat
       /\ DOMAIN input.image # {} => \E top \in DOMAIN input.image : \A a \in DOMAIN input.image : a <= top
ASSUME InputsAssumption ==
  \A args \in CommandLines :
    IsSequence(args) /\ OptionsAssumption(args) /\ (Len(args) > 0 => InputAssumption(args[1]))

Init ==
  /\ argv \in CommandLines
  /\ step = "start" /\ opts = Defaults
  /\ RAM = <<>> /\ OCC = {} /\ address = 0 /\ max_address = 0
  /\ line = 1 /\ i = 1 /\ out = NoOutput

Fail == step' = "failed" /\ UNCHANGED <<argv, opts, ram, line, i, out>>
GoTo(where) == step' = where /\ UNCHANGED <<argv, opts, out>>

(* load_RAM goes by the extension; a hex file that cannot be opened fails.  *)
Loadable == Input.ext = "elf" \/ (Input.ext = "hex" /\ Input.readable)

(* main, up to load_RAM. *)
Begin ==
  /\ step = "start"
  /\ LET o == Options(argv)
         size == IF ~o.error /\ o.verilog # NoName THEN get_RAM_size_from_verilog(o.verilog)
                                                   ELSE o.RAM_SIZE
     IN  IF o.error \/ size = 0 THEN Fail
         ELSE /\ step' = IF Loadable THEN Input.ext ELSE "failed"
              /\ opts' = [o EXCEPT !.RAM_SIZE = size]
              /\ RAM' = [a \in 0..(size - 1) |-> 0]
              /\ UNCHANGED <<argv, OCC, address, max_address, line, i, out>>

-----------------------------------------------------------------------------
(* load_RAM_rawhex. *)
InHex == step = "hex" /\ line <= Len(Input.lines)
Line == Input.lines[line]
NextLine == line' = line + 1 /\ i' = 1

Origin ==
  /\ InHex /\ Line.kind = "origin"
  /\ address' = Line.address
  /\ NextLine /\ UNCHANGED <<argv, step, opts, RAM, OCC, max_address, out>>

OddLine == InHex /\ Line.kind = "bytes" /\ Line.odd /\ Fail

(* Mutant: a byte given twice is taken. *)
string_to_byteTwice ==
  /\ InHex /\ Line.kind = "bytes" /\ ~Line.odd /\ i <= Len(Line.bytes)
  /\ IF address >= opts.RAM_SIZE \/ Line.bytes[i] = Bad THEN Fail
     ELSE IF address < 0 THEN GoTo("undefined") /\ UNCHANGED <<ram, line, i>>
     ELSE /\ max_address' = Max({max_address, address})
          /\ RAM' = [RAM EXCEPT ![address] = Line.bytes[i]]
          /\ OCC' = OCC \cup {address}
          /\ address' = address + 1 /\ i' = i + 1
          /\ UNCHANGED <<argv, step, opts, line, out>>

string_to_byte ==
  /\ InHex /\ Line.kind = "bytes" /\ ~Line.odd /\ i <= Len(Line.bytes)
  /\ IF address >= opts.RAM_SIZE THEN Fail
     ELSE IF address < 0 THEN GoTo("undefined") /\ UNCHANGED <<ram, line, i>>
     ELSE IF address \in OCC \/ Line.bytes[i] = Bad THEN Fail
     ELSE /\ max_address' = Max({max_address, address})
          /\ RAM' = [RAM EXCEPT ![address] = Line.bytes[i]]
          /\ OCC' = OCC \cup {address}
          /\ address' = address + 1 /\ i' = i + 1
          /\ UNCHANGED <<argv, step, opts, line, out>>

LineEnds ==
  /\ InHex /\ Line.kind = "bytes" /\ ~Line.odd /\ i > Len(Line.bytes)
  /\ NextLine /\ UNCHANGED <<argv, step, opts, ram, out>>

FileEnds ==
  step = "hex" /\ line > Len(Input.lines) /\ GoTo("loaded") /\ UNCHANGED <<ram, line, i>>

(* load_RAM_elf. *)
load_RAM_elf ==
  /\ step = "elf"
  /\ LET top == Max(DOMAIN Input.image \cup {0}) IN
     IF ~Input.readable \/ top >= opts.RAM_SIZE THEN Fail
     ELSE /\ RAM' = [a \in DOMAIN RAM |-> IF a \in DOMAIN Input.image THEN Input.image[a] ELSE RAM[a]]
          /\ max_address' = top
          /\ GoTo("loaded") /\ UNCHANGED <<OCC, address, line, i>>

-----------------------------------------------------------------------------
(* The rest of main, and save_RAM. *)
To == IF opts.to_addr = -1 THEN opts.RAM_SIZE - 1 ELSE opts.to_addr
Cells == opts.from_addr..To

(* The lowest byte of a word is written last. *)
HexWords == [k \in 1..((To + 1 - opts.from_addr) \div 4) |->
               [b \in 1..4 |-> RAM[opts.from_addr + 4 * (k - 1) + 4 - b]]]
BinBytes == [k \in 1..(To + 1 - opts.from_addr) |-> RAM[opts.from_addr + k - 1]]

save_RAM ==
  LET ext == opts.out.ext IN
  IF ext \notin {"hex", "elf"} \/ (ext = "hex" /\ (opts.from_addr % 4 # 0 \/ (To + 1) % 4 # 0))
  THEN Fail
  ELSE IF ~(Cells \subseteq DOMAIN RAM) \/ (ext = "elf" /\ To + 1 < opts.from_addr)
  THEN step' = "undefined" /\ UNCHANGED <<argv, opts, ram, line, i, out>>
  ELSE /\ out' = IF ext = "hex" THEN [kind |-> "hex", data |-> HexWords]
                                ELSE [kind |-> "bin", data |-> BinBytes]
       /\ step' = "done" /\ UNCHANGED <<argv, opts, ram, line, i>>

(* Mutant: a byte at the limit is too high. *)
FinishBelow ==
  /\ step = "loaded"
  /\ IF opts.MAX_ADDR # 0 /\ max_address >= opts.MAX_ADDR THEN Fail
     ELSE IF opts.out = NoName THEN GoTo("done") /\ UNCHANGED <<ram, line, i>>
     ELSE save_RAM

Finish ==
  /\ step = "loaded"
  /\ IF opts.MAX_ADDR # 0 /\ max_address > opts.MAX_ADDR THEN Fail
     ELSE IF opts.out = NoName THEN GoTo("done") /\ UNCHANGED <<ram, line, i>>
     ELSE save_RAM

Next ==
  \/ Begin \/ Origin \/ OddLine \/ string_to_byte \/ LineEnds \/ FileEnds
  \/ load_RAM_elf \/ Finish

Spec == Init /\ [][Next]_vars

-----------------------------------------------------------------------------
(* What a hex file says: byte k of line l lies at Address(l, k), counted    *)
(* from the last origin before it.                                         *)
HexBytes == UNION {{l} \X DOMAIN Input.lines[l].bytes :
                     l \in {m \in DOMAIN Input.lines : Input.lines[m].kind = "bytes"}}
OriginsBefore(l) == {o \in 1..(l - 1) : Input.lines[o].kind = "origin"}
Address(p) ==
  LET o == Max(OriginsBefore(p[1]) \cup {0})
      base == IF o = 0 THEN 0 ELSE Input.lines[o].address
  IN  base + Cardinality({q \in HexBytes : q[1] > o /\ (q[1] < p[1] \/ (q[1] = p[1] /\ q[2] < p[2]))})
Value(p) == Input.lines[p[1]].bytes[p[2]]

HexIsGood ==
  /\ \A l \in 1..Len(Input.lines) : Input.lines[l].kind = "bytes" => ~Input.lines[l].odd
  /\ \A p \in HexBytes : Value(p) # Bad /\ Address(p) \in 0..(opts.RAM_SIZE - 1)
  /\ \A p, q \in HexBytes : Address(p) = Address(q) => p = q

Given == IF Input.ext = "elf" THEN DOMAIN Input.image ELSE {Address(p) : p \in HexBytes}
Said(a) ==
  IF a \notin Given THEN 0
  ELSE IF Input.ext = "elf" THEN Input.image[a] ELSE Value(CHOOSE p \in HexBytes : Address(p) = a)
TooHigh == opts.MAX_ADDR # 0 /\ \E a \in Given \cup {0} : a > opts.MAX_ADDR

(* What is written is what the input says, each byte at its address and      *)
(* zero elsewhere, in words of the lowest byte last; nothing is written     *)
(* unless the whole input is right and nothing of it lies above the limit.  *)
WritesWhatWasRead ==
  out.kind # "none" =>
    /\ Input.ext = "hex" => HexIsGood
    /\ ~TooHigh
    /\ \A a \in Cells :
         LET k == a - opts.from_addr IN
         Said(a) = IF out.kind = "hex" THEN out.data[(k \div 4) + 1][4 - (k % 4)] ELSE out.data[k + 1]

(* It fails for a reason only: its options, the input, the limit, or the    *)
(* output's name or bounds are wrong.                                      *)
NoSize(o) ==
  IF o.verilog = NoName THEN o.RAM_SIZE = 0
  ELSE LET numbered == Numbered(o.verilog.defines)
       IN  \A k \in numbered : (\A j \in numbered : j <= k) => o.verilog.defines[k].value = 0
FailsForAReason ==
  step = "failed" =>
    \/ Options(argv).error \/ NoSize(Options(argv))
    \/ Input.ext \notin {"hex", "elf"} \/ ~Input.readable \/ (Input.ext = "hex" /\ ~HexIsGood)
    \/ Input.ext = "elf" /\ \E a \in DOMAIN Input.image : a >= opts.RAM_SIZE
    \/ TooHigh
    \/ opts.out.ext \notin {"hex", "elf"}
    \/ opts.out.ext = "hex" /\ (opts.from_addr % 4 # 0 \/ (To + 1) % 4 # 0)
=============================================================================
