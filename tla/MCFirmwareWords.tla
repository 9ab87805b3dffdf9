-------------------------- MODULE MCFirmwareWords --------------------------
(* Images of up to eight bytes; every pair of an input with a set of        *)
(* options.                                                                *)
EXTENDS FirmwareWords

At(a) == [kind |-> "origin", address |-> a]
B(bytes) == [kind |-> "bytes", bytes |-> bytes, odd |-> FALSE]
Odd == [kind |-> "bytes", bytes |-> <<1>>, odd |-> TRUE]
Hex(lines) == [ext |-> "hex", lines |-> lines, readable |-> TRUE]
NoFile == [ext |-> "hex", lines |-> <<>>, readable |-> FALSE]
Elf(image, readable) == [ext |-> "elf", image |-> image, readable |-> readable]
File(ext) == [ext |-> ext]

SomeLines == {At(0), At(2), At(5), At(-1), B(<<>>), B(<<1, 2>>), B(<<3, 4, 5>>), B(<<6, Bad>>), Odd}
Inputs ==
  {Hex(<<a, b, c>>) : a, b, c \in SomeLines} \cup {Hex(<<>>), NoFile, File("txt")}
  \cup {Elf([x \in S |-> x + 1], r) : S \in {{}, 0..3, {1, 6}, {9}}, r \in BOOLEAN}

Verilog(values) == [defines |-> [k \in 1..Len(values) |-> [name |-> "NRV_RAM", value |-> values[k]]]]
SomeOptions ==
  {<<"-ram", 8, "-out", File("hex")>>, <<"-ram", 8>>, <<"-out", File("hex")>>, <<"-ram">>, <<"-size", 8>>,
   <<"-ram", 8, "-out", File("elf"), "-from_addr", 3>>, <<"-ram", 8, "-out", File("bin")>>,
   <<"-out", File("hex"), "-ram", 8, "-from_addr", 4, "-max_addr", 4>>,
   <<"-ram", 8, "-to_addr", 3, "-out", File("hex")>>, <<"-ram", 8, "-to_addr", 6, "-out", File("hex")>>,
   <<"-ram", 8, "-to_addr", 11, "-out", File("hex")>>, <<"-ram", 8, "-from_addr", 2, "-out", File("hex")>>,
   <<"-ram", 8, "-from_addr", 6, "-to_addr", 3, "-out", File("elf")>>,
   <<"-verilog", Verilog(<<8, 4>>), "-out", File("hex")>>, <<"-ram", 8, "-verilog", Verilog(<<4, 0>>)>>,
   <<"-ram", 8, "-ram", 6, "-out", File("elf")>>,
   <<"-ram", 8, "-verilog", Verilog(<<NoName>>)>>}

McCommandLines == {<<f>> \o o : f \in Inputs, o \in SomeOptions} \cup {<<>>}
=============================================================================
