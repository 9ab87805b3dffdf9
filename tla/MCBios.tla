------------------------------- MODULE MCBios -------------------------------
(* Sessions of three commands on sixteen bytes of memory.  A byte has four  *)
(* values; addresses of words are aligned.                                 *)
EXTENDS Bios

CONSTANTS Junk, ImgA, ImgB, Other, Flasher, IpGood, IpOpen, IpShort, IpDot, IpMany, MacGood, MacLong

BiosNumbers == (0..16) \cup {27, 228, 300}

Dot == Separator
BiosChars ==
  [w \in {IpGood, IpOpen, IpShort, IpDot, IpMany, MacGood, MacLong} |->
     CASE w = IpGood  -> <<1, 9, 2, Dot, 1, 6, 8, Dot, 1, Dot, 5, 0>>
       [] w = IpOpen  -> <<1, 0, Dot, 0, Dot, 0, Dot>>
       [] w = IpShort -> <<1, Dot, 2, Dot, 3>>
       [] w = IpDot   -> <<1, Dot, Dot, 2, Dot, 3, Dot, 4>>
       [] w = IpMany  -> <<1, Dot, 1, Dot, 1, Dot, 1, Dot, 1, Dot, 1>>
       [] w = MacGood -> <<1, 0, Dot, 14, 2, Dot, 13, 5, Dot, 0, 0, Dot, 0, 0, Dot, 0, 1>>
       [] w = MacLong -> <<1, 0, 0, Dot, 2, Dot, 13, 5, Dot, 0, 0, Dot, 0, 0, Dot, 0, 1>>]

(* Different for every image of the run. *)
BiosCrc(bytes) == FoldLeft(LAMBDA acc, v : 128 * acc + v, 100, bytes)

BiosMem == [x \in 0..15 |-> <<0, 1, 2, 3, 3, 2, 1, 0, 1, 1, 2, 2, 0, 1, 2, 3>>[x + 1]]
Old == <<1, 3>>
New == <<2, 2, 0>>
ForFlash(image) == <<Len(image), BiosCrc(image)>> \o image
BiosFlash == [x \in 0..5 |-> (ForFlash(Old) \o <<99, 99>>)[x + 1]]
BiosMade == {Old, New}

(* Files. *)
Plain(bytes) == [bytes |-> bytes, tokens |-> <<>>]
Json(tokens) == [bytes |-> <<3>>, tokens |-> tokens]
Object == [kind |-> "object", text |-> 0]
K(name) == [kind |-> "key", text |-> name]
V(number) == [kind |-> "value", text |-> number]

TwoImages == Json(<<Object, K(ImgA), V(8), K("r1"), V(5), K(ImgB), V(10), K("r3"), V(7)>>)
AddrFirst == Json(<<Object, K("addr"), V(9), K("bootargs"), Object, K("r2"), V(0), K("r2"), V(6),
                    K(ImgA), V(4)>>)
Missing == Json(<<Object, K(ImgA), V(8), K(Other), V(12)>>)
A == <<1, 2, 3>>
B == <<3, 3>>
BiosContents ==
  {("boot.json" :> TwoImages @@ ImgA :> Plain(A) @@ ImgB :> Plain(B) @@ "boot.bin" :> Plain(B)),
   ("boot.json" :> AddrFirst @@ ImgA :> Plain(A) @@ ImgB :> Plain(<<>>)),
   ("boot.json" :> Missing @@ ImgA :> Plain(A) @@ "boot.bin" :> Plain(<<>>)),
   ("boot.bin" :> Plain(A) @@ Other :> TwoImages @@ ImgB :> Plain(B)
    @@ Flasher :> Plain(ForFlash(New)))}
BiosResidues == {<<>>, <<K(ImgB), V(12)>>, <<V(4), K("addr"), V(11)>>}

(* Lines, as typed. *)
Spaced(words) ==
  [k \in 1..(2 * Len(words) - 1) |-> IF k % 2 = 1 THEN words[(k + 1) \div 2] ELSE Space]
Typed(command, paramss) == {Spaced(<<command>> \o p) : p \in paramss}
(* Every way to give a command of n numbers too little, or a word that is   *)
(* none.                                                                   *)
Short(n) == {[k \in 1..m |-> 4] : m \in 0..(n - 1)}
Bad(n) == {[k \in 1..n |-> IF k = j THEN Junk ELSE 4] : j \in 1..n}
Wrong(command, least, most) ==
  Typed(command, Short(least) \cup UNION {Bad(n) : n \in least..most})

MemoryLines ==
  Typed("mem_write", {<<4, 228>>, <<4, 27, 2>>, <<0, 300, 3, 1>>, <<2, 9, 2, 2>>, <<0, 228, 2, 4>>,
                      <<4, 1, 1, 3>>, <<4, 1, 0, 3>>, <<4, 27, 1, Junk>>})
  \cup Typed("mem_copy", {<<4, 0>>, <<4, 0, 3>>, <<0, 4, 3>>, <<8, 0, 2>>})
  \cup Typed("mem_read", {<<4>>, <<1, 7>>, <<0, 0>>, <<0, 6>>})
  \cup Typed("mem_cmp", {<<0, 12, 1>>, <<0, 8, 2>>, <<0, 4, 0>>})
  \cup Typed("mem_test", {<<8>>, <<8, 4>>})
  \cup Typed("mem_speed", {<<8, 4>>, <<8, 4, 1>>, <<8, 4, 0, 1>>})
  \cup Wrong("mem_write", 2, 3) \cup Wrong("mem_copy", 2, 3) \cup Wrong("mem_read", 1, 2)
  \cup Wrong("mem_cmp", 3, 3) \cup Wrong("mem_test", 1, 2) \cup Wrong("mem_speed", 2, 4)

BootLines ==
  Typed("boot", {<<8>>, <<8, 1>>, <<8, 1, 2>>, <<8, 1, 2, 3>>}) \cup Wrong("boot", 1, 4)
  \cup Typed("reboot", {<<>>})
  \cup Typed("netboot", {<<>>, <<Other>>, <<ImgA>>})
  \cup UNION {Typed(c, {<<>>}) : c \in {"flashboot", "romboot", "sdcardboot", "sataboot"}}

FlashLines ==
  Typed("flash_write", {<<4, 0>>, <<0, 4, 2>>}) \cup Wrong("flash_write", 2, 3)
  \cup Typed("flash_from_sdcard", {<<>>, <<Flasher>>})
  \cup Typed("flash_erase_range", {<<0, 6>>}) \cup Wrong("flash_erase_range", 2, 2)

DeviceLines ==
  UNION {Typed(c, {<<>>}) : c \in Prints \cup {"uptime", "trace", "mark", "finish", "sdcard_init",
                                               "sata_init", "sdram_rst_cmd_delay", "sdram_init",
                                               "sdram_test", "sdram_cal"}}
  \cup UNION {Typed(c, {<<4>>}) \cup Wrong(c, 1, 1) :
                c \in {"leds", "sdcard_read", "sdcard_freq", "sata_read", "sdram_force_rdphase",
                       "sdram_force_wrphase", "sdram_force_cmd_delay", "sdram_rst_dat_delay",
                       "sdram_rst_bitslip", "sdram_spd"}}
  \cup UNION {Typed(c, {<<4, 5>>}) \cup Wrong(c, 2, 2) :
                c \in {"crc", "mdio_read", "mdio_dump", "sdram_bist", "sdram_force_dat_delay",
                       "sdram_force_bitslip", "sdram_mr_write"}}
  \cup UNION {Typed(c, {<<4, Junk>>, <<Junk, 4>>, <<4>>}) : c \in {"sdcard_write", "sata_write"}}
  \cup Typed("mdio_write", {<<1, 2, 3>>}) \cup Wrong("mdio_write", 3, 3)
  \cup Typed("sdram_hw_test", {<<8, 4>>, <<8, 4, 2>>}) \cup Wrong("sdram_hw_test", 2, 3)
  \cup Typed("i2c_write", {<<1, 2, 1, 3>>, <<1, 2, 1, 3, 4>>, <<1, 2, 1, 3, 4, 5, 6, 7>>,
                           <<1, 2, 1, 3, 4, 5, 6, 7, 8>>})
  \cup Wrong("i2c_write", 3, 4)
  \cup Typed("i2c_read", {<<1, 2, 4>>, <<1, 2, 16>>, <<1, 2, 4, 0, 2>>, <<1, 2, 4, 0, 5>>})
  \cup Wrong("i2c_read", 3, 5)
  \cup Typed("i2c_dev", {<<>>, <<1>>, <<2>>, <<5>>, <<Junk>>, <<1, 1>>})

NetLines ==
  UNION {Typed(c, {<<>>, <<IpGood>>, <<IpOpen>>, <<IpShort>>, <<IpDot>>, <<IpMany>>, <<4>>}) :
           c \in {"eth_local_ip", "eth_remote_ip"}}
  \cup Typed("eth_mac_addr", {<<>>, <<MacGood>>, <<MacLong>>, <<IpGood>>})

OtherLines == {<<Space, "leds", Space, 4>>, <<Junk>>, <<"leds", Space, Space, 5, Space>>}

(* First something that leaves memory, flash or a device changed; then any  *)
(* command; then what shows or starts what is there.                       *)
SetUp ==
  Typed("mem_write", {<<4, 228>>}) \cup Typed("mark", {<<>>})
  \cup Typed("flash_erase_range", {<<0, 6>>}) \cup Typed("flash_from_sdcard", {<<Flasher>>})
Anything == MemoryLines \cup BootLines \cup FlashLines \cup DeviceLines \cup NetLines \cup OtherLines
Final == Typed("flashboot", {<<>>}) \cup Typed("mark", {<<>>})
BiosLines == <<SetUp, Anything, Final>>
=============================================================================
