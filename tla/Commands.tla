------------------------------ MODULE Commands ------------------------------
(***************************************************************************)
(* The BIOS command handlers (cmds/cmd_*.c).  A handler is the sequence of *)
(* the checks it makes on its parameters and of what it does, in the order *)
(* of its code; the console of module Bios carries it out step by step and *)
(* leaves it at the first check that fails.  What a handler only prints is *)
(* left out, except the bytes of a memory dump.                            *)
(*                                                                         *)
(* A parameter is a word.  The words strtoul reads to their end are the    *)
(* Numbers; for any other word *c is not 0.  These others begin with no    *)
(* number (as "x", never "4x"), so strtoul gives 0 for them, and so does   *)
(* Val; only the size of mem_write, which is not checked, is used so.      *)
(***************************************************************************)
EXTENDS Integers, Sequences, SequencesExt

CONSTANTS
  Numbers,     \* the numeric words used
  Byte,        \* values of a byte (256)
  LineBytes,   \* NUMBER_OF_BYTES_ON_A_LINE (16)
  I2cBuf,      \* sizeof(write_params) in i2c_write_handler (32)
  ReadBuf,     \* sizeof(buf) in i2c_read_handler (256)
  I2cDevs,     \* get_i2c_devs_count()
  MainRam,     \* MAIN_RAM_BASE
  RamSize,     \* MAIN_RAM_SIZE
  Chars        \* the characters of the words that stand for network addresses

ASSUME NumbersAssumption == Numbers \subseteq Nat
ASSUME SizesAssumption ==
  Byte \in Nat \ {0} /\ LineBytes \in Nat \ {0} /\ I2cBuf \in Nat /\ ReadBuf \in Nat
  /\ I2cDevs \in Nat /\ MainRam \in Nat /\ RamSize \in Nat

-----------------------------------------------------------------------------
(* Steps of a handler.  A check that fails ends the command with the reply  *)
(* named in it.                                                             *)
Check(ok, reply) == [do |-> "check", ok |-> ok, reply |-> reply]
Set(reg, value) == [do |-> "set", reg |-> reg, value |-> value]
Toggle(reg) == [do |-> "toggle", reg |-> reg]
Mark == [do |-> "mark"]
Store(a, size, v) == [do |-> "store", a |-> a, size |-> size, v |-> v]
Copy(d, s) == [do |-> "copy", d |-> d, s |-> s]
Compare(a, b) == [do |-> "compare", a |-> a, b |-> b]
Show(a, n) == [do |-> "show", a |-> a, n |-> n]
(* A test by a library function, which leaves its patterns behind. *)
Scratch(a, n) == [do |-> "scratch", a |-> a, n |-> n]
Program(d, s, n) == [do |-> "program", d |-> d, s |-> s, n |-> n]
Erase(d, n) == [do |-> "erase", d |-> d, n |-> n]
(* A transfer that the other side may refuse; if it does not, reg holds value. *)
Try(reg, value) == [do |-> "try", reg |-> reg, value |-> value]
SetOneOf(reg, values) == [do |-> "set_one_of", reg |-> reg, values |-> values]
Jump(r1, r2, r3, a) == [do |-> "jump", r1 |-> r1, r2 |-> r2, r3 |-> r3, a |-> a]
Overrun == [do |-> "overrun"]
Restart == [do |-> "restart"]
Media(from, file) == [do |-> "media", from |-> from, file |-> file]

(* Parameters.  Num is strtoul with its check of *c; Opt is the same for a  *)
(* parameter that may be left out.                                         *)
IsNum(w) == w \in Numbers
Val(w) == IF IsNum(w) THEN w ELSE 0
Arg(p, i, default) == IF i <= Len(p) THEN Val(p[i]) ELSE default
Word(p, i) == IF i <= Len(p) THEN p[i] ELSE 0
Need(p, n) == <<Check(Len(p) >= n, "usage")>>
Num(p, i) == <<Check(i <= Len(p) /\ IsNum(p[i]), "bad")>>
Opt(p, i) == IF i <= Len(p) THEN Num(p, i) ELSE <<>>

(* The most common beginnings: n numbers, all required. *)
One(p) == Need(p, 1) \o Num(p, 1)
Two(p) == Need(p, 2) \o Num(p, 1) \o Num(p, 2)
Three(p) == Need(p, 3) \o Num(p, 1) \o Num(p, 2) \o Num(p, 3)

(* Mutant: the last line is as long as the others. *)
dump_bytesFull(a, count) ==
  [k \in 1..((count + LineBytes - 1) \div LineBytes) |-> Show(a + (k - 1) * LineBytes, LineBytes)]

(* helpers.c: dump_bytes, a line at a time. *)
dump_bytes(a, count) ==
  [k \in 1..((count + LineBytes - 1) \div LineBytes) |->
     LET done == (k - 1) * LineBytes
     IN  Show(a + done, IF count - done > LineBytes THEN LineBytes ELSE count - done)]

-----------------------------------------------------------------------------
(* cmd_mem.c *)
mem_read(p) ==
  One(p) \o Opt(p, 2) \o dump_bytes(Arg(p, 1, 0), IF Len(p) = 1 THEN 4 ELSE Arg(p, 2, 0))

(* The size is read without a check, and only when it is the last of four. *)
mem_write(p) ==
  LET size == IF Len(p) = 4 THEN Val(p[4]) ELSE 4 IN
  Two(p) \o Opt(p, 3)
  \o [i \in 1..Arg(p, 3, 1) |->
        IF size \in {1, 2, 4} THEN Store(Arg(p, 1, 0) + size * (i - 1), size, Arg(p, 2, 0))
                              ELSE Check(FALSE, "bad")]

mem_copy(p) ==
  Two(p) \o Opt(p, 3)
  \o [i \in 1..Arg(p, 3, 1) |-> Copy(Arg(p, 1, 0) + 4 * (i - 1), Arg(p, 2, 0) + 4 * (i - 1))]

(* memtest and memspeed write the range they test; -1 is no limit. *)
mem_test(p) == One(p) \o Opt(p, 2) \o <<Scratch(Arg(p, 1, 0), Arg(p, 2, -1))>>

mem_speed(p) ==
  Two(p) \o Opt(p, 3) \o Opt(p, 4)
  \o (IF Arg(p, 3, 0) = 0 THEN <<Scratch(Arg(p, 1, 0), Arg(p, 2, 0))>> ELSE <<>>)

mem_cmp(p) ==
  Three(p)
  \o [i \in 1..Arg(p, 3, 0) |-> Compare(Arg(p, 1, 0) + 4 * (i - 1), Arg(p, 2, 0) + 4 * (i - 1))]

-----------------------------------------------------------------------------
(* cmd_boot.c.  The fourth parameter is read into r2. *)
boot(p) ==
  One(p) \o Opt(p, 2) \o Opt(p, 3) \o Opt(p, 4)
  \o <<Jump(Arg(p, 2, 0), IF Len(p) > 3 THEN Arg(p, 4, 0) ELSE Arg(p, 3, 0), 0, Arg(p, 1, 0))>>

reboot == <<Restart>>

(* cmd_bios.c, sim_debug.c *)
crc(p) == Two(p)
(* Mutant: the value is used before it is checked. *)
ledsUnchecked(p) == Need(p, 1) \o <<Set("leds", <<Arg(p, 1, 0)>>)>> \o Num(p, 1)

leds(p) == One(p) \o <<Set("leds", <<Arg(p, 1, 0)>>)>>
uptime == <<Set("uptime_latch", <<1>>)>>
trace == <<Toggle("trace")>>
mark == <<Mark>>
finish == <<Set("trace", <<>>), Set("finish", <<1>>)>>

-----------------------------------------------------------------------------
(* cmd_i2c.c.  The slave address is checked last, with all the others.      *)
i2c_write(p) ==
  Need(p, 3) \o Num(p, 2) \o <<Check(Len(p) - 1 <= I2cBuf, "bad")>>
  \o [i \in 1..Len(p) |-> Num(p, i)[1]] \o <<Try("i2c", p)>>

i2c_read(p) ==
  Three(p) \o <<Check(Arg(p, 3, 0) <= ReadBuf, "bad")>> \o Opt(p, 4) \o Opt(p, 5)
  \o <<Check(Arg(p, 5, 1) \in 1..4, "bad"), Try("i2c_read", p)>>

(* The index is cut to an unsigned char before it is compared; with two     *)
(* parameters or more the command does nothing.                            *)
i2c_dev(p) ==
  IF Len(p) # 1 THEN <<>>
  ELSE Num(p, 1) \o <<Check(Val(p[1]) % Byte < I2cDevs, "bad"),
                      Set("i2c_dev", <<Val(p[1]) % Byte>>)>>

-----------------------------------------------------------------------------
(* cmd_litesdcard.c and cmd_litesata.c.  A written sector repeats a word.   *)
WriteSector(disk, p) ==
  Need(p, 2) \o Num(p, 1) \o <<Set(disk, <<Arg(p, 1, 0), Word(p, 2)>>)>>
sdcard_init == <<Try("sdcard", <<"ready">>)>>
sdcard_read(p) == One(p)
sdcard_write(p) == WriteSector("sdcard_sector", p)
sata_init == <<Try("sata", <<"ready">>)>>
sata_read(p) == One(p)
sata_write(p) == WriteSector("sata_sector", p)
sdcard_freq(p) == One(p) \o <<Set("sdcard_freq", <<Arg(p, 1, 0)>>)>>

(* cmd_spiflash.c; flash_from_sdcard goes on in MediaBoot. *)
flash_write(p) ==
  Two(p) \o Opt(p, 3) \o <<Program(Arg(p, 1, 0), Arg(p, 2, 0), Arg(p, 3, 1))>>
flash_from_sdcard(p) == Need(p, 1) \o <<Media("toflash", Word(p, 1))>>
flash_erase_range(p) == Two(p) \o <<Erase(Arg(p, 1, 0), Arg(p, 2, 0))>>

(* cmd_liteeth.c: MDIO. *)
mdio_write(p) == Three(p) \o <<Set("mdio", <<Arg(p, 1, 0), Arg(p, 2, 0), Arg(p, 3, 0)>>)>>
mdio_read(p) == Two(p)
mdio_dump(p) == Two(p)

(* eth_local_ip, eth_remote_ip and eth_mac_addr.  A character is a digit (a  *)
(* number below 16), Separator or another.  The fields are collected in one *)
(* buffer of most characters, without one for a terminator.                *)
Separator == 16

ParseFields(chars, base, most) ==
  LET Take(acc, c) ==
        LET field == Last(acc.fields) IN
        IF ~acc.ok THEN acc
        ELSE IF c = Separator /\ field # <<>>
        THEN [acc EXCEPT !.fields = Append(@, <<>>)]
        ELSE IF c < base /\ Len(field) < most
        THEN [acc EXCEPT !.fields[Len(acc.fields)] = Append(@, c)]
        ELSE [acc EXCEPT !.ok = FALSE]
  IN  FoldLeft(Take, [ok |-> TRUE, fields |-> << <<>> >>], chars)

(* A full field ends where the stack after the buffer happens to, and the   *)
(* first one may be followed by what the buffer held before: the conversion *)
(* may read on there.                                                      *)
Garbage == -1
Readings(fields, most) ==
  LET open == {k \in DOMAIN fields : k = 1 \/ Len(fields[k]) = most} IN
  {[k \in DOMAIN fields |-> IF k \in S THEN Append(fields[k], Garbage) ELSE fields[k]] :
     S \in SUBSET open}

(* Fields are written to an array of count cells, and counted afterwards.   *)
set_address(reg, chars, sizes, base, most, count) ==
  LET parsed == ParseFields(chars, base, most)
      written == Len(parsed.fields) - (IF parsed.ok THEN 0 ELSE 1)
  IN  <<Check(Len(chars) \in sizes, "bad")>>
      \o (IF written > count THEN <<Overrun>> ELSE <<>>)
      \o <<Check(parsed.ok, "bad"), Check(Len(parsed.fields) = count, "bad"),
           SetOneOf(reg, Readings(parsed.fields, most))>>

Characters(p) == IF p # <<>> /\ p[1] \in DOMAIN Chars THEN Chars[p[1]] ELSE <<>>
set_local_ip(p) == Need(p, 1) \o set_address("local_ip", Characters(p), 7..15, 10, 3, 4)
set_remote_ip(p) == Need(p, 1) \o set_address("remote_ip", Characters(p), 7..15, 10, 3, 4)
set_mac_addr(p) == Need(p, 1) \o set_address("mac_addr", Characters(p), {17}, 16, 2, 6)

-----------------------------------------------------------------------------
(* cmd_litedram.c.  A setting of the memory's interface is changed between *)
(* sdram_software_control_on and sdram_software_control_off; the two phase *)
(* commands write their register directly.                                 *)
Controlled(reg, value) ==
  <<Set("control", <<"software">>), Set(reg, value), Set("control", <<"hardware">>)>>

sdram_bist(p) == Two(p) \o <<Scratch(MainRam, RamSize)>>
sdram_hw_test(p) == Two(p) \o Opt(p, 3) \o <<Scratch(Arg(p, 1, 0), Arg(p, 2, 0))>>
sdram_force_rdphase(p) == One(p) \o <<Set("rdphase", <<Arg(p, 1, 0)>>)>>
sdram_force_wrphase(p) == One(p) \o <<Set("wrphase", <<Arg(p, 1, 0)>>)>>
sdram_rst_cmd_delay == Controlled("cmd_delay", <<>>)
sdram_force_cmd_delay(p) == One(p) \o Controlled("cmd_delay", <<Arg(p, 1, 0)>>)
sdram_init == Controlled("leveling", <<"done">>) \o <<Scratch(MainRam, RamSize)>>
sdram_test == <<Scratch(MainRam, RamSize \div 32)>>
sdram_cal == Controlled("leveling", <<"done">>)
sdram_rst_dat_delay(p) == One(p) \o Controlled("dat_delay", <<Arg(p, 1, 0)>>)
sdram_force_dat_delay(p) == Two(p) \o Controlled("dat_delay", <<Arg(p, 1, 0), Arg(p, 2, 0)>>)
sdram_rst_bitslip(p) == One(p) \o Controlled("bitslip", <<Arg(p, 1, 0)>>)
sdram_force_bitslip(p) == Two(p) \o Controlled("bitslip", <<Arg(p, 1, 0), Arg(p, 2, 0)>>)
sdram_mr_write(p) == Two(p) \o Controlled("mode", <<Arg(p, 1, 0) % Byte, Arg(p, 2, 0) % Byte^2>>)
sdram_spd(p) == One(p) \o <<Check(Arg(p, 1, 0) % Byte <= 7, "bad"), Try("i2c_read", p)>>

-----------------------------------------------------------------------------
(* The table that define_command builds and command_dispatcher searches.    *)
(* The commands of Prints only read and print; serialboot is the subject of *)
(* module SerialBoot.                                                      *)
Prints == {"help", "ident", "buttons", "flush_cpu_dcache", "flush_l2_cache", "mem_list",
           "i2c_reset", "i2c_scan", "sdcard_detect", "sdram_debug"}
Booters == {"flashboot", "romboot", "netboot", "sdcardboot", "sataboot"}

Table(p) ==
  [mem_read |-> mem_read(p), mem_write |-> mem_write(p), mem_copy |-> mem_copy(p),
   mem_test |-> mem_test(p), mem_speed |-> mem_speed(p), mem_cmp |-> mem_cmp(p),
   boot |-> boot(p), reboot |-> reboot, crc |-> crc(p), leds |-> leds(p),
   uptime |-> uptime, trace |-> trace, mark |-> mark, finish |-> finish,
   i2c_write |-> i2c_write(p), i2c_read |-> i2c_read(p), i2c_dev |-> i2c_dev(p),
   sdcard_init |-> sdcard_init, sdcard_read |-> sdcard_read(p),
   sdcard_write |-> sdcard_write(p), sdcard_freq |-> sdcard_freq(p),
   sata_init |-> sata_init, sata_read |-> sata_read(p), sata_write |-> sata_write(p),
   flash_write |-> flash_write(p), flash_from_sdcard |-> flash_from_sdcard(p),
   flash_erase_range |-> flash_erase_range(p),
   mdio_write |-> mdio_write(p), mdio_read |-> mdio_read(p), mdio_dump |-> mdio_dump(p),
   eth_local_ip |-> set_local_ip(p), eth_remote_ip |-> set_remote_ip(p),
   eth_mac_addr |-> set_mac_addr(p),
   sdram_bist |-> sdram_bist(p), sdram_hw_test |-> sdram_hw_test(p),
   sdram_force_rdphase |-> sdram_force_rdphase(p),
   sdram_force_wrphase |-> sdram_force_wrphase(p),
   sdram_rst_cmd_delay |-> sdram_rst_cmd_delay,
   sdram_force_cmd_delay |-> sdram_force_cmd_delay(p),
   sdram_init |-> sdram_init, sdram_test |-> sdram_test, sdram_cal |-> sdram_cal,
   sdram_rst_dat_delay |-> sdram_rst_dat_delay(p),
   sdram_force_dat_delay |-> sdram_force_dat_delay(p),
   sdram_rst_bitslip |-> sdram_rst_bitslip(p),
   sdram_force_bitslip |-> sdram_force_bitslip(p),
   sdram_mr_write |-> sdram_mr_write(p), sdram_spd |-> sdram_spd(p)]

Handler(cmd, p) ==
  IF cmd \in Prints THEN <<>>
  ELSE IF cmd \in Booters THEN <<Media(cmd, Word(p, 1))>>
  ELSE Table(p)[cmd]

CommandNames == Prints \cup Booters \cup DOMAIN Table(<<>>)

(* Every register a handler sets. *)
Registers ==
  {"control", "leds", "uptime_latch", "trace", "finish", "i2c", "i2c_read", "i2c_dev",
   "sdcard", "sdcard_freq", "sdcard_sector", "sata", "sata_sector", "mdio", "local_ip",
   "remote_ip", "mac_addr", "rdphase", "wrphase", "cmd_delay", "dat_delay", "bitslip",
   "mode", "leveling"}
=============================================================================
