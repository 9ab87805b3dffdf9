----------------------------- MODULE MediaBoot -----------------------------
(***************************************************************************)
(* Booting from a medium (boot.c): netboot over TFTP, sdcardboot and       *)
(* sataboot over a FAT volume, flashboot from the mapped flash; and the    *)
(* command that writes a file of the card into the flash.                  *)
(*                                                                         *)
(* Memory and flash are cells that hold a byte; a word of the flash header *)
(* takes one cell, and one cell is what an f_read, a TFTP block or a step  *)
(* of a copy loop moves.  The contents of a medium are whatever it holds   *)
(* when the boot starts.  FatFs, tftp_get and jsmn are external, and every *)
(* call of theirs may fail.                                                *)
(***************************************************************************)
EXTENDS Integers, Sequences, SequencesExt

CONSTANTS
  MemTop,      \* last cell of memory
  FlashTop,    \* last cell of the flash, seen from FLASH_BOOT_ADDRESS
  Erased,      \* what an erased cell of the flash reads as
  Spoilt,      \* what a cell written twice without an erasure reads as
  MainRamBase, \* MAIN_RAM_BASE
  RomBoot,     \* ROM_BOOT_ADDRESS
  MinImage,    \* shortest and longest image check_image_in_flash accepts:
  MaxImage,    \*   32 bytes and 16 MB
  Crc(_),      \* crc32: a number for a sequence of bytes
  Contents,    \* what a medium may hold: functions from names to files
  Residues     \* tokens jsmn may find behind the text or instead of it

ASSUME PlacesAssumption ==
  /\ MemTop \in Nat /\ FlashTop \in Nat /\ MainRamBase \in 0..MemTop /\ RomBoot \in Nat
  /\ MinImage \in Nat \ {0} /\ MaxImage \in Nat /\ MaxImage + 1 <= FlashTop

Addr == 0..MemTop
None == [kind |-> "none"]

VARIABLES
  mem, flash,        \* memory and flash, cell by cell
  mounted, opened,   \* a volume is mounted, a file of it is open
  job,               \* where the boot is: the locals of its functions
  jump               \* the call of boot_helper that ended the BIOS

media == <<mem, flash, mounted, opened, job, jump>>

(* The locals.  step: what is done next; from: the medium; files: what is  *)
(* on it; use: what the current file is for; file, at, got: the file       *)
(* copied, to where, and how far; tokens, i: the parser's tokens and the   *)
(* loop's counter; then what the JSON file has said so far.                *)
Idle == [step |-> "idle", from |-> "none"]
Start(from, step, use, file, files) ==
  [step |-> step, from |-> from, files |-> files, use |-> use, file |-> file,
   at |-> MainRamBase, got |-> 0, tokens |-> <<>>, i |-> 1,
   r |-> [k \in {"r1", "r2", "r3"} |-> 0], addr |-> 0, addrFound |-> FALSE,
   imageFound |-> FALSE, named |-> FALSE]

MediaInit == mounted = FALSE /\ opened = FALSE /\ job = Idle /\ jump = None

-----------------------------------------------------------------------------
OnVolume == job.from \in {"sdcard", "sata", "toflash"}
Exists == job.file \in DOMAIN job.files
File == job.files[job.file]
GoOn(step) == job' = [job EXCEPT !.step = step]
ReadStep == IF OnVolume THEN "mount" ELSE "read"

(* boot never returns. *)
boot_helper(r1, r2, r3, a) ==
  /\ jump' = [kind |-> "boot", r1 |-> r1, r2 |-> r2, r3 |-> r3, a |-> a, job |-> job]
  /\ job' = Idle

(* Where each boot begins.  Without a file name netboot asks for boot.json. *)
netboot(word, files) ==
  job' = [Start("net", "read", "json", IF word = 0 THEN "boot.json" ELSE word, files)
          EXCEPT !.named = word # 0]
sdcardboot(files) == job' = Start("sdcard", "mount", "json", "boot.json", files)
sataboot(files) == job' = Start("sata", "mount", "json", "boot.json", files)
flash_from_card(file, files) == job' = Start("toflash", "mount", "toflash", file, files)

(* A failure ends the attempt with the JSON file; boot.bin follows, and the *)
(* prompt after it.  A netboot that was given a name does not try boot.bin. *)
Fails ==
  job' = IF job.use \in {"json", "image"} /\ ~job.named
         THEN [job EXCEPT !.step = ReadStep, !.use = "bin", !.file = "boot.bin",
                          !.at = MainRamBase, !.got = 0]
         ELSE Idle

-----------------------------------------------------------------------------
(* The FAT volume: mounted and unmounted for every file. *)
Mount ==
  /\ job.step = "mount"
  /\ \/ mounted' = TRUE /\ GoOn("open")
     \/ UNCHANGED mounted /\ Fails
  /\ UNCHANGED <<mem, flash, opened, jump>>

(* Mutant: a file that is not there leaves the volume mounted. *)
OpenMounted ==
  /\ job.step = "open"
  /\ \/ Exists /\ opened' = TRUE /\ GoOn("read") /\ UNCHANGED mounted
     \/ Fails /\ UNCHANGED <<mounted, opened>>
  /\ UNCHANGED <<mem, flash, jump>>

Open ==
  /\ job.step = "open"
  /\ \/ Exists /\ opened' = TRUE /\ GoOn("read") /\ UNCHANGED mounted
     \/ mounted' = FALSE /\ Fails /\ UNCHANGED opened
  /\ UNCHANGED <<mem, flash, jump>>

Close == IF OnVolume THEN mounted' = FALSE /\ opened' = FALSE
                     ELSE UNCHANGED <<mounted, opened>>

(* The JSON file.  Nothing ends its text in the buffer, so jsmn may find    *)
(* more tokens there; and on a volume the result of f_read is not looked    *)
(* at, so it may find only those.                                          *)
ReadJson ==
  /\ job.step = "read" /\ job.use = "json"
  /\ Close
  /\ \/ /\ Exists /\ (OnVolume \/ File.bytes # <<>>)
        /\ \E text \in {File.tokens} \cup (IF OnVolume THEN {<<>>} ELSE {}), rest \in Residues :
             job' = [job EXCEPT !.step = "tokens", !.tokens = text \o rest]
     \/ ~OnVolume /\ Fails
  /\ UNCHANGED <<mem, flash, jump>>

(* NOR flash: a cell takes a new value only when it is erased. *)
Programmed(old, new) == IF old \in {Erased, new} THEN new ELSE Spoilt

(* An image, boot.bin, or the file for the flash. *)
ReadChunk ==
  /\ job.step = "read" /\ job.use # "json"
  /\ Exists /\ job.got < Len(File.bytes)
  /\ LET v == File.bytes[job.got + 1] IN
       IF job.use = "toflash"
       THEN flash' = [flash EXCEPT ![job.got] = Programmed(@, v)] /\ UNCHANGED mem
       ELSE mem' = [mem EXCEPT ![job.at + job.got] = v] /\ UNCHANGED flash
  /\ job' = [job EXCEPT !.got = job.got + 1]
  /\ UNCHANGED <<mounted, opened, jump>>

ReadFails ==
  /\ job.step = "read" /\ job.use # "json"
  /\ Close /\ Fails
  /\ UNCHANGED <<mem, flash, jump>>

(* The end of the file.  An empty file is a failure over the network only. *)
ReadEnds ==
  /\ job.step = "read" /\ job.use # "json"
  /\ Exists /\ job.got = Len(File.bytes)
  /\ job.got > 0 \/ OnVolume
  /\ Close
  /\ \/ /\ job.use = "image" /\ UNCHANGED jump
        /\ job' = [job EXCEPT !.step = "tokens", !.i = job.i + 1, !.imageFound = TRUE,
                              !.addr = IF job.addrFound THEN @ ELSE job.at]
     \/ job.use = "bin" /\ boot_helper(0, 0, 0, MainRamBase)
     \/ job.use = "toflash" /\ job' = Idle /\ UNCHANGED jump
  /\ UNCHANGED <<mem, flash>>

-----------------------------------------------------------------------------
(* The loop over the tokens.  A key is a string with one child, its value   *)
(* the token that follows.  strncmp compares as many characters as the name *)
(* it looks for has: a name that begins so is that name here.              *)
IsKey == job.tokens[job.i].kind = "key"
Key == job.tokens[job.i].text
ValueOf(tokens, k) == IF tokens[k + 1].kind = "value" THEN tokens[k + 1].text ELSE 0
Value == ValueOf(job.tokens, job.i)
InTokens == job.step = "tokens" /\ job.i < Len(job.tokens)
(* Mutant: the loop's counter stays. *)
SameToken(told) == job' = told

NextToken(told) == job' = [told EXCEPT !.i = job.i + 1]

SkipToken == (IsKey => Key = "bootargs") /\ NextToken(job)

(* Mutant: nothing notes that an address was given. *)
BootAddrUnnoted == IsKey /\ Key = "addr" /\ NextToken([job EXCEPT !.addr = Value])

BootAddr == IsKey /\ Key = "addr" /\ NextToken([job EXCEPT !.addr = Value, !.addrFound = TRUE])
BootRegister == IsKey /\ Key \in {"r1", "r2", "r3"} /\ NextToken([job EXCEPT !.r[Key] = Value])
BootImage ==
  /\ IsKey /\ Key \notin {"bootargs", "addr", "r1", "r2", "r3"}
  /\ job' = [job EXCEPT !.step = ReadStep, !.use = "image", !.file = Key,
                        !.at = Value, !.got = 0]

Token ==
  /\ InTokens
  /\ SkipToken \/ BootAddr \/ BootRegister \/ BootImage
  /\ UNCHANGED <<mem, flash, mounted, opened, jump>>

TokensEnd ==
  /\ job.step = "tokens" /\ job.i >= Len(job.tokens)
  /\ IF job.imageFound
     THEN boot_helper(job.r["r1"], job.r["r2"], job.r["r3"], job.addr)
     ELSE Fails /\ UNCHANGED jump
  /\ UNCHANGED <<mem, flash, mounted, opened>>

-----------------------------------------------------------------------------
(* Mutant: the checksum is not compared. *)
check_length_in_flash == flash[0] \in MinImage..MaxImage

(* The flash holds the length of an image, its checksum, and the image. *)
FlashImage == [k \in 1..flash[0] |-> flash[k + 1]]
check_image_in_flash == flash[0] \in MinImage..MaxImage /\ flash[1] = Crc(FlashImage)

flashboot == job' = IF check_image_in_flash
                    THEN Start("flash", "flash", "flash", "flash", <<>>) ELSE Idle

FlashChunk ==
  /\ job.step = "flash" /\ job.got < flash[0]
  /\ mem' = [mem EXCEPT ![MainRamBase + job.got] = flash[job.got + 2]]
  /\ job' = [job EXCEPT !.got = job.got + 1]
  /\ UNCHANGED <<flash, mounted, opened, jump>>

FlashEnds ==
  /\ job.step = "flash" /\ job.got = flash[0]
  /\ boot_helper(0, 0, 0, MainRamBase)
  /\ UNCHANGED <<mem, flash, mounted, opened>>

-----------------------------------------------------------------------------
(* The code has a copy of the three functions for every medium. *)
Copying(from, use) ==
  /\ job.from = from /\ job.use = use
  /\ Mount \/ Open \/ ReadChunk \/ ReadFails \/ ReadEnds
FromJson(from) ==
  /\ job.from = from
  /\ (job.use = "json" /\ (Mount \/ Open \/ ReadJson)) \/ Token \/ TokensEnd

copy_file_from_sdcard_to_ram == Copying("sdcard", "image")
sdcardboot_from_json == FromJson("sdcard")
sdcardboot_from_bin == Copying("sdcard", "bin")
copy_file_from_sata_to_ram == Copying("sata", "image")
sataboot_from_json == FromJson("sata")
sataboot_from_bin == Copying("sata", "bin")
copy_file_from_tftp_to_ram == Copying("net", "image")
netboot_from_json == FromJson("net")
netboot_from_bin == Copying("net", "bin")
copy_file_to_flash == Copying("toflash", "toflash")
copy_image_from_flash_to_ram == FlashChunk \/ FlashEnds

MediaStep ==
  \/ copy_file_from_sdcard_to_ram \/ sdcardboot_from_json \/ sdcardboot_from_bin
  \/ copy_file_from_sata_to_ram \/ sataboot_from_json \/ sataboot_from_bin
  \/ copy_file_from_tftp_to_ram \/ netboot_from_json \/ netboot_from_bin
  \/ copy_file_to_flash \/ copy_image_from_flash_to_ram

-----------------------------------------------------------------------------
JobOK ==
  job # Idle =>
    /\ job.step \in {"mount", "open", "read", "tokens", "flash"}
    /\ job.use \in {"json", "image", "bin", "toflash", "flash"}
    /\ job.i \in 1..(Len(job.tokens) + 1) /\ job.got \in Nat

(* A volume is mounted and a file open only while one is being read: the    *)
(* library keeps pointers to both, and they are locals of the function that *)
(* reads.                                                                  *)
VolumeInUse ==
  /\ mounted <=> job.step \in {"open", "read"} /\ OnVolume
  /\ opened <=> job.step = "read" /\ OnVolume

Parameters == {"bootargs", "addr", "r1", "r2", "r3"}
Keys(tokens) == {k \in 1..(Len(tokens) - 1) : tokens[k].kind = "key"}
Given(tokens, name) == {k \in Keys(tokens) : tokens[k].text = name}
Images(tokens) == {k \in Keys(tokens) : tokens[k].text \notin Parameters}
LastOf(S) == CHOOSE k \in S : \A j \in S : j <= k
LastValue(tokens, S) == IF S = {} THEN 0 ELSE ValueOf(tokens, LastOf(S))

(* Where the image of key k lies. *)
Place(j, k) ==
  {ValueOf(j.tokens, k) + n : n \in 0..(Len(j.files[j.tokens[k].text].bytes) - 1)}

(* A boot told by a JSON file: every image named there exists and lies      *)
(* whole at its address, as far as there is memory and except where a later *)
(* image covers it; registers and entry are the last ones given, the entry  *)
(* without one the address of the last image.                              *)
FollowsJson(call) ==
  LET j == call.job  t == j.tokens IN
  /\ Images(t) # {}
  /\ \A k \in Images(t) :
       /\ t[k].text \in DOMAIN j.files
       /\ \A x \in Place(j, k) \cap Addr :
            \/ \E later \in Images(t) : later > k /\ x \in Place(j, later)
            \/ mem[x] = j.files[t[k].text].bytes[x - ValueOf(t, k) + 1]
  /\ call.r1 = LastValue(t, Given(t, "r1"))
  /\ call.r2 = LastValue(t, Given(t, "r2"))
  /\ call.r3 = LastValue(t, Given(t, "r3"))
  /\ call.a = LastValue(t, IF Given(t, "addr") = {} THEN Images(t) ELSE Given(t, "addr"))

Holds(bytes) ==
  \A n \in 1..Len(bytes) : MainRamBase + n - 1 \in Addr => mem[MainRamBase + n - 1] = bytes[n]

(* A jump from a medium runs what the medium told: the JSON file's images,  *)
(* the whole of boot.bin, or the image in the flash, its checksum right.    *)
RunsWhatWasLoaded ==
  jump # None =>
    /\ jump.job.from \in {"sdcard", "sata", "net"} =>
         IF jump.job.use = "bin"
         THEN /\ Holds(jump.job.files["boot.bin"].bytes)
              /\ <<jump.r1, jump.r2, jump.r3, jump.a>> = <<0, 0, 0, MainRamBase>>
         ELSE FollowsJson(jump)
    /\ jump.job.from = "flash" => check_image_in_flash /\ Holds(FlashImage)

(* With a checksum that tells them apart, an image from the flash is one    *)
(* that someone made, never one that was half written.                     *)
RunsMadeImages(made) == jump # None /\ jump.job.from = "flash" => FlashImage \in made
=============================================================================
