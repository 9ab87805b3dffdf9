----------------------------- MODULE SerialBoot -----------------------------
(***************************************************************************)
(* Booting over the serial line: serialboot of litex/my_bios/boot.c, byte  *)
(* by byte, with a host that uploads an image.  The host is not in the     *)
(* repository; it sends its frames in order and answers every reply, with  *)
(* the next frame after SFL_ACK_SUCCESS, with the same one after any other.*)
(*                                                                         *)
(* A byte is the place it has in the frame it was sent in.  A byte that is *)
(* taken for a length without being one may be any length.  The checksum   *)
(* is ideal: it matches when the bytes are those of a frame that was sent. *)
(* Faults bounds what goes wrong on the line: a byte lost, or a pause so   *)
(* long that the timer of a frame runs out while its bytes are on the way. *)
(***************************************************************************)
EXTENDS Integers, Sequences, FiniteSets

CONSTANTS
  Magic,         \* SFL_MAGIC_ACK
  Cancel, Other, \* Q and ESC; any other byte
  Uploads,       \* what a host may send: sequences of [cmd, payload_length]
  MaxPayload,    \* sizeof(frame.payload)
  MAX_FAILURES,
  Faults

UploadsAssumption ==
  \A frames \in Uploads :
    frames # <<>> /\ \A f \in DOMAIN frames : frames[f].payload_length \in 1 .. MaxPayload
ASSUME UploadsAssumption

VARIABLES
  phase,           \* "ack", "frames", one of Ended, or "overrun": the frame was overrun
  recognized, seen,\* check_ack; the last bytes it read
  i, payload_length, content,  \* the frame being received
  failures,
  loaded,          \* the frames whose payload is in memory
  line, replies,   \* bytes to the board, replies to the host
  upload, current, \* the host's frames; the one it wants acknowledged
  faults,          \* what may still go wrong
  errors           \* replies other than SFL_ACK_SUCCESS in a row

ackVars == <<recognized, seen>>
frameVars == <<i, payload_length, content>>
hostVars == <<line, replies, upload, current, faults>>
vars == <<phase, ackVars, frameVars, failures, loaded, hostVars, errors>>

Any == 0               \* no byte of the frame's body yet
Garbage == -1          \* bytes of no single frame
Replies == {"K", "C", "U", "E"}

Init == /\ upload \in Uploads
        /\ phase = "ack" /\ recognized = 0 /\ seen = <<>>
        /\ i = 0 /\ payload_length = 0 /\ content = Any
        /\ failures = 0 /\ loaded = {} /\ errors = 0
        /\ line = <<>> /\ replies = <<>> /\ current = 1 /\ faults = Faults

-----------------------------------------------------------------------------
(* The host: FrameBytes is a frame as it goes out, length first. *)
FrameBytes(f) == [k \in 1 .. upload[f].payload_length + 4 |-> [frame |-> f, place |-> k - 1]]

HostReads ==
  /\ replies # <<>>
  /\ current \in DOMAIN upload
  /\ LET next == IF Head(replies) = "K" THEN current + 1 ELSE current
     IN  /\ current' = next
         /\ line' = IF next \in DOMAIN upload THEN line \o FrameBytes(next) ELSE line
  /\ replies' = Tail(replies)
  /\ UNCHANGED <<phase, ackVars, frameVars, failures, loaded, upload, faults, errors>>

LoseByte ==
  /\ faults > 0
  /\ faults' = faults - 1
  /\ \E k \in DOMAIN line : line' = SubSeq(line, 1, k - 1) \o SubSeq(line, k + 1, Len(line))
  /\ UNCHANGED <<phase, ackVars, frameVars, failures, loaded, replies, upload, current, errors>>

-----------------------------------------------------------------------------
(* check_ack: one byte of the answer to the magic request *)
Last(s, n) == SubSeq(s, Len(s) - n + 1, Len(s))
(* Mutant: a mismatch forgets the byte that did not match. *)
RecognizeFromZero(c) == IF c = Magic[recognized + 1] THEN recognized + 1 ELSE 0

Recognize(c) ==
  IF c = Magic[recognized + 1] THEN recognized + 1 ELSE IF c = Magic[1] THEN 1 ELSE 0

check_ack(c) ==
  /\ phase = "ack"
  /\ IF c = Cancel
     THEN phase' = "cancelled" /\ UNCHANGED <<ackVars, line>>
     ELSE /\ recognized' = Recognize(c)
          /\ seen' = IF Len(seen) < Len(Magic) THEN Append(seen, c) ELSE Append(Tail(seen), c)
          /\ IF recognized' = Len(Magic)
             THEN phase' = "frames" /\ line' = FrameBytes(1)
             ELSE UNCHANGED <<phase, line>>
  /\ UNCHANGED <<frameVars, failures, loaded, replies, upload, current, faults, errors>>

AckTimeout ==
  /\ phase = "ack"
  /\ phase' = "timeout"
  /\ UNCHANGED <<ackVars, frameVars, failures, loaded, hostVars, errors>>

-----------------------------------------------------------------------------
(* Get one Frame: byte b arrives and becomes byte i of the frame. *)
Lengths(b) == IF b.place = 0 THEN {upload[b.frame].payload_length} ELSE 0 .. MaxPayload

Body(b) == IF b.place = i /\ content \in {Any, b.frame} THEN b.frame ELSE Garbage

GetFirst ==
  /\ phase = "frames" /\ line # <<>> /\ i = 0
  /\ \E n \in Lengths(Head(line)) : payload_length' = n
  /\ content' = Any
  /\ i' = 1
  /\ line' = Tail(line)
  /\ UNCHANGED <<phase, ackVars, failures, loaded, replies, upload, current, faults, errors>>

(* Mutant: the end of the frame a byte late. *)
Last_iLate == payload_length + 4

Last_i == payload_length + 4 - 1
GetNext ==
  /\ phase = "frames" /\ line # <<>> /\ i > 0
  /\ ~(i >= 4 /\ i = Last_i)
  /\ i - 4 < MaxPayload
  /\ content' = Body(Head(line))
  /\ i' = i + 1
  /\ line' = Tail(line)
  /\ UNCHANGED <<phase, ackVars, payload_length, failures, loaded, replies, upload, current, faults, errors>>

(* payload[i - 4] beyond the frame: what follows is undefined *)
Overrun ==
  /\ phase = "frames" /\ line # <<>> /\ i - 4 >= MaxPayload
  /\ phase' = "overrun"
  /\ UNCHANGED <<ackVars, frameVars, failures, loaded, hostVars, errors>>

Reply(r) ==
  /\ replies' = Append(replies, r)
  /\ errors' = IF r = "K" THEN 0 ELSE IF errors <= MAX_FAILURES THEN errors + 1 ELSE errors

(* Mutants: the limit tested too late, the wrong reply, no count. *)
FailPast(r) ==
  /\ Reply(r)
  /\ failures' = failures + 1
  /\ phase' = IF failures' > MAX_FAILURES THEN "failed" ELSE phase
  /\ UNCHANGED loaded
FailAcknowledged(r) ==
  /\ Reply("K")
  /\ failures' = failures + 1
  /\ phase' = IF failures' = MAX_FAILURES THEN "failed" ELSE phase
  /\ UNCHANGED loaded
FailUncounted(r) == Reply(r) /\ UNCHANGED <<failures, phase, loaded>>

(* failures++, and the return when it reaches MAX_FAILURES *)
Fail(r) ==
  /\ Reply(r)
  /\ failures' = failures + 1
  /\ phase' = IF failures' = MAX_FAILURES THEN "failed" ELSE phase
  /\ UNCHANGED loaded

(* The frame is complete: its checksum, then its command *)
Intact(f) == f \in DOMAIN upload /\ upload[f].payload_length = payload_length
Succeed(f) ==
  /\ Reply("K")
  /\ failures' = 0
  /\ CASE upload[f].cmd = "LOAD"  -> loaded' = loaded \cup {f} /\ UNCHANGED phase
       [] upload[f].cmd = "JUMP"  -> phase' = "booted" /\ UNCHANGED loaded
       [] upload[f].cmd = "ABORT" -> phase' = "aborted" /\ UNCHANGED loaded
Known(f) == upload[f].cmd \in {"LOAD", "JUMP", "ABORT"}

GetLast ==
  /\ phase = "frames" /\ line # <<>>
  /\ i >= 4 /\ i = Last_i
  /\ LET f == Body(Head(line))
     IN  IF ~Intact(f) THEN Fail("C") ELSE IF Known(f) THEN Succeed(f) ELSE Fail("U")
  /\ i' = 0
  /\ content' = Any
  /\ payload_length' = 0
  /\ line' = Tail(line)
  /\ UNCHANGED <<ackVars, upload, current, faults>>

(* Mutant: an incomplete frame acknowledged. *)
TimeoutAcknowledged ==
  /\ phase = "frames" /\ i > 0
  /\ \/ line = <<>> /\ UNCHANGED faults
     \/ line # <<>> /\ faults > 0 /\ faults' = faults - 1
  /\ Reply("K")
  /\ i' = 0
  /\ content' = Any
  /\ payload_length' = 0
  /\ UNCHANGED <<phase, ackVars, failures, loaded, line, upload, current>>

(* The timer runs out: nothing more on the way, or the line has paused.  *)
(* An error reply is sent; failures is left as it was.                    *)
Timeout ==
  /\ phase = "frames" /\ i > 0
  /\ \/ line = <<>> /\ UNCHANGED faults
     \/ line # <<>> /\ faults > 0 /\ faults' = faults - 1
  /\ Reply("E")
  /\ i' = 0
  /\ content' = Any
  /\ payload_length' = 0
  /\ UNCHANGED <<phase, ackVars, failures, loaded, line, upload, current>>

Bytes == {Magic[k] : k \in DOMAIN Magic} \cup {Cancel, Other}

Next == \/ \E c \in Bytes : check_ack(c)
        \/ AckTimeout
        \/ GetFirst \/ GetNext \/ GetLast \/ Overrun \/ Timeout
        \/ HostReads \/ LoseByte

(* The board's loop and its timer run on, and the host answers; the line *)
(* may stay quiet for ever while the board waits for the first byte.     *)
Spec == /\ Init /\ [][Next]_vars
        /\ WF_vars(AckTimeout)
        /\ WF_vars(GetFirst \/ GetNext \/ GetLast \/ Overrun \/ Timeout)
        /\ WF_vars(HostReads)

-----------------------------------------------------------------------------
(* The returns of serialboot, and the jump into the program. *)
Ended == {"timeout", "cancelled", "failed", "aborted", "booted"}

TypeOK ==
  /\ phase \in {"ack", "frames", "overrun"} \cup Ended
  /\ recognized \in 0 .. Len(Magic)
  /\ i \in 0 .. MaxPayload + 4
  /\ payload_length \in 0 .. MaxPayload
  /\ content \in DOMAIN upload \cup {Any, Garbage}
  /\ failures \in 0 .. MAX_FAILURES
  /\ loaded \subseteq DOMAIN upload
  /\ \A k \in DOMAIN replies : replies[k] \in Replies
  /\ current \in 1 .. Len(upload) + 1
  /\ faults \in 0 .. Faults

(* The program is started only when every frame before the jump is in      *)
(* memory, although replies carry no number, a lost byte puts the board    *)
(* out of step with the host and frames are then sent and loaded twice.    *)
JumpsIntoWholeImage ==
  phase = "booted" => loaded = {f \in DOMAIN upload : upload[f].cmd = "LOAD"}

(* The host never believes more than the board has done, once the line is  *)
(* quiet: every frame it has given up sending was executed.                *)
AcknowledgedIsLoaded ==
  line = <<>> /\ replies = <<>> /\ i = 0 =>
    \A f \in 1 .. current - 1 : upload[f].cmd = "LOAD" => f \in loaded

(* check_ack recognises the longest beginning of the magic string that the *)
(* bytes read so far end with, though it restarts without looking back.    *)
EndsWith(n) == n <= Len(seen) /\ Last(seen, n) = SubSeq(Magic, 1, n)
MagicFound ==
  EndsWith(recognized) /\ \A n \in recognized + 1 .. Len(Magic) : ~EndsWith(n)

(* Bytes are stored beyond the payload only in a frame that announces an   *)
(* empty payload, which no byte completes.                                 *)
OnlyEmptyOverruns == i - 4 >= MaxPayload => payload_length = 0

(* The dialogue ends: the program is started or serialboot returns.  There *)
(* is one other end, a byte stored beyond frame.payload (boot.c:211), and  *)
(* it takes a fault: after a lost byte or a pause the board reads the rest *)
(* of a frame as one that announces an empty payload, and what the host    *)
(* sends again runs past the buffer.  On a line without faults the board   *)
(* is never brought to it.                                                 *)
OverrunAfterFault == phase = "overrun" /\ faults < Faults /\ payload_length = 0
BootEnds == <>(phase \in Ended \/ OverrunAfterFault)

(* "Too many consecutive errors": the board takes no more frames after     *)
(* MAX_FAILURES in a row.                                                  *)
GivesUp == errors >= MAX_FAILURES => phase # "frames"
=============================================================================
