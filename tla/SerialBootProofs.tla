------------------------- MODULE SerialBootProofs --------------------------
(***************************************************************************)
(* The board's side of the serial boot, for every magic string whose first *)
(* byte occurs once in it, every payload size, every limit of failures,    *)
(* every upload and every number of faults on the line; and the dialogue   *)
(* of the board and the host over a line with at most one fault: what is   *)
(* acknowledged is loaded, and the program is started whole.               *)
(***************************************************************************)
EXTENDS SerialBoot, SequenceTheorems, TLAPS

(* What the constants must be.                                             *)
ConstantsOK ==
  /\ Magic \in Seq(Bytes) /\ Magic # <<>>
  /\ \A k \in 2 .. Len(Magic) : Magic[k] # Magic[1]
  /\ MaxPayload \in Nat \ {0} /\ MAX_FAILURES \in Nat \ {0} /\ Faults \in Nat
  /\ Uploads \subseteq Seq([cmd : STRING, payload_length : Nat])

(* The inductive invariant: the types of the sequences, and how far the    *)
(* counters are from their limits while the board still runs.              *)
Items == [frame : DOMAIN upload, place : Nat]
Shape ==
  /\ upload \in Uploads
  /\ line \in Seq(Items) /\ replies \in Seq(Replies)
  /\ phase = "ack" => recognized < Len(Magic)
  /\ phase \in {"ack", "frames"} => failures < MAX_FAILURES
  /\ payload_length > 0 => i <= payload_length + 3

IInv == TypeOK /\ Shape

(* The frame a byte belongs to is one of the upload. *)
LEMMA UploadFacts ==
  ASSUME ConstantsOK, Shape
  PROVE  /\ Len(upload) \in Nat \ {0} /\ DOMAIN upload = 1 .. Len(upload)
         /\ \A f \in DOMAIN upload : upload[f].payload_length \in 1 .. MaxPayload
         /\ MaxPayload \in Nat \ {0} /\ MAX_FAILURES \in Nat \ {0} /\ Len(Magic) \in Nat \ {0}
<1>1. upload \in Seq([cmd : STRING, payload_length : Nat]) /\ upload # <<>>
  BY UploadsAssumption DEF ConstantsOK, Shape, UploadsAssumption
<1>2. \A f \in DOMAIN upload : upload[f].payload_length \in 1 .. MaxPayload
  BY UploadsAssumption DEF Shape, UploadsAssumption
<1>3. Len(upload) \in Nat \ {0} /\ DOMAIN upload = 1 .. Len(upload)
  BY <1>1, LenProperties, EmptySeq
<1>4. Len(Magic) \in Nat \ {0} BY EmptySeq, LenProperties DEF ConstantsOK
<1>5. QED BY <1>2, <1>3, <1>4 DEF ConstantsOK

(* A frame goes out as bytes that know their frame. *)
LEMMA FrameBytesTypes ==
  ASSUME ConstantsOK, Shape, NEW f \in DOMAIN upload
  PROVE  FrameBytes(f) \in Seq(Items)
<1>1. upload[f].payload_length + 4 \in Nat BY UploadFacts, SMT
<1>2. FrameBytes(f) \in [1 .. upload[f].payload_length + 4 -> Items]
  BY <1>1, SMT DEF FrameBytes, Items
<1>3. QED BY <1>1, <1>2, SeqDef

(* Taking a byte off the line. *)
LEMMA LineTypes ==
  ASSUME Shape, line # <<>>
  PROVE  Tail(line) \in Seq(Items) /\ Head(line) \in Items
BY HeadTailProperties DEF Shape

(* Answering. *)
LEMMA ReplyTypes ==
  ASSUME Shape, NEW r \in Replies, Reply(r)
  PROVE  replies' \in Seq(Replies)
BY AppendProperties DEF Shape, Reply

(* Sequences of replies are what the type invariant says they are. *)
LEMMA RepliesTyped ==
  ASSUME replies \in Seq(Replies)
  PROVE  \A k \in DOMAIN replies : replies[k] \in Replies
BY LenProperties, ElementOfSeq

(* The board before the first frame. *)
LEMMA AckTypes ==
  ASSUME ConstantsOK, IInv, (\E c \in Bytes : check_ack(c)) \/ AckTimeout
  PROVE  IInv'
<1>1. CASE AckTimeout
  BY <1>1 DEF AckTimeout, IInv, TypeOK, Shape, Items, ackVars, frameVars, hostVars, Ended
<1>2. ASSUME NEW c \in Bytes, check_ack(c) PROVE IInv'
  <2>1. UNCHANGED <<frameVars, failures, loaded, replies, upload, current, faults>>
    BY <1>2 DEF check_ack
  <2>2. CASE c = Cancel
    BY <1>2, <2>1, <2>2 DEF check_ack, IInv, TypeOK, Shape, Items, ackVars, frameVars, Ended
  <2>3. CASE c # Cancel
    <3>1. recognized' \in 0 .. Len(Magic)
      <4>1. recognized \in 0 .. Len(Magic) /\ recognized < Len(Magic) /\ Len(Magic) \in Nat \ {0}
        BY <1>2, UploadFacts DEF check_ack, IInv, TypeOK, Shape
      <4>2. recognized' = Recognize(c) BY <1>2, <2>3 DEF check_ack
      <4>3. QED BY <4>1, <4>2, SMT DEF Recognize
    <3>2. CASE recognized' = Len(Magic)
      <4>1. phase' = "frames" /\ line' = FrameBytes(1) BY <1>2, <2>3, <3>2 DEF check_ack
      <4>2. 1 \in DOMAIN upload BY UploadFacts, SMT DEF IInv
      <4>3. line' \in Seq(Items) BY <4>1, <4>2, FrameBytesTypes DEF IInv
      <4>4. failures < MAX_FAILURES BY <1>2 DEF check_ack, IInv, Shape
      <4>5. QED BY <2>1, <3>1, <4>1, <4>3, <4>4 DEF IInv, TypeOK, Shape, Items, frameVars
    <3>3. CASE recognized' # Len(Magic)
      <4>1. phase' = phase /\ phase = "ack" /\ line' = line BY <1>2, <2>3, <3>3 DEF check_ack
      <4>2. recognized' < Len(Magic) BY <3>1, <3>3, UploadFacts, SMT DEF IInv
      <4>3. QED BY <2>1, <3>1, <4>1, <4>2 DEF IInv, TypeOK, Shape, Items, frameVars
    <3>4. QED BY <3>2, <3>3
  <2>4. QED BY <2>2, <2>3
<1>3. QED BY <1>1, <1>2

(* Receiving a frame, byte by byte. *)
LEMMA GetFirstTypes ==
  ASSUME ConstantsOK, IInv, GetFirst
  PROVE  IInv'
<1>1. UNCHANGED <<phase, ackVars, failures, loaded, replies, upload, current, faults>>
  BY DEF GetFirst
<1>2. line' \in Seq(Items) /\ Head(line) \in Items BY LineTypes DEF GetFirst, IInv
<1>3. PICK n \in Lengths(Head(line)) : payload_length' = n BY DEF GetFirst
<1>4. payload_length' \in 0 .. MaxPayload
  <2>1. Head(line).frame \in DOMAIN upload BY <1>2 DEF Items
  <2>2. upload[Head(line).frame].payload_length \in 1 .. MaxPayload BY <2>1, UploadFacts DEF IInv
  <2>3. Lengths(Head(line)) \subseteq 0 .. MaxPayload
    <3>1. upload[Head(line).frame].payload_length \in 0 .. MaxPayload BY <2>2, SMT
    <3>2. QED BY <3>1 DEF Lengths
  <2>4. QED BY <1>3, <2>3
<1>5. i' = 1 /\ i' \in 0 .. MaxPayload + 4 /\ (payload_length' > 0 => i' <= payload_length' + 3)
  <2>1. i' = 1 BY DEF GetFirst
  <2>2. MaxPayload \in Nat \ {0} BY DEF ConstantsOK
  <2>3. 1 \in 0 .. MaxPayload + 4 BY <2>2, SMT
  <2>4. ASSUME NEW m \in 0 .. MaxPayload PROVE 1 <= m + 3 BY <2>2, SMT
  <2>5. QED BY <1>4, <2>1, <2>3, <2>4
<1>6. content' = Any BY DEF GetFirst
<1>7. QED BY <1>1, <1>2, <1>4, <1>5, <1>6 DEF IInv, TypeOK, Shape, Items, ackVars, Ended

(* A byte of the body keeps the frame or spoils it. *)
LEMMA BodyTypes ==
  ASSUME NEW b \in Items
  PROVE  Body(b) \in DOMAIN upload \cup {Any, Garbage}
BY DEF Body, Items

(* The next byte stays within the frame that was announced. *)
LEMMA GetNextTypes ==
  ASSUME ConstantsOK, IInv, GetNext
  PROVE  IInv'
<1>1. UNCHANGED <<phase, ackVars, payload_length, failures, loaded, replies, upload, current, faults>>
  BY DEF GetNext
<1>2. line' \in Seq(Items) /\ Head(line) \in Items BY LineTypes DEF GetNext, IInv
<1>3. content' \in DOMAIN upload \cup {Any, Garbage} BY <1>2, BodyTypes DEF GetNext
<1>4. i' \in 0 .. MaxPayload + 4 /\ (payload_length > 0 => i' <= payload_length + 3)
  <2>1. i' = i + 1 /\ i > 0 /\ ~(i >= 4 /\ i = payload_length + 4 - 1) /\ i - 4 < MaxPayload
    BY DEF GetNext, Last_i
  <2>2. /\ i \in 0 .. MaxPayload + 4 /\ payload_length \in 0 .. MaxPayload
        /\ payload_length > 0 => i <= payload_length + 3
    BY DEF IInv, TypeOK, Shape
  <2>3. QED BY <2>1, <2>2, UploadFacts, SMT DEF IInv
<1>5. QED BY <1>1, <1>2, <1>3, <1>4 DEF IInv, TypeOK, Shape, Items, ackVars, Ended

(* A frame that is refused counts as a failure, and the last one ends it. *)
LEMMA FailTypes ==
  ASSUME ConstantsOK, IInv, phase = "frames", NEW r \in Replies, Fail(r)
  PROVE  /\ failures' \in 0 .. MAX_FAILURES /\ phase' \in {"frames", "failed"}
         /\ phase' = "frames" => failures' < MAX_FAILURES
         /\ loaded' \subseteq DOMAIN upload /\ replies' \in Seq(Replies)
<1>1. failures \in 0 .. MAX_FAILURES /\ failures < MAX_FAILURES BY DEF IInv, TypeOK, Shape
<1>2. /\ failures' = failures + 1
      /\ phase' = IF failures' = MAX_FAILURES THEN "failed" ELSE phase
      /\ loaded' = loaded /\ Reply(r)
  BY DEF Fail
<1>3. failures' \in 0 .. MAX_FAILURES /\ (failures' # MAX_FAILURES => failures' < MAX_FAILURES)
  BY <1>1, <1>2, UploadFacts, SMT DEF IInv
<1>4. replies' \in Seq(Replies) BY <1>2, ReplyTypes DEF IInv
<1>5. QED BY <1>2, <1>3, <1>4 DEF IInv, TypeOK

(* The last byte of a frame settles it. *)
LEMMA GetLastTypes ==
  ASSUME ConstantsOK, IInv, GetLast
  PROVE  IInv'
<1> DEFINE f == Body(Head(line))
<1>1. /\ phase = "frames" /\ i' = 0 /\ content' = Any /\ payload_length' = 0 /\ line' = Tail(line)
      /\ UNCHANGED <<ackVars, upload, current, faults>>
      /\ IF ~Intact(f) THEN Fail("C") ELSE IF Known(f) THEN Succeed(f) ELSE Fail("U")
  BY DEF GetLast
<1>2. line' \in Seq(Items) BY <1>1, LineTypes DEF GetLast, IInv
<1>3. MAX_FAILURES \in Nat \ {0} /\ MaxPayload \in Nat \ {0} BY UploadFacts DEF IInv
<1>4. 0 \in 0 .. MAX_FAILURES /\ 0 \in 0 .. MaxPayload + 4 /\ 0 \in 0 .. MaxPayload
      /\ 0 < MAX_FAILURES /\ ~(0 > 0)
  BY <1>3, SMT
<1>5. /\ failures' \in 0 .. MAX_FAILURES
      /\ phase' \in {"frames", "failed", "booted", "aborted"}
      /\ phase' = "frames" => failures' < MAX_FAILURES
      /\ loaded' \subseteq DOMAIN upload /\ replies' \in Seq(Replies)
  <2>1. CASE Fail("C") \/ Fail("U") BY <1>1, <2>1, FailTypes DEF Replies
  <2>2. CASE Intact(f) /\ Known(f) /\ Succeed(f)
    <3>1. Reply("K") /\ failures' = 0 BY <2>2 DEF Succeed
    <3>2. replies' \in Seq(Replies) BY <3>1, ReplyTypes DEF IInv, Replies
    <3>3. f \in DOMAIN upload BY <2>2 DEF Intact
    <3> HIDE DEF f
    <3>4. phase' \in {"frames", "booted", "aborted"} /\ loaded' \subseteq DOMAIN upload
      BY <1>1, <2>2, <3>3 DEF Succeed, Known, IInv, TypeOK
    <3>5. QED BY <1>4, <3>1, <3>2, <3>4
  <2>3. QED BY <1>1, <2>1, <2>2
<1>6. QED
  BY <1>1, <1>2, <1>4, <1>5, RepliesTyped, SMTT(30) DEF IInv, TypeOK, Shape, Items, ackVars, Ended

(* An incomplete frame is dropped. *)
LEMMA TimeoutTypes ==
  ASSUME ConstantsOK, IInv, Timeout
  PROVE  IInv'
<1>1. /\ i' = 0 /\ content' = Any /\ payload_length' = 0 /\ Reply("E")
      /\ UNCHANGED <<phase, ackVars, failures, loaded, line, upload, current>>
  BY DEF Timeout
<1>2. MaxPayload \in Nat \ {0} BY UploadFacts DEF IInv
<1>3. 0 \in 0 .. MaxPayload + 4 /\ 0 \in 0 .. MaxPayload /\ ~(0 > 0) BY <1>2, SMT
<1>4. replies' \in Seq(Replies) BY <1>1, ReplyTypes DEF IInv, Replies
<1>5. faults' \in 0 .. Faults
  <2>1. faults' = faults \/ (faults > 0 /\ faults' = faults - 1) BY DEF Timeout
  <2>2. faults \in 0 .. Faults /\ Faults \in Nat BY DEF IInv, TypeOK, ConstantsOK
  <2>3. QED BY <2>1, <2>2, SMT
<1>6. QED BY <1>1, <1>3, <1>4, <1>5, RepliesTyped DEF IInv, TypeOK, Shape, Items, ackVars, Ended

(* What is written beyond the payload ends the model. *)
LEMMA OverrunTypes ==
  ASSUME IInv, Overrun
  PROVE  IInv'
BY DEF Overrun, IInv, TypeOK, Shape, Items, ackVars, frameVars, hostVars, Ended

(* The host and the line. *)
LEMMA HostTypes ==
  ASSUME ConstantsOK, IInv, HostReads
  PROVE  IInv'
<1> DEFINE next == IF Head(replies) = "K" THEN current + 1 ELSE current
<1>1. /\ current \in DOMAIN upload /\ current' = next /\ replies # <<>> /\ replies' = Tail(replies)
      /\ line' = IF next \in DOMAIN upload THEN line \o FrameBytes(next) ELSE line
      /\ UNCHANGED <<phase, ackVars, frameVars, failures, loaded, upload, faults, errors>>
  BY DEF HostReads
<1>2. replies' \in Seq(Replies) BY <1>1, HeadTailProperties DEF IInv, Shape
<1>3. current' \in 1 .. Len(upload) + 1 BY <1>1, UploadFacts, SMT DEF IInv
<1> HIDE DEF next
<1>4. line' \in Seq(Items)
  <2>1. next \in DOMAIN upload => FrameBytes(next) \in Seq(Items) BY FrameBytesTypes DEF IInv
  <2>2. QED BY <1>1, <2>1, ConcatProperties DEF IInv, Shape
<1>5. QED
  BY <1>1, <1>2, <1>3, <1>4, RepliesTyped, SMTT(30) DEF IInv, TypeOK, Shape, Items, ackVars, frameVars, Ended

(* A byte is lost. *)
LEMMA LossTypes ==
  ASSUME ConstantsOK, IInv, LoseByte
  PROVE  IInv'
<1>1. PICK k \in DOMAIN line : line' = SubSeq(line, 1, k - 1) \o SubSeq(line, k + 1, Len(line))
  BY DEF LoseByte
<1>2. line \in Seq(Items) /\ Len(line) \in Nat /\ k \in 1 .. Len(line)
      /\ \A j \in 1 .. Len(line) : line[j] \in Items
  BY LenProperties, ElementOfSeq DEF IInv, Shape
<1>3. SubSeq(line, 1, k - 1) \in Seq(Items)
  <2>1. 1 \in Int /\ k - 1 \in Int /\ \A j \in 1 .. k - 1 : j \in 1 .. Len(line) BY <1>2, SMT
  <2>2. QED BY <1>2, <2>1, SubSeqProperties
<1>4. SubSeq(line, k + 1, Len(line)) \in Seq(Items)
  <2>1. k + 1 \in Int /\ Len(line) \in Int /\ \A j \in k + 1 .. Len(line) : j \in 1 .. Len(line)
    BY <1>2, SMT
  <2>2. QED BY <1>2, <2>1, SubSeqProperties
<1>5. line' \in Seq(Items) BY <1>1, <1>3, <1>4, ConcatProperties
<1>6. faults' \in 0 .. Faults
  <2>1. faults > 0 /\ faults' = faults - 1 BY DEF LoseByte
  <2>2. faults \in 0 .. Faults /\ Faults \in Nat BY DEF IInv, TypeOK, ConstantsOK
  <2>3. QED BY <2>1, <2>2, SMT
<1>7. UNCHANGED <<phase, ackVars, frameVars, failures, loaded, replies, upload, current, errors>>
  BY DEF LoseByte
<1>8. QED BY <1>5, <1>6, <1>7 DEF IInv, TypeOK, Shape, Items, ackVars, frameVars, Ended

(* The invariant is inductive. *)
LEMMA StepInv == ASSUME ConstantsOK, IInv, [Next]_vars PROVE IInv'
<1>1. CASE UNCHANGED vars
  BY <1>1 DEF vars, ackVars, frameVars, hostVars, IInv, TypeOK, Shape, Items
<1>2. CASE Next
  BY <1>2, AckTypes, GetFirstTypes, GetNextTypes, GetLastTypes, OverrunTypes, TimeoutTypes,
     HostTypes, LossTypes DEF Next
<1>3. QED BY <1>1, <1>2

(* The invariant holds before the first byte. *)
LEMMA InitInv == ASSUME ConstantsOK, Init PROVE IInv
<1>1. upload \in Uploads /\ line = <<>> /\ replies = <<>> BY DEF Init
<1>2. upload \in Seq([cmd : STRING, payload_length : Nat]) /\ upload # <<>>
  BY <1>1, UploadsAssumption DEF ConstantsOK, UploadsAssumption
<1>3. Len(upload) \in Nat \ {0} /\ Len(Magic) \in Nat \ {0} /\ MaxPayload \in Nat \ {0}
      /\ MAX_FAILURES \in Nat \ {0} /\ Faults \in Nat
  BY <1>2, EmptySeq DEF ConstantsOK
<1>4. /\ 0 \in 0 .. Len(Magic) /\ 0 < Len(Magic) /\ 0 \in 0 .. MaxPayload + 4
      /\ 0 \in 0 .. MaxPayload /\ 0 \in 0 .. MAX_FAILURES /\ 0 < MAX_FAILURES
      /\ 1 \in 1 .. Len(upload) + 1 /\ Faults \in 0 .. Faults /\ ~(0 > 0)
  BY <1>3, SMT
<1>5. line \in Seq(Items) /\ replies \in Seq(Replies) BY <1>1, EmptySeq
<1>6. QED BY <1>1, <1>4, <1>5, RepliesTyped DEF Init, IInv, TypeOK, Shape, Any

-----------------------------------------------------------------------------
(* Every register keeps its range, and the replies are four bytes only.     *)
THEOREM TypeCorrect == ASSUME ConstantsOK PROVE Spec => []TypeOK
<1>1. Init => IInv BY InitInv
<1>2. IInv /\ [Next]_vars => IInv' BY StepInv
<1>3. IInv => TypeOK BY DEF IInv
<1>4. QED BY <1>1, <1>2, <1>3, PTL DEF Spec

(* boot.c never writes beyond frame.payload in a frame that announces a     *)
(* payload, whatever the line loses and whatever a stray byte announces.    *)
THEOREM AnnouncedFits == ASSUME ConstantsOK PROVE Spec => []OnlyEmptyOverruns
<1>1. Init => IInv BY InitInv
<1>2. IInv /\ [Next]_vars => IInv' BY StepInv
<1>3. IInv => OnlyEmptyOverruns
  <2> SUFFICES ASSUME IInv PROVE OnlyEmptyOverruns OBVIOUS
  <2>1. /\ i \in 0 .. MaxPayload + 4 /\ payload_length \in 0 .. MaxPayload
        /\ payload_length > 0 => i <= payload_length + 3
    BY DEF IInv, TypeOK, Shape
  <2>2. MaxPayload \in Nat \ {0} BY DEF ConstantsOK
  <2>3. QED BY <2>1, <2>2, SMT DEF OnlyEmptyOverruns
<1>4. QED BY <1>1, <1>2, <1>3, PTL DEF Spec

-----------------------------------------------------------------------------
(* Recognising the magic string.  The bytes read so far end with its first  *)
(* n, byte for byte.                                                        *)
Matches(s, n) == n <= Len(s) /\ \A k \in 1 .. n : s[Len(s) - n + k] = Magic[k]

Recent ==
  /\ seen \in Seq(Bytes) /\ Len(seen) <= Len(Magic)
  /\ recognized \in 0 .. Len(Magic) /\ (phase = "ack" => recognized < Len(Magic))
  /\ Matches(seen, recognized)
  /\ \A n \in 1 .. Len(Magic) : Matches(seen, n) => n <= recognized

(* One more byte read, the oldest forgotten when there are enough. *)
Read(s, c) == IF Len(s) < Len(Magic) THEN Append(s, c) ELSE Append(Tail(s), c)

(* What a byte more makes of a match. *)
LEMMA ReadMatches ==
  ASSUME ConstantsOK, NEW s \in Seq(Bytes), Len(s) <= Len(Magic), NEW c \in Bytes,
         NEW n \in 1 .. Len(Magic)
  PROVE  /\ Read(s, c) \in Seq(Bytes) /\ Len(Read(s, c)) <= Len(Magic)
         /\ Matches(Read(s, c), n) <=> Matches(s, n - 1) /\ c = Magic[n]
<1> DEFINE t == Read(s, c)
<1>1. Len(Magic) \in Nat \ {0} /\ Len(s) \in Nat BY EmptySeq, LenProperties DEF ConstantsOK
<1>2. /\ t \in Seq(Bytes) /\ Len(t) \in Nat /\ Len(t) >= 1 /\ Len(t) <= Len(Magic)
      /\ t[Len(t)] = c /\ (n - 1 <= Len(s) <=> n <= Len(t))
      /\ \A j \in 1 .. Len(t) - 1 : t[j] = s[Len(s) - (Len(t) - 1) + j]
  <2>1. CASE Len(s) < Len(Magic)
    <3>1. t = Append(s, c) BY <2>1 DEF Read
    <3> HIDE DEF t
    <3>2. /\ t \in Seq(Bytes) /\ Len(t) = Len(s) + 1 /\ t[Len(s) + 1] = c
          /\ \A j \in 1 .. Len(s) : t[j] = s[j]
      BY <3>1, AppendProperties
    <3>3. QED BY <1>1, <2>1, <3>2, SMT
  <2>2. CASE Len(s) = Len(Magic)
    <3>1. t = Append(Tail(s), c) BY <2>2 DEF Read
    <3>2. s # <<>> BY <1>1, <2>2, EmptySeq
    <3>3. /\ Tail(s) \in Seq(Bytes) /\ Len(Tail(s)) = Len(s) - 1
          /\ \A j \in 1 .. Len(s) - 1 : Tail(s)[j] = s[j + 1]
      BY <3>2, HeadTailProperties
    <3> HIDE DEF t
    <3>4. /\ t \in Seq(Bytes) /\ Len(t) = Len(s) /\ t[Len(s)] = c
          /\ \A j \in 1 .. Len(s) - 1 : t[j] = s[j + 1]
      <4>1. /\ t \in Seq(Bytes) /\ Len(t) = Len(Tail(s)) + 1 /\ t[Len(Tail(s)) + 1] = c
            /\ \A j \in 1 .. Len(Tail(s)) : t[j] = Tail(s)[j]
        BY <3>1, <3>3, AppendProperties
      <4>2. (Len(s) - 1) + 1 = Len(s) BY <1>1, SMT
      <4>3. QED BY <3>3, <4>1, <4>2
    <3>5. QED BY <1>1, <2>2, <3>4, SMT
  <2>3. Len(s) < Len(Magic) \/ Len(s) = Len(Magic) BY <1>1, SMT
  <2>4. QED BY <2>1, <2>2, <2>3, Zenon
<1> HIDE DEF t
<1>3. ASSUME Matches(t, n) PROVE Matches(s, n - 1) /\ c = Magic[n]
  <2>1. n <= Len(t) /\ \A k \in 1 .. n : t[Len(t) - n + k] = Magic[k] BY <1>3 DEF Matches
  <2>2. c = Magic[n]
    <3>1. n \in 1 .. n /\ Len(t) - n + n = Len(t) BY <1>2, SMT
    <3>2. QED BY <1>2, <2>1, <3>1
  <2>3. ASSUME NEW k \in 1 .. n - 1 PROVE s[Len(s) - (n - 1) + k] = Magic[k]
    <3>1. k \in 1 .. n /\ Len(t) - n + k \in 1 .. Len(t) - 1
          /\ Len(s) - (Len(t) - 1) + (Len(t) - n + k) = Len(s) - (n - 1) + k
      BY <1>1, <1>2, <2>1, SMT
    <3>2. QED BY <1>2, <2>1, <3>1
  <2>4. QED BY <1>2, <2>1, <2>2, <2>3 DEF Matches
<1>4. ASSUME Matches(s, n - 1), c = Magic[n] PROVE Matches(t, n)
  <2>1. n <= Len(t) BY <1>2, <1>4 DEF Matches
  <2>2. ASSUME NEW k \in 1 .. n PROVE t[Len(t) - n + k] = Magic[k]
    <3>1. CASE k = n
      <4>1. Len(t) - n + k = Len(t) BY <1>2, <3>1, SMT
      <4>2. QED BY <1>2, <1>4, <3>1, <4>1
    <3>2. CASE k # n
      <4>1. k \in 1 .. n - 1 /\ Len(t) - n + k \in 1 .. Len(t) - 1
            /\ Len(s) - (Len(t) - 1) + (Len(t) - n + k) = Len(s) - (n - 1) + k
        BY <1>1, <1>2, <2>1, <3>2, SMT
      <4>2. t[Len(t) - n + k] = s[Len(s) - (n - 1) + k] BY <1>2, <4>1
      <4>3. QED BY <1>4, <4>1, <4>2 DEF Matches
    <3>3. QED BY <3>1, <3>2
  <2>3. QED BY <2>1, <2>2 DEF Matches
<1>5. QED BY <1>2, <1>3, <1>4 DEF t

(* No two beginnings of the magic string end together. *)
LEMMA NoBorder ==
  ASSUME ConstantsOK, NEW s \in Seq(Bytes), NEW n \in 1 .. Len(Magic), NEW m \in 1 .. Len(Magic),
         m < n, Matches(s, n), Matches(s, m)
  PROVE  FALSE
<1>1. Len(s) \in Nat /\ Len(Magic) \in Nat BY LenProperties, EmptySeq DEF ConstantsOK
<1>2. 1 \in 1 .. m /\ n - m + 1 \in 1 .. n /\ n - m + 1 \in 2 .. Len(Magic)
      /\ Len(s) - n + (n - m + 1) = Len(s) - m + 1
  BY <1>1, SMT
<1>3. s[Len(s) - m + 1] = Magic[1] BY <1>2 DEF Matches
<1>4. s[Len(s) - n + (n - m + 1)] = Magic[n - m + 1] BY <1>2 DEF Matches
<1>5. Magic[n - m + 1] = Magic[1] BY <1>2, <1>3, <1>4
<1>6. QED BY <1>2, <1>5 DEF ConstantsOK

(* Nothing matches the beginning of no bytes. *)
LEMMA EmptyMatch == ASSUME NEW s \in Seq(Bytes) PROVE Matches(s, 0)
<1>1. Len(s) \in Nat /\ 0 <= Len(s) /\ 1 .. 0 = {} BY LenProperties, SMT
<1>2. QED BY <1>1 DEF Matches

(* Matching byte for byte is ending with. *)
LEMMA MatchesIsEndsWith ==
  ASSUME ConstantsOK, seen \in Seq(Bytes), NEW n \in 0 .. Len(Magic)
  PROVE  EndsWith(n) <=> Matches(seen, n)
<1>1. /\ Len(seen) \in Nat /\ Len(Magic) \in Nat
      /\ \A k \in 1 .. Len(Magic) : Magic[k] \in Bytes
      /\ \A k \in 1 .. Len(seen) : seen[k] \in Bytes
  BY LenProperties, ElementOfSeq DEF ConstantsOK
<1>2. CASE n <= Len(seen)
  <2> DEFINE u == SubSeq(seen, Len(seen) - n + 1, Len(seen))
             v == SubSeq(Magic, 1, n)
  <2>1. u \in Seq(Bytes) /\ Len(u) = n /\ \A k \in 1 .. n : u[k] = seen[Len(seen) - n + k]
    <3>1. Len(seen) - n + 1 \in Int /\ Len(seen) \in Int
          /\ \A j \in Len(seen) - n + 1 .. Len(seen) : seen[j] \in Bytes
      BY <1>1, <1>2, SMT
    <3>2. /\ u \in Seq(Bytes)
          /\ Len(u) = IF Len(seen) - n + 1 <= Len(seen)
                      THEN Len(seen) - (Len(seen) - n + 1) + 1 ELSE 0
          /\ \A k \in 1 .. Len(seen) - (Len(seen) - n + 1) + 1 :
               u[k] = seen[(Len(seen) - n + 1) + k - 1]
      BY <3>1, SubSeqProperties
    <3> HIDE DEF u
    <3>3. Len(u) = n /\ Len(seen) - (Len(seen) - n + 1) + 1 = n BY <1>1, <1>2, <3>2, SMT
    <3>4. \A k \in 1 .. n : (Len(seen) - n + 1) + k - 1 = Len(seen) - n + k BY <1>1, SMT
    <3>5. QED BY <3>2, <3>3, <3>4
  <2>2. v \in Seq(Bytes) /\ Len(v) = n /\ \A k \in 1 .. n : v[k] = Magic[k]
    <3>1. 1 \in Int /\ n \in Int /\ \A j \in 1 .. n : Magic[j] \in Bytes BY <1>1, SMT
    <3>2. /\ v \in Seq(Bytes) /\ Len(v) = IF 1 <= n THEN n - 1 + 1 ELSE 0
          /\ \A k \in 1 .. n - 1 + 1 : v[k] = Magic[1 + k - 1]
      BY <3>1, SubSeqProperties
    <3> HIDE DEF v
    <3>3. Len(v) = n /\ n - 1 + 1 = n /\ \A k \in 1 .. n : 1 + k - 1 = k BY <1>1, <3>2, SMT
    <3>4. QED BY <3>2, <3>3
  <2>3. EndsWith(n) <=> u = v BY <1>2 DEF EndsWith, Last
  <2> HIDE DEF u, v
  <2>4. u = v <=> \A k \in 1 .. n : u[k] = v[k] BY <2>1, <2>2, SeqEqual
  <2>5. QED BY <1>2, <2>1, <2>2, <2>3, <2>4 DEF Matches
<1>3. CASE ~(n <= Len(seen)) BY <1>3 DEF EndsWith, Matches
<1>4. QED BY <1>2, <1>3

(* The invariant of check_ack is inductive. *)
LEMMA StepRecent == ASSUME ConstantsOK, Recent, [Next]_vars PROVE Recent'
<1> USE DEF Recent
<1>1. CASE UNCHANGED ackVars /\ (phase' = "ack" => phase = "ack")
  BY <1>1 DEF ackVars, Matches
<1>2. ASSUME NEW c \in Bytes, check_ack(c), c # Cancel PROVE Recent'
  <2> DEFINE r == recognized
  <2>1. /\ phase = "ack" /\ recognized' = Recognize(c) /\ seen' = Read(seen, c)
        /\ recognized' # Len(Magic) \/ phase' = "frames"
    BY <1>2 DEF check_ack, Read
  <2>2. Len(Magic) \in Nat \ {0} /\ r \in 0 .. Len(Magic) /\ r < Len(Magic)
    BY <2>1, EmptySeq DEF ConstantsOK
  <2>3. 1 \in 1 .. Len(Magic) /\ r + 1 \in 1 .. Len(Magic) BY <2>2, SMT
  <2>4. seen' \in Seq(Bytes) /\ Len(seen') <= Len(Magic) BY <2>1, <2>3, ReadMatches
  <2>5. \A n \in 1 .. Len(Magic) :
          Matches(seen', n) <=> Matches(seen, n - 1) /\ c = Magic[n]
    BY <2>1, ReadMatches
  <2>6. \A n \in 1 .. Len(Magic) : Matches(seen, n) => n <= r OBVIOUS
  <2>7. recognized' \in 0 .. Len(Magic) /\ Matches(seen', recognized')
        /\ \A n \in 1 .. Len(Magic) : Matches(seen', n) => n <= recognized'
    <3>1. CASE c = Magic[r + 1]
      <4>1. recognized' = r + 1 BY <2>1, <3>1 DEF Recognize
      <4>2. (r + 1) - 1 = r BY <2>2, SMT
      <4>3. Matches(seen', r + 1) BY <2>3, <2>5, <3>1, <4>2
      <4>4. ASSUME NEW n \in 1 .. Len(Magic), Matches(seen', n) PROVE n <= r + 1
        <5>1. Matches(seen, n - 1) BY <2>5, <4>4
        <5>2. n = 1 \/ n - 1 \in 1 .. Len(Magic) BY <2>2, SMT
        <5>3. n = 1 \/ n - 1 <= r BY <2>6, <5>1, <5>2
        <5>4. QED BY <2>2, <5>3, SMT
      <4>5. QED BY <2>2, <2>3, <4>1, <4>3, <4>4, SMT
    <3>2. CASE c # Magic[r + 1]
      <4>1. ASSUME NEW n \in 2 .. Len(Magic), Matches(seen', n) PROVE FALSE
        <5>1. n \in 1 .. Len(Magic) /\ n - 1 \in 1 .. Len(Magic) BY <2>2, SMT
        <5>2. Matches(seen, n - 1) /\ c = Magic[n] BY <2>5, <4>1, <5>1
        <5>3. n - 1 <= r BY <2>6, <5>1, <5>2
        <5>4. CASE n - 1 = r
          <6>1. n = r + 1 BY <2>2, <5>4, SMT
          <6>2. QED BY <3>2, <5>2, <6>1
        <5>5. CASE n - 1 # r
          <6>1. r \in 1 .. Len(Magic) /\ n - 1 < r BY <2>2, <5>1, <5>3, <5>5, SMT
          <6>2. QED BY <5>1, <5>2, <6>1, NoBorder
        <5>6. QED BY <5>4, <5>5
      <4>2. \A n \in 1 .. Len(Magic) : n = 1 \/ n \in 2 .. Len(Magic) BY <2>2, SMT
      <4>3. Matches(seen, 1 - 1) BY EmptyMatch, 1 - 1 = 0
      <4>4. CASE c = Magic[1]
        <5>1. recognized' = 1 BY <2>1, <3>2, <4>4 DEF Recognize
        <5>2. Matches(seen', 1) BY <2>3, <2>5, <4>3, <4>4
        <5>3. QED BY <2>2, <4>1, <4>2, <5>1, <5>2, SMT
      <4>5. CASE c # Magic[1]
        <5>1. recognized' = 0 BY <2>1, <3>2, <4>5 DEF Recognize
        <5>2. \A n \in 1 .. Len(Magic) : ~Matches(seen', n) BY <2>5, <4>1, <4>2, <4>5
        <5>3. Matches(seen', 0) BY <2>4, EmptyMatch
        <5>4. 0 \in 0 .. Len(Magic) BY <2>2, SMT
        <5>5. QED BY <5>1, <5>2, <5>3, <5>4
      <4>6. QED BY <4>4, <4>5
    <3>3. QED BY <3>1, <3>2
  <2>8. phase' = "ack" => recognized' < Len(Magic) BY <2>1, <2>2, <2>7, SMT
  <2>9. QED BY <2>4, <2>7, <2>8
<1>3. CASE \E c \in Bytes : check_ack(c)
  BY <1>1, <1>2, <1>3 DEF check_ack
<1>4. CASE UNCHANGED vars BY <1>1, <1>4 DEF vars
<1>5. CASE AckTimeout BY <1>1, <1>5 DEF AckTimeout
<1>6. CASE GetFirst \/ GetNext \/ Overrun \/ Timeout \/ HostReads \/ LoseByte
  BY <1>1, <1>6 DEF GetFirst, GetNext, Overrun, Timeout, HostReads, LoseByte
<1>7. CASE GetLast
  <2>1. UNCHANGED ackVars /\ phase = "frames" BY <1>7 DEF GetLast
  <2>2. phase' # "ack" BY <1>7, <2>1 DEF GetLast, Fail, Succeed, Known
  <2>3. QED BY <1>1, <2>1, <2>2
<1>8. QED BY <1>3, <1>4, <1>5, <1>6, <1>7 DEF Next

(* It holds before the first byte. *)
LEMMA InitRecent == ASSUME ConstantsOK, Init PROVE Recent
<1>1. seen = <<>> /\ recognized = 0 BY DEF Init
<1>2. seen \in Seq(Bytes) /\ Len(seen) = 0 /\ Len(Magic) \in Nat \ {0}
  BY <1>1, EmptySeq DEF ConstantsOK
<1>3. Matches(seen, 0) BY <1>2, EmptyMatch
<1>4. \A n \in 1 .. Len(Magic) : ~Matches(seen, n) BY <1>2, SMT DEF Matches
<1>5. 0 \in 0 .. Len(Magic) /\ 0 < Len(Magic) /\ 0 <= Len(Magic) BY <1>2, SMT
<1>6. QED BY <1>1, <1>2, <1>3, <1>4, <1>5 DEF Recent

(* check_ack finds the magic string wherever it begins in what the host     *)
(* sends, although it restarts without looking back: the string's first     *)
(* byte occurs once in it, so a failed match hides no other beginning.      *)
THEOREM MagicRecognized == ASSUME ConstantsOK PROVE Spec => []MagicFound
<1>1. Init => Recent BY InitRecent
<1>2. Recent /\ [Next]_vars => Recent' BY StepRecent
<1>3. Recent => MagicFound
  <2> SUFFICES ASSUME Recent PROVE MagicFound OBVIOUS
  <2>1. seen \in Seq(Bytes) /\ recognized \in 0 .. Len(Magic) /\ Matches(seen, recognized)
        /\ \A n \in 1 .. Len(Magic) : Matches(seen, n) => n <= recognized
    BY DEF Recent
  <2>2. Len(Magic) \in Nat BY EmptySeq DEF ConstantsOK
  <2>3. EndsWith(recognized) BY <2>1, MatchesIsEndsWith
  <2>4. ASSUME NEW n \in recognized + 1 .. Len(Magic) PROVE ~EndsWith(n)
    <3>1. n \in 1 .. Len(Magic) /\ n \in 0 .. Len(Magic) /\ ~(n <= recognized)
      BY <2>1, <2>2, SMT
    <3>2. QED BY <2>1, <3>1, MatchesIsEndsWith
  <2>5. QED BY <2>3, <2>4 DEF MagicFound
<1>4. QED BY <1>1, <1>2, <1>3, PTL DEF Spec

-----------------------------------------------------------------------------
(* The dialogue of the board with the host, on a line that makes at most    *)
(* one fault.  The host jumps after it has loaded.                          *)
DialogueConstants ==
  /\ ConstantsOK /\ Faults <= 1
  /\ \A frames \in Uploads : \A f, g \in DOMAIN frames :
       frames[f].cmd = "JUMP" /\ frames[g].cmd = "LOAD" => g < f

(* The place of the last byte of frame f; the frames before n are in memory; *)
(* an acknowledgement is on its way.                                        *)
Place(f) == upload[f].payload_length + 3
Whole(n) == \A h \in DOMAIN upload : h < n /\ upload[h].cmd = "LOAD" => h \in loaded
Good == \E k \in 1 .. Len(replies) : replies[k] = "K"

(* The bytes on the line are those of frames one after the other, each sent *)
(* again or followed by the next, up to the end of the host's current one.  *)
Follows(x, y) ==
  \/ y.frame = x.frame /\ y.place = x.place + 1 /\ x.place < Place(x.frame)
  \/ x.place = Place(x.frame) /\ y.place = 0 /\ y.frame \in {x.frame, x.frame + 1}
IsFinal(x) ==
  /\ x.place = Place(x.frame)
  /\ x.frame = current \/ (x.frame = Len(upload) /\ current = Len(upload) + 1)
Chain ==
  /\ \A k \in 1 .. Len(line) - 1 : Follows(line[k], line[k + 1])
  /\ Len(line) > 0 => IsFinal(line[Len(line)])
AllCurrent == \A k \in 1 .. Len(line) : line[k].frame = current

(* The board is in step with the host: it is where the next byte belongs,   *)
(* and has what was sent before.                                            *)
InStep ==
  /\ Chain
  /\ i = 0 /\ Len(line) > 0 => line[1].place = 0
  /\ i > 0 => /\ Len(line) > 0 /\ line[1].place = i
              /\ payload_length = upload[line[1].frame].payload_length
              /\ content \in {Any, line[1].frame}
  /\ Len(line) > 0 => Whole(line[1].frame)
  /\ Len(line) = 0 => Whole(current) /\ (Good => Whole(current + 1))

(* A byte is missing from the frame being received: the timer will run out. *)
TooShort ==
  /\ Len(replies) = 0 /\ Whole(current)
  /\ i = 0 => Len(line) > 0 /\ line[1].place = 0 /\ Len(line) <= Place(line[1].frame)
  /\ i > 0 => payload_length > 0 /\ i + Len(line) <= payload_length + 3

(* The board takes frames up from their middle and acknowledges nothing, so *)
(* the host sends the same frame again and again.                           *)
OutOfStep ==
  /\ ~Good /\ current \in DOMAIN upload /\ Whole(current) /\ Chain /\ AllCurrent
  /\ i = 0 => Len(line) > 0 /\ line[1].place # 0
  /\ i = 1 /\ Len(line) > 0 => line[1].place # 1
  /\ i > 1 => content = Garbage

(* Before the fault either the rest of one frame or one reply is on its way. *)
OneAtATime ==
  /\ InStep /\ AllCurrent /\ Len(replies) <= 1
  /\ Len(replies) > 0 => Len(line) = 0
  /\ Len(line) > 0 => current \in DOMAIN upload /\ Len(line) + line[1].place = Place(current) + 1

Started ==
  /\ phase = "ack" => Len(line) = 0 /\ Len(replies) = 0 /\ current = 1 /\ i = 0
  /\ phase = "booted" => Whole(Len(upload) + 1)
  /\ \A f \in loaded : upload[f].cmd = "LOAD"

Dialogue ==
  /\ Started
  /\ faults > 0 => OneAtATime
  /\ InStep \/ (faults = 0 /\ (TooShort \/ OutOfStep))

-----------------------------------------------------------------------------
(* The first byte of the line, and the line without it. *)
LEMMA FirstByte ==
  ASSUME ConstantsOK, IInv
  PROVE  /\ Len(line) \in Nat /\ (line = <<>> <=> Len(line) = 0)
         /\ Len(replies) \in Nat /\ (replies = <<>> <=> Len(replies) = 0)
         /\ \A k \in 1 .. Len(line) : /\ line[k].frame \in 1 .. Len(upload)
                                      /\ line[k].place \in Nat
         /\ line # <<>> => Head(line) = line[1]
         /\ Len(upload) \in Nat \ {0} /\ DOMAIN upload = 1 .. Len(upload)
         /\ \A f \in 1 .. Len(upload) :
              /\ upload[f].payload_length \in Nat \ {0}
              /\ Place(f) \in Nat /\ Place(f) >= 4 /\ Place(f) = upload[f].payload_length + 3
         /\ current \in 1 .. Len(upload) + 1 /\ i \in Nat
<1>1. line \in Seq(Items) /\ replies \in Seq(Replies) BY DEF IInv, Shape
<1>2. Len(line) \in Nat /\ (line = <<>> <=> Len(line) = 0) BY <1>1, EmptySeq, LenProperties
<1>3. Len(replies) \in Nat /\ (replies = <<>> <=> Len(replies) = 0)
  BY <1>1, EmptySeq, LenProperties
<1>4. Len(upload) \in Nat \ {0} /\ DOMAIN upload = 1 .. Len(upload) BY UploadFacts DEF IInv
<1>5. \A k \in 1 .. Len(line) : line[k] \in Items BY <1>1, ElementOfSeq
<1>6. \A k \in 1 .. Len(line) : line[k].frame \in 1 .. Len(upload) /\ line[k].place \in Nat
  BY <1>4, <1>5 DEF Items
<1>7. line # <<>> => Head(line) = line[1] BY <1>1, HeadTailProperties 
<1>8. ASSUME NEW f \in 1 .. Len(upload)
      PROVE  /\ upload[f].payload_length \in Nat \ {0}
             /\ Place(f) \in Nat /\ Place(f) >= 4 /\ Place(f) = upload[f].payload_length + 3
  <2>1. upload[f].payload_length \in 1 .. MaxPayload /\ MaxPayload \in Nat
    BY <1>4, UploadFacts DEF IInv
  <2>2. QED BY <2>1, SMT DEF Place
<1>9. current \in 1 .. Len(upload) + 1 /\ i \in Nat
  <2>1. i \in 0 .. MaxPayload + 4 /\ MaxPayload \in Nat BY UploadFacts DEF IInv, TypeOK
  <2>2. QED BY <2>1, SMT DEF IInv, TypeOK
<1>10. QED BY <1>2, <1>3, <1>4, <1>6, <1>7, <1>8, <1>9

(* Taking the first byte. *)
LEMMA RestOfLine ==
  ASSUME ConstantsOK, IInv, line # <<>>, line' = Tail(line)
  PROVE  /\ Len(line') \in Nat /\ Len(line') = Len(line) - 1
         /\ \A k \in 1 .. Len(line') : line'[k] = line[k + 1]
<1>1. line \in Seq(Items) BY DEF IInv, Shape
<1>2. /\ Len(Tail(line)) = Len(line) - 1
      /\ \A k \in 1 .. Len(Tail(line)) : Tail(line)[k] = line[k + 1]
  BY <1>1, HeadTailProperties
<1>3. Len(Tail(line)) \in Nat BY <1>1, HeadTailProperties, LenProperties
<1>4. QED BY <1>2, <1>3

(* What is left is a chain, and starts where the byte taken ended. *)
LEMMA RestOfChain ==
  ASSUME ConstantsOK, IInv, Chain, line # <<>>, line' = Tail(line), UNCHANGED <<upload, current>>
  PROVE  /\ Chain'
         /\ Len(line') > 0 => Follows(line[1], line'[1])
         /\ Len(line') = 0 => IsFinal(line[1])
         /\ line[1].place # Place(line[1].frame) => Len(line') > 0
<1>1. /\ Len(line) \in Nat \ {0} /\ Len(line') \in Nat /\ Len(line') = Len(line) - 1
      /\ \A k \in 1 .. Len(line') : line'[k] = line[k + 1]
  BY FirstByte, RestOfLine
<1>2. ASSUME NEW k \in 1 .. Len(line') - 1 PROVE Follows(line'[k], line'[k + 1])
  <2>1. k \in 1 .. Len(line') /\ k + 1 \in 1 .. Len(line') /\ k + 1 \in 1 .. Len(line) - 1
        /\ (k + 1) + 1 \in 1 .. Len(line)
    BY <1>1, SMT
  <2>2. Follows(line[k + 1], line[(k + 1) + 1]) BY <2>1 DEF Chain
  <2>3. QED BY <1>1, <2>1, <2>2
<1>3. Len(line') > 0 => IsFinal(line'[Len(line')])
  <2>1. ASSUME Len(line') > 0 PROVE Len(line') \in 1 .. Len(line') /\ Len(line') + 1 = Len(line)
    BY <1>1, <2>1, SMT
  <2>2. QED BY <1>1, <2>1 DEF Chain
<1>4. Chain'
  <2>1. \A k \in 1 .. Len(line') - 1 : Follows(line[k], line[k + 1])' BY <1>2 DEF Follows, Place
  <2>2. Len(line') > 0 => IsFinal(line[Len(line)])' BY <1>3 DEF IsFinal, Place
  <2>3. QED BY <2>1, <2>2 DEF Chain
<1>5. Len(line') > 0 => Follows(line[1], line'[1])
  <2>1. ASSUME Len(line') > 0
        PROVE  1 \in 1 .. Len(line') /\ 1 \in 1 .. Len(line) - 1
    BY <1>1, <2>1, SMT
  <2>2. QED BY <1>1, <2>1 DEF Chain
<1>6. Len(line') = 0 => IsFinal(line[1])
  <2>1. ASSUME Len(line') = 0 PROVE Len(line) > 0 /\ line[Len(line)] = line[1]
    <3>1. Len(line) = 1 BY <1>1, <2>1, SMT
    <3>2. QED BY <3>1
  <2>2. QED BY <2>1 DEF Chain
<1>7. Len(line') > 0 \/ Len(line') = 0 BY <1>1, SMT
<1>8. QED BY <1>4, <1>5, <1>6, <1>7 DEF IsFinal

(* A frame as a sequence. *)
LEMMA FrameLength ==
  ASSUME ConstantsOK, IInv, NEW f \in 1 .. Len(upload)
  PROVE  /\ FrameBytes(f) \in Seq(Items) /\ Len(FrameBytes(f)) = Place(f) + 1
         /\ \A k \in 1 .. Place(f) + 1 : /\ FrameBytes(f)[k].frame = f
                                         /\ FrameBytes(f)[k].place = k - 1
<1>1. Place(f) \in Nat /\ Place(f) = upload[f].payload_length + 3 /\ f \in DOMAIN upload
      /\ upload[f].payload_length \in Nat \ {0}
  BY FirstByte
<1>2. FrameBytes(f) \in Seq(Items) BY <1>1, FrameBytesTypes DEF IInv
<1>3. upload[f].payload_length + 4 = Place(f) + 1 BY <1>1, SMT
<1>4. FrameBytes(f) = [k \in 1 .. Place(f) + 1 |-> [frame |-> f, place |-> k - 1]]
  BY <1>3 DEF FrameBytes
<1>5. DOMAIN FrameBytes(f) = 1 .. Place(f) + 1 BY <1>4
<1>6. Len(FrameBytes(f)) \in Nat /\ DOMAIN FrameBytes(f) = 1 .. Len(FrameBytes(f))
  BY <1>2, LenProperties
<1>7. Len(FrameBytes(f)) = Place(f) + 1 BY <1>1, <1>5, <1>6, SMT
<1>8. ASSUME NEW k \in 1 .. Place(f) + 1
      PROVE  FrameBytes(f)[k].frame = f /\ FrameBytes(f)[k].place = k - 1
  BY <1>4
<1>9. QED BY <1>2, <1>7, <1>8

(* What the host sends continues the chain. *)
LEMMA SentChain ==
  ASSUME ConstantsOK, IInv, Chain, current \in DOMAIN upload, UNCHANGED upload,
         current' \in {current, current + 1},
         line' = IF current' \in DOMAIN upload THEN line \o FrameBytes(current') ELSE line
  PROVE  /\ Chain' /\ Len(line') \in Nat
         /\ \A k \in 1 .. Len(line) : line'[k] = line[k]
         /\ current' \in DOMAIN upload =>
              /\ Len(line') = Len(line) + Place(current') + 1
              /\ \A k \in 1 .. Place(current') + 1 : /\ line'[Len(line) + k].frame = current'
                                                     /\ line'[Len(line) + k].place = k - 1
<1> DEFINE n == Len(line)
           next == current'
<1>1. n \in Nat /\ current \in 1 .. Len(upload) /\ Len(upload) \in Nat \ {0}
      /\ DOMAIN upload = 1 .. Len(upload)
  BY FirstByte
<1>2. CASE next \notin DOMAIN upload
  <2>1. line' = line /\ current = Len(upload) /\ next = Len(upload) + 1 BY <1>1, <1>2, SMT
  <2>2. ASSUME n > 0 PROVE IsFinal(line[Len(line)])' BY <1>1, <2>1, <2>2 DEF Chain, IsFinal, Place
  <2>3. QED BY <1>1, <1>2, <2>1, <2>2 DEF Chain, Follows, Place
<1>3. CASE next \in DOMAIN upload
  <2> DEFINE m == Place(next)
             t == FrameBytes(next)
  <2>1. /\ t \in Seq(Items) /\ Len(t) = m + 1 /\ m \in Nat /\ m >= 4
        /\ \A k \in 1 .. m + 1 : t[k].frame = next /\ t[k].place = k - 1
    BY <1>1, <1>3, FrameLength, FirstByte
  <2>2. line \in Seq(Items) /\ line' = line \o t BY <1>3 DEF IInv, Shape
  <2> HIDE DEF m, t
  <2>3. /\ Len(line') = n + Len(t)
        /\ \A k \in 1 .. n + Len(t) : line'[k] = IF k <= n THEN line[k] ELSE t[k - n]
    <3>1. /\ Len(line \o t) = Len(line) + Len(t)
          /\ \A k \in 1 .. Len(line) + Len(t) :
               (line \o t)[k] = IF k <= Len(line) THEN line[k] ELSE t[k - Len(line)]
      BY <2>1, <2>2, ConcatProperties
    <3>2. QED BY <2>2, <3>1
  <2>4. Len(line') \in Nat /\ Len(line') = n + m + 1 BY <1>1, <2>1, <2>3, SMT
  <2>5. ASSUME NEW k \in 1 .. n PROVE line'[k] = line[k]
    <3>1. k \in 1 .. n + Len(t) /\ k <= n BY <1>1, <2>1, SMT
    <3>2. QED BY <2>3, <3>1
  <2>6. ASSUME NEW k \in 1 .. m + 1
        PROVE  line'[n + k].frame = next /\ line'[n + k].place = k - 1
    <3>1. n + k \in 1 .. n + Len(t) /\ ~(n + k <= n) /\ (n + k) - n = k BY <1>1, <2>1, SMT
    <3>2. line'[n + k] = t[k] BY <2>3, <3>1
    <3>3. QED BY <2>1, <3>2
  <2>7. ASSUME NEW k \in 1 .. Len(line') - 1 PROVE Follows(line[k], line[k + 1])'
    <3>1. CASE k < n
      <4>1. k \in 1 .. n - 1 /\ k \in 1 .. n /\ k + 1 \in 1 .. n BY <1>1, <2>4, <3>1, SMT
      <4>2. Follows(line[k], line[k + 1]) BY <4>1 DEF Chain
      <4>3. line'[k] = line[k] /\ line'[k + 1] = line[k + 1] BY <2>5, <4>1
      <4>4. QED BY <4>2, <4>3 DEF Follows, Place
    <3>2. CASE k = n
      <4>1. n > 0 /\ n \in 1 .. n /\ 1 \in 1 .. m + 1 BY <1>1, <2>1, <3>2, SMT
      <4>2. line'[k] = line[n] /\ IsFinal(line[n]) BY <2>5, <3>2, <4>1 DEF Chain
      <4>3. line'[k + 1].frame = next /\ line'[k + 1].place = 0 BY <2>6, <3>2, <4>1, 1 - 1 = 0
      <4>4. line[n].frame = current
        <5>1. line[n].frame = current \/ current = Len(upload) + 1 BY <4>2 DEF IsFinal
        <5>2. QED BY <1>1, <5>1, SMT
      <4>5. QED BY <4>2, <4>3, <4>4 DEF Follows, Place, IsFinal
    <3>3. CASE k > n
      <4> DEFINE j == k - n
      <4>1. j \in 1 .. m + 1 /\ j + 1 \in 1 .. m + 1 /\ n + j = k /\ n + (j + 1) = k + 1
            /\ (j + 1) - 1 = (j - 1) + 1 /\ j - 1 < m
        BY <1>1, <2>1, <2>4, <3>3, SMTT(30)
      <4> HIDE DEF j
      <4>2. /\ line'[k].frame = next /\ line'[k].place = j - 1
            /\ line'[k + 1].frame = next /\ line'[k + 1].place = (j - 1) + 1
        BY <2>6, <4>1
      <4>3. QED BY <4>1, <4>2 DEF Follows, Place, m
    <3>4. QED BY <1>1, <2>4, <3>1, <3>2, <3>3, SMT
  <2>8. IsFinal(line[Len(line)])'
    <3>1. m + 1 \in 1 .. m + 1 /\ n + (m + 1) = Len(line') /\ (m + 1) - 1 = m
      BY <1>1, <2>1, <2>4, SMT
    <3>2. line'[Len(line')].frame = next /\ line'[Len(line')].place = m BY <2>6, <3>1
    <3>3. QED BY <3>2 DEF IsFinal, Place, m
  <2>9. QED BY <1>3, <2>4, <2>5, <2>6, <2>7, <2>8 DEF Chain, m
<1>4. QED BY <1>2, <1>3

(* What is in memory stays there. *)
LEMMA WholeKept ==
  ASSUME NEW n \in Int, Whole(n), loaded \subseteq loaded', UNCHANGED upload
  PROVE  Whole(n)'
BY DEF Whole

(* One reply more. *)
LEMMA OneReply ==
  ASSUME ConstantsOK, IInv, NEW r \in Replies, Reply(r)
  PROVE  Len(replies') = Len(replies) + 1 /\ (Good' => Good \/ r = "K")
<1>1. replies \in Seq(Replies) /\ replies' = Append(replies, r) BY DEF IInv, Shape, Reply
<1>2. /\ Len(replies') = Len(replies) + 1 /\ replies'[Len(replies) + 1] = r
      /\ \A k \in 1 .. Len(replies) : replies'[k] = replies[k]
  BY <1>1, AppendProperties
<1>3. ASSUME NEW k \in 1 .. Len(replies'), replies'[k] = "K" PROVE Good \/ r = "K"
  <2>1. k \in 1 .. Len(replies) \/ k = Len(replies) + 1 BY <1>2, FirstByte, SMT
  <2>2. QED BY <1>2, <1>3, <2>1 DEF Good
<1>4. QED BY <1>2, <1>3 DEF Good

(* Before the fault a byte taken leaves the rest of its frame. *)
LEMMA RestAlone ==
  ASSUME ConstantsOK, IInv, OneAtATime, line # <<>>, line' = Tail(line),
         UNCHANGED <<upload, current>>
  PROVE  /\ AllCurrent' /\ Len(replies) = 0
         /\ Len(line') > 0 => /\ current' \in DOMAIN upload'
                              /\ Len(line') + line'[1].place = Place(current)' + 1
         /\ line[1].place = Place(line[1].frame) => Len(line') = 0
<1>1. /\ Len(line) \in Nat \ {0} /\ Len(line') \in Nat /\ Len(line') = Len(line) - 1
      /\ \A k \in 1 .. Len(line') : line'[k] = line[k + 1]
  BY FirstByte, RestOfLine
<1>2. /\ Len(line) > 0 /\ 1 \in 1 .. Len(line) /\ Len(line) + line[1].place = Place(current) + 1
      /\ current \in DOMAIN upload
  BY <1>1, SMT DEF OneAtATime
<1>3. ASSUME NEW k \in 1 .. Len(line') PROVE line'[k].frame = current'
  <2>1. k + 1 \in 1 .. Len(line) BY <1>1, SMT
  <2>2. QED BY <1>1, <2>1 DEF OneAtATime, AllCurrent
<1>4. line[1].frame = current BY <1>2 DEF OneAtATime, AllCurrent
<1>5. Place(current) \in Nat /\ line[1].place \in Nat BY <1>2, FirstByte
<1>6. line[1].place = Place(line[1].frame) => Len(line') = 0 BY <1>1, <1>2, <1>4, <1>5, SMT
<1>7. ASSUME Len(line') > 0 PROVE Len(line') + line'[1].place = Place(current) + 1
  <2>1. line[1].place # Place(line[1].frame) BY <1>1, <1>6, <1>7, SMT
  <2>2. Follows(line[1], line'[1]) BY <1>7, RestOfChain DEF OneAtATime, InStep
  <2>3. line'[1].place = line[1].place + 1 BY <2>1, <2>2 DEF Follows
  <2> DEFINE p == line[1].place
             n == Len(line)
  <2>4. n \in Nat /\ p \in Nat /\ n + p = Place(current) + 1 BY <1>1, <1>2, <1>5
  <2>5. Len(line') = n - 1 /\ line'[1].place = p + 1 BY <1>1, <2>3
  <2> HIDE DEF p, n
  <2>6. (n - 1) + (p + 1) = n + p BY <2>4, SMT
  <2>7. QED BY <2>4, <2>5, <2>6
<1>8. Len(replies) = 0 BY <1>1, <1>2, FirstByte, SMT DEF OneAtATime
<1>9. QED BY <1>2, <1>3, <1>6, <1>7, <1>8 DEF AllCurrent, Place

(* The byte taken belongs to the current frame and so does what is left. *)
LEMMA RestCurrent ==
  ASSUME ConstantsOK, IInv, AllCurrent, line # <<>>, line' = Tail(line), UNCHANGED current
  PROVE  AllCurrent'
<1>1. /\ Len(line) \in Nat \ {0} /\ Len(line') \in Nat /\ Len(line') = Len(line) - 1
      /\ \A k \in 1 .. Len(line') : line'[k] = line[k + 1]
  BY FirstByte, RestOfLine
<1>2. ASSUME NEW k \in 1 .. Len(line') PROVE line'[k].frame = current'
  <2>1. k + 1 \in 1 .. Len(line) BY <1>1, SMT
  <2>2. QED BY <1>1, <2>1 DEF AllCurrent
<1>3. QED BY <1>2 DEF AllCurrent

(* The command of a frame that is received: the board stays where it was. *)
LEMMA FirstDialogue ==
  ASSUME DialogueConstants, IInv, Dialogue, GetFirst
  PROVE  Dialogue'
<1> USE DEF DialogueConstants
<1>1. /\ UNCHANGED <<phase, failures, loaded, replies, upload, current, faults>>
      /\ phase = "frames" /\ line # <<>> /\ i = 0 /\ i' = 1 /\ content' = Any /\ line' = Tail(line)
      /\ payload_length' \in Lengths(Head(line))
  BY DEF GetFirst
<1> DEFINE b == line[1]
<1>2. /\ Len(line) > 0 /\ Head(line) = b /\ b.frame \in 1 .. Len(upload) /\ b.place \in Nat
      /\ Len(line') \in Nat /\ Len(line') = Len(line) - 1
  <2>1. Len(line) \in Nat /\ Len(line) # 0 /\ Head(line) = b BY <1>1, FirstByte
  <2>2. Len(line) > 0 /\ 1 \in 1 .. Len(line) BY <2>1, SMT
  <2>3. QED BY <1>1, <2>1, <2>2, FirstByte, RestOfLine
<1>3. Place(b.frame) \in Nat /\ Place(b.frame) >= 4 /\ Place(b.frame) = upload[b.frame].payload_length + 3
      /\ upload[b.frame].payload_length \in Nat \ {0}
  BY <1>2, FirstByte
<1>4. b.place = 0 => payload_length' = upload[b.frame].payload_length BY <1>1, <1>2 DEF Lengths
<1>5. Started' BY <1>1 DEF Dialogue, Started, Whole
<1>6. CASE InStep
  <2>1. b.place = 0 /\ Chain /\ Whole(b.frame) BY <1>1, <1>2, <1>6 DEF InStep
  <2>2. b.place # Place(b.frame) BY <1>3, <2>1, SMT
  <2>3. Chain' /\ Len(line') > 0 /\ Follows(b, line'[1])
    BY <1>1, <2>1, <2>2, RestOfChain
  <2>4. line'[1].frame = b.frame /\ line'[1].place = 0 + 1 BY <2>1, <2>2, <2>3 DEF Follows
  <2>5. InStep'
    <3>1. i' = 1 /\ 0 + 1 = 1 /\ ~(i' = 0) /\ ~(Len(line') = 0) BY <1>1, <1>2, <2>3, SMT
    <3>2. line'[1].place = i' BY <2>4, <3>1
    <3>3. payload_length' = upload'[line'[1].frame].payload_length BY <1>1, <1>4, <2>1, <2>4
    <3>4. Whole(line[1].frame)' BY <1>1, <2>1, <2>4 DEF Whole
    <3>5. QED BY <1>1, <2>3, <3>1, <3>2, <3>3, <3>4 DEF InStep
  <2>6. ASSUME OneAtATime PROVE OneAtATime'
    <3>1. /\ AllCurrent' /\ Len(replies) = 0
          /\ Len(line') > 0 => /\ current' \in DOMAIN upload'
                               /\ Len(line') + line'[1].place = Place(current)' + 1
      BY <1>1, <2>6, RestAlone
    <3>2. Len(replies') <= 1 /\ ~(Len(replies') > 0) BY <1>1, <3>1, SMT
    <3>3. QED BY <2>5, <3>1, <3>2 DEF OneAtATime
  <2>7. QED BY <1>1, <1>5, <2>5, <2>6 DEF Dialogue
<1>7. CASE faults = 0 /\ TooShort
  <2>1. b.place = 0 /\ Len(line) <= Place(b.frame) /\ Len(replies) = 0 /\ Whole(current)
    BY <1>1, <1>7 DEF TooShort
  <2>2. payload_length' > 0 /\ i' + Len(line') <= payload_length' + 3
    <3>1. payload_length' = upload[b.frame].payload_length BY <1>4, <2>1
    <3>2. Len(line) \in Nat BY FirstByte
    <3>3. QED BY <1>1, <1>2, <1>3, <2>1, <3>1, <3>2, SMT
  <2>3. ~(i' = 0) BY <1>1, SMT
  <2>4. TooShort' BY <1>1, <2>1, <2>2, <2>3 DEF TooShort, Whole
  <2>5. ~(faults' > 0) BY <1>1, <1>7, SMT
  <2>6. QED BY <1>1, <1>5, <1>7, <2>4, <2>5 DEF Dialogue
<1>8. CASE faults = 0 /\ OutOfStep
  <2>1. /\ ~Good /\ current \in DOMAIN upload /\ Whole(current) /\ Chain /\ AllCurrent
        /\ b.place # 0
    BY <1>1, <1>8 DEF OutOfStep
  <2>2. Chain' /\ AllCurrent' /\ (Len(line') > 0 => Follows(b, line'[1]))
    BY <1>1, <2>1, RestOfChain, RestCurrent
  <2>3. Len(line') > 0 => line'[1].place # 1
    <3>1. ASSUME Len(line') > 0 PROVE line'[1].place = b.place + 1 \/ line'[1].place = 0
      BY <2>2, <3>1 DEF Follows
    <3>2. b.place + 1 # 1 /\ 0 # 1 BY <1>2, <2>1, SMT
    <3>3. QED BY <3>1, <3>2
  <2>4. ~(i' = 0) /\ ~(i' > 1) BY <1>1, SMT
  <2>5. OutOfStep' BY <1>1, <2>1, <2>2, <2>3, <2>4 DEF OutOfStep, Good, Whole
  <2>6. ~(faults' > 0) BY <1>1, <1>8, SMT
  <2>7. QED BY <1>1, <1>5, <1>8, <2>5, <2>6 DEF Dialogue
<1>9. QED BY <1>6, <1>7, <1>8 DEF Dialogue

(* A byte within a frame. *)
LEMMA NextDialogue ==
  ASSUME DialogueConstants, IInv, Dialogue, GetNext
  PROVE  Dialogue'
<1> USE DEF DialogueConstants
<1>1. /\ UNCHANGED <<phase, payload_length, failures, loaded, replies, upload, current, faults>>
      /\ phase = "frames" /\ line # <<>> /\ i > 0 /\ i' = i + 1 /\ line' = Tail(line)
      /\ ~(i >= 4 /\ i = payload_length + 4 - 1) /\ content' = Body(Head(line))
  BY DEF GetNext, Last_i
<1> DEFINE b == line[1]
<1>2. /\ Len(line) \in Nat /\ Len(line) > 0 /\ Head(line) = b /\ b.frame \in 1 .. Len(upload) /\ b.place \in Nat
      /\ Len(line') \in Nat /\ Len(line') = Len(line) - 1
  <2>1. Len(line) \in Nat /\ Len(line) # 0 /\ Head(line) = b BY <1>1, FirstByte
  <2>2. Len(line) > 0 /\ 1 \in 1 .. Len(line) BY <2>1, SMT
  <2>3. QED BY <1>1, <2>1, <2>2, FirstByte, RestOfLine
<1>3. Place(b.frame) \in Nat /\ Place(b.frame) >= 4 /\ Place(b.frame) = upload[b.frame].payload_length + 3
      /\ upload[b.frame].payload_length \in Nat \ {0} /\ i \in Nat
  BY <1>2, FirstByte
<1>4. i' \in Nat /\ i' > 1 /\ i' > 0 /\ ~(i' = 0) /\ ~(i' = 1) BY <1>1, <1>3, SMT
<1>5. Started' BY <1>1 DEF Dialogue, Started, Whole
<1>6. CASE InStep
  <2>1. /\ b.place = i /\ Chain /\ Whole(b.frame) /\ content \in {Any, b.frame}
        /\ payload_length = upload[b.frame].payload_length
    BY <1>1, <1>2, <1>6 DEF InStep
  <2>2. b.place # Place(b.frame) BY <1>1, <1>3, <2>1, SMT
  <2>3. Chain' /\ Len(line') > 0 /\ Follows(b, line'[1]) BY <1>1, <2>1, <2>2, RestOfChain
  <2>4. line'[1].frame = b.frame /\ line'[1].place = b.place + 1 BY <2>2, <2>3 DEF Follows
  <2>5. content' = b.frame BY <1>1, <1>2, <2>1 DEF Body
  <2>6. InStep'
    <3>1. ~(Len(line') = 0) BY <1>2, <2>3, SMT
    <3>2. line'[1].place = i' BY <1>1, <2>1, <2>4
    <3>3. payload_length' = upload'[line'[1].frame].payload_length BY <1>1, <2>1, <2>4
    <3>4. Whole(line[1].frame)' BY <1>1, <2>1, <2>4 DEF Whole
    <3>5. QED BY <1>4, <2>3, <2>4, <2>5, <3>1, <3>2, <3>3, <3>4 DEF InStep
  <2>7. ASSUME OneAtATime PROVE OneAtATime'
    <3>1. /\ AllCurrent' /\ Len(replies) = 0
          /\ Len(line') > 0 => /\ current' \in DOMAIN upload'
                               /\ Len(line') + line'[1].place = Place(current)' + 1
      BY <1>1, <2>7, RestAlone
    <3>2. Len(replies') <= 1 /\ ~(Len(replies') > 0) BY <1>1, <3>1, SMT
    <3>3. QED BY <2>6, <3>1, <3>2 DEF OneAtATime
  <2>8. QED BY <1>1, <1>5, <2>6, <2>7 DEF Dialogue
<1>7. CASE faults = 0 /\ TooShort
  <2>1. /\ Len(replies) = 0 /\ Whole(current)
        /\ payload_length > 0 /\ i + Len(line) <= payload_length + 3
    BY <1>1, <1>7 DEF TooShort
  <2>2. i' + Len(line') <= payload_length + 3
    <3>1. (i + 1) + (Len(line) - 1) = i + Len(line) BY <1>2, <1>3, SMT
    <3>2. QED BY <1>1, <1>2, <2>1, <3>1
  <2>3. TooShort' BY <1>1, <1>4, <2>1, <2>2 DEF TooShort, Whole
  <2>4. ~(faults' > 0) BY <1>1, <1>7, SMT
  <2>5. QED BY <1>1, <1>5, <1>7, <2>3, <2>4 DEF Dialogue
<1>8. CASE faults = 0 /\ OutOfStep
  <2>1. /\ ~Good /\ current \in DOMAIN upload /\ Whole(current) /\ Chain /\ AllCurrent
        /\ i = 1 /\ Len(line) > 0 => b.place # 1
        /\ i > 1 => content = Garbage
    BY <1>1, <1>8 DEF OutOfStep
  <2>2. Chain' /\ AllCurrent' BY <1>1, <2>1, RestOfChain, RestCurrent
  <2>3. content' = Garbage
    <3>1. Garbage # Any /\ Garbage # b.frame BY <1>2, SMT DEF Garbage, Any
    <3>2. i = 1 \/ i > 1 BY <1>1, <1>3, SMT
    <3>3. QED BY <1>1, <1>2, <2>1, <3>1, <3>2 DEF Body
  <2>4. OutOfStep' BY <1>1, <1>4, <2>1, <2>2, <2>3 DEF OutOfStep, Good, Whole
  <2>5. ~(faults' > 0) BY <1>1, <1>8, SMT
  <2>6. QED BY <1>1, <1>5, <1>8, <2>4, <2>5 DEF Dialogue
<1>9. QED BY <1>6, <1>7, <1>8 DEF Dialogue

(* The last byte of a frame: in step the frame is executed and acknowledged, *)
(* or it is none that is; out of step it is refused, and the next frame may  *)
(* begin where the board looks for one.                                      *)
LEMMA LastDialogue ==
  ASSUME DialogueConstants, IInv, Dialogue, GetLast
  PROVE  Dialogue'
<1> USE DEF DialogueConstants
<1> DEFINE b == line[1]
           f == Body(Head(line))
<1>1. /\ phase = "frames" /\ line # <<>> /\ i >= 4 /\ i = payload_length + 4 - 1
      /\ i' = 0 /\ content' = Any /\ payload_length' = 0 /\ line' = Tail(line)
      /\ UNCHANGED <<ackVars, upload, current, faults>>
      /\ IF ~Intact(f) THEN Fail("C") ELSE IF Known(f) THEN Succeed(f) ELSE Fail("U")
  BY DEF GetLast, Last_i
<1>2. /\ Len(line) \in Nat /\ Len(line) > 0 /\ Head(line) = b /\ b.frame \in 1 .. Len(upload) /\ b.place \in Nat
      /\ Len(line') \in Nat /\ Len(line') = Len(line) - 1
      /\ Len(replies) \in Nat /\ DOMAIN upload = 1 .. Len(upload) /\ Len(upload) \in Nat
  <2>1. Len(line) \in Nat /\ Len(line) # 0 /\ Head(line) = b BY <1>1, FirstByte
  <2>2. Len(line) > 0 /\ 1 \in 1 .. Len(line) BY <2>1, SMT
  <2>3. QED BY <1>1, <2>1, <2>2, FirstByte, RestOfLine
<1>3. Place(b.frame) \in Nat /\ Place(b.frame) >= 4 /\ Place(b.frame) = upload[b.frame].payload_length + 3
      /\ upload[b.frame].payload_length \in Nat \ {0} /\ i \in Nat
  BY <1>2, FirstByte
<1>4. i > 0 /\ ~(i = 0) /\ i > 1 BY <1>1, <1>3, SMT
<1>5. payload_length \in Nat /\ i = payload_length + 3
  <2>1. payload_length \in 0 .. MaxPayload /\ MaxPayload \in Nat BY UploadFacts DEF IInv, TypeOK
  <2>2. QED BY <1>1, <2>1, SMT
<1>6. ~(i' > 0) /\ ~(i' = 1) /\ ~(i' > 1) BY <1>1, SMT
<1>7. CASE InStep
  <2>1. /\ b.place = i /\ Chain /\ Whole(b.frame) /\ content \in {Any, b.frame}
        /\ payload_length = upload[b.frame].payload_length
    BY <1>2, <1>4, <1>7 DEF InStep
  <2>2. b.place = Place(b.frame) /\ f = b.frame /\ Intact(f)
    BY <1>2, <1>3, <1>5, <2>1 DEF Body, Intact
  <2>3. Chain' /\ (Len(line') > 0 => Follows(b, line'[1])) /\ (Len(line') = 0 => IsFinal(b))
    BY <1>1, <2>1, RestOfChain
  <2>4. Len(line') > 0 => line'[1].place = 0 /\ line'[1].frame \in {b.frame, b.frame + 1}
    <3>1. ~(b.place < Place(b.frame)) BY <1>3, <2>2, SMT
    <3>2. QED BY <2>3, <3>1 DEF Follows
  <2>5. \/ Known(f) /\ Succeed(f)
        \/ upload[b.frame].cmd # "LOAD" /\ Fail("U")
    BY <1>1, <2>2 DEF Known
  <2> HIDE DEF f
  <2>6. loaded \subseteq loaded' /\ (upload[b.frame].cmd = "LOAD" => b.frame \in loaded')
        /\ \A h \in loaded' : upload[h].cmd = "LOAD"
    <3>1. \A h \in loaded : upload[h].cmd = "LOAD" BY DEF Dialogue, Started
    <3>2. CASE Known(f) /\ Succeed(f) BY <2>2, <3>1, <3>2 DEF Succeed, Known
    <3>3. CASE upload[b.frame].cmd # "LOAD" /\ Fail("U") BY <3>1, <3>3 DEF Fail
    <3>4. QED BY <2>5, <3>2, <3>3
  <2>7. PICK r \in Replies : Reply(r)
    BY <2>5 DEF Succeed, Fail, Replies
  <2>8. ASSUME NEW h \in DOMAIN upload, upload[h].cmd = "LOAD", h < b.frame + 1 PROVE h \in loaded'
    <3>1. h < b.frame \/ h = b.frame BY <1>2, <2>8, SMT
    <3>2. QED BY <2>1, <2>6, <2>8, <3>1 DEF Whole
  <2>9. \A n \in Int : n <= b.frame + 1 => Whole(n)'
    <3>1. ASSUME NEW n \in Int, n <= b.frame + 1, NEW h \in DOMAIN upload, h < n
          PROVE  h < b.frame + 1
      BY <1>2, <3>1, SMT
    <3>2. QED BY <1>1, <2>8, <3>1 DEF Whole
  <2>10. ASSUME Len(line') > 0 PROVE Whole(line[1].frame)'
    <3>1. line'[1].frame \in Int /\ line'[1].frame <= b.frame + 1 BY <1>2, <2>4, <2>10, SMT
    <3>2. \A n \in Int : n = line'[1].frame => Whole(n)' BY <2>9, <3>1
    <3>3. QED BY <3>1, <3>2 DEF Whole
  <2>11. ASSUME Len(line') = 0 PROVE Whole(current)' /\ Whole(current + 1)'
    <3>1. b.frame = current \/ (b.frame = Len(upload) /\ current = Len(upload) + 1)
      BY <2>3, <2>11 DEF IsFinal
    <3>2. \A h \in DOMAIN upload : h < current + 1 => h < b.frame + 1
      BY <1>2, <3>1, SMT
    <3>3. \A h \in DOMAIN upload : h < current => h < current + 1
      BY <1>2, <3>1, SMT
    <3>4. QED BY <1>1, <2>8, <3>2, <3>3 DEF Whole
  <2>12. InStep' BY <1>1, <1>6, <2>3, <2>4, <2>10, <2>11 DEF InStep
  <2>13. Started'
    <3>1. phase' # "ack"
      BY <1>1, <2>5 DEF Succeed, Fail, Known
    <3>2. ASSUME phase' = "booted" PROVE Whole(Len(upload) + 1)'
      <4>1. upload[b.frame].cmd = "JUMP" BY <1>1, <2>2, <2>5, <3>2 DEF Succeed, Fail, Known
      <4>2. \A h \in DOMAIN upload : upload[h].cmd = "LOAD" => h < b.frame
        BY <1>2, <4>1 DEF IInv, Shape
      <4>3. QED BY <1>1, <2>1, <2>6, <4>2 DEF Whole
    <3>3. QED BY <1>1, <2>6, <3>1, <3>2 DEF Started
  <2>14. ASSUME OneAtATime PROVE OneAtATime'
    <3>1. AllCurrent' /\ Len(replies) = 0 /\ Len(line') = 0 BY <1>1, <2>2, <2>14, RestAlone
    <3>2. Len(replies') = Len(replies) + 1 BY <2>7, OneReply
    <3>3. Len(replies') <= 1 /\ ~(Len(line') > 0) BY <3>1, <3>2, SMT
    <3>4. QED BY <2>12, <3>1, <3>3 DEF OneAtATime
  <2>15. QED BY <1>1, <2>12, <2>13, <2>14 DEF Dialogue
<1>8. ASSUME faults = 0, TooShort PROVE FALSE
  <2>1. payload_length > 0 /\ i + Len(line) <= payload_length + 3 BY <1>4, <1>8 DEF TooShort
  <2>2. QED BY <1>2, <1>3, <1>5, <2>1, SMT
<1>9. CASE faults = 0 /\ OutOfStep
  <2>1. /\ ~Good /\ current \in DOMAIN upload /\ Whole(current) /\ Chain /\ AllCurrent
        /\ content = Garbage
    BY <1>4, <1>9 DEF OutOfStep
  <2>2. ~Intact(f)
    <3>1. Garbage # Any /\ Garbage # b.frame /\ Garbage \notin 1 .. Len(upload)
      BY <1>2, SMT DEF Garbage, Any
    <3>2. f = Garbage BY <1>2, <2>1, <3>1 DEF Body
    <3>3. QED BY <1>2, <3>1, <3>2 DEF Intact
  <2>3. Fail("C") BY <1>1, <2>2
  <2>4. /\ Reply("C") /\ loaded' = loaded /\ phase' \in {"frames", "failed"} BY <1>1, <2>3 DEF Fail
  <2>5. ~Good'
    <3>1. "C" \in Replies /\ "C" # "K" BY DEF Replies
    <3>2. QED BY <2>1, <2>4, <3>1, OneReply
  <2>6. Chain' /\ AllCurrent' BY <1>1, <2>1, RestOfChain, RestCurrent
  <2>7. Whole(current)' BY <1>1, <2>1, <2>4 DEF Whole
  <2>8. Started' BY <1>1, <2>4 DEF Dialogue, Started, Whole
  <2>9. Len(line') = 0 \/ (Len(line') > 0 /\ 1 \in 1 .. Len(line')) BY <1>2, SMT
  <2>10. ASSUME Len(line') > 0 /\ line'[1].place # 0 PROVE OutOfStep'
    BY <1>1, <1>6, <2>1, <2>5, <2>6, <2>7, <2>10 DEF OutOfStep
  <2>11. ASSUME ~(Len(line') > 0 /\ line'[1].place # 0) PROVE InStep'
    <3>1. Len(line') > 0 => line'[1].place = 0 BY <2>11
    <3>2. Len(line') > 0 => line'[1].frame = current' BY <2>6, <2>9 DEF AllCurrent
    <3>3. Len(line') > 0 => Whole(line[1].frame)' BY <2>7, <3>2 DEF Whole
    <3>4. QED BY <1>6, <2>5, <2>6, <2>7, <3>1, <3>3 DEF InStep
  <2>12. ~(faults' > 0) /\ faults' = 0 BY <1>1, <1>9, SMT
  <2>13. QED BY <2>8, <2>10, <2>11, <2>12 DEF Dialogue
<1>10. QED BY <1>7, <1>8, <1>9 DEF Dialogue

(* The timer drops what has arrived of a frame. *)
LEMMA TimeoutDialogue ==
  ASSUME DialogueConstants, IInv, Dialogue, Timeout
  PROVE  Dialogue'
<1> USE DEF DialogueConstants
<1>1. /\ phase = "frames" /\ i > 0 /\ i' = 0 /\ content' = Any /\ payload_length' = 0 /\ Reply("E")
      /\ UNCHANGED <<phase, loaded, line, upload, current>>
  BY DEF Timeout
<1>2. "E" \in Replies /\ "E" # "K" BY DEF Replies
<1>3. Good' => Good BY <1>1, <1>2, OneReply
<1>4. Started' BY <1>1 DEF Dialogue, Started, Whole
<1>5. ~(i' > 0) /\ ~(i' = 1) /\ ~(i' > 1) BY <1>1, SMT
<1>6. Len(line) \in Nat /\ (line = <<>> <=> Len(line) = 0) /\ Len(replies) \in Nat /\ i \in Nat
  BY FirstByte
<1>7. CASE line = <<>> /\ faults' = faults
  <2>1. Len(line) = 0 /\ ~(Len(line) > 0) BY <1>6, <1>7, SMT
  <2>2. ~InStep BY <1>1, <2>1 DEF InStep
  <2>3. faults = 0 /\ (TooShort \/ OutOfStep) BY <2>2 DEF Dialogue
  <2>4. Whole(current) /\ ~Good
    <3>1. CASE TooShort
      <4>1. \A k \in 1 .. Len(replies) : FALSE BY <1>6, <3>1, SMT DEF TooShort
      <4>2. QED BY <3>1, <4>1 DEF TooShort, Good
    <3>2. CASE OutOfStep BY <3>2 DEF OutOfStep
    <3>3. QED BY <2>3, <3>1, <3>2
  <2>5. Chain'
    <3>1. Len(line') = 0 /\ ~(Len(line') > 0) /\ \A k \in 1 .. Len(line') - 1 : FALSE
      BY <1>1, <2>1, SMT
    <3>2. QED BY <3>1 DEF Chain
  <2>6. Whole(current)' /\ ~Good' BY <1>1, <1>3, <2>4 DEF Whole
  <2>7. InStep' BY <1>1, <1>5, <2>1, <2>5, <2>6 DEF InStep
  <2>8. ~(faults' > 0) BY <1>7, <2>3, SMT
  <2>9. QED BY <1>4, <2>7, <2>8 DEF Dialogue
<1>8. CASE line # <<>> /\ faults > 0 /\ faults' = faults - 1
  <2>1. OneAtATime /\ InStep /\ AllCurrent BY <1>8 DEF Dialogue, OneAtATime
  <2>2. Len(line) > 0 /\ 1 \in 1 .. Len(line) BY <1>6, <1>8, SMT
  <2>3. Len(replies) = 0
    <3>1. Len(replies) > 0 => Len(line) = 0 BY <2>1 DEF OneAtATime
    <3>2. QED BY <1>6, <2>2, <3>1, SMT
  <2>4. ~Good
    <3>1. \A k \in 1 .. Len(replies) : FALSE BY <2>3, SMT
    <3>2. QED BY <3>1 DEF Good
  <2>5. current \in DOMAIN upload /\ Chain /\ Whole(line[1].frame) /\ line[1].frame = current
        /\ line[1].place = i
    BY <1>1, <2>1, <2>2 DEF OneAtATime, InStep, AllCurrent
  <2>6. line[1].place # 0 BY <1>1, <2>5, SMT
  <2>7. OutOfStep'
    <3>1. Chain' /\ AllCurrent' BY <1>1, <2>1, <2>5 DEF Chain, AllCurrent, Follows, IsFinal, Place
    <3>2. Whole(current)' BY <1>1, <2>5 DEF Whole
    <3>3. QED BY <1>1, <1>3, <1>5, <2>2, <2>4, <2>5, <2>6, <3>1, <3>2 DEF OutOfStep
  <2>8. faults' = 0 /\ ~(faults' > 0)
    <3>1. faults \in 0 .. Faults /\ Faults \in Nat /\ Faults <= 1 BY DEF IInv, TypeOK, ConstantsOK
    <3>2. QED BY <1>8, <3>1, SMT
  <2>9. QED BY <1>4, <2>7, <2>8 DEF Dialogue
<1>9. QED BY <1>7, <1>8 DEF Timeout

(* A frame sent while the line is quiet brings host and board in step. *)
LEMMA SentInStep ==
  ASSUME ConstantsOK, IInv, Len(line) = 0, current \in DOMAIN upload, UNCHANGED upload,
         current' \in {current, current + 1}, current' \in DOMAIN upload,
         line' = line \o FrameBytes(current'), i' = 0, Whole(current)'
  PROVE  /\ InStep' /\ AllCurrent' /\ Len(line') > 0
         /\ Len(line') + line'[1].place = Place(current)' + 1
<1> DEFINE m == Place(current')
<1>1. Chain
  <2>1. ~(Len(line) > 0) /\ \A k \in 1 .. Len(line) - 1 : FALSE BY SMT
  <2>2. QED BY <2>1 DEF Chain
<1>2. current' \in 1 .. Len(upload) /\ m \in Nat BY FirstByte
<1>3. /\ Chain' /\ Len(line') = 0 + m + 1
      /\ \A k \in 1 .. m + 1 : line'[0 + k].frame = current' /\ line'[0 + k].place = k - 1
  BY <1>1, SentChain
<1> HIDE DEF m
<1>4. Len(line') = m + 1 /\ \A k \in 1 .. m + 1 : 0 + k = k BY <1>2, <1>3, SMT
<1>5. \A k \in 1 .. m + 1 : line'[k].frame = current' /\ line'[k].place = k - 1 BY <1>3, <1>4
<1>6. 1 \in 1 .. m + 1 /\ Len(line') > 0 /\ ~(Len(line') = 0) BY <1>2, <1>4, SMT
<1>7. line'[1].frame = current' /\ line'[1].place = 0 BY <1>5, <1>6, 1 - 1 = 0
<1>8. AllCurrent' BY <1>4, <1>5 DEF AllCurrent
<1>9. ~(i' > 0) BY SMT
<1>10. InStep' BY <1>3, <1>6, <1>7, <1>9 DEF InStep, Whole
<1>11. m = Place(current)' BY DEF m, Place
<1>12. Len(line') + line'[1].place = m + 1 BY <1>2, <1>4, <1>7, SMT
<1>13. QED BY <1>6, <1>8, <1>10, <1>11, <1>12

(* Before the first frame. *)
LEMMA AckDialogue ==
  ASSUME DialogueConstants, IInv, Dialogue, (\E c \in Bytes : check_ack(c)) \/ AckTimeout
  PROVE  Dialogue'
<1> USE DEF DialogueConstants
<1>1. phase = "ack" /\ UNCHANGED <<i, payload_length, content, loaded, replies, upload, current, faults>>
  BY DEF check_ack, AckTimeout, frameVars, hostVars
<1>2. (phase' \in {"ack", "timeout", "cancelled"} /\ line' = line)
      \/ (phase' = "frames" /\ line' = FrameBytes(1))
  BY DEF check_ack, AckTimeout, frameVars, hostVars
<1>3. CASE phase' \in {"ack", "timeout", "cancelled"} /\ line' = line
  <2>1. Started' BY <1>1, <1>3 DEF Dialogue, Started
  <2>2. Chain' = Chain BY <1>1, <1>3 DEF Chain, Follows, IsFinal, Place
  <2>3. InStep' = InStep BY <1>1, <1>3, <2>2 DEF InStep, Whole, Good
  <2>4. TooShort' = TooShort BY <1>1, <1>3 DEF TooShort, Whole, Place
  <2>5. OutOfStep' = OutOfStep BY <1>1, <1>3, <2>2 DEF OutOfStep, Whole, Good, AllCurrent
  <2>6. OneAtATime' = OneAtATime BY <1>1, <1>3, <2>3 DEF OneAtATime, AllCurrent, Place
  <2>7. QED BY <1>1, <2>1, <2>3, <2>4, <2>5, <2>6 DEF Dialogue
<1>4. CASE phase' = "frames" /\ line' = FrameBytes(1)
  <2>1. Len(line) = 0 /\ Len(replies) = 0 /\ current = 1 /\ i = 0
    BY <1>1 DEF Dialogue, Started
  <2>2. 1 \in 1 .. Len(upload) /\ DOMAIN upload = 1 .. Len(upload) /\ Len(upload) \in Nat
    <3>1. Len(upload) \in Nat \ {0} /\ DOMAIN upload = 1 .. Len(upload) BY FirstByte
    <3>2. QED BY <3>1, SMT
  <2>3. line' = line \o FrameBytes(current')
    <3>1. line = <<>> BY <2>1, FirstByte
    <3>2. FrameBytes(1) \in Seq(Items) BY <2>2, FrameLength
    <3>3. <<>> \o FrameBytes(1) = FrameBytes(1) BY <3>2, ConcatEmptySeq
    <3>4. QED BY <1>1, <1>4, <2>1, <3>1, <3>3
  <2>4. Whole(current)'
    <3>1. \A h \in DOMAIN upload : ~(h < 1) BY <2>2, SMT
    <3>2. QED BY <1>1, <2>1, <3>1 DEF Whole
  <2>5. /\ InStep' /\ AllCurrent' /\ Len(line') > 0
        /\ Len(line') + line'[1].place = Place(current)' + 1
    BY <1>1, <2>1, <2>2, <2>3, <2>4, SentInStep
  <2>6. Len(replies') <= 1 /\ ~(Len(replies') > 0) BY <1>1, <2>1, SMT
  <2>7. OneAtATime' BY <1>1, <2>1, <2>2, <2>5, <2>6 DEF OneAtATime
  <2>8. Started' BY <1>1, <1>4 DEF Dialogue, Started
  <2>9. QED BY <2>5, <2>7, <2>8 DEF Dialogue
<1>5. QED BY <1>2, <1>3, <1>4

(* What is written beyond the payload changes nothing here. *)
LEMMA OverrunDialogue ==
  ASSUME DialogueConstants, IInv, Dialogue, Overrun
  PROVE  Dialogue'
<1>1. phase = "frames" /\ phase' = "overrun"
      /\ UNCHANGED <<i, payload_length, content, loaded, line, replies, upload, current, faults>>
  BY DEF Overrun, frameVars, hostVars
<1>2. Started' BY <1>1 DEF Dialogue, Started
<1>3. Chain' = Chain BY <1>1 DEF Chain, Follows, IsFinal, Place
<1>4. InStep' = InStep BY <1>1, <1>3 DEF InStep, Whole, Good
<1>5. TooShort' = TooShort BY <1>1 DEF TooShort, Whole, Place
<1>6. OutOfStep' = OutOfStep BY <1>1, <1>3 DEF OutOfStep, Whole, Good, AllCurrent
<1>7. OneAtATime' = OneAtATime BY <1>1, <1>4 DEF OneAtATime, AllCurrent, Place
<1>8. QED BY <1>1, <1>2, <1>4, <1>5, <1>6, <1>7 DEF Dialogue

(* One reply less. *)
LEMMA OtherReplies ==
  ASSUME ConstantsOK, IInv, replies # <<>>, replies' = Tail(replies)
  PROVE  /\ Len(replies') = Len(replies) - 1 /\ (Good' => Good)
         /\ Head(replies) = "K" => Good
<1>1. replies \in Seq(Replies) /\ Len(replies) \in Nat /\ Len(replies) # 0
  BY FirstByte DEF IInv, Shape
<1>2. /\ Head(replies) = replies[1] /\ Len(replies') = Len(replies) - 1
      /\ \A k \in 1 .. Len(Tail(replies)) : Tail(replies)[k] = replies[k + 1]
  BY <1>1, HeadTailProperties
<1>3. 1 \in 1 .. Len(replies) BY <1>1, SMT
<1>4. ASSUME NEW k \in 1 .. Len(replies'), replies'[k] = "K" PROVE Good
  <2>1. k + 1 \in 1 .. Len(replies) BY <1>1, <1>2, SMT
  <2>2. replies[k + 1] = "K" BY <1>2, <1>4
  <2>3. QED BY <2>1, <2>2 DEF Good
<1>5. QED BY <1>2, <1>3, <1>4 DEF Good

(* The host takes a reply and sends. *)
LEMMA HostDialogue ==
  ASSUME DialogueConstants, IInv, Dialogue, HostReads
  PROVE  Dialogue'
<1> USE DEF DialogueConstants
<1>1. /\ replies # <<>> /\ current \in DOMAIN upload /\ replies' = Tail(replies)
      /\ current' = IF Head(replies) = "K" THEN current + 1 ELSE current
      /\ line' = IF current' \in DOMAIN upload THEN line \o FrameBytes(current') ELSE line
      /\ UNCHANGED <<phase, i, payload_length, content, loaded, upload, faults>>
  BY DEF HostReads, frameVars
<1>2. /\ Len(replies) \in Nat /\ Len(replies) # 0 /\ Len(line) \in Nat
      /\ current \in 1 .. Len(upload) /\ DOMAIN upload = 1 .. Len(upload) /\ Len(upload) \in Nat
      /\ i \in Nat /\ (line = <<>> <=> Len(line) = 0)
  BY <1>1, FirstByte
<1>3. /\ Len(replies') = Len(replies) - 1 /\ (Good' => Good)
      /\ Head(replies) = "K" => Good
  BY <1>1, OtherReplies
<1>4. current' \in {current, current + 1} /\ (current' = current \/ Good) BY <1>1, <1>3
<1>5. Started'
  <2>1. phase # "ack" BY <1>2 DEF Dialogue, Started
  <2>2. QED BY <1>1, <2>1 DEF Dialogue, Started, Whole
<1>6. CASE InStep
  <2>1. CASE Len(line) = 0
    <3>1. ~(Len(line) > 0) BY <2>1, SMT
    <3>2. i = 0 /\ Whole(current) /\ (Good => Whole(current + 1))
      <4>1. ~(i > 0) BY <1>6, <3>1 DEF InStep
      <4>2. i = 0 BY <1>2, <4>1, SMT
      <4>3. QED BY <1>6, <2>1, <4>2 DEF InStep
    <3>3. Whole(current)' BY <1>1, <1>4, <3>2 DEF Whole
    <3>4. CASE current' \in DOMAIN upload
      <4>1. /\ InStep' /\ AllCurrent' /\ Len(line') > 0
            /\ Len(line') + line'[1].place = Place(current)' + 1
        BY <1>1, <1>4, <2>1, <3>2, <3>3, <3>4, SentInStep
      <4>2. ASSUME OneAtATime PROVE OneAtATime'
        <5>1. Len(replies) <= 1 BY <4>2 DEF OneAtATime
        <5>2. Len(replies') <= 1 /\ ~(Len(replies') > 0) BY <1>2, <1>3, <5>1, SMT
        <5>3. QED BY <1>1, <3>4, <4>1, <5>2 DEF OneAtATime
      <4>3. QED BY <1>1, <1>5, <4>1, <4>2 DEF Dialogue
    <3>5. CASE current' \notin DOMAIN upload
      <4>1. line' = line /\ ~(i > 0) BY <1>1, <3>2, <3>5, SMT
      <4>2. current' = Len(upload) + 1 BY <1>2, <1>4, <3>5, SMT
      <4>3. Whole(current + 1)'
        <5>1. \A h \in DOMAIN upload : h < current' BY <1>2, <4>2, SMT
        <5>2. QED BY <1>1, <3>3, <5>1 DEF Whole
      <4>4. Chain' /\ AllCurrent'
        <5>1. Len(line') = 0 /\ ~(Len(line') > 0) /\ (\A k \in 1 .. Len(line') - 1 : FALSE)
              /\ \A k \in 1 .. Len(line') : FALSE
          BY <2>1, <4>1, SMT
        <5>2. QED BY <5>1 DEF Chain, AllCurrent
      <4>5. InStep' BY <1>1, <2>1, <3>1, <3>3, <4>1, <4>3, <4>4 DEF InStep
      <4>6. ASSUME OneAtATime PROVE OneAtATime'
        <5>1. Len(replies) <= 1 BY <4>6 DEF OneAtATime
        <5>2. Len(replies') <= 1 /\ ~(Len(replies') > 0) BY <1>2, <1>3, <5>1, SMT
        <5>3. QED BY <3>1, <4>1, <4>4, <4>5, <5>2 DEF OneAtATime
      <4>7. QED BY <1>1, <1>5, <4>5, <4>6 DEF Dialogue
    <3>6. QED BY <3>4, <3>5
  <2>2. CASE Len(line) # 0
    <3>1. Len(line) > 0 /\ 1 \in 1 .. Len(line) BY <1>2, <2>2, SMT
    <3>2. /\ Chain' /\ line'[1] = line[1] /\ Len(line') \in Nat
          /\ current' \in DOMAIN upload => Len(line') = Len(line) + Place(current') + 1
          /\ current' \notin DOMAIN upload => Len(line') = Len(line)
      BY <1>1, <1>4, <1>6, <3>1, SentChain DEF InStep
    <3>3. Len(line') > 0 /\ ~(Len(line') = 0)
      <4>1. current' \in DOMAIN upload => Place(current') \in Nat BY <1>2, FirstByte
      <4>2. QED BY <1>2, <3>1, <3>2, <4>1, SMT
    <3>4. InStep' BY <1>1, <1>6, <3>1, <3>2, <3>3 DEF InStep, Whole
    <3>5. ~OneAtATime
      <4>1. Len(replies) > 0 BY <1>2, SMT
      <4>2. QED BY <2>2, <4>1 DEF OneAtATime
    <3>6. QED BY <1>1, <1>5, <3>4, <3>5 DEF Dialogue
  <2>3. QED BY <2>1, <2>2
<1>7. ASSUME TooShort PROVE FALSE BY <1>2, <1>7 DEF TooShort
<1>8. CASE faults = 0 /\ OutOfStep
  <2>1. /\ ~Good /\ Whole(current) /\ Chain /\ AllCurrent
        /\ i = 0 => Len(line) > 0 /\ line[1].place # 0
        /\ i = 1 /\ Len(line) > 0 => line[1].place # 1
        /\ i > 1 => content = Garbage
    BY <1>8 DEF OutOfStep
  <2>2. current' = current /\ current' \in DOMAIN upload BY <1>1, <1>4, <2>1
  <2> DEFINE m == Place(current')
             n == Len(line)
  <2>3. /\ Chain' /\ Len(line') = n + m + 1
        /\ \A k \in 1 .. n : line'[k] = line[k]
        /\ \A k \in 1 .. m + 1 : line'[n + k].frame = current' /\ line'[n + k].place = k - 1
    BY <1>1, <1>4, <2>1, <2>2, SentChain
  <2>4. m \in Nat /\ n \in Nat BY <1>2, <2>2, FirstByte
  <2> HIDE DEF m, n
  <2>5. AllCurrent'
    <3>1. ASSUME NEW k \in 1 .. Len(line') PROVE line'[k].frame = current'
      <4>1. k \in 1 .. n \/ (k - n \in 1 .. m + 1 /\ n + (k - n) = k) BY <2>3, <2>4, SMT
      <4>2. \A j \in 1 .. n : line[j].frame = current' BY <2>1, <2>2 DEF AllCurrent, n
      <4>3. QED BY <2>3, <4>1, <4>2
    <3>2. QED BY <3>1 DEF AllCurrent
  <2>6. ASSUME n > 0 PROVE line'[1] = line[1]
    <3>1. 1 \in 1 .. n BY <2>4, <2>6, SMT
    <3>2. QED BY <2>3, <3>1
  <2>7. ASSUME ~(n > 0) PROVE line'[1].place = 0
    <3>1. n + 1 = 1 /\ 1 \in 1 .. m + 1 BY <2>4, <2>7, SMT
    <3>2. QED BY <2>3, <3>1, 1 - 1 = 0
  <2>8. Len(line') > 0 BY <2>3, <2>4, SMT
  <2>9. (i' = 0 => line'[1].place # 0) /\ (i' = 1 => line'[1].place # 1)
    BY <1>1, <2>1, <2>6, <2>7 DEF n
  <2>10. OutOfStep'
    <3>1. ~Good' /\ Whole(current)' BY <1>1, <1>3, <2>1, <2>2 DEF Whole
    <3>2. QED BY <1>1, <2>1, <2>2, <2>3, <2>5, <2>8, <2>9, <3>1 DEF OutOfStep
  <2>11. ~(faults' > 0) BY <1>1, <1>8, SMT
  <2>12. QED BY <1>1, <1>5, <1>8, <2>10, <2>11 DEF Dialogue
<1>9. QED BY <1>6, <1>7, <1>8 DEF Dialogue

(* The line without its byte k. *)
LEMMA LineWithout ==
  ASSUME ConstantsOK, IInv, NEW k \in 1 .. Len(line),
         line' = SubSeq(line, 1, k - 1) \o SubSeq(line, k + 1, Len(line))
  PROVE  /\ Len(line') = Len(line) - 1
         /\ IF k = 1 THEN line' = Tail(line) ELSE line'[1] = line[1]
<1> DEFINE n == Len(line)
           s == SubSeq(line, 1, k - 1)
           t == SubSeq(line, k + 1, n)
<1>1. line \in Seq(Items) /\ n \in Nat /\ n # 0 /\ k \in 1 .. n /\ line # <<>>
  <2>1. line \in Seq(Items) /\ n \in Nat BY FirstByte DEF IInv, Shape
  <2>2. n # 0 BY <2>1, SMT
  <2>3. QED BY <2>1, <2>2, FirstByte
<1>2. /\ s \in Seq(Items) /\ Len(s) = k - 1 /\ \A j \in 1 .. k - 1 : s[j] = line[j]
  <2>1. 1 \in Int /\ k - 1 \in Int /\ (\A j \in 1 .. k - 1 : j \in 1 .. Len(line)) BY <1>1, SMT
  <2>2. /\ s \in Seq(Items) /\ Len(s) = IF 1 <= k - 1 THEN (k - 1) - 1 + 1 ELSE 0
        /\ \A j \in 1 .. (k - 1) - 1 + 1 : s[j] = line[1 + j - 1]
    BY <1>1, <2>1, SubSeqProperties
  <2> HIDE DEF s
  <2>3. Len(s) = k - 1 BY <1>1, <2>2, SMT
  <2>4. ASSUME NEW j \in 1 .. k - 1 PROVE s[j] = line[j]
    <3>1. j \in 1 .. (k - 1) - 1 + 1 /\ 1 + j - 1 = j BY <1>1, SMT
    <3>2. QED BY <2>2, <3>1
  <2>5. QED BY <2>2, <2>3, <2>4
<1>3. t \in Seq(Items) /\ Len(t) = n - k
  <2>1. k + 1 \in Int /\ n \in Int /\ (\A j \in k + 1 .. n : j \in 1 .. Len(line)) BY <1>1, SMT
  <2>2. t \in Seq(Items) /\ Len(t) = IF k + 1 <= n THEN n - (k + 1) + 1 ELSE 0
    BY <1>1, <2>1, SubSeqProperties
  <2> HIDE DEF t
  <2>3. QED BY <1>1, <2>2, SMT
<1>4. /\ Len(s \o t) = Len(s) + Len(t)
      /\ \A j \in 1 .. Len(s) + Len(t) : (s \o t)[j] = IF j <= Len(s) THEN s[j] ELSE t[j - Len(s)]
  BY <1>2, <1>3, ConcatProperties
<1>5. line' = s \o t OBVIOUS
<1>6. CASE k = 1
  <2>1. Tail(line) = SubSeq(line, 2, Len(line)) BY <1>1, TailIsSubSeq
  <2>2. s = <<>> BY <1>2, <1>6, EmptySeq, 1 - 1 = 0
  <2>3. t = Tail(line) BY <1>6, <2>1, 1 + 1 = 2
  <2>4. <<>> \o t = t BY <1>3, ConcatEmptySeq
  <2>5. Len(Tail(line)) = Len(line) - 1 BY <1>1, HeadTailProperties
  <2>6. QED BY <1>5, <1>6, <2>2, <2>3, <2>4, <2>5
<1>7. CASE k # 1
  <2> HIDE DEF s, t
  <2>1. Len(s) + Len(t) = n - 1 /\ 1 \in 1 .. k - 1 /\ 1 \in 1 .. Len(s) + Len(t) /\ 1 <= Len(s)
    BY <1>1, <1>2, <1>3, <1>7, SMT
  <2>2. line'[1] = s[1] BY <1>4, <1>5, <2>1
  <2>3. QED BY <1>2, <1>4, <1>5, <1>7, <2>1, <2>2 DEF n
<1>8. QED BY <1>6, <1>7

(* The one byte that is lost leaves the frame too short, unless it was its  *)
(* first: then the board takes the frame up from its middle.                *)
LEMMA LossDialogue ==
  ASSUME DialogueConstants, IInv, Dialogue, LoseByte
  PROVE  Dialogue'
<1> USE DEF DialogueConstants
<1>1. /\ faults > 0 /\ faults' = faults - 1
      /\ UNCHANGED <<phase, i, payload_length, content, loaded, replies, upload, current>>
  BY DEF LoseByte, frameVars
<1>2. PICK k \in 1 .. Len(line) : line' = SubSeq(line, 1, k - 1) \o SubSeq(line, k + 1, Len(line))
  <2>1. line \in Seq(Items) BY DEF IInv, Shape
  <2>2. DOMAIN line = 1 .. Len(line) BY <2>1, LenProperties
  <2>3. QED BY <2>2 DEF LoseByte
<1>3. /\ Len(line') = Len(line) - 1
      /\ IF k = 1 THEN line' = Tail(line) ELSE line'[1] = line[1]
  BY <1>2, LineWithout
<1>4. Len(line) \in Nat /\ Len(line) > 0 /\ 1 \in 1 .. Len(line) /\ line # <<>> /\ Len(replies) \in Nat
      /\ i \in Nat
  <2>1. Len(line) \in Nat /\ Len(replies) \in Nat /\ (line = <<>> <=> Len(line) = 0) /\ i \in Nat
    BY FirstByte
  <2>2. Len(line) > 0 /\ 1 \in 1 .. Len(line) /\ Len(line) # 0 BY <2>1, SMT
  <2>3. QED BY <2>1, <2>2
<1>5. faults' = 0 /\ ~(faults' > 0)
  <2>1. faults \in 0 .. Faults /\ Faults \in Nat /\ Faults <= 1 BY DEF IInv, TypeOK, ConstantsOK
  <2>2. QED BY <1>1, <2>1, SMT
<1>6. OneAtATime /\ InStep /\ AllCurrent BY <1>1 DEF Dialogue, OneAtATime
<1> DEFINE b == line[1]
<1>7. /\ b.frame = current /\ current \in DOMAIN upload /\ Whole(current) /\ Chain
      /\ Len(line) + b.place = Place(current) + 1 /\ Len(replies) = 0
      /\ Place(current) \in Nat /\ Place(current) >= 4
      /\ b.place \in Nat
  <2>1. b.frame = current BY <1>4, <1>6 DEF AllCurrent
  <2>2. current \in DOMAIN upload /\ Len(line) + b.place = Place(current) + 1
    BY <1>4, <1>6 DEF OneAtATime
  <2>3. Whole(current) /\ Chain BY <1>4, <1>6, <2>1 DEF InStep
  <2>4. Len(replies) = 0
    <3>1. Len(replies) > 0 => Len(line) = 0 BY <1>6 DEF OneAtATime
    <3>2. QED BY <1>4, <3>1, SMT
  <2>5. Place(current) \in Nat /\ Place(current) >= 4 /\ b.place \in Nat
    BY <1>4, <2>2, FirstByte
  <2>6. QED BY <2>1, <2>2, <2>3, <2>4, <2>5
<1>8. ~Good
  <2>1. \A j \in 1 .. Len(replies) : FALSE BY <1>7, SMT
  <2>2. QED BY <2>1 DEF Good
<1>9. Started'
  <2>1. phase # "ack"
    <3>1. Len(line) # 0 BY <1>4, SMT
    <3>2. QED BY <3>1 DEF Dialogue, Started
  <2>2. QED BY <1>1, <2>1 DEF Dialogue, Started, Whole
<1>10. CASE i > 0
  <2>1. b.place = i /\ payload_length = upload[b.frame].payload_length
    BY <1>4, <1>6, <1>10 DEF InStep
  <2>2. Place(current) = payload_length + 3 /\ payload_length \in Nat \ {0}
    <3>1. upload[current].payload_length \in Nat \ {0} /\ Place(current) = upload[current].payload_length + 3
      BY <1>7, FirstByte
    <3>2. QED BY <1>7, <2>1, <3>1
  <2>3. payload_length' > 0 /\ i' + Len(line') <= payload_length' + 3 /\ ~(i' = 0)
    <3>1. i + (Len(line) - 1) = payload_length + 3 BY <1>4, <1>7, <2>1, <2>2, SMT
    <3>2. i + (Len(line) - 1) <= payload_length + 3 /\ payload_length > 0 /\ ~(i = 0)
      BY <1>10, <2>2, <3>1, SMT
    <3>3. QED BY <1>1, <1>3, <3>2
  <2>4. Len(replies') = 0 /\ Whole(current)' BY <1>1, <1>7 DEF Whole
  <2>5. TooShort' BY <2>3, <2>4 DEF TooShort
  <2>6. QED BY <1>5, <1>9, <2>5 DEF Dialogue
<1>11. CASE i = 0
  <2>1. b.place = 0 BY <1>4, <1>6, <1>11 DEF InStep
  <2>2. Len(line') = Place(current) /\ Len(line') > 0 /\ ~(i > 0) /\ ~(i = 1) /\ ~(i > 1)
    BY <1>3, <1>4, <1>7, <1>11, <2>1, SMT
  <2>3. Len(replies') = 0 /\ Whole(current)' /\ Place(current)' = Place(current) /\ ~Good'
    BY <1>1, <1>7, <1>8 DEF Whole, Place, Good
  <2>4. CASE k = 1
    <3>1. line' = Tail(line) BY <1>3, <2>4
    <3>2. b.place # Place(b.frame) BY <1>7, <2>1, SMT
    <3>3. Chain' /\ Follows(b, line'[1]) BY <1>1, <1>4, <1>7, <2>2, <3>1, RestOfChain
    <3>4. line'[1].place = 0 + 1 BY <2>1, <3>2, <3>3 DEF Follows
    <3>5. line'[1].place # 0 BY <3>4, SMT
    <3>6. AllCurrent' BY <1>1, <1>4, <1>6, <3>1, RestCurrent
    <3>7. OutOfStep' BY <1>1, <1>7, <2>2, <2>3, <3>3, <3>5, <3>6 DEF OutOfStep
    <3>8. QED BY <1>5, <1>9, <3>7 DEF Dialogue
  <2>5. CASE k # 1
    <3>1. line'[1].place = 0 /\ line'[1].frame = current' BY <1>1, <1>3, <1>7, <2>1, <2>5
    <3>2. Len(line') <= Place(current)' BY <1>7, <2>2, <2>3, SMT
    <3>3. Place(line[1].frame)' = Place(current)' BY <3>1 DEF Place
    <3>4. TooShort' BY <1>1, <2>2, <2>3, <3>1, <3>2, <3>3 DEF TooShort
    <3>5. QED BY <1>5, <1>9, <3>4 DEF Dialogue
  <2>6. QED BY <2>4, <2>5
<1>12. QED BY <1>4, <1>10, <1>11, SMT

(* The dialogue is inductive. *)
LEMMA StepDialogue == ASSUME DialogueConstants, IInv, Dialogue, [Next]_vars PROVE Dialogue'
<1>1. CASE UNCHANGED vars
  <2>1. UNCHANGED <<phase, i, payload_length, content, loaded, line, replies, upload, current, faults>>
    BY <1>1 DEF vars, frameVars, hostVars
  <2>2. Started' BY <2>1 DEF Dialogue, Started, Whole
  <2>3. Chain' = Chain BY <2>1 DEF Chain, Follows, IsFinal, Place
  <2>4. InStep' = InStep BY <2>1, <2>3 DEF InStep, Whole, Good
  <2>5. TooShort' = TooShort BY <2>1 DEF TooShort, Whole, Place
  <2>6. OutOfStep' = OutOfStep BY <2>1, <2>3 DEF OutOfStep, Whole, Good, AllCurrent
  <2>7. OneAtATime' = OneAtATime BY <2>1, <2>4 DEF OneAtATime, AllCurrent, Place
  <2>8. QED BY <2>1, <2>2, <2>4, <2>5, <2>6, <2>7 DEF Dialogue
<1>2. CASE Next
  BY <1>2, AckDialogue, FirstDialogue, NextDialogue, LastDialogue, OverrunDialogue,
     TimeoutDialogue, HostDialogue, LossDialogue DEF Next
<1>3. QED BY <1>1, <1>2

(* The dialogue begins with nothing on the line. *)
LEMMA InitDialogue == ASSUME DialogueConstants, Init PROVE Dialogue
<1>1. /\ phase = "ack" /\ i = 0 /\ loaded = {} /\ line = <<>> /\ replies = <<>> /\ current = 1
      /\ Len(line) = 0 /\ Len(replies) = 0 /\ current = 1
  BY DEF Init
<1>2. IInv BY InitInv DEF DialogueConstants
<1>3. Len(upload) \in Nat /\ DOMAIN upload = 1 .. Len(upload) BY <1>2, FirstByte DEF DialogueConstants
<1>4. /\ ~(Len(line) > 0) /\ ~(i > 0) /\ ~(Len(replies) > 0) /\ Len(replies) <= 1
      /\ \A k \in 1 .. Len(line) : FALSE
      /\ \A k \in 1 .. Len(line) - 1 : FALSE
      /\ \A k \in 1 .. Len(replies) : FALSE
      /\ \A h \in DOMAIN upload : ~(h < 1)
  BY <1>1, <1>3, SMT
<1>5. Chain /\ AllCurrent /\ ~Good BY <1>4 DEF Chain, AllCurrent, Good
<1>6. Whole(current) BY <1>1, <1>4 DEF Whole
<1>7. InStep BY <1>1, <1>4, <1>5, <1>6 DEF InStep
<1>8. OneAtATime BY <1>4, <1>5, <1>7 DEF OneAtATime
<1>9. Started BY <1>1 DEF Started
<1>10. QED BY <1>7, <1>8, <1>9 DEF Dialogue

(* On a line that makes at most one fault, the board starts the program only *)
(* when every frame that loads has been loaded: a frame sent twice or taken  *)
(* up from its middle never stands for one that is missing.                  *)
THEOREM JumpCorrect == ASSUME DialogueConstants PROVE Spec => []JumpsIntoWholeImage
<1>1. Init => IInv /\ Dialogue BY InitInv, InitDialogue DEF DialogueConstants
<1>2. IInv /\ Dialogue /\ [Next]_vars => (IInv /\ Dialogue)'
  BY StepInv, StepDialogue DEF DialogueConstants
<1>3. IInv /\ Dialogue => JumpsIntoWholeImage
  <2> SUFFICES ASSUME IInv, Dialogue, phase = "booted"
               PROVE  loaded = {f \in DOMAIN upload : upload[f].cmd = "LOAD"}
    BY DEF JumpsIntoWholeImage
  <2>1. Len(upload) \in Nat /\ DOMAIN upload = 1 .. Len(upload)
    BY FirstByte DEF DialogueConstants
  <2>2. \A h \in DOMAIN upload : h < Len(upload) + 1 BY <2>1, SMT
  <2>3. \A h \in DOMAIN upload : upload[h].cmd = "LOAD" => h \in loaded
    BY <2>2 DEF Dialogue, Started, Whole
  <2>4. loaded \subseteq DOMAIN upload /\ \A h \in loaded : upload[h].cmd = "LOAD"
    BY DEF IInv, TypeOK, Dialogue, Started
  <2>5. QED BY <2>3, <2>4
<1>4. QED BY <1>1, <1>2, <1>3, PTL DEF Spec

(* When nothing is on its way, the host has given up no frame that loads and *)
(* is not in memory: an acknowledgement is never taken for another frame's.  *)
THEOREM AcknowledgedCorrect == ASSUME DialogueConstants PROVE Spec => []AcknowledgedIsLoaded
<1>1. Init => IInv /\ Dialogue BY InitInv, InitDialogue DEF DialogueConstants
<1>2. IInv /\ Dialogue /\ [Next]_vars => (IInv /\ Dialogue)'
  BY StepInv, StepDialogue DEF DialogueConstants
<1>3. IInv /\ Dialogue => AcknowledgedIsLoaded
  <2> SUFFICES ASSUME IInv, Dialogue, line = <<>>, i = 0,
                      NEW f \in 1 .. current - 1, upload[f].cmd = "LOAD"
               PROVE  f \in loaded
    BY DEF AcknowledgedIsLoaded
  <2>1. /\ Len(upload) \in Nat /\ DOMAIN upload = 1 .. Len(upload) /\ current \in 1 .. Len(upload) + 1
        /\ Len(line) = 0
    BY FirstByte DEF DialogueConstants
  <2>2. f \in DOMAIN upload /\ f < current /\ ~(Len(line) > 0) BY <2>1, SMT
  <2>3. Whole(current)
    <3>1. InStep \/ TooShort \/ OutOfStep BY DEF Dialogue
    <3>2. QED BY <2>1, <2>2, <3>1 DEF InStep, TooShort, OutOfStep
  <2>4. QED BY <2>2, <2>3 DEF Whole
<1>4. QED BY <1>1, <1>2, <1>3, PTL DEF Spec
=============================================================================
