------------------------------- MODULE MuxRxAdv -------------------------------
(***************************************************************************)
(* Receive path of gsm0710muxd in the advanced mode (cmux_mode = 1, the    *)
(* default): assemble_frame_thread calls extract_frames, which takes       *)
(* frames out of the ring with gsm0710_advanced_buffer_get_frame.          *)
(* The parser reads one byte per step; the serial reader runs in between.  *)
(***************************************************************************)
EXTENDS MuxRing, MuxFrame

CONSTANT
  Streams         \* the sequences of frames that the modem may send undamaged

ASSUME AdvAssumption ==
  /\ FLAG \in Byte /\ ESC \in Byte /\ FLAG # ESC
  /\ \A b \in Byte : Compl(b) \in Byte

(* 0x20 flips one bit, and none of the escaped symbols becomes a flag.     *)
(* GSM0710_BUFFER_SIZE exceeds the N1 of every channel (gsm0710muxd.h:53). *)
ASSUME PeerAssumption ==
  /\ {FLAG, ESC} \subseteq Escaped /\ Escaped \subseteq Byte
  /\ \A b \in Escaped : Compl(Compl(b)) = b /\ Compl(b) # FLAG
  /\ \A a, c \in Byte : Crc(<<a, c>>) \in Byte
  /\ Streams \subseteq Seq(Frame(Byte))
  /\ \A s \in Streams : \A i \in DOMAIN s : Len(Content(s[i])) <= BufSize

VARIABLES
  flag_found,     \* buf->flag_found: inside a frame
  adv_data,       \* buf->adv_data[0 .. adv_length - 1]
  adv_found_esc,  \* buf->adv_found_esc
  delivered,      \* the frames handed to extract_frames, oldest first
  dropped_count   \* buf->dropped_count

parserVars == <<flag_found, adv_data, adv_found_esc, delivered, dropped_count>>
vars == <<ringVars, as, parserVars>>

AsStates == {"check", "wait", "find", "skip", "body", "frame"}

Init ==
  /\ RingInit
  /\ as = "check"
  /\ flag_found = 0 /\ adv_data = <<>> /\ adv_found_esc = 0
  /\ delivered = <<>> /\ dropped_count = 0

-----------------------------------------------------------------------------
(* gsm0710_advanced_buffer_get_frame, from l_begin.                        *)

BM_FindFlag ==   \* a new frame starts behind the bytes of the last one
  /\ as = "find" /\ flag_found = 0 /\ datacount > 0
  /\ Consume
  /\ flag_found' = IF Current = FLAG THEN 1 ELSE 0
  /\ UNCHANGED <<as, adv_data, adv_found_esc, delivered, dropped_count>>

(* Hunt for the start flag.                                                *)
FindFlag ==
  /\ as = "find" /\ flag_found = 0 /\ datacount > 0
  /\ Consume
  /\ IF Current = FLAG
     THEN flag_found' = 1 /\ adv_data' = <<>> /\ adv_found_esc' = 0
     ELSE UNCHANGED <<flag_found, adv_data, adv_found_esc>>
  /\ UNCHANGED <<as, delivered, dropped_count>>

(* No frame started and nothing left: NULL.                                *)
FindNothing ==
  /\ as = "find" /\ flag_found = 0 /\ datacount = 0
  /\ as' = "check"
  /\ UNCHANGED <<ringVars, parserVars>>

FindDone ==
  /\ as = "find" /\ flag_found = 1
  /\ as' = IF adv_data = <<>> THEN "skip" ELSE "body"
  /\ UNCHANGED <<ringVars, parserVars>>

(* Skip the flags of empty frames.                                         *)
SkipFlag ==
  /\ as = "skip" /\ datacount > 0 /\ Current = FLAG
  /\ Consume
  /\ UNCHANGED <<as, parserVars>>

SkipDone ==
  /\ as = "skip" /\ (datacount = 0 \/ Current # FLAG)
  /\ as' = "body"
  /\ UNCHANGED <<ringVars, parserVars>>

(* The ring is empty in the middle of a frame: NULL, to be resumed.        *)
BodyEmpty ==
  /\ as = "body" /\ datacount = 0
  /\ as' = "check"
  /\ UNCHANGED <<ringVars, parserVars>>

Closing == as = "body" /\ datacount > 0 /\ adv_found_esc = 0 /\ Current = FLAG
Open == as = "body" /\ datacount > 0 /\ ~Closing

(* A closing flag after fewer than address, control and checksum bytes:    *)
(* dropped without being counted.                                          *)
CloseShort ==
  /\ Closing /\ Len(adv_data) < 3
  /\ Consume
  /\ flag_found' = 0 /\ as' = "find"
  /\ UNCHANGED <<adv_data, adv_found_esc, delivered, dropped_count>>

CloseBad ==
  /\ Closing /\ Len(adv_data) >= 3 /\ ~FcsOK(adv_data)
  /\ Consume
  /\ flag_found' = 0 /\ as' = "find"
  /\ dropped_count' = dropped_count + 1
  /\ UNCHANGED <<adv_data, adv_found_esc, delivered>>

CloseGood ==
  /\ Closing /\ Len(adv_data) >= 3 /\ FcsOK(adv_data)
  /\ Consume
  /\ flag_found' = 0 /\ as' = "frame"
  /\ delivered' = Append(delivered, adv_data)
  /\ UNCHANGED <<adv_data, adv_found_esc, dropped_count>>

(* adv_data is full: the frame is given up and the current byte is looked  *)
(* at again by the hunt for a flag.                                        *)
Overlong ==
  /\ Open /\ Len(adv_data) >= BufSize
  /\ flag_found' = 0 /\ as' = "find"
  /\ dropped_count' = dropped_count + 1
  /\ UNCHANGED <<ringVars, adv_data, adv_found_esc, delivered>>

Store(b) == adv_data' = Append(adv_data, b)

BM_TakeEscaped ==   \* the escaped byte is not complemented
  /\ Open /\ Len(adv_data) < BufSize /\ adv_found_esc = 1
  /\ Consume
  /\ Store(Current) /\ adv_found_esc' = 0
  /\ UNCHANGED <<as, flag_found, delivered, dropped_count>>

TakeEscaped ==
  /\ Open /\ Len(adv_data) < BufSize /\ adv_found_esc = 1
  /\ Consume
  /\ Store(Compl(Current)) /\ adv_found_esc' = 0
  /\ UNCHANGED <<as, flag_found, delivered, dropped_count>>

TakeEsc ==
  /\ Open /\ Len(adv_data) < BufSize /\ adv_found_esc = 0 /\ Current = ESC
  /\ Consume
  /\ adv_found_esc' = 1
  /\ UNCHANGED <<as, flag_found, adv_data, delivered, dropped_count>>

TakePlain ==
  /\ Open /\ Len(adv_data) < BufSize /\ adv_found_esc = 0 /\ Current # ESC
  /\ Consume
  /\ Store(Current)
  /\ UNCHANGED <<as, flag_found, adv_found_esc, delivered, dropped_count>>

(* extract_frames wakes a reader that waits for room, deals with the frame *)
(* (MuxRxFlow, MuxSession) and asks for the next one.                      *)
FrameOut ==
  /\ as = "frame"
  /\ SignalReader
  /\ as' = "find"
  /\ UNCHANGED parserVars

Parser ==
  \/ FindFlag \/ FindNothing \/ FindDone \/ SkipFlag \/ SkipDone \/ BodyEmpty
  \/ CloseShort \/ CloseBad \/ CloseGood \/ Overlong
  \/ TakeEscaped \/ TakeEsc \/ TakePlain \/ FrameOut

Assembler == AsWait \/ AsGo \/ AsSpurious

Next ==
  \/ (Reader \/ RdSpurious \/ LeaveMuxing \/ Assembler) /\ UNCHANGED parserVars
  \/ Parser

Spec == Init /\ [][Next]_vars

(* Both threads are ordinary pthreads: the scheduler runs a thread that    *)
(* can run. The modem's bytes arrive, no wakeup is spurious by obligation  *)
(* and nobody has to leave the muxing state.                               *)
FairSpec ==
  /\ Spec
  /\ WF_vars(Reader /\ UNCHANGED parserVars)
  /\ WF_vars(Parser \/ ((AsWait \/ AsGo) /\ UNCHANGED parserVars))

-----------------------------------------------------------------------------
TypeOK ==
  /\ RingTypeOK
  /\ as \in AsStates
  /\ flag_found \in {0, 1} /\ adv_found_esc \in {0, 1}
  /\ adv_data \in Seq(Byte) /\ Len(adv_data) <= BufSize
  /\ delivered \in Seq(Seq(Byte))
  /\ dropped_count \in Nat

(* The undamaged lines, and what the peer put on them.                     *)
IntactLines == {LineOf(s) : s \in Streams}
StreamsOn == [l \in IntactLines |-> {s \in Streams : LineOf(s) = l}]

(* Frames arrive as they were written: unescaped, whole, in order, none    *)
(* twice and none invented, however read() cuts the line into chunks; none *)
(* is dropped.                                                             *)
DeliveredInOrder ==
  line \in IntactLines =>
    \A s \in StreamsOn[line] :
      /\ dropped_count = 0
      /\ Len(delivered) <= Len(s)
      /\ \A i \in DOMAIN delivered : delivered[i] = Content(s[i])

(* The ring is a queue: whatever the chunks of read() and the interleaving *)
(* of the two threads, the unread bytes are exactly those between the last *)
(* byte consumed and the last byte published, so nothing unread is         *)
(* overwritten by the copy that runs before datacount is raised.           *)
RingIsQueue ==
  /\ sent = consumed + datacount + InFlight
  /\ \A i \in 0 .. datacount - 1 :
       data[Wrap(readp + i)] = line[consumed + i + 1]

(* No wakeup is lost: while published bytes wait in the ring and the       *)
(* assembler sleeps, the reader is still on its way to the signal.         *)
NoLostWakeup ==
  as = "wait" /\ datacount > 0 => rd \in {"ready", "signal"}

(* The flag under which the assembler skips its wait never outlives the    *)
(* reader's stay in the full-buffer branch.                                *)
SleepingMeansFull ==
  input_sleeping = 1 <=> rd \in {"full", "sleep", "woken"}
=============================================================================
