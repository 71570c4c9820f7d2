------------------------------ MODULE MuxRxBasic ------------------------------
(***************************************************************************)
(* Receive path of gsm0710muxd in the basic mode (cmux_mode = 0): the      *)
(* threads of MuxRing with the parser gsm0710_base_buffer_get_frame.       *)
(*                                                                         *)
(* A frame is FLAG, address, control, one or two bytes of length, payload, *)
(* checksum, FLAG. Nothing is escaped. The parser hunts for the start flag *)
(* byte by byte, then works on local copies of readp and datacount and     *)
(* takes the frame off the ring in one step at the end. A damaged frame is *)
(* dropped and the function calls itself, up to MaxResync levels deep.     *)
(***************************************************************************)
EXTENDS MuxRing, MuxFrameBasic

CONSTANTS
  Len7(_),        \* (b & 254) >> 1
  More(_),        \* (b & 1) = 0: a second length byte follows
  LenHigh(_),     \* b * 128
  N1(_),          \* negotiated_N1 of the channel of an address byte
  MaxResync,      \* MAX_RESYNC_GET_FRAME_COUNT
  Streams         \* the sequences of frames that the modem may send undamaged

ASSUME BasicAssumption ==
  /\ FLAG \in Byte /\ UI \in Byte
  /\ \A b \in Byte : Len7(b) \in Nat /\ More(b) \in BOOLEAN /\ LenHigh(b) \in Nat
                     /\ N1(b) \in Nat
  /\ MaxResync \in Nat \ {0}

(* DLCIs stay below 32, so that no address (EA, C/R, DLCI) is a flag; the  *)
(* length field is that of the payload and is read back as it was written. *)
ASSUME PeerAssumption ==
  /\ Streams \subseteq Seq(Frame(Byte))
  /\ \A s \in Streams : \A i \in DOMAIN s :
       LET f == s[i] IN
       /\ f.address # FLAG /\ Fcs(Checked(f)) \in Byte
       /\ Len(f.length) = IF More(f.length[1]) THEN 2 ELSE 1
       /\ Len(f.payload) = Len7(f.length[1])
                             + (IF More(f.length[1]) THEN LenHigh(f.length[2]) ELSE 0)
       /\ Len(f.payload) <= N1(f.address)

VARIABLES
  flag_found,       \* buf->flag_found: behind a start flag
  depth_level,      \* how many frames this call chain has dropped
  local_datacount,  \* the copy of datacount of the last analysis without a verdict
  verdict,          \* how many bytes the analysis takes, and the frame
  asserted,         \* Gsm0710Muxd_Assert(13) was reached
  delivered,        \* the frames handed to extract_frames, oldest first
  dropped_count     \* buf->dropped_count

parserVars == <<flag_found, depth_level, local_datacount, verdict, asserted,
                delivered, dropped_count>>
vars == <<ringVars, as, parserVars>>

AsStates == {"check", "wait", "find", "skip", "copy", "parse", "drop", "take", "frame"}
NoVerdict == [take |-> 0, frame |-> <<>>]

Init ==
  /\ RingInit
  /\ as = "check"
  /\ flag_found = 0 /\ depth_level = 0 /\ local_datacount = 0
  /\ verdict = NoVerdict /\ asserted = FALSE
  /\ delivered = <<>> /\ dropped_count = 0

-----------------------------------------------------------------------------
(* The length field that Len7, More and LenHigh read, with numbers for     *)
(* bytes. write_frame: one byte with the EA bit set up to 127, else seven  *)
(* bits and eight bits.                                                    *)
LengthField(length) ==
  IF length > 127 THEN <<2 * (length % 128), (length % 32768) \div 128>>
                  ELSE <<1 + 2 * length>>

(* gsm0710_base_buffer_get_frame: a second byte only without the EA bit.   *)
LengthOf(field) ==
  (field[1] % 256) \div 2 + (IF field[1] % 2 = 0 THEN field[2] * 128 ELSE 0)

-----------------------------------------------------------------------------
(* Hunt for the start flag.                                                *)
FindFlag ==
  /\ as = "find" /\ flag_found = 0 /\ datacount > 0
  /\ Consume
  /\ flag_found' = IF Current = FLAG THEN 1 ELSE 0
  /\ UNCHANGED <<as, depth_level, local_datacount, verdict, asserted, delivered,
                 dropped_count>>

(* No frame started: a reader that waits for room is woken, NULL returned. *)
FindNothing ==
  /\ as = "find" /\ flag_found = 0 /\ datacount = 0
  /\ SignalReader
  /\ as' = "check" /\ depth_level' = 0
  /\ UNCHANGED <<flag_found, local_datacount, verdict, asserted, delivered, dropped_count>>

FindDone ==
  /\ as = "find" /\ flag_found = 1
  /\ as' = "skip"
  /\ UNCHANGED <<ringVars, parserVars>>

(* Skip the flags of empty frames.                                         *)
SkipFlag ==
  /\ as = "skip" /\ datacount > 0 /\ Current = FLAG
  /\ Consume
  /\ UNCHANGED <<as, parserVars>>

SkipDone ==
  /\ as = "skip" /\ (datacount = 0 \/ Current # FLAG)
  /\ as' = "copy"
  /\ UNCHANGED <<ringVars, parserVars>>

(* The local copies. Only this thread moves readp.                         *)
CopyCounters ==
  /\ as = "copy"
  /\ local_datacount' = datacount
  /\ as' = "parse"
  /\ UNCHANGED <<ringVars, flag_found, depth_level, verdict, asserted, delivered,
                 dropped_count>>

-----------------------------------------------------------------------------
(* The analysis, on the bytes from readp on: At(0) is the address.         *)

At(i) == data[Wrap(readp + i)]

(* Offset of the last byte of the length, and of the checksum.             *)
LastLen == IF More(At(2)) THEN 3 ELSE 2
FrameLength == Len7(At(2)) + (IF More(At(2)) THEN LenHigh(At(3)) ELSE 0)
FcsAt == LastLen + 1 + FrameLength

BM_TooLong == FrameLength >= N1(At(0))

HaveHeader == local_datacount >= 5
TooLong == FrameLength > N1(At(0))
Enough == local_datacount - LastLen >= 3 + FrameLength

Payload == [i \in 1 .. FrameLength |-> At(LastLen + i)]

BM_Covered == [i \in 1 .. LastLen + 1 |-> At(i - 1)]   \* never the payload

(* The bytes under the checksum: the header, of a UI frame the payload too. *)
Covered == [i \in 1 .. LastLen + 1 |-> At(i - 1)]
             \o (IF At(1) = UI THEN Payload ELSE <<>>)

BM_Sound == At(FcsAt + 1) = FLAG   \* the checksum is not looked at
Sound == At(FcsAt) = Fcs(Covered) /\ At(FcsAt + 1) = FLAG

(* Not all of the frame is in the ring: NULL, and the next call starts     *)
(* again at the address.                                                   *)
Incomplete ==
  /\ as = "parse"
  /\ ~HaveHeader \/ (~TooLong /\ ~Enough)
  /\ as' = "check" /\ depth_level' = 0
  /\ UNCHANGED <<ringVars, flag_found, local_datacount, verdict, asserted, delivered,
                 dropped_count>>

Reject(n) ==
  /\ verdict' = [take |-> n, frame |-> <<>>]
  /\ flag_found' = 0 /\ dropped_count' = dropped_count + 1
  /\ as' = "drop"
  /\ UNCHANGED <<ringVars, depth_level, local_datacount, asserted, delivered>>

BM_RejectLong ==   \* all that has arrived is given up
  /\ as = "parse" /\ HaveHeader /\ TooLong
  /\ Reject(local_datacount)

(* More than the channel's N1: given up before the last byte of the length.*)
RejectLong ==
  /\ as = "parse" /\ HaveHeader /\ TooLong
  /\ Reject(LastLen)

(* Wrong checksum or no flag behind it: the byte behind it stays.          *)
RejectDamaged ==
  /\ as = "parse" /\ HaveHeader /\ ~TooLong /\ Enough /\ ~Sound
  /\ Reject(FcsAt + 1)

Accept ==
  /\ as = "parse" /\ HaveHeader /\ ~TooLong /\ Enough /\ Sound
  /\ verdict' = [take |-> FcsAt + 2, frame |-> <<At(0), At(1)>> \o Payload]
  /\ as' = "take"
  /\ UNCHANGED <<ringVars, flag_found, depth_level, local_datacount, asserted,
                 delivered, dropped_count>>

-----------------------------------------------------------------------------
(* Under datacount_lock: subtract what was analysed.                       *)
TakeOff(n) ==
  /\ readp' = Wrap(readp + n)
  /\ datacount' = datacount - n
  /\ consumed' = consumed + n
  /\ UNCHANGED <<line, sent, data, writep, newdataready, input_sleeping, muxing,
                 rd, rdbuf>>

(* A dropped frame, and the function calls itself. At the limit the        *)
(* release build asserts and goes on with depth_level uninitialised.       *)
DropFrame ==
  /\ as = "drop"
  /\ TakeOff(verdict.take)
  /\ IF depth_level + 1 < MaxResync
     THEN depth_level' = depth_level + 1 /\ UNCHANGED asserted
     ELSE depth_level' \in 0 .. MaxResync /\ asserted' = TRUE
  /\ verdict' = NoVerdict /\ local_datacount' = 0
  /\ as' = "find"
  /\ UNCHANGED <<flag_found, delivered, dropped_count>>

TakeFrame ==
  /\ as = "take"
  /\ TakeOff(verdict.take)
  /\ flag_found' = 0 /\ depth_level' = 0
  /\ delivered' = Append(delivered, verdict.frame)
  /\ verdict' = NoVerdict /\ local_datacount' = 0
  /\ as' = "frame"
  /\ UNCHANGED <<asserted, dropped_count>>

(* extract_frames wakes a reader that waits for room, deals with the frame *)
(* and asks for the next one.                                              *)
FrameOut ==
  /\ as = "frame"
  /\ SignalReader
  /\ as' = "find"
  /\ UNCHANGED parserVars

Parser ==
  \/ FindFlag \/ FindNothing \/ FindDone \/ SkipFlag \/ SkipDone \/ CopyCounters
  \/ Incomplete \/ RejectLong \/ RejectDamaged \/ Accept
  \/ DropFrame \/ TakeFrame \/ FrameOut

Assembler == AsWait \/ AsGo \/ AsSpurious

Next ==
  \/ (Reader \/ RdSpurious \/ LeaveMuxing \/ Assembler) /\ UNCHANGED parserVars
  \/ Parser

Spec == Init /\ [][Next]_vars

(* As in the advanced mode: both threads run when they can.                *)
FairSpec ==
  /\ Spec
  /\ WF_vars(Reader /\ UNCHANGED parserVars)
  /\ WF_vars(Parser \/ ((AsWait \/ AsGo) /\ UNCHANGED parserVars))

-----------------------------------------------------------------------------
TypeOK ==
  /\ RingTypeOK
  /\ as \in AsStates
  /\ flag_found \in {0, 1} /\ depth_level \in 0 .. MaxResync
  /\ local_datacount \in 0 .. BufSize
  /\ verdict \in [take : 0 .. BufSize, frame : Seq(Byte)]
  /\ asserted \in BOOLEAN
  /\ delivered \in Seq(Seq(Byte))
  /\ dropped_count \in Nat

IntactLines == {LineOf(s) : s \in Streams}
StreamsOn == [l \in IntactLines |-> {s \in Streams : LineOf(s) = l}]

(* Frames arrive whole, in order, none twice and none invented, however    *)
(* read() cuts the line, flags in the payload included; none is dropped.   *)
DeliveredInOrder ==
  line \in IntactLines =>
    \A s \in StreamsOn[line] :
      /\ ~asserted /\ dropped_count = 0
      /\ Len(delivered) <= Len(s)
      /\ \A i \in DOMAIN delivered : delivered[i] = Content(s[i])

(* The frame is taken off the ring long after it was counted, and the      *)
(* reader writes and counts in between: still the unread bytes are exactly *)
(* those between the last byte taken and the last one published.           *)
RingIsQueue ==
  /\ sent = consumed + datacount + InFlight
  /\ \A i \in 0 .. datacount - 1 :
       data[Wrap(readp + i)] = line[consumed + i + 1]

(* No wakeup is lost: while published bytes wait in the ring and the       *)
(* assembler sleeps, the reader is on its way to the signal, or the bytes  *)
(* are the beginning of a frame that the parser has already looked at.     *)
NoLostWakeup ==
  as = "wait" /\ datacount > local_datacount => rd \in {"ready", "signal"}
=============================================================================
