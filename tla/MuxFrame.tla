------------------------------- MODULE MuxFrame -------------------------------
(***************************************************************************)
(* What write_frame puts on the serial line for one frame in the advanced  *)
(* mode, and what the checksum accepts. Only the bytes that the advanced   *)
(* mode treats specially and the relation Compl are visible.               *)
(***************************************************************************)
EXTENDS Integers, Sequences, SequencesExt

CONSTANTS
  FLAG, ESC,      \* GSM0710_FRAME_ADV_FLAG, GSM0710_FRAME_ADV_ESC
  Escaped,        \* GSM0710_FRAME_ADV_ESCAPED_SYMS
  Compl(_),       \* b ^ GSM0710_FRAME_ADV_ESC_COPML
  Crc(_)          \* frame_calc_crc of address and control

Frame(B) == [address : B, control : B, payload : Seq(B)]

(* fill_adv_frame_buf                                                      *)
Piece(b) == IF b \in Escaped THEN <<ESC, Compl(b)>> ELSE <<b>>
Escape(bytes) == FlattenSeq([i \in DOMAIN bytes |-> Piece(bytes[i])])

Header(f) == <<f.address, f.control>>

(* The contents of a frame, unescaped: address, control, payload, FCS.     *)
Content(f) == Header(f) \o f.payload \o <<Crc(Header(f))>>

(* The cmux_mode branch of write_frame.                                    *)
AdvEncode(f) ==
  <<FLAG>> \o Escape(Header(f)) \o Escape(f.payload) \o Escape(<<Crc(Header(f))>>)
           \o <<FLAG>>

(* One frame after the other.                                              *)
LineOf(frames) == FlattenSeq([i \in DOMAIN frames |-> AdvEncode(frames[i])])

(* The check of the receiver, for a frame of at least three bytes. The     *)
(* checksum of a UIH frame covers its header only.                         *)
FcsOK(content) ==
  content[Len(content)] = Crc(<<content[1], content[2]>>)
=============================================================================
