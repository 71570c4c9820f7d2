---------------------------- MODULE MuxFrameBasic ----------------------------
(***************************************************************************)
(* A frame of the basic mode on the serial line, as write_frame puts it    *)
(* there. Nothing is escaped; a length field of one or two bytes says      *)
(* where the payload ends.                                                 *)
(***************************************************************************)
EXTENDS Integers, Sequences, SequencesExt

CONSTANTS
  FLAG,           \* GSM0710_FRAME_FLAG
  UI,             \* control byte of a frame whose checksum covers the payload
  Fcs(_)          \* the checksum the code accepts for the bytes it covers

Frame(B) == [address : B, control : B, length : Seq(B), payload : Seq(B)]

Header(f) == <<f.address, f.control>> \o f.length

(* The bytes under the checksum. Of a UI frame the receiver wants the      *)
(* payload under it too, which write_frame itself does not support.        *)
Checked(f) == Header(f) \o (IF f.control = UI THEN f.payload ELSE <<>>)

(* The branch of write_frame without cmux_mode.                            *)
Encode(f) ==
  (((<<FLAG>> \o Header(f)) \o f.payload) \o <<Fcs(Checked(f))>>) \o <<FLAG>>

(* One frame after the other.                                              *)
LineOf(frames) == FlattenSeq([i \in DOMAIN frames |-> Encode(frames[i])])

(* What extract_frames gets: the channel, the control byte and the payload.*)
Content(f) == <<f.address, f.control>> \o f.payload
=============================================================================
