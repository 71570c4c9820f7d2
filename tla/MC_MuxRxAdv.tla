----------------------------- MODULE MC_MuxRxAdv -----------------------------
(***************************************************************************)
(* A small serial line for MuxRxAdv. Bytes are letters: F and E are the    *)
(* flag and the escape, f and e what they become under Compl; a and u are  *)
(* an address and a control byte, c a checksum, p a payload byte. The      *)
(* checksum of address a with control E is F, so that it is escaped too.   *)
(***************************************************************************)
EXTENDS MuxRxAdv

MCByte == {"F", "E", "f", "e", "a", "u", "c", "p"}
MCCompl(b) == CASE b = "F" -> "f" [] b = "f" -> "F"
                [] b = "E" -> "e" [] b = "e" -> "E" [] OTHER -> b
MCEscaped == {"F", "E"}
MCCrc(h) == IF h = <<"a", "E">> THEN "F" ELSE IF h = <<"a", "u">> THEN "c" ELSE "p"

F(control, payload) == [address |-> "a", control |-> control, payload |-> payload]
MCFrames == { F("u", <<>>), F("u", <<"p">>), F("u", <<"F">>), F("E", <<>>) }

(* Streams of two or three whole frames, each at most BufSize bytes long.  *)
MCStreams == { <<f, g>> : f \in MCFrames, g \in MCFrames }
               \cup { <<f, f, g>> : f \in {F("u", <<"F">>)}, g \in MCFrames }

(* Every frame the modem writes reaches extract_frames, unless the         *)
(* multiplexer leaves the muxing state.                                    *)
Contents(s) == [i \in DOMAIN s |-> Content(s[i])]
Sent == IF line \in IntactLines THEN Contents(CHOOSE s \in StreamsOn[line] : TRUE) ELSE <<>>
AllDelivered == line \in IntactLines => <>(~muxing \/ delivered = Sent)

-----------------------------------------------------------------------------
(* Noise: of three frames, a flag or a byte of the header or checksum is   *)
(* lost; or something that looks like the start of a frame and is longer   *)
(* than the ring precedes two of them.                                     *)
Triple == <<F("u", <<"p">>), F("u", <<>>), F("u", <<"F">>)>>
Whole  == LineOf(Triple)
Cut(k) == SubSeq(Whole, 1, k - 1) \o SubSeq(Whole, k + 1, Len(Whole))
LossyLines == { Cut(k) : k \in {i \in DOMAIN Whole : Whole[i] \in {"F", "a", "u", "c"}} }
Babble == <<"F">> \o [i \in 1 .. 8 |-> "p"]
NoisyLines == LossyLines \cup { Babble \o LineOf(SubSeq(Triple, 1, 2)) }
MCLines == IntactLines \cup NoisyLines
AllContents == Contents(Triple)

(* Whatever a lost byte makes the parser take for a frame, the checksum    *)
(* and the hunt for the next flag keep it from the channels: what arrives  *)
(* are frames of the peer, unchanged, in order and none of them twice.     *)
OnlySentFrames ==
  line \in NoisyLines =>
  \E at \in [DOMAIN delivered -> DOMAIN AllContents] :
    /\ \A i \in DOMAIN delivered : delivered[i] = AllContents[at[i]]
    /\ \A i, j \in DOMAIN delivered : i < j => at[i] < at[j]
=============================================================================
