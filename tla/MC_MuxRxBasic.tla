---------------------------- MODULE MC_MuxRxBasic ----------------------------
(***************************************************************************)
(* A small serial line for MuxRxBasic. F is the flag, a the address of a   *)
(* channel, u and i the control bytes of UIH and UI frames, 0, 1, 2 the    *)
(* lengths in one byte, x1 a first length byte with another one (z) to     *)
(* follow, p a payload byte. Each run of covered bytes has its checksum.   *)
(***************************************************************************)
EXTENDS MuxRxBasic, TLC

(* Checksums are bytes of their own: none is accepted for another header.  *)
FcsOf == ( <<"a", "u", "0">> :> "c0" @@ <<"a", "u", "1">> :> "c1" @@
           <<"a", "u", "2">> :> "c2" @@ <<"a", "u", "x1", "z">> :> "cx" @@
           <<"a", "i", "1", "p">> :> "ci" )
MCFcs(covered) == IF covered \in DOMAIN FcsOf THEN FcsOf[covered] ELSE "none"
MCByte == {"F", "a", "u", "i", "0", "1", "2", "x1", "z", "p"}
            \cup {FcsOf[h] : h \in DOMAIN FcsOf}

(* The length a byte stands for. F is 124, above every N1; the control     *)
(* bytes and checksums are other lengths that a shifted header may show.   *)
MCLen7(b) == CASE b \in {"1", "x1", "a", "c0"} -> 1 [] b \in {"2", "c1"} -> 2
               [] b \in {"F", "u", "i", "p"} -> 9 [] OTHER -> 0
MCMore(b) == b \in {"x1", "z"}
MCLenHigh(b) == IF b = "z" THEN 0 ELSE 9
MCN1(b) == IF b = "a" THEN 2 ELSE 1

F(control, length, payload) ==
  [address |-> "a", control |-> control, length |-> length, payload |-> payload]
Empty == F("u", <<"0">>, <<>>)
Flagged == F("u", <<"2">>, <<"F", "p">>)
MCFrames == { Empty, F("u", <<"1">>, <<"p">>), Flagged,
              F("u", <<"x1", "z">>, <<"p">>), F("i", <<"1">>, <<"p">>) }
MCStreams == { <<f, g>> : f \in MCFrames, g \in MCFrames } \cup { <<Flagged, Flagged, Empty>> }

(* Every frame the modem writes reaches extract_frames, unless the         *)
(* multiplexer leaves the muxing state.                                    *)
Contents(s) == [i \in DOMAIN s |-> Content(s[i])]
Sent == IF line \in IntactLines THEN Contents(CHOOSE s \in StreamsOn[line] : TRUE) ELSE <<>>
AllDelivered == line \in IntactLines => <>(~muxing \/ delivered = Sent)

-----------------------------------------------------------------------------
(* Noise: one byte of three frames is lost, or bytes that look like the    *)
(* starts of frames precede them.                                          *)
Triple == << F("u", <<"1">>, <<"p">>), Flagged, Empty >>
Whole == LineOf(Triple)
Cut(k) == RemoveAt(Whole, k)
CutLines == { Cut(k) : k \in DOMAIN Whole }
Babble == <<"F", "p", "p", "p", "p", "F", "p", "a", "p", "F", "a", "u", "2", "p", "F", "0">>
NoisyLines == CutLines \cup { Babble \o Encode(Triple[1]) \o Encode(Triple[2]) }
MCLines == IntactLines \cup NoisyLines

(* A lost byte, or noise, never turns into a frame the modem did not send, *)
(* a frame delivered twice or two frames in the wrong order.               *)
OnlySentFrames ==
  line \in NoisyLines =>
  \E at \in [DOMAIN delivered -> DOMAIN Triple] :
    /\ \A i \in DOMAIN delivered : delivered[i] = Content(Triple[at[i]])
    /\ \A i, j \in DOMAIN delivered : i < j => at[i] < at[j]

(* The hunt for the flag gets back in step: when the line has ended, a     *)
(* lost byte has cost its own frame and at most the one behind it.         *)
Quiescent == sent = Len(line) /\ rd = "poll" /\ as = "wait" /\ newdataready = 0
Owner(k) == IF k <= Len(Encode(Triple[1])) THEN 1
            ELSE IF k <= Len(LineOf(SubSeq(Triple, 1, 2))) THEN 2 ELSE 3
LossIsLocal ==
  \A k \in DOMAIN Whole : line = Cut(k) /\ Quiescent =>
    \A i \in DOMAIN Triple \ {Owner(k), Owner(k) + 1} :
      Content(Triple[i]) \in ToSet(delivered)
=============================================================================
