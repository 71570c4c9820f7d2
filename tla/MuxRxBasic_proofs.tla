-------------------------- MODULE MuxRxBasic_proofs --------------------------
(***************************************************************************)
(* Proofs about MuxRxBasic, for every ring size, byte set, line, frame     *)
(* length and checksum.                                                    *)
(***************************************************************************)
EXTENDS MuxRxBasic, MuxRing_proofs

(* The parser works on a copy of datacount: what it takes off the ring     *)
(* later was in the ring when it looked, and nobody else takes.            *)
VerdictInv ==
  /\ as = "parse" => local_datacount <= datacount
  /\ as \in {"drop", "take"} => verdict.take <= datacount

Inv == TypeOK /\ QueueInv /\ VerdictInv

ParserTypeOK ==
  /\ as \in AsStates
  /\ flag_found \in {0, 1} /\ depth_level \in 0 .. MaxResync
  /\ local_datacount \in 0 .. BufSize
  /\ verdict \in [take : 0 .. BufSize, frame : Seq(Byte)]
  /\ asserted \in BOOLEAN
  /\ delivered \in Seq(Seq(Byte))
  /\ dropped_count \in Nat

ParserInv == ParserTypeOK /\ VerdictInv

(* The ring and the parser have a part of Inv each, before and after a step.*)
LEMMA InvSplit == /\ Inv <=> RingInv /\ ParserInv
                  /\ Inv' <=> RingInv' /\ ParserInv'
BY DEF Inv, RingInv, TypeOK, ParserInv, ParserTypeOK

-----------------------------------------------------------------------------
(* Taking a whole frame off the ring keeps the queue.                      *)
LEMMA TakeOffInv ==
  ASSUME RingInv, NEW n \in 0 .. datacount, TakeOff(n)
  PROVE  RingInv'
<1> USE RingAssumption DEF RingInv, TakeOff
<1>0. /\ line \in Seq(Byte) /\ Len(line) \in Nat
      /\ rdbuf \in Seq(Byte) /\ Len(rdbuf) \in Nat
      /\ datacount \in 0 .. BufSize /\ readp \in Slots /\ n \in 0 .. BufSize
      /\ consumed \in Nat /\ sent \in Nat /\ sent <= Len(line)
  BY DEF RingTypeOK
<1>1. /\ Filled \in n .. BufSize /\ Filled' = Filled - n
      /\ InFlight \in Nat /\ InFlight' = InFlight
      /\ sent = consumed + datacount + InFlight
  <2>1. rd' = rd /\ rdbuf' = rdbuf /\ datacount' = datacount - n
    OBVIOUS
  <2>2. rd \in {"copy", "count"} => Len(rdbuf) > 0 /\ datacount + Len(rdbuf) <= BufSize
    BY DEF QueueInv
  <2>3. Filled \in n .. BufSize
    BY <1>0, <2>2 DEF Filled
  <2>4. Filled' = Filled - n
    BY <1>0, <2>1 DEF Filled
  <2>5. InFlight \in Nat /\ InFlight' = InFlight
    BY <1>0, <2>1 DEF InFlight
  <2>6. sent = consumed + datacount + InFlight
    BY DEF QueueInv
  <2> QED BY <2>3, <2>4, <2>5, <2>6
<1>2. readp' \in Slots
  BY <1>0, WrapInSlots
<1>3. \A k \in 0 .. Filled - n : Wrap(readp' + k) = Wrap(readp + (n + k))
  BY <1>0, <1>1, WrapAgain
<1>4. writep' = Wrap(readp' + Filled')
  BY <1>0, <1>1, <1>3 DEF QueueInv
<1>5. \A k \in 0 .. Filled' - 1 : data'[Wrap(readp' + k)] = line'[consumed' + k + 1]
  <2> SUFFICES ASSUME NEW k \in 0 .. Filled' - 1
               PROVE  data[Wrap(readp' + k)] = line[consumed + n + k + 1]
    OBVIOUS
  <2>1. n + k \in 0 .. Filled - 1 /\ Wrap(readp' + k) = Wrap(readp + (n + k))
    BY <1>0, <1>1, <1>3
  <2>2. data[Wrap(readp + (n + k))] = line[consumed + (n + k) + 1]
    BY <2>1 DEF QueueInv
  <2>3. consumed + (n + k) + 1 = consumed + n + k + 1
    BY <1>0, <1>1, <2>1
  <2> QED BY <2>1, <2>2, <2>3
<1>6. RingTypeOK'
  BY <1>0, <1>1, <1>2 DEF RingTypeOK
<1>7. rd' \in {"copy", "count"} =>
        /\ Len(rdbuf') > 0
        /\ datacount' + Len(rdbuf') <= BufSize
        /\ \A j \in 1 .. Len(rdbuf') :
             rdbuf'[j] = line'[consumed' + datacount' + j]
  <2>1. consumed' + datacount' = consumed + datacount
    BY <1>0, <1>1
  <2> QED BY <1>0, <1>1, <2>1 DEF QueueInv
<1>8. sent' = consumed' + datacount' + InFlight'
  BY <1>0, <1>1
<1> QED BY <1>4, <1>5, <1>6, <1>7, <1>8 DEF QueueInv

-----------------------------------------------------------------------------
(* What the analysis reads are bytes, and what it takes is in the ring.    *)

(* A byte that is looked at.                                               *)
LEMMA AtIsByte == RingInv => \A i \in 0 .. BufSize : At(i) \in Byte
<1> SUFFICES ASSUME RingInv, NEW i \in 0 .. BufSize PROVE At(i) \in Byte
  OBVIOUS
<1>1. readp \in Slots /\ data \in [Slots -> Byte]
  BY DEF RingInv, RingTypeOK
<1>2. Wrap(readp + i) \in Slots
  BY <1>1, WrapInSlots
<1> QED BY <1>1, <1>2 DEF At

(* A header of five bytes decodes to a length.                             *)
LEMMA HeaderTypes ==
  ASSUME RingInv, local_datacount \in 0 .. BufSize, HaveHeader
  PROVE  /\ At(0) \in Byte /\ At(1) \in Byte
         /\ LastLen \in {2, 3} /\ FrameLength \in Nat
         /\ FcsAt = LastLen + 1 + FrameLength
<1>1. 0 \in 0 .. BufSize /\ 1 \in 0 .. BufSize /\ 2 \in 0 .. BufSize /\ 3 \in 0 .. BufSize
  BY RingAssumption DEF HaveHeader
<1>2. At(0) \in Byte /\ At(1) \in Byte /\ At(2) \in Byte /\ At(3) \in Byte
  BY <1>1, AtIsByte
<1>3. LastLen \in {2, 3}
  BY DEF LastLen
<1>4. FrameLength \in Nat
  <2>1. Len7(At(2)) \in Nat /\ LenHigh(At(3)) \in Nat
    BY <1>2, BasicAssumption
  <2> QED BY <2>1 DEF FrameLength
<1> QED BY <1>2, <1>3, <1>4 DEF FcsAt

(* The payload consists of bytes.                                          *)
LEMMA PayloadBytes ==
  ASSUME RingInv, local_datacount \in 0 .. BufSize, HaveHeader, Enough
  PROVE  /\ <<At(0), At(1)>> \o Payload \in Seq(Byte)
         /\ FcsAt + 2 \in 0 .. local_datacount
<1>1. /\ At(0) \in Byte /\ At(1) \in Byte
      /\ LastLen \in {2, 3} /\ FrameLength \in Nat
      /\ FcsAt = LastLen + 1 + FrameLength
  BY HeaderTypes
<1>2. local_datacount \in Nat /\ BufSize \in Nat /\ local_datacount <= BufSize
  BY RingAssumption
<1>3. FcsAt + 2 \in 0 .. local_datacount
  BY <1>1, <1>2 DEF Enough
<1>4. ASSUME NEW i \in 1 .. FrameLength PROVE At(LastLen + i) \in Byte
  <2>1. LastLen + i \in 0 .. BufSize
    BY <1>1, <1>2, <1>3
  <2> QED BY <2>1, AtIsByte
<1>5. Payload \in [1 .. FrameLength -> Byte]
  BY <1>4 DEF Payload
<1>6. Payload \in Seq(Byte)
  BY <1>1, <1>5
<1>7. <<At(0), At(1)>> \in Seq(Byte)
  BY <1>1
<1> QED BY <1>3, <1>6, <1>7

-----------------------------------------------------------------------------
(* What the proofs need of the constants.                                  *)
LEMMA ResyncNat == MaxResync \in Nat /\ MaxResync > 0
BY BasicAssumption

(* The initial state.                                                      *)
LEMMA InitInv == Init => Inv
<1> SUFFICES ASSUME Init PROVE Inv
  OBVIOUS
<1>1. RingInv
  BY RingInitInv, BasicAssumption DEF Init
<1>2. ParserTypeOK
  <2>1. 0 \in 0 .. BufSize /\ 0 \in 0 .. MaxResync
    BY RingAssumption, ResyncNat
  <2>2. <<>> \in Seq(Byte) /\ <<>> \in Seq(Seq(Byte))
    OBVIOUS
  <2>3. NoVerdict \in [take : 0 .. BufSize, frame : Seq(Byte)]
    BY <2>1, <2>2 DEF NoVerdict
  <2> QED BY <2>1, <2>2, <2>3 DEF Init, ParserTypeOK, AsStates
<1>3. VerdictInv
  BY DEF Init, VerdictInv
<1> QED BY <1>1, <1>2, <1>3, InvSplit DEF ParserInv

(* The hunt and the copies of the counters.                                *)
LEMMA HuntInv ==
  ASSUME RingInv, ParserInv,
         FindFlag \/ FindNothing \/ FindDone \/ SkipFlag \/ SkipDone \/ CopyCounters
  PROVE  RingInv' /\ ParserInv'
<1> USE DEF ParserInv, ParserTypeOK, VerdictInv, AsStates
<1>0. datacount \in 0 .. BufSize /\ BufSize \in Nat
  BY RingAssumption DEF RingInv, RingTypeOK
<1>1. CASE FindFlag  BY <1>1, ConsumeInv DEF FindFlag
<1>2. CASE FindNothing
  BY <1>2, AssemblerInv, ResyncNat DEF FindNothing
<1>3. CASE FindDone  BY <1>3, UnchangedInv DEF FindDone, parserVars
<1>4. CASE SkipFlag  BY <1>4, ConsumeInv DEF SkipFlag, parserVars
<1>5. CASE SkipDone  BY <1>5, UnchangedInv DEF SkipDone, parserVars
<1>6. CASE CopyCounters
  BY <1>0, <1>6, UnchangedInv DEF CopyCounters, ringVars
<1> QED BY <1>1, <1>2, <1>3, <1>4, <1>5, <1>6

(* The analysis.                                                           *)
LEMMA AnalysisInv ==
  ASSUME RingInv, ParserInv, Incomplete \/ RejectLong \/ RejectDamaged \/ Accept
  PROVE  RingInv' /\ ParserInv'
<1>0. /\ datacount \in 0 .. BufSize /\ BufSize \in Nat
      /\ local_datacount \in 0 .. BufSize /\ <<>> \in Seq(Byte)
  BY RingAssumption DEF RingInv, RingTypeOK, ParserInv, ParserTypeOK
<1>1. UNCHANGED ringVars
  BY DEF Incomplete, RejectLong, RejectDamaged, Accept, Reject
<1>2. RingInv' /\ UNCHANGED datacount
  BY <1>1, UnchangedInv DEF ringVars
<1>3. ASSUME as = "parse", NEW n \in 0 .. local_datacount, Reject(n)
      PROVE  ParserInv'
  <2>1. n \in 0 .. BufSize /\ n <= datacount
    BY <1>0, <1>3 DEF ParserInv, VerdictInv
  <2>2. verdict' \in [take : 0 .. BufSize, frame : Seq(Byte)] /\ verdict'.take = n
    BY <1>0, <1>3, <2>1 DEF Reject
  <2>3. VerdictInv'
    BY <1>2, <1>3, <2>1, <2>2 DEF Reject, VerdictInv
  <2>4. ParserTypeOK'
    BY <1>3, <2>2 DEF Reject, ParserInv, ParserTypeOK, AsStates
  <2> QED BY <2>3, <2>4 DEF ParserInv
<1>4. CASE Incomplete
  BY <1>2, <1>4, ResyncNat DEF Incomplete, ParserInv, ParserTypeOK, VerdictInv, AsStates
<1>5. CASE RejectLong
  <2>1. LastLen \in 0 .. local_datacount
    BY <1>0, <1>5, HeaderTypes DEF RejectLong, HaveHeader
  <2> QED BY <1>2, <1>3, <1>5, <2>1 DEF RejectLong
<1>6. CASE RejectDamaged
  <2>1. FcsAt + 2 \in 0 .. local_datacount /\ FcsAt \in Nat
    BY <1>0, <1>6, PayloadBytes, HeaderTypes DEF RejectDamaged
  <2>2. FcsAt + 1 \in 0 .. local_datacount
    BY <1>0, <2>1
  <2> QED BY <1>2, <1>3, <1>6, <2>2 DEF RejectDamaged
<1>7. CASE Accept
  <2>1. /\ FcsAt + 2 \in 0 .. local_datacount
        /\ <<At(0), At(1)>> \o Payload \in Seq(Byte)
    BY <1>0, <1>7, PayloadBytes DEF Accept
  <2>2. FcsAt + 2 \in 0 .. BufSize /\ FcsAt + 2 <= datacount
    BY <1>0, <1>7, <2>1 DEF Accept, ParserInv, VerdictInv
  <2>3. /\ verdict' \in [take : 0 .. BufSize, frame : Seq(Byte)]
        /\ verdict'.take = FcsAt + 2
    BY <1>7, <2>1, <2>2 DEF Accept
  <2>4. VerdictInv'
    BY <1>2, <1>7, <2>2, <2>3 DEF Accept, VerdictInv
  <2>5. ParserTypeOK'
    BY <1>7, <2>3 DEF Accept, ParserInv, ParserTypeOK, AsStates
  <2> QED BY <1>2, <2>4, <2>5 DEF ParserInv
<1> QED BY <1>2, <1>4, <1>5, <1>6, <1>7

(* The frame leaves the ring.                                              *)
LEMMA TakeInv ==
  ASSUME RingInv, ParserInv, DropFrame \/ TakeFrame \/ FrameOut
  PROVE  RingInv' /\ ParserInv'
<1>0. /\ datacount \in 0 .. BufSize /\ BufSize \in Nat /\ <<>> \in Seq(Byte)
      /\ verdict.take \in 0 .. BufSize /\ verdict.frame \in Seq(Byte)
  BY RingAssumption DEF RingInv, RingTypeOK, ParserInv, ParserTypeOK
<1>1. NoVerdict \in [take : 0 .. BufSize, frame : Seq(Byte)]
  BY <1>0 DEF NoVerdict
<1>2. CASE DropFrame
  <2>1. verdict.take \in 0 .. datacount
    BY <1>0, <1>2 DEF DropFrame, ParserInv, VerdictInv
  <2>2. RingInv'
    BY <1>2, <2>1, TakeOffInv DEF DropFrame
  <2>3. depth_level' \in 0 .. MaxResync /\ asserted' \in BOOLEAN
    <3>1. depth_level \in 0 .. MaxResync /\ asserted \in BOOLEAN
      BY DEF ParserInv, ParserTypeOK
    <3>2. CASE depth_level + 1 < MaxResync
      BY <1>2, <3>1, <3>2, ResyncNat DEF DropFrame
    <3>3. CASE ~(depth_level + 1 < MaxResync)
      BY <1>2, <3>1, <3>3, ResyncNat DEF DropFrame
    <3> QED BY <3>2, <3>3
  <2>4. ParserInv'
    BY <1>0, <1>1, <1>2, <2>3 DEF DropFrame, ParserInv, ParserTypeOK, VerdictInv, AsStates
  <2> QED BY <2>2, <2>4
<1>3. CASE TakeFrame
  <2>1. verdict.take \in 0 .. datacount
    BY <1>0, <1>3 DEF TakeFrame, ParserInv, VerdictInv
  <2>2. RingInv'
    BY <1>3, <2>1, TakeOffInv DEF TakeFrame
  <2>3. Append(delivered, verdict.frame) \in Seq(Seq(Byte))
    BY <1>0 DEF ParserInv, ParserTypeOK
  <2>4. ParserInv'
    BY <1>0, <1>1, <1>3, <2>3, ResyncNat
    DEF TakeFrame, ParserInv, ParserTypeOK, VerdictInv, AsStates
  <2> QED BY <2>2, <2>4
<1>4. CASE FrameOut
  BY <1>4, AssemblerInv
  DEF FrameOut, parserVars, ParserInv, ParserTypeOK, VerdictInv, AsStates
<1> QED BY <1>2, <1>3, <1>4

(* The other thread and the wait loop: datacount does not fall while the   *)
(* parser holds a copy of it.                                              *)
LEMMA OtherInv ==
  ASSUME RingInv, ParserInv, UNCHANGED parserVars,
         Reader \/ RdSpurious \/ LeaveMuxing \/ Assembler
  PROVE  RingInv' /\ ParserInv'
<1>1. RingInv'
  BY ReadInv, CopyInv, CountInv, IdleReaderInv, AssemblerInv DEF Reader, Assembler
<1>2. /\ as' \in AsStates
      /\ as' \in {"parse", "drop", "take"} => as' = as
      /\ datacount' = datacount \/ datacount' = datacount + Len(rdbuf)
  BY DEF Reader, RdRead, RdCopy, RdCount, RdReady, RdSignal, RdFull, RdSleep,
         RdResume, RdEnd, RdSpurious, LeaveMuxing, Assembler, AsWait, AsGo,
         AsSpurious, ringVars, ParserInv, ParserTypeOK, AsStates
<1>3. /\ datacount \in Nat /\ Len(rdbuf) \in Nat
      /\ local_datacount \in Nat /\ verdict.take \in Nat
  BY RingAssumption DEF RingInv, RingTypeOK, ParserInv, ParserTypeOK
<1>4. datacount' \in Nat /\ datacount' >= datacount
  BY <1>2, <1>3
<1>5. VerdictInv'
  <2>1. local_datacount' = local_datacount /\ verdict' = verdict
    BY DEF parserVars
  <2>2. ASSUME as' = "parse" PROVE local_datacount' <= datacount'
    <3>1. as = "parse"
      BY <1>2, <2>2
    <3>2. local_datacount <= datacount
      BY <3>1 DEF ParserInv, VerdictInv
    <3> QED BY <1>3, <1>4, <2>1, <3>2
  <2>3. ASSUME as' \in {"drop", "take"} PROVE verdict'.take <= datacount'
    <3>1. as \in {"drop", "take"}
      BY <1>2, <2>3
    <3>2. verdict.take <= datacount
      BY <3>1 DEF ParserInv, VerdictInv
    <3> QED BY <1>3, <1>4, <2>1, <3>2
  <2> QED BY <2>2, <2>3 DEF VerdictInv
<1>6. ParserTypeOK'
  BY <1>2 DEF ParserInv, ParserTypeOK, parserVars
<1> QED BY <1>1, <1>5, <1>6 DEF ParserInv

(* Every step keeps Inv.                                                   *)
LEMMA NextInv == Inv /\ [Next]_vars => Inv'
<1> SUFFICES ASSUME RingInv, ParserInv, [Next]_vars PROVE RingInv' /\ ParserInv'
  BY InvSplit
<1>1. CASE Parser
  BY <1>1, HuntInv, AnalysisInv, TakeInv DEF Parser
<1>2. CASE (Reader \/ RdSpurious \/ LeaveMuxing \/ Assembler) /\ UNCHANGED parserVars
  BY <1>2, OtherInv
<1>3. CASE UNCHANGED vars
  BY <1>3, UnchangedInv
  DEF vars, parserVars, ringVars, ParserInv, ParserTypeOK, VerdictInv
<1> QED BY <1>1, <1>2, <1>3 DEF Next

(* Inv is an invariant of both threads together.                           *)
THEOREM BasicInvariance == Spec => []Inv
<1> QED BY InitInv, NextInv, PTL DEF Spec

(* Every variable keeps its type: taking a frame off the ring never makes  *)
(* datacount negative, whatever lengths the headers claim.                 *)
THEOREM BasicTypeCorrect == Spec => []TypeOK
<1>1. Inv => TypeOK
  BY DEF Inv
<1> QED BY <1>1, BasicInvariance, PTL

(* The ring is a queue although the parser works on copies of its counters.*)
THEOREM BasicRingIsQueue == Spec => []RingIsQueue
<1>1. ASSUME Inv PROVE RingIsQueue
  <2>1. RingInv
    BY <1>1, InvSplit
  <2> QED BY <2>1, PublishedIsFilled DEF RingInv, QueueInv, RingIsQueue
<1> QED BY <1>1, BasicInvariance, PTL

-----------------------------------------------------------------------------
(* No wakeup is lost.                                                      *)

(* What the assembler has not seen yet, from the analysis to the end of    *)
(* the wait: the reader still has to set newdataready, or has set it.      *)
WakeInv ==
  /\ input_sleeping = 1 => rd \in {"full", "sleep", "woken"}
  /\ NoLostWakeup
  /\ as \in {"parse", "check", "wait"} /\ datacount > local_datacount /\ newdataready = 0
       => rd = "ready"

WakeTypes == /\ datacount \in Nat /\ local_datacount \in Nat
             /\ newdataready \in {0, 1}
             /\ rd \in RdStates /\ as \in AsStates

(* What the proof about wakeups needs of the types.                        *)
LEMMA InvTypes == Inv => WakeTypes
<1>1. Inv => RingTypeOK /\ as \in AsStates /\ local_datacount \in 0 .. BufSize
  BY DEF Inv, TypeOK
<1>2. RingTypeOK => datacount \in Nat /\ newdataready \in {0, 1} /\ rd \in RdStates
  BY RingAssumption DEF RingTypeOK
<1>3. local_datacount \in 0 .. BufSize => local_datacount \in Nat
  BY RingAssumption
<1> QED BY <1>1, <1>2, <1>3 DEF WakeTypes

(* Nothing has arrived at first.                                           *)
LEMMA WakeInit == Init => WakeInv
BY DEF Init, RingInit, WakeInv, NoLostWakeup

(* Steps of the reader: after raising datacount it has yet to signal.      *)
LEMMA WakeReader ==
  ASSUME Inv, WakeInv, UNCHANGED parserVars, Reader \/ RdSpurious \/ LeaveMuxing
  PROVE  WakeInv'
<1>0. WakeTypes /\ local_datacount' = local_datacount
  BY InvTypes DEF parserVars
<1> USE DEF WakeTypes, WakeInv, NoLostWakeup, RdStates, AsStates
<1>1. CASE RdRead  BY <1>0, <1>1 DEF RdRead
<1>2. CASE RdCopy  BY <1>0, <1>2 DEF RdCopy
<1>3. CASE RdCount  BY <1>0, <1>3 DEF RdCount
<1>4. CASE RdReady  BY <1>0, <1>4 DEF RdReady
<1>5. CASE RdSignal  BY <1>0, <1>5 DEF RdSignal
<1>6. CASE RdFull  BY <1>0, <1>6 DEF RdFull
<1>7. CASE RdSleep  BY <1>0, <1>7 DEF RdSleep
<1>8. CASE RdResume
  <2>1. /\ rd \in {"full", "woken"} /\ rd' = "poll" /\ input_sleeping' = 0
        /\ UNCHANGED <<datacount, newdataready, as>>
    BY <1>8 DEF RdResume
  <2>2. ~(as \in {"parse", "check", "wait"} /\ datacount > local_datacount
           /\ newdataready = 0)
    BY <2>1
  <2>3. ~(as = "wait" /\ datacount > local_datacount)
    BY <2>1
  <2>4. input_sleeping' # 1
    BY <2>1
  <2> QED BY <1>0, <2>1, <2>2, <2>3, <2>4
<1>9. CASE RdEnd  BY <1>0, <1>9 DEF RdEnd
<1>10. CASE RdSpurious  BY <1>0, <1>10 DEF RdSpurious
<1>11. CASE LeaveMuxing  BY <1>0, <1>11 DEF LeaveMuxing
<1> QED BY <1>1, <1>2, <1>3, <1>4, <1>5, <1>6, <1>7, <1>8, <1>9, <1>10, <1>11 DEF Reader

(* Steps of the assembler: it waits only for more than it has looked at.   *)
LEMMA WakeAssembler ==
  ASSUME Inv, WakeInv, Parser \/ (Assembler /\ UNCHANGED parserVars)
  PROVE  WakeInv'
<1>0. WakeTypes
  BY InvTypes
<1> USE DEF WakeTypes, WakeInv, NoLostWakeup, RdStates, AsStates
<1>1. CASE AsWait /\ UNCHANGED parserVars
  BY <1>0, <1>1 DEF AsWait, NothingNew, ringVars, parserVars
<1>2. CASE AsGo /\ UNCHANGED parserVars
  BY <1>0, <1>2 DEF AsGo
<1>3. CASE AsSpurious /\ UNCHANGED parserVars
  BY <1>0, <1>3 DEF AsSpurious, ringVars, parserVars
<1>4. CASE FindNothing
  <2>1. datacount' = 0 /\ local_datacount' = local_datacount /\ as' = "check"
        /\ input_sleeping' = input_sleeping
    BY <1>4 DEF FindNothing, SignalReader
  <2>2. input_sleeping' = 1 => rd' \in {"full", "sleep", "woken"}
    BY <1>0, <1>4 DEF FindNothing, SignalReader
  <2> QED BY <1>0, <2>1, <2>2
<1>5. CASE Incomplete  BY <1>0, <1>5 DEF Incomplete, ringVars
<1>6. CASE CopyCounters  BY <1>0, <1>6 DEF CopyCounters, ringVars
<1>7. CASE FrameOut  BY <1>0, <1>7 DEF FrameOut, SignalReader
<1>8. ASSUME as' \notin {"parse", "check", "wait"}, UNCHANGED <<rd, input_sleeping>>
      PROVE  WakeInv'
  BY <1>0, <1>8
<1>9. CASE FindDone \/ SkipDone \/ RejectLong \/ RejectDamaged \/ Accept
  BY <1>0, <1>8, <1>9
  DEF FindDone, SkipDone, RejectLong, RejectDamaged, Reject, Accept, ringVars
<1>10. CASE FindFlag \/ SkipFlag \/ DropFrame \/ TakeFrame
  BY <1>0, <1>8, <1>10 DEF FindFlag, SkipFlag, DropFrame, TakeFrame, Consume, TakeOff
<1> QED BY <1>1, <1>2, <1>3, <1>4, <1>5, <1>6, <1>7, <1>9, <1>10 DEF Assembler, Parser

(* While bytes wait that the parser has not looked at and the assembler    *)
(* sleeps, the reader is on its way to signal it.                          *)
THEOREM BasicWakeupsAreKept == Spec => []NoLostWakeup
<1>1. Inv /\ WakeInv /\ [Next]_vars => WakeInv'
  <2> SUFFICES ASSUME Inv, WakeInv, [Next]_vars PROVE WakeInv'
    OBVIOUS
  <2>1. CASE UNCHANGED vars
    BY <2>1 DEF vars, ringVars, parserVars, WakeInv, NoLostWakeup
  <2>2. CASE Next
    BY <2>2, WakeReader, WakeAssembler DEF Next
  <2> QED BY <2>1, <2>2
<1>2. WakeInv => NoLostWakeup
  BY DEF WakeInv
<1> QED BY <1>1, <1>2, WakeInit, BasicInvariance, PTL DEF Spec

-----------------------------------------------------------------------------
(* The ring implements ByteQueue.                                          *)

(* Every step is a step of the queue, or a stutter.                        *)
LEMMA StepIsQueueStep ==
  ASSUME Inv, Inv', [Next]_vars
  PROVE  [Queue!Next]_Queue!vars
<1>0. /\ RingInv /\ RingInv' /\ datacount \in Nat
      /\ ParserTypeOK /\ VerdictInv
  BY InvSplit, RingAssumption DEF RingInv, RingTypeOK, ParserInv
<1>1. ASSUME UNCHANGED <<line, consumed, datacount>> PROVE [Queue!Next]_Queue!vars
  BY <1>0, <1>1, QueueStays
<1>2. ASSUME datacount > 0, Consume PROVE Queue!Next
  <2>1. 1 \in 1 .. datacount
    BY <1>0, <1>2
  <2>2. line' = line /\ consumed' = consumed + 1 /\ datacount' = datacount - 1
    BY <1>2 DEF Consume
  <2> QED BY <1>0, <2>1, <2>2, QueueTakes
<1>3. ASSUME NEW n \in 0 .. datacount, TakeOff(n) PROVE [Queue!Next]_Queue!vars
  <2>1. line' = line /\ consumed' = consumed + n /\ datacount' = datacount - n
    BY <1>3 DEF TakeOff
  <2>2. CASE n = 0
    <3>1. consumed \in Nat
      BY <1>0 DEF RingInv, RingTypeOK
    <3>2. UNCHANGED <<line, consumed, datacount>>
      BY <1>0, <2>1, <2>2, <3>1
    <3> QED BY <1>1, <3>2
  <2>3. CASE n > 0
    <3>1. n \in 1 .. datacount
      BY <1>0, <2>3
    <3> QED BY <1>0, <2>1, <3>1, QueueTakes
  <2> QED BY <1>0, <2>2, <2>3
<1>4. CASE UNCHANGED vars
  BY <1>1, <1>4 DEF vars, ringVars
<1>5. CASE RdCount
  BY <1>0, <1>5, QueuePuts
<1>6. CASE \/ RdRead \/ RdCopy \/ RdReady \/ RdSignal \/ RdFull \/ RdSleep
           \/ RdResume \/ RdEnd \/ RdSpurious \/ LeaveMuxing \/ AsWait \/ AsGo
           \/ AsSpurious
  BY <1>1, <1>6 DEF RdRead, RdCopy, RdReady, RdSignal, RdFull, RdSleep, RdResume, RdEnd,
     RdSpurious, LeaveMuxing, AsWait, AsGo, AsSpurious, ringVars
<1>7. CASE \/ FindNothing \/ FindDone \/ SkipDone \/ CopyCounters \/ Incomplete
           \/ RejectLong \/ RejectDamaged \/ Accept \/ FrameOut
  BY <1>1, <1>7 DEF FindNothing, FindDone, SkipDone, CopyCounters, Incomplete, RejectLong,
     RejectDamaged, Reject, Accept, FrameOut, SignalReader, ringVars
<1>8. CASE FindFlag \/ SkipFlag
  BY <1>2, <1>8 DEF FindFlag, SkipFlag
<1>9. CASE DropFrame \/ TakeFrame
  <2>1. verdict.take \in Nat /\ verdict.take <= datacount
    <3>1. verdict.take \in 0 .. BufSize
      BY <1>0 DEF ParserTypeOK
    <3>2. as \in {"drop", "take"}
      BY <1>9 DEF DropFrame, TakeFrame
    <3>3. verdict.take <= datacount
      BY <1>0, <3>2 DEF VerdictInv
    <3> QED BY <3>1, <3>3, RingAssumption
  <2>2. verdict.take \in 0 .. datacount
    BY <1>0, <2>1
  <2> QED BY <1>3, <1>9, <2>2 DEF DropFrame, TakeFrame
<1> QED BY <1>4, <1>5, <1>6, <1>7, <1>8, <1>9 DEF Next, Reader, Assembler, Parser

(* In the basic mode, where whole frames are taken off by their copied     *)
(* lengths, the ring behaves as a bounded queue as well.                   *)
THEOREM BasicRingImplementsQueue == Spec => ImplementsQueue
<1>1. Init => Queue!Init
  BY QueueInit DEF Init
<1>2. Inv /\ Inv' /\ [Next]_vars => [Queue!Next]_Queue!vars
  BY StepIsQueueStep
<1> QED BY <1>1, <1>2, BasicInvariance, PTL DEF Spec, ImplementsQueue, Queue!Spec

-----------------------------------------------------------------------------
(* What is on the line, frame by frame.                                    *)

(* A concatenation holds one sequence behind the other.                    *)
LEMMA ConcatLies ==
  ASSUME NEW x \in Seq(Byte), NEW y \in Seq(Byte)
  PROVE  /\ x \o y \in Seq(Byte) /\ Len(x \o y) = Len(x) + Len(y)
         /\ Len(x) \in Nat /\ Len(y) \in Nat
         /\ \A i \in 1 .. Len(x) : (x \o y)[i] = x[i]
         /\ \A i \in 1 .. Len(y) : (x \o y)[Len(x) + i] = y[i]
<1>1. PICK z \in Seq(Byte) : z = x \o y
  BY ConcatProperties
<1>2. Len(x) \in Nat /\ Len(y) \in Nat
  BY LenProperties
<1>3. /\ Len(z) = Len(x) + Len(y)
      /\ \A i \in 1 .. Len(x) + Len(y) : z[i] = IF i <= Len(x) THEN x[i] ELSE y[i - Len(x)]
  BY <1>1, ConcatProperties
<1>4. ASSUME NEW i \in 1 .. Len(x) PROVE z[i] = x[i]
  BY <1>2, <1>3
<1>5. ASSUME NEW i \in 1 .. Len(y) PROVE z[Len(x) + i] = y[i]
  <2>1. Len(x) + i \in 1 .. Len(x) + Len(y) /\ ~(Len(x) + i <= Len(x)) /\ Len(x) + i - Len(x) = i
    BY <1>2
  <2> QED BY <1>3, <2>1
<1> QED BY <1>1, <1>2, <1>3, <1>4, <1>5

(* Where the parts of an encoded frame lie.                                *)
LEMMA Encoded ==
  ASSUME NEW f \in Frame(Byte), Fcs(Checked(f)) \in Byte
  PROVE  LET e == Encode(f)
             h == Len(f.length)
             y == Len(f.payload)
         IN  /\ e \in Seq(Byte) /\ h \in Nat /\ y \in Nat /\ Len(e) = 5 + h + y
             /\ e[1] = FLAG /\ e[2] = f.address /\ e[3] = f.control
             /\ \A i \in 1 .. h : e[3 + i] = f.length[i]
             /\ \A i \in 1 .. y : e[3 + h + i] = f.payload[i]
             /\ e[4 + h + y] = Fcs(Checked(f)) /\ e[5 + h + y] = FLAG
<1>1. /\ f.address \in Byte /\ f.control \in Byte /\ FLAG \in Byte
      /\ f.length \in Seq(Byte) /\ f.payload \in Seq(Byte)
  BY BasicAssumption DEF Frame
<1>2. PICK l \in Seq(Byte) : l = f.length
  BY <1>1
<1>3. PICK p \in Seq(Byte) : p = f.payload
  BY <1>1
<1>4. PICK h \in Nat : h = Len(l)
  BY LenProperties
<1>5. PICK y \in Nat : y = Len(p)
  BY LenProperties
<1>6. PICK a \in Seq(Byte) : a = <<FLAG>> /\ Len(a) = 1 /\ a[1] = FLAG
  <2>1. <<FLAG>> \in Seq(Byte)
    BY <1>1
  <2> QED BY <2>1
<1>7. PICK c \in Seq(Byte) : c = <<Fcs(Checked(f))>> /\ Len(c) = 1 /\ c[1] = Fcs(Checked(f))
  <2>1. <<Fcs(Checked(f))>> \in Seq(Byte)
    OBVIOUS
  <2> QED BY <2>1
<1>8. PICK b \in Seq(Byte) : b = <<f.address, f.control>> /\ Len(b) = 2
                            /\ b[1] = f.address /\ b[2] = f.control
  <2>1. <<f.address, f.control>> \in Seq(Byte)
    BY <1>1
  <2> QED BY <2>1
<1>9. PICK bl \in Seq(Byte) :
        /\ bl = b \o l /\ Len(bl) = 2 + h /\ bl[1] = f.address /\ bl[2] = f.control
        /\ \A i \in 1 .. h : bl[2 + i] = l[i]
  <2>1. PICK bl \in Seq(Byte) : /\ bl = b \o l /\ Len(bl) = 2 + h
                                /\ \A i \in 1 .. 2 : bl[i] = b[i]
                                /\ \A i \in 1 .. h : bl[2 + i] = l[i]
    <3>1. PICK bl : bl = b \o l
      OBVIOUS
    <3>2. /\ bl \in Seq(Byte) /\ Len(bl) = Len(b) + Len(l)
          /\ \A i \in 1 .. Len(b) : bl[i] = b[i]
          /\ \A i \in 1 .. Len(l) : bl[Len(b) + i] = l[i]
      BY <3>1, ConcatLies
    <3> QED BY <1>4, <1>8, <3>1, <3>2
  <2>2. bl[1] = f.address /\ bl[2] = f.control
    BY <1>8, <2>1
  <2> QED BY <2>1, <2>2
<1>10. PICK g \in Seq(Byte) :
         /\ g = a \o bl /\ Len(g) = 3 + h /\ g[1] = FLAG /\ g[2] = f.address /\ g[3] = f.control
         /\ \A i \in 1 .. h : g[3 + i] = l[i]
  <2>1. PICK g \in Seq(Byte) : /\ g = a \o bl /\ Len(g) = 1 + (2 + h)
                               /\ \A i \in 1 .. 1 : g[i] = a[i]
                               /\ \A i \in 1 .. 2 + h : g[1 + i] = bl[i]
    <3>1. PICK g : g = a \o bl
      OBVIOUS
    <3>2. /\ g \in Seq(Byte) /\ Len(g) = Len(a) + Len(bl)
          /\ \A i \in 1 .. Len(a) : g[i] = a[i]
          /\ \A i \in 1 .. Len(bl) : g[Len(a) + i] = bl[i]
      BY <3>1, ConcatLies
    <3>3. Len(a) = 1 /\ Len(bl) = 2 + h
      BY <1>6, <1>9
    <3>4. /\ Len(g) = 1 + (2 + h)
          /\ \A i \in 1 .. 1 : g[i] = a[i]
          /\ \A i \in 1 .. 2 + h : g[1 + i] = bl[i]
      BY <3>2, <3>3
    <3> QED BY <3>1, <3>2, <3>4
  <2>2. g[1] = FLAG
    BY <1>6, <2>1
  <2>3. g[2] = f.address /\ g[3] = f.control
    <3>1. 1 \in 1 .. 2 + h /\ 2 \in 1 .. 2 + h /\ 1 + 1 = 2 /\ 1 + 2 = 3
      OBVIOUS
    <3> QED BY <1>9, <2>1, <3>1
  <2>4. ASSUME NEW i \in 1 .. h PROVE g[3 + i] = l[i]
    <3>1. 2 + i \in 1 .. 2 + h /\ 1 + (2 + i) = 3 + i
      OBVIOUS
    <3> QED BY <1>9, <2>1, <3>1
  <2>5. Len(g) = 3 + h
    BY <2>1
  <2> QED BY <2>1, <2>2, <2>3, <2>4, <2>5
<1>11. PICK gp \in Seq(Byte) :
         /\ gp = g \o p /\ Len(gp) = 3 + h + y
         /\ \A i \in 1 .. 3 + h : gp[i] = g[i]
         /\ \A i \in 1 .. y : gp[3 + h + i] = p[i]
  <2>1. PICK gp : gp = g \o p
    OBVIOUS
  <2>2. /\ gp \in Seq(Byte) /\ Len(gp) = Len(g) + Len(p)
        /\ \A i \in 1 .. Len(g) : gp[i] = g[i]
        /\ \A i \in 1 .. Len(p) : gp[Len(g) + i] = p[i]
    BY <2>1, ConcatLies
  <2>3. Len(g) = 3 + h /\ Len(p) = y
    BY <1>5, <1>10
  <2>4. /\ Len(gp) = 3 + h + y
        /\ \A i \in 1 .. 3 + h : gp[i] = g[i]
        /\ \A i \in 1 .. y : gp[3 + h + i] = p[i]
    BY <2>2, <2>3
  <2> QED BY <2>1, <2>2, <2>4
<1>12. PICK gc \in Seq(Byte) :
         /\ gc = gp \o c /\ Len(gc) = 4 + h + y
         /\ \A i \in 1 .. 3 + h + y : gc[i] = gp[i]
         /\ gc[4 + h + y] = Fcs(Checked(f))
  <2>1. PICK gc \in Seq(Byte) : /\ gc = gp \o c /\ Len(gc) = 3 + h + y + 1
                                /\ \A i \in 1 .. 3 + h + y : gc[i] = gp[i]
                                /\ \A i \in 1 .. 1 : gc[3 + h + y + i] = c[i]
    <3>1. PICK gc : gc = gp \o c
      OBVIOUS
    <3>2. /\ gc \in Seq(Byte) /\ Len(gc) = Len(gp) + Len(c)
          /\ \A i \in 1 .. Len(gp) : gc[i] = gp[i]
          /\ \A i \in 1 .. Len(c) : gc[Len(gp) + i] = c[i]
      BY <3>1, ConcatLies
    <3>3. Len(gp) = 3 + h + y /\ Len(c) = 1
      BY <1>7, <1>11
    <3>4. /\ Len(gc) = 3 + h + y + 1
          /\ \A i \in 1 .. 3 + h + y : gc[i] = gp[i]
          /\ \A i \in 1 .. 1 : gc[3 + h + y + i] = c[i]
      BY <3>2, <3>3
    <3> QED BY <3>1, <3>2, <3>4
  <2>2. 1 \in 1 .. 1 /\ 3 + h + y + 1 = 4 + h + y
    OBVIOUS
  <2> QED BY <1>7, <2>1, <2>2
<1>13. PICK e \in Seq(Byte) :
         /\ e = gc \o a /\ Len(e) = 5 + h + y
         /\ \A i \in 1 .. 4 + h + y : e[i] = gc[i]
         /\ e[5 + h + y] = FLAG
  <2>1. PICK e \in Seq(Byte) : /\ e = gc \o a /\ Len(e) = 4 + h + y + 1
                               /\ \A i \in 1 .. 4 + h + y : e[i] = gc[i]
                               /\ \A i \in 1 .. 1 : e[4 + h + y + i] = a[i]
    <3>1. PICK e : e = gc \o a
      OBVIOUS
    <3>2. /\ e \in Seq(Byte) /\ Len(e) = Len(gc) + Len(a)
          /\ \A i \in 1 .. Len(gc) : e[i] = gc[i]
          /\ \A i \in 1 .. Len(a) : e[Len(gc) + i] = a[i]
      BY <3>1, ConcatLies
    <3>3. Len(gc) = 4 + h + y /\ Len(a) = 1
      BY <1>6, <1>12
    <3>4. /\ Len(e) = 4 + h + y + 1
          /\ \A i \in 1 .. 4 + h + y : e[i] = gc[i]
          /\ \A i \in 1 .. 1 : e[4 + h + y + i] = a[i]
      BY <3>2, <3>3
    <3> QED BY <3>1, <3>2, <3>4
  <2>2. 1 \in 1 .. 1 /\ 4 + h + y + 1 = 5 + h + y
    OBVIOUS
  <2> QED BY <1>6, <2>1, <2>2
<1>14. e = Encode(f)
  BY <1>2, <1>3, <1>6, <1>7, <1>8, <1>9, <1>10, <1>11, <1>12, <1>13 DEF Encode, Header
<1>15. ASSUME NEW i \in 1 .. 3 + h PROVE e[i] = g[i]
  <2>1. i \in 1 .. 3 + h + y /\ i \in 1 .. 4 + h + y
    OBVIOUS
  <2> QED BY <1>11, <1>12, <1>13, <2>1
<1>16. e[1] = FLAG /\ e[2] = f.address /\ e[3] = f.control
  <2>1. 1 \in 1 .. 3 + h /\ 2 \in 1 .. 3 + h /\ 3 \in 1 .. 3 + h
    OBVIOUS
  <2> QED BY <1>10, <1>15, <2>1
<1>17. ASSUME NEW i \in 1 .. h PROVE e[3 + i] = l[i]
  <2>1. 3 + i \in 1 .. 3 + h
    OBVIOUS
  <2> QED BY <1>10, <1>15, <2>1
<1>18. ASSUME NEW i \in 1 .. y PROVE e[3 + h + i] = p[i]
  <2>1. 3 + h + i \in 1 .. 3 + h + y /\ 3 + h + i \in 1 .. 4 + h + y
    OBVIOUS
  <2> QED BY <1>11, <1>12, <1>13, <2>1
<1>19. e[4 + h + y] = Fcs(Checked(f))
  <2>1. 4 + h + y \in 1 .. 4 + h + y
    OBVIOUS
  <2> QED BY <1>12, <1>13, <2>1
<1>20. Len(f.length) = h /\ Len(f.payload) = y
  BY <1>2, <1>3, <1>4, <1>5
<1> QED BY <1>2, <1>3, <1>13, <1>14, <1>16, <1>17, <1>18, <1>19, <1>20

(* The frames of a stream, encoded, and where each of them starts.         *)
Encodings(s) == [i \in DOMAIN s |-> Encode(s[i])]
Start(s, k) == Len(First(Encodings(s), k))

(* A line is its encoded frames put together.                              *)
LEMMA LineParts ==
  ASSUME NEW s \in Streams
  PROVE  /\ s \in Seq(Frame(Byte)) /\ Len(s) \in Nat /\ DOMAIN s = 1 .. Len(s)
         /\ Encodings(s) \in Seq(Seq(Byte)) /\ Len(Encodings(s)) = Len(s)
         /\ \A i \in 1 .. Len(s) : /\ s[i] \in Frame(Byte) /\ Fcs(Checked(s[i])) \in Byte
                                   /\ Encodings(s)[i] = Encode(s[i])
         /\ LineOf(s) = FlattenSeq(Encodings(s))
<1>1. /\ s \in Seq(Frame(Byte)) /\ DOMAIN s = 1 .. Len(s) /\ Len(s) \in Nat
      /\ \A i \in 1 .. Len(s) : s[i] \in Frame(Byte) /\ Fcs(Checked(s[i])) \in Byte
  BY PeerAssumption, LenProperties, ElementOfSeq
<1>2. \A i \in 1 .. Len(s) : Encode(s[i]) \in Seq(Byte)
  BY <1>1, Encoded
<1>3. Encodings(s) \in Seq(Seq(Byte)) /\ Len(Encodings(s)) = Len(s)
      /\ \A i \in 1 .. Len(s) : Encodings(s)[i] = Encode(s[i])
  BY <1>1, <1>2 DEF Encodings
<1>4. LineOf(s) = FlattenSeq(Encodings(s))
  BY DEF LineOf, Encodings
<1> QED BY <1>1, <1>3, <1>4

(* The first frame starts the line, the last one ends it.                  *)
LEMMA LineEnds ==
  ASSUME NEW s \in Streams
  PROVE  Start(s, 0) = 0 /\ Start(s, Len(s)) = Len(LineOf(s))
<1>1. First(Encodings(s), 0) = <<>> /\ First(Encodings(s), Len(s)) = LineOf(s)
  BY LineParts, FirstEnds
<1> QED BY <1>1, EmptySeq DEF Start

(* Frame f lies on the line l behind its first b bytes.                    *)
LiesAt(l, b, f) ==
  /\ l[b + 1] = FLAG /\ l[b + 2] = f.address /\ l[b + 3] = f.control
  /\ \A i \in 1 .. Len(f.length) : l[b + (3 + i)] = f.length[i]
  /\ \A i \in 1 .. Len(f.payload) : l[b + (3 + Len(f.length) + i)] = f.payload[i]
  /\ l[b + (4 + Len(f.length) + Len(f.payload))] = Fcs(Checked(f))
  /\ l[b + (5 + Len(f.length) + Len(f.payload))] = FLAG

(* Every frame of a stream lies where it starts, and the next one follows. *)
LEMMA FrameLies ==
  ASSUME NEW s \in Streams, NEW k \in Nat, k < Len(s)
  PROVE  /\ s[k + 1] \in Frame(Byte) /\ Start(s, k) \in Nat
         /\ Len(s[k + 1].length) \in Nat /\ Len(s[k + 1].payload) \in Nat
         /\ Start(s, k + 1)
              = Start(s, k) + (5 + Len(s[k + 1].length) + Len(s[k + 1].payload))
         /\ LiesAt(LineOf(s), Start(s, k), s[k + 1])
<1>1. PICK f, b : f = s[k + 1] /\ b = Start(s, k)
  OBVIOUS
<1>2. PICK h, y : h = Len(f.length) /\ y = Len(f.payload)
  OBVIOUS
<1>3. PICK ss \in Seq(Seq(Byte)) :
        ss = Encodings(s) /\ k < Len(ss) /\ ss[k + 1] = Encode(f) /\ FlattenSeq(ss) = LineOf(s)
  <2>1. k + 1 \in 1 .. Len(s)
    BY LineParts
  <2> QED BY <1>1, <2>1, LineParts
<1>4. f \in Frame(Byte) /\ Fcs(Checked(f)) \in Byte
  <2>1. k + 1 \in 1 .. Len(s)
    BY LineParts
  <2> QED BY <1>1, <2>1, LineParts
<1>5. PICK e \in Seq(Byte) :
        /\ e = ss[k + 1]
        /\ h \in Nat /\ y \in Nat /\ Len(e) = 5 + h + y
        /\ e[1] = FLAG /\ e[2] = f.address /\ e[3] = f.control
        /\ \A i \in 1 .. h : e[3 + i] = f.length[i]
        /\ \A i \in 1 .. y : e[3 + h + i] = f.payload[i]
        /\ e[4 + h + y] = Fcs(Checked(f)) /\ e[5 + h + y] = FLAG
  BY <1>2, <1>3, <1>4, Encoded
<1>6. /\ b \in Nat /\ Start(s, k + 1) = b + Len(e)
      /\ \A j \in 1 .. Len(e) : LineOf(s)[b + j] = e[j]
  <2>1. /\ Len(First(ss, k)) \in Nat
        /\ Len(First(ss, k + 1)) = Len(First(ss, k)) + Len(ss[k + 1])
        /\ \A j \in 1 .. Len(ss[k + 1]) : FlattenSeq(ss)[Len(First(ss, k)) + j] = ss[k + 1][j]
    BY <1>3, PartLies
  <2>2. b = Len(First(ss, k)) /\ Start(s, k + 1) = Len(First(ss, k + 1))
    BY <1>1, <1>3 DEF Start
  <2> QED BY <1>3, <1>5, <2>1, <2>2
<1>7. /\ {1, 2, 3, 4 + h + y, 5 + h + y} \subseteq 1 .. Len(e)
      /\ \A i \in 1 .. h : 3 + i \in 1 .. Len(e)
      /\ \A i \in 1 .. y : 3 + h + i \in 1 .. Len(e)
  BY <1>5
<1>8. /\ LineOf(s)[b + 1] = FLAG
      /\ LineOf(s)[b + 2] = f.address /\ LineOf(s)[b + 3] = f.control
      /\ LineOf(s)[b + (4 + h + y)] = Fcs(Checked(f))
      /\ LineOf(s)[b + (5 + h + y)] = FLAG
  BY <1>5, <1>6, <1>7
<1>9. \A i \in 1 .. h : LineOf(s)[b + (3 + i)] = f.length[i]
  BY <1>5, <1>6, <1>7
<1>10. \A i \in 1 .. y : LineOf(s)[b + (3 + h + i)] = f.payload[i]
  BY <1>5, <1>6, <1>7
<1>11. Start(s, k + 1) = b + (5 + h + y)
  BY <1>5, <1>6
<1>12. LiesAt(LineOf(s), b, f)
  BY <1>2, <1>8, <1>9, <1>10 DEF LiesAt
<1> QED BY <1>1, <1>2, <1>4, <1>5, <1>6, <1>11, <1>12

-----------------------------------------------------------------------------
(* The parser follows the frames.                                          *)

(* The frame that the parser is at, and its bytes behind the start flag.   *)
Awaited(s) == s[Len(delivered) + 1]
Size(f) == 4 + Len(f.length) + Len(f.payload)

(* Behind the start flag of a frame: nothing else of it is taken before    *)
(* all of it is there, and then the verdict is the frame.                  *)
Behind(s) ==
  /\ as \notin {"drop", "frame"} /\ Len(delivered) < Len(s)
  /\ consumed = Start(s, Len(delivered)) + 1
  /\ as = "take" => verdict = [take |-> Size(Awaited(s)), frame |-> Content(Awaited(s))]

(* Between two frames: those before it are delivered, and their bytes are  *)
(* consumed.                                                               *)
Between(s) ==
  /\ as \in {"check", "wait", "find", "frame"}
  /\ consumed = Start(s, Len(delivered))

Parsed(s) ==
  /\ ~asserted /\ dropped_count = 0
  /\ Len(delivered) <= Len(s)
  /\ \A i \in 1 .. Len(delivered) : delivered[i] = Content(s[i])
  /\ flag_found = 0 => Between(s)
  /\ flag_found = 1 => Behind(s)

(* DeliveredInOrder is not inductive: it does not say where in which frame *)
(* the parser is, nor what a verdict holds.                                *)
FramesInv == \A s \in Streams : line = LineOf(s) => Parsed(s)

(* Between two frames the next byte is the flag of the next one.           *)
LEMMA FlagIsNext ==
  ASSUME Inv, NEW s \in Streams, line = LineOf(s), Parsed(s), flag_found = 0, datacount > 0
  PROVE  Len(delivered) < Len(s) /\ Current = FLAG
<1>1. Current = line[consumed + 1] /\ consumed < Len(line) /\ consumed \in Nat
  BY CurrentOfLine, InvSplit
<1>2. consumed = Start(s, Len(delivered)) /\ Len(delivered) <= Len(s)
  BY DEF Parsed, Between
<1>3. Len(delivered) \in Nat /\ Len(s) \in Nat
  BY LineParts, InvSplit, LenProperties DEF ParserInv, ParserTypeOK
<1>4. Len(delivered) # Len(s)
  BY <1>1, <1>2, LineEnds
<1>5. Len(delivered) < Len(s)
  BY <1>2, <1>3, <1>4
<1>6. LineOf(s)[consumed + 1] = FLAG
  <2>1. PICK k \in Nat : k = Len(delivered)
    BY <1>3
  <2>2. LineOf(s)[Start(s, k) + 1] = FLAG
    BY <1>5, <2>1, FrameLies DEF LiesAt
  <2> QED BY <1>2, <2>1, <2>2
<1> QED BY <1>1, <1>5, <1>6

(* Behind the start flag the next byte is an address, which is no flag.    *)
LEMMA AddressIsNext ==
  ASSUME Inv, NEW s \in Streams, line = LineOf(s), Parsed(s), flag_found = 1, datacount > 0
  PROVE  Current # FLAG
<1>1. Current = line[consumed + 1]
  BY CurrentOfLine, InvSplit
<1>2. PICK k \in Nat : k = Len(delivered)
  BY InvSplit, LenProperties DEF ParserInv, ParserTypeOK
<1>3. PICK b : b = Start(s, k)
  OBVIOUS
<1>4. k < Len(s) /\ consumed = b + 1
  BY <1>2, <1>3 DEF Parsed, Behind
<1>5. b \in Nat /\ LineOf(s)[b + 2] = s[k + 1].address
  BY <1>3, <1>4, FrameLies DEF LiesAt
<1>6. s[k + 1].address # FLAG
  <2>1. k + 1 \in DOMAIN s
    BY <1>4, LineParts
  <2> QED BY <2>1, PeerAssumption
<1>7. consumed + 1 = b + 2
  BY <1>4, <1>5
<1> QED BY <1>1, <1>5, <1>6, <1>7

(* What the analysis can see of the line.                                  *)
LEMMA InSight ==
  ASSUME RingInv, local_datacount \in 0 .. BufSize, local_datacount <= datacount,
         NEW b \in Nat, consumed = b + 1
  PROVE  \A i \in 0 .. local_datacount - 1 : At(i) = line[b + (2 + i)]
<1> SUFFICES ASSUME NEW i \in 0 .. local_datacount - 1 PROVE At(i) = line[b + (2 + i)]
  OBVIOUS
<1>1. datacount \in Nat /\ BufSize \in Nat
  BY RingAssumption DEF RingInv, RingTypeOK
<1>2. i \in 0 .. datacount - 1 /\ consumed + i + 1 = b + (2 + i)
  BY <1>1
<1>3. data[Wrap(readp + i)] = line[consumed + i + 1]
  BY <1>2, PublishedIsFilled
<1> QED BY <1>2, <1>3 DEF At

(* The length that the analysis works out is that of the payload, and when *)
(* all of the frame is there, it is taken for what it is.                  *)
LEMMA Analysed ==
  ASSUME RingInv, ParserInv, NEW s \in Streams, line = LineOf(s), Parsed(s),
         as = "parse", HaveHeader
  PROVE  /\ ~TooLong
         /\ Enough => /\ Sound /\ FcsAt + 2 = Size(Awaited(s))
                      /\ <<At(0), At(1)>> \o Payload = Content(Awaited(s))
<1>1. PICK k \in Nat : k = Len(delivered)
  BY LenProperties DEF ParserInv, ParserTypeOK
<1>2. PICK f, b : f = s[k + 1] /\ b = Start(s, k)
  OBVIOUS
<1>3. PICK h, y : h = Len(f.length) /\ y = Len(f.payload)
  OBVIOUS
<1>4. k < Len(s) /\ consumed = b + 1 /\ f = Awaited(s)
  <2>1. flag_found = 1
    BY DEF Parsed, Between, ParserInv, ParserTypeOK
  <2> QED BY <1>1, <1>2, <2>1 DEF Parsed, Behind, Awaited
<1>5. /\ f \in Frame(Byte) /\ b \in Nat /\ h \in Nat /\ y \in Nat
      /\ line[b + 2] = f.address /\ line[b + 3] = f.control
      /\ \A i \in 1 .. h : line[b + (3 + i)] = f.length[i]
      /\ \A i \in 1 .. y : line[b + (3 + h + i)] = f.payload[i]
      /\ line[b + (4 + h + y)] = Fcs(Checked(f))
      /\ line[b + (5 + h + y)] = FLAG
  <2>1. f \in Frame(Byte) /\ b \in Nat /\ h \in Nat /\ y \in Nat /\ LiesAt(line, b, f)
    BY <1>2, <1>3, <1>4, FrameLies
  <2> QED BY <1>3, <2>1 DEF LiesAt
<1>6. /\ h = IF More(f.length[1]) THEN 2 ELSE 1
      /\ y = Len7(f.length[1]) + (IF More(f.length[1]) THEN LenHigh(f.length[2]) ELSE 0)
      /\ y <= N1(f.address)
  <2>1. k + 1 \in DOMAIN s
    BY <1>4, LineParts
  <2> QED BY <1>2, <1>3, <2>1, PeerAssumption
<1>7. PICK n \in Nat : n = local_datacount /\ n >= 5
  BY RingAssumption DEF HaveHeader, ParserInv, ParserTypeOK
<1>8. \A i \in 0 .. n - 1 : At(i) = line[b + (2 + i)]
  <2>1. local_datacount \in 0 .. BufSize /\ local_datacount <= datacount
    BY DEF ParserInv, ParserTypeOK, VerdictInv
  <2> QED BY <1>4, <1>5, <1>7, <2>1, InSight
<1>9. At(0) = f.address /\ At(1) = f.control /\ At(2) = f.length[1]
      /\ (h = 2 => At(3) = f.length[2])
  <2>1. /\ At(0) = line[b + (2 + 0)] /\ At(1) = line[b + (2 + 1)]
        /\ At(2) = line[b + (2 + 2)] /\ At(3) = line[b + (2 + 3)]
    <3>1. 0 \in 0 .. n - 1 /\ 1 \in 0 .. n - 1 /\ 2 \in 0 .. n - 1 /\ 3 \in 0 .. n - 1
      BY <1>7
    <3> QED BY <1>8, <3>1
  <2>2. 1 \in 1 .. h /\ (h = 2 => 2 \in 1 .. h)
    BY <1>6
  <2>3. line[b + (3 + 1)] = f.length[1] /\ (h = 2 => line[b + (3 + 2)] = f.length[2])
    BY <1>5, <2>2
  <2> QED BY <1>5, <2>1, <2>3
<1>10. LastLen = h + 1
  BY <1>6, <1>9 DEF LastLen
<1>11. FrameLength = y
  BY <1>6, <1>9 DEF FrameLength
<1>12. FcsAt = h + 2 + y
  BY <1>5, <1>10, <1>11 DEF FcsAt
<1>13. ~TooLong
  <2>1. N1(f.address) \in Nat
    BY <1>5, BasicAssumption DEF Frame
  <2> QED BY <1>5, <1>6, <1>9, <1>11, <2>1 DEF TooLong
<1>14. ASSUME Enough
       PROVE  /\ Sound /\ FcsAt + 2 = Size(f)
              /\ <<At(0), At(1)>> \o Payload = Content(f)
  <2>1. n >= h + y + 4
    BY <1>5, <1>7, <1>10, <1>11, <1>14 DEF Enough
  <2>2. f.payload \in Seq(Byte) /\ f.length \in Seq(Byte) /\ f.address \in Byte /\ f.control \in Byte
    BY <1>5 DEF Frame
  <2>3. Payload = f.payload
    <3>1. ASSUME NEW i \in 1 .. y PROVE At(LastLen + i) = f.payload[i]
      <4>1. h + 1 + i \in 0 .. n - 1 /\ LastLen + i = h + 1 + i
            /\ b + (2 + (h + 1 + i)) = b + (3 + h + i)
        BY <1>5, <1>10, <2>1
      <4>2. At(h + 1 + i) = line[b + (3 + h + i)]
        BY <1>8, <4>1
      <4> QED BY <1>5, <4>1, <4>2
    <3>2. Payload = [i \in 1 .. y |-> f.payload[i]]
      BY <1>11, <3>1 DEF Payload
    <3>3. f.payload = [i \in 1 .. y |-> f.payload[i]]
      BY <1>3, <2>2
    <3> QED BY <3>2, <3>3
  <2>4. [i \in 1 .. LastLen + 1 |-> At(i - 1)] = Header(f)
    <3>1. PICK l \in Seq(Byte) : l = f.length /\ Len(l) = h
      BY <1>3, <2>2
    <3>2. PICK a \in Seq(Byte) : a = <<f.address, f.control>> /\ Len(a) = 2
                                /\ a[1] = f.address /\ a[2] = f.control
      <4>1. <<f.address, f.control>> \in Seq(Byte)
        BY <2>2
      <4> QED BY <4>1
    <3>3. PICK g \in Seq(Byte) : g = a \o l
      BY ConcatProperties
    <3>4. /\ Len(g) = 2 + h
          /\ \A i \in 1 .. 2 : g[i] = a[i]
          /\ \A i \in 1 .. h : g[2 + i] = l[i]
      BY <3>1, <3>2, <3>3, ConcatLies
    <3>5. g = Header(f)
      BY <3>1, <3>2, <3>3 DEF Header
    <3>6. g = [i \in 1 .. 2 + h |-> g[i]]
      BY <3>4
    <3>7. ASSUME NEW i \in 1 .. 2 + h PROVE At(i - 1) = g[i]
      <4>1. CASE i = 1
        BY <1>9, <3>2, <3>4, <4>1
      <4>2. CASE i = 2
        BY <1>9, <3>2, <3>4, <4>2
      <4>3. CASE i > 2
        <5>1. PICK j \in 1 .. h : i = 2 + j
          <6>1. i - 2 \in 1 .. h /\ i = 2 + (i - 2)
            BY <1>5, <4>3
          <6> QED BY <6>1
        <5>2. g[i] = f.length[j]
          BY <3>1, <3>4, <5>1
        <5>3. i - 1 \in 0 .. n - 1 /\ b + (2 + (i - 1)) = b + (3 + j)
          BY <1>5, <2>1, <5>1
        <5>4. At(i - 1) = line[b + (3 + j)]
          BY <1>8, <5>3
        <5> QED BY <1>5, <5>2, <5>4
      <4> QED BY <1>5, <4>1, <4>2, <4>3
    <3>8. LastLen + 1 = 2 + h
      BY <1>5, <1>10
    <3> QED BY <3>5, <3>6, <3>7, <3>8
  <2>5. Covered = Checked(f)
    BY <1>9, <2>3, <2>4 DEF Covered, Checked
  <2>6. At(FcsAt) = Fcs(Checked(f)) /\ At(FcsAt + 1) = FLAG
    <3>1. /\ FcsAt \in 0 .. n - 1 /\ b + (2 + FcsAt) = b + (4 + h + y)
          /\ FcsAt + 1 \in 0 .. n - 1 /\ b + (2 + (FcsAt + 1)) = b + (5 + h + y)
      BY <1>5, <1>12, <2>1
    <3>2. At(FcsAt) = line[b + (4 + h + y)] /\ At(FcsAt + 1) = line[b + (5 + h + y)]
      BY <1>8, <3>1
    <3> QED BY <1>5, <3>2
  <2>7. FcsAt + 2 = Size(f)
    <3>1. Size(f) = 4 + h + y
      BY <1>3 DEF Size
    <3> QED BY <1>5, <1>12, <3>1
  <2>8. <<At(0), At(1)>> \o Payload = Content(f)
    BY <1>9, <2>3 DEF Content
  <2> QED BY <2>5, <2>6, <2>7, <2>8 DEF Sound
<1> QED BY <1>4, <1>13, <1>14

(* A step that takes nothing and leaves the parser alone.                  *)
LEMMA FramesStay ==
  ASSUME NEW s \in Streams, Parsed(s),
         UNCHANGED <<consumed, flag_found, verdict, asserted, delivered, dropped_count>>,
         \/ as' = as \/ as' \in {"check", "wait", "find"}
         \/ flag_found = 1 /\ as' \in {"skip", "copy", "parse"}
  PROVE  Parsed(s)'
<1>1. /\ consumed' = consumed /\ flag_found' = flag_found /\ verdict' = verdict
      /\ asserted' = asserted /\ delivered' = delivered /\ dropped_count' = dropped_count
  OBVIOUS
<1>2. flag_found = 0 => Between(s)'
  <2> SUFFICES ASSUME flag_found = 0 PROVE Between(s)'
    OBVIOUS
  <2>1. Between(s)
    BY DEF Parsed
  <2>2. as' \in {"check", "wait", "find", "frame"}
    <3>1. as \in {"check", "wait", "find", "frame"}
      BY <2>1 DEF Between
    <3>2. as' = as \/ as' \in {"check", "wait", "find"}
      <4>1. 0 # 1
        OBVIOUS
      <4>2. flag_found # 1
        BY <4>1, Zenon
      <4> QED BY <4>2, Zenon
    <3> QED BY <3>1, <3>2
  <2> QED BY <1>1, <2>1, <2>2 DEF Between
<1>3. flag_found = 1 => Behind(s)'
  <2> SUFFICES ASSUME flag_found = 1 PROVE Behind(s)'
    OBVIOUS
  <2>1. Behind(s)
    BY DEF Parsed
  <2>2. as' \notin {"drop", "frame"} /\ (as' = "take" => as = "take")
    BY <2>1 DEF Behind
  <2> QED BY <1>1, <2>1, <2>2 DEF Behind, Awaited
<1> QED BY <1>1, <1>2, <1>3 DEF Parsed

(* Beyond the hunt the parser is behind a start flag.                      *)
LEMMA FlagFound ==
  ASSUME ParserInv, NEW s, Parsed(s), as \notin {"check", "wait", "find", "frame"}
  PROVE  flag_found = 1 /\ Behind(s)
BY DEF Parsed, Between, ParserInv, ParserTypeOK

(* The hunt finds the start flag of the next frame and nothing to skip.    *)
LEMMA HuntParsed ==
  ASSUME Inv, NEW s \in Streams, line = LineOf(s), Parsed(s),
         FindFlag \/ FindNothing \/ FindDone \/ SkipFlag \/ SkipDone \/ CopyCounters
  PROVE  Parsed(s)'
<1>0. ParserInv
  BY InvSplit
<1>1. CASE FindFlag
  <2>1. as = "find" /\ flag_found = 0 /\ Len(delivered) < Len(s) /\ Current = FLAG
    BY <1>1, FlagIsNext DEF FindFlag
  <2>2. /\ consumed' = consumed + 1 /\ flag_found' = 1 /\ as' = "find"
        /\ UNCHANGED <<verdict, asserted, delivered, dropped_count>>
    BY <1>1, <2>1 DEF FindFlag, Consume
  <2> QED BY <2>1, <2>2 DEF Parsed, Between, Behind, Awaited
<1>2. CASE FindNothing
  BY <1>2, FramesStay DEF FindNothing, SignalReader
<1>3. CASE FindDone
  BY <1>3, FramesStay DEF FindDone, ringVars, parserVars
<1>4. CASE SkipFlag
  <2>1. flag_found = 1 /\ datacount > 0 /\ Current = FLAG
    BY <1>0, <1>4, FlagFound DEF SkipFlag
  <2> QED BY <2>1, AddressIsNext
<1>5. CASE SkipDone
  <2>1. flag_found = 1
    BY <1>0, <1>5, FlagFound DEF SkipDone
  <2> QED BY <1>5, <2>1, FramesStay DEF SkipDone, ringVars, parserVars
<1>6. CASE CopyCounters
  <2>1. flag_found = 1
    BY <1>0, <1>6, FlagFound DEF CopyCounters
  <2> QED BY <1>6, <2>1, FramesStay DEF CopyCounters, ringVars
<1> QED BY <1>1, <1>2, <1>3, <1>4, <1>5, <1>6

(* The analysis waits for the rest of the frame or accepts it.             *)
LEMMA AnalysisParsed ==
  ASSUME Inv, NEW s \in Streams, line = LineOf(s), Parsed(s),
         Incomplete \/ RejectLong \/ RejectDamaged \/ Accept
  PROVE  Parsed(s)'
<1>0. RingInv /\ ParserInv /\ as = "parse"
  BY InvSplit DEF Incomplete, RejectLong, RejectDamaged, Accept
<1>1. flag_found = 1 /\ Behind(s)
  BY <1>0, FlagFound
<1>2. CASE Incomplete
  BY <1>2, FramesStay DEF Incomplete, ringVars
<1>3. ~RejectLong /\ ~RejectDamaged
  BY <1>0, Analysed DEF RejectLong, RejectDamaged
<1>4. CASE Accept
  <2>1. verdict' = [take |-> Size(Awaited(s)), frame |-> Content(Awaited(s))]
    BY <1>0, <1>4, Analysed DEF Accept
  <2>2. /\ as' = "take"
        /\ UNCHANGED <<consumed, flag_found, asserted, delivered, dropped_count>>
    BY <1>4 DEF Accept, ringVars
  <2>3. Behind(s)'
    BY <1>1, <2>1, <2>2 DEF Behind, Awaited
  <2> QED BY <1>1, <2>2, <2>3 DEF Parsed
<1> QED BY <1>2, <1>3, <1>4

(* What is taken off the ring is the frame, up to the start of the next.   *)
LEMMA TakeParsed ==
  ASSUME Inv, NEW s \in Streams, line = LineOf(s), Parsed(s),
         DropFrame \/ TakeFrame \/ FrameOut
  PROVE  Parsed(s)'
<1>0. ParserInv /\ delivered \in Seq(Seq(Byte)) /\ verdict.frame \in Seq(Byte)
  BY InvSplit DEF ParserInv, ParserTypeOK
<1>1. ~DropFrame
  BY <1>0, FlagFound DEF DropFrame, Behind
<1>2. CASE TakeFrame
  <2>1. PICK k \in Nat : k = Len(delivered)
    BY <1>0, LenProperties
  <2>2. PICK f, b : f = s[k + 1] /\ b = Start(s, k)
    OBVIOUS
  <2>3. PICK c : c = Content(f)
    OBVIOUS
  <2>4. /\ k < Len(s) /\ consumed = b + 1
        /\ verdict = [take |-> Size(f), frame |-> c]
    BY <1>0, <1>2, <2>1, <2>2, <2>3, FlagFound DEF TakeFrame, Behind, Awaited
  <2>5. /\ consumed' = consumed + Size(f) /\ flag_found' = 0 /\ as' = "frame"
        /\ delivered' = Append(delivered, c)
        /\ UNCHANGED <<asserted, dropped_count>>
    BY <1>2, <2>4 DEF TakeFrame, TakeOff
  <2>6. /\ Len(delivered') = k + 1 /\ delivered'[k + 1] = c
        /\ \A i \in 1 .. k : delivered'[i] = delivered[i]
    <3>1. c \in Seq(Byte)
      BY <1>0, <2>4
    <3> QED BY <1>0, <2>1, <2>5, <3>1, AppendProperties
  <2>7. \A i \in 1 .. k + 1 : delivered'[i] = Content(s[i])
    <3>1. \A i \in 1 .. k : delivered[i] = Content(s[i])
      BY <2>1 DEF Parsed
    <3>2. delivered'[k + 1] = Content(s[k + 1])
      BY <2>2, <2>3, <2>6
    <3>3. \A i \in 1 .. k + 1 : i \in 1 .. k \/ i = k + 1
      OBVIOUS
    <3> QED BY <2>6, <3>1, <3>2, <3>3
  <2>8. consumed' = Start(s, k + 1)
    <3>1. PICK h, y : h = Len(f.length) /\ y = Len(f.payload)
      OBVIOUS
    <3>2. b \in Nat /\ h \in Nat /\ y \in Nat /\ Start(s, k + 1) = b + (5 + h + y)
      BY <2>2, <2>4, <3>1, FrameLies
    <3>3. Size(f) = 4 + h + y
      BY <3>1 DEF Size
    <3> QED BY <2>4, <2>5, <3>2, <3>3
  <2>9. k + 1 <= Len(s)
    BY <2>4, LineParts
  <2> QED BY <2>5, <2>6, <2>7, <2>8, <2>9 DEF Parsed, Between
<1>3. CASE FrameOut
  BY <1>3, FramesStay DEF FrameOut, SignalReader, parserVars
<1> QED BY <1>1, <1>2, <1>3

(* At the start nothing is consumed and nothing delivered.                 *)
LEMMA FramesInit == Init => FramesInv
<1> SUFFICES ASSUME Init, NEW s \in Streams, line = LineOf(s) PROVE Parsed(s)
  BY DEF FramesInv
<1>1. /\ as = "check" /\ flag_found = 0 /\ delivered = <<>> /\ dropped_count = 0
      /\ asserted = FALSE /\ consumed = 0
  BY DEF Init, RingInit
<1>2. Len(delivered) = 0 /\ Len(s) \in Nat
  BY <1>1, EmptySeq, LineParts
<1>3. Start(s, 0) = 0
  BY LineEnds
<1> QED BY <1>1, <1>2, <1>3 DEF Parsed, Between

(* Only the parser takes, and it takes frames.                             *)
LEMMA FramesNext == Inv /\ FramesInv /\ [Next]_vars => FramesInv'
<1> SUFFICES ASSUME Inv, FramesInv, [Next]_vars PROVE FramesInv'
  OBVIOUS
<1>1. line' = line
  BY DEF Next, vars, Parser, Reader, RdRead, RdCopy, RdCount, RdReady, RdSignal, RdFull, RdSleep,
         RdResume, RdEnd, RdSpurious, LeaveMuxing, Assembler, AsWait, AsGo, AsSpurious, ringVars,
         FindFlag, FindNothing, FindDone, SkipFlag, SkipDone, CopyCounters, Incomplete, RejectLong,
         RejectDamaged, Reject, Accept, DropFrame, TakeFrame, TakeOff, FrameOut, Consume, SignalReader
<1> SUFFICES ASSUME NEW s \in Streams, line = LineOf(s) PROVE Parsed(s)'
  BY <1>1 DEF FramesInv
<1>2. Parsed(s)
  BY DEF FramesInv
<1>3. CASE Parser
  BY <1>2, <1>3, HuntParsed, AnalysisParsed, TakeParsed DEF Parser
<1>4. CASE (Reader \/ RdSpurious \/ LeaveMuxing \/ Assembler) /\ UNCHANGED parserVars
  <2>1. consumed' = consumed /\ (as' = as \/ as' \in {"check", "wait", "find"})
    BY <1>4 DEF Reader, RdRead, RdCopy, RdCount, RdReady, RdSignal, RdFull, RdSleep, RdResume,
                RdEnd, RdSpurious, LeaveMuxing, Assembler, AsWait, AsGo, AsSpurious, ringVars
  <2> QED BY <1>2, <1>4, <2>1, FramesStay DEF parserVars
<1>5. CASE UNCHANGED vars
  BY <1>2, <1>5, FramesStay DEF vars, ringVars, parserVars
<1> QED BY <1>3, <1>4, <1>5 DEF Next

(* Whatever frames the modem writes, flags in their payloads included, and *)
(* however read() cuts the line: extract_frames gets them whole, in order, *)
(* none twice, none invented and none dropped, and the recursion of the    *)
(* parser never reaches its assertion.                                     *)
THEOREM BasicFramesInOrder == Spec => []DeliveredInOrder
<1>1. Inv /\ FramesInv => DeliveredInOrder
  <2> SUFFICES ASSUME Inv, FramesInv, line \in IntactLines, NEW s \in StreamsOn[line]
               PROVE  /\ ~asserted /\ dropped_count = 0 /\ Len(delivered) <= Len(s)
                      /\ \A i \in DOMAIN delivered : delivered[i] = Content(s[i])
    BY DEF DeliveredInOrder
  <2>1. s \in Streams /\ line = LineOf(s)
    BY DEF StreamsOn
  <2>2. Parsed(s)
    BY <2>1 DEF FramesInv
  <2>3. DOMAIN delivered = 1 .. Len(delivered)
    BY InvSplit, LenProperties DEF ParserInv, ParserTypeOK
  <2> QED BY <2>2, <2>3 DEF Parsed
<1>2. Init => FramesInv
  BY FramesInit
<1>3. Inv /\ FramesInv /\ [Next]_vars => FramesInv'
  BY FramesNext
<1> QED BY <1>1, <1>2, <1>3, BasicInvariance, PTL DEF Spec

-----------------------------------------------------------------------------
(* The two forms of the length field, by what they are made of.            *)
LEMMA LongField ==
  ASSUME NEW low \in Nat, NEW high \in Nat, low < 128, high < 256,
         NEW field, field = <<2 * low, high>>
  PROVE  LengthOf(field) = low + high * 128 /\ \A i \in DOMAIN field : field[i] \in 0 .. 255
<1>1. PICK k : k = 2 * low
  OBVIOUS
<1>2. k \in 0 .. 255 /\ (k % 256) \div 2 = low /\ k % 2 = 0
  BY <1>1, SMTT(60)
<1>3. field[1] = k /\ field[2] = high
  BY <1>1
<1>4. LengthOf(field) = low + high * 128
  BY <1>2, <1>3, SMTT(60) DEF LengthOf
<1>5. \A i \in DOMAIN field : i = 1 \/ i = 2
  OBVIOUS
<1> QED BY <1>2, <1>3, <1>4, <1>5

(* The short form.                                                         *)
LEMMA ShortField ==
  ASSUME NEW length \in Nat, length < 128, NEW field, field = <<1 + 2 * length>>
  PROVE  LengthOf(field) = length /\ \A i \in DOMAIN field : field[i] \in 0 .. 255
<1>1. PICK k : k = 1 + 2 * length
  OBVIOUS
<1>2. k \in 0 .. 255 /\ (k % 256) \div 2 = length /\ k % 2 = 1
  BY <1>1, SMTT(60)
<1>3. field[1] = k
  BY <1>1
<1>4. LengthOf(field) = length
  BY <1>2, <1>3, SMTT(60) DEF LengthOf
<1>5. \A i \in DOMAIN field : i = 1
  OBVIOUS
<1> QED BY <1>2, <1>3, <1>4, <1>5

(* Every length that fits into fifteen bits goes through write_frame and   *)
(* gsm0710_base_buffer_get_frame unchanged, in bytes; cmux_N1 is 1509.     *)
THEOREM LengthSurvives ==
  ASSUME NEW length \in Nat, length < 32768
  PROVE  /\ LengthOf(LengthField(length)) = length
         /\ \A i \in DOMAIN LengthField(length) : LengthField(length)[i] \in 0 .. 255
<1>1. CASE length > 127
  <2>1. PICK low, high : low = length % 128 /\ high = length \div 128
    OBVIOUS
  <2>2. low \in Nat /\ low < 128
    BY <2>1, SMTT(60)
  <2>3. high \in Nat /\ high < 256
    BY <2>1, SMTT(60)
  <2>4. length = low + high * 128
    BY <2>1, SMTT(60)
  <2>5. length % 32768 = length
    BY SMTT(60)
  <2>6. LengthField(length) = <<2 * low, high>>
    BY <1>1, <2>1, <2>5, SMTT(60) DEF LengthField
  <2> QED BY <2>2, <2>3, <2>4, <2>6, LongField, SMTT(60)
<1>2. CASE length <= 127
  <2>1. LengthField(length) = <<1 + 2 * length>>
    BY <1>2, SMTT(60) DEF LengthField
  <2>2. length < 128
    BY <1>2
  <2> QED BY <2>1, <2>2, ShortField, SMTT(60)
<1> QED BY <1>1, <1>2
=============================================================================
