---------------------------- MODULE MuxRxAdv_proofs ----------------------------
(***************************************************************************)
(* Proofs about MuxRxAdv, for every ring size, byte set and line.          *)
(***************************************************************************)
EXTENDS MuxRxAdv, MuxRing_proofs

Inv == TypeOK /\ QueueInv

(* NoLostWakeup is not inductive: the step that decides to wait looks at   *)
(* newdataready as well.                                                   *)
WakeInv ==
  /\ SleepingMeansFull
  /\ NoLostWakeup
  /\ as \in {"check", "wait"} /\ datacount > 0 /\ newdataready = 0
       => rd = "ready"

-----------------------------------------------------------------------------
(* The parser keeps the types of its variables.                            *)

ParserTypeOK ==
  /\ as \in AsStates
  /\ flag_found \in {0, 1} /\ adv_found_esc \in {0, 1}
  /\ adv_data \in Seq(Byte) /\ Len(adv_data) <= BufSize
  /\ delivered \in Seq(Seq(Byte))
  /\ dropped_count \in Nat

(* The ring and the parser have a part of Inv each, before and after a step.*)
LEMMA InvSplit == /\ Inv <=> RingInv /\ ParserTypeOK
                  /\ Inv' <=> RingInv' /\ ParserTypeOK'
BY DEF Inv, RingInv, TypeOK, ParserTypeOK

(* A fresh ring, and a parser outside of any frame.                        *)
LEMMA InitInv == Init => Inv
<1> SUFFICES ASSUME Init PROVE Inv
  OBVIOUS
<1>1. RingInv
  BY RingInitInv, AdvAssumption DEF Init
<1>2. ParserTypeOK
  BY RingAssumption DEF Init, ParserTypeOK, AsStates
<1> QED BY <1>1, <1>2, InvSplit

(* What the parser sees is a byte, escaped or not.                         *)
LEMMA CurrentIsByte == RingInv => Current \in Byte /\ Compl(Current) \in Byte
BY AdvAssumption DEF RingInv, RingTypeOK, Current

(* A parser step leaves the ring alone, consumes one byte of it or signals *)
(* the reader.                                                             *)
LEMMA ParserInv == Inv /\ Parser => Inv'
<1> SUFFICES ASSUME RingInv, ParserTypeOK, Parser PROVE RingInv' /\ ParserTypeOK'
  BY InvSplit
<1>c. Current \in Byte /\ Compl(Current) \in Byte
  BY CurrentIsByte
<1> USE DEF ParserTypeOK, AsStates
<1>1. CASE FindFlag
  <2>1. RingInv'
    BY <1>1, ConsumeInv DEF FindFlag
  <2>2. <<>> \in Seq(Byte) /\ Len(<<>>) <= BufSize
    BY RingAssumption
  <2>3. CASE Current = FLAG
    BY <1>1, <2>1, <2>2, <2>3 DEF FindFlag
  <2>4. CASE Current # FLAG
    BY <1>1, <2>1, <2>4 DEF FindFlag
  <2> QED BY <2>3, <2>4
<1>2. CASE FindNothing
  BY <1>2, UnchangedInv DEF FindNothing, parserVars
<1>3. CASE FindDone
  BY <1>3, UnchangedInv DEF FindDone, parserVars
<1>4. CASE SkipFlag
  BY <1>4, ConsumeInv DEF SkipFlag, parserVars
<1>5. CASE SkipDone
  BY <1>5, UnchangedInv DEF SkipDone, parserVars
<1>6. CASE BodyEmpty
  BY <1>6, UnchangedInv DEF BodyEmpty, parserVars
<1>7. CASE CloseShort
  BY <1>7, ConsumeInv DEF CloseShort, Closing
<1>8. CASE CloseBad
  BY <1>8, ConsumeInv DEF CloseBad, Closing
<1>9. CASE CloseGood
  BY <1>9, ConsumeInv DEF CloseGood, Closing
<1>10. CASE Overlong
  BY <1>10, UnchangedInv DEF Overlong
<1>11. CASE TakeEscaped
  BY <1>11, <1>c, ConsumeInv, RingAssumption DEF TakeEscaped, Open, Store
<1>12. CASE TakeEsc
  BY <1>12, ConsumeInv DEF TakeEsc, Open
<1>13. CASE TakePlain
  BY <1>13, <1>c, ConsumeInv, RingAssumption DEF TakePlain, Open, Store
<1>14. CASE FrameOut
  BY <1>14, AssemblerInv DEF FrameOut, parserVars
<1> QED BY <1>1, <1>2, <1>3, <1>4, <1>5, <1>6, <1>7, <1>8, <1>9, <1>10, <1>11,
           <1>12, <1>13, <1>14 DEF Parser

(* Every step keeps Inv.                                                   *)
LEMMA NextInv == Inv /\ [Next]_vars => Inv'
<1> SUFFICES ASSUME Inv, RingInv, ParserTypeOK, [Next]_vars PROVE Inv'
  BY InvSplit
<1> DEFINE Other == /\ Reader \/ RdSpurious \/ LeaveMuxing \/ Assembler
                    /\ UNCHANGED parserVars
<1>1. CASE Parser
  BY <1>1, ParserInv
<1>2. CASE Other
  <2>1. RingInv'
    BY <1>2, ReadInv, CopyInv, CountInv, IdleReaderInv, AssemblerInv DEF Reader, Assembler
  <2>2. as' \in AsStates
    BY <1>2 DEF Reader, RdRead, RdCopy, RdCount, RdReady, RdSignal, RdFull, RdSleep,
                RdResume, RdEnd, RdSpurious, LeaveMuxing, Assembler, AsWait, AsGo,
                AsSpurious, ParserTypeOK, AsStates
  <2> QED BY <1>2, <2>1, <2>2, InvSplit DEF ParserTypeOK, parserVars
<1>3. CASE UNCHANGED vars
  <2>1. RingInv'
    BY <1>3, UnchangedInv DEF vars
  <2> QED BY <1>3, <2>1, InvSplit DEF vars, ParserTypeOK, parserVars
<1> QED BY <1>1, <1>2, <1>3 DEF Next

(* Inv is an invariant of both threads together.                           *)
THEOREM Invariance == Spec => []Inv
<1> QED BY InitInv, NextInv, PTL DEF Spec

(* Every variable keeps its type: no index leaves the ring, datacount      *)
(* never goes below zero or past the ring and adv_data never past its end, *)
(* for every size of the buffers.                                          *)
THEOREM TypeCorrect == Spec => []TypeOK
<1>1. Inv => TypeOK
  BY DEF Inv
<1> QED BY <1>1, Invariance, PTL

(* The ring is a queue, without a lock around the copy.                    *)
THEOREM RingIsAlwaysQueue == Spec => []RingIsQueue
<1>1. ASSUME Inv PROVE RingIsQueue
  <2>1. RingInv
    BY <1>1 DEF Inv, TypeOK, RingInv
  <2> QED BY <2>1, PublishedIsFilled DEF RingInv, QueueInv, RingIsQueue
<1> QED BY <1>1, Invariance, PTL

-----------------------------------------------------------------------------
(* No wakeup is lost.                                                      *)

(* datacount and newdataready are those of the ring; the steps that move   *)
(* the assembler are the only ones that can make it wait.                  *)
LEMMA WakeInit == Init => WakeInv
BY DEF Init, RingInit, WakeInv, SleepingMeansFull, NoLostWakeup

WakeTypes == /\ datacount \in Nat /\ newdataready \in {0, 1}
             /\ input_sleeping \in {0, 1}
             /\ rd \in RdStates /\ as \in AsStates

(* What the proof about wakeups needs of the types.                        *)
LEMMA InvTypes == Inv => WakeTypes
<1>1. Inv => RingTypeOK /\ as \in AsStates
  BY DEF Inv, TypeOK
<1>2. RingTypeOK => datacount \in Nat
  BY RingAssumption DEF RingTypeOK
<1>3. RingTypeOK => /\ newdataready \in {0, 1} /\ input_sleeping \in {0, 1}
                    /\ rd \in RdStates
  BY DEF RingTypeOK
<1> QED BY <1>1, <1>2, <1>3 DEF WakeTypes

(* Steps of the reader: after raising datacount it has yet to signal.      *)
LEMMA WakeReader ==
  Inv /\ WakeInv /\ (Reader \/ RdSpurious \/ LeaveMuxing) => WakeInv'
<1> SUFFICES ASSUME Inv, WakeInv, Reader \/ RdSpurious \/ LeaveMuxing
             PROVE  WakeInv'
  OBVIOUS
<1>0. WakeTypes
  BY InvTypes
<1> USE DEF WakeTypes, WakeInv, SleepingMeansFull, NoLostWakeup, RdStates, AsStates
<1>1. CASE RdRead  BY <1>0, <1>1 DEF RdRead
<1>2. CASE RdCopy  BY <1>0, <1>2 DEF RdCopy
<1>3. CASE RdCount  BY <1>0, <1>3 DEF RdCount
<1>4. CASE RdReady  BY <1>0, <1>4 DEF RdReady
<1>5. CASE RdSignal  BY <1>0, <1>5 DEF RdSignal
<1>6. CASE RdFull  BY <1>0, <1>6 DEF RdFull
<1>7. CASE RdSleep  BY <1>0, <1>7 DEF RdSleep
<1>8. CASE RdResume
  <2>1. /\ rd \in {"full", "woken"} /\ rd' = "poll" /\ input_sleeping' = 0
        /\ UNCHANGED <<datacount, newdataready, as>>
    BY <1>8 DEF RdResume
  <2>2. ~(as \in {"check", "wait"} /\ datacount > 0 /\ newdataready = 0)
        /\ ~(as = "wait" /\ datacount > 0)
    BY <2>1
  <2>3. input_sleeping' # 1 /\ rd' \notin {"full", "sleep", "woken"}
    BY <2>1
  <2>4. SleepingMeansFull'
    BY <2>3
  <2> QED BY <2>1, <2>2, <2>4
<1>9. CASE RdEnd  BY <1>0, <1>9 DEF RdEnd
<1>10. CASE RdSpurious  BY <1>0, <1>10 DEF RdSpurious
<1>11. CASE LeaveMuxing  BY <1>0, <1>11 DEF LeaveMuxing
<1> QED BY <1>1, <1>2, <1>3, <1>4, <1>5, <1>6, <1>7, <1>8, <1>9, <1>10, <1>11 DEF Reader

(* Steps of the assembler: it waits only if nothing is published.          *)
LEMMA WakeAssembler == Inv /\ WakeInv /\ (Assembler \/ Parser) => WakeInv'
<1> SUFFICES ASSUME Inv, WakeInv, Assembler \/ Parser PROVE WakeInv'
  OBVIOUS
<1>0. WakeTypes
  BY InvTypes
<1> USE DEF WakeTypes, WakeInv, SleepingMeansFull, NoLostWakeup, RdStates, AsStates
<1>1. CASE AsWait  BY <1>0, <1>1 DEF AsWait, NothingNew, ringVars
<1>2. CASE AsGo  BY <1>0, <1>2 DEF AsGo
<1>3. CASE AsSpurious  BY <1>0, <1>3 DEF AsSpurious, ringVars
<1>4. CASE FindNothing  BY <1>0, <1>4 DEF FindNothing, ringVars
<1>5. CASE BodyEmpty  BY <1>0, <1>5 DEF BodyEmpty, ringVars
<1>6. CASE FrameOut  BY <1>0, <1>6 DEF FrameOut, SignalReader
<1>7. ASSUME as' \notin {"check", "wait"}, UNCHANGED <<rd, input_sleeping>>
      PROVE  WakeInv'
  BY <1>0, <1>7
<1>8. CASE FindDone \/ SkipDone \/ Overlong
  BY <1>0, <1>7, <1>8 DEF FindDone, SkipDone, Overlong, Open, ringVars
<1>9. CASE \/ FindFlag \/ SkipFlag \/ CloseShort \/ CloseBad \/ CloseGood
           \/ TakeEscaped \/ TakeEsc \/ TakePlain
  BY <1>0, <1>7, <1>9 DEF FindFlag, SkipFlag, CloseShort, CloseBad, CloseGood,
     TakeEscaped, TakeEsc, TakePlain, Closing, Open, Consume
<1> QED BY <1>1, <1>2, <1>3, <1>4, <1>5, <1>6, <1>8, <1>9 DEF Assembler, Parser

(* While bytes wait and the assembler sleeps, the reader is on its way to  *)
(* signal it; input_sleeping is up exactly while the reader is in the      *)
(* full-buffer branch.                                                     *)
THEOREM WakeupsAreKept == Spec => [](NoLostWakeup /\ SleepingMeansFull)
<1>1. Inv /\ WakeInv /\ [Next]_vars => WakeInv'
  <2> SUFFICES ASSUME Inv, WakeInv, [Next]_vars PROVE WakeInv'
    OBVIOUS
  <2>1. CASE UNCHANGED vars
    BY <2>1 DEF vars, ringVars, WakeInv, SleepingMeansFull, NoLostWakeup
  <2>2. CASE Next
    BY <2>2, WakeReader, WakeAssembler DEF Next
  <2> QED BY <2>1, <2>2
<1>2. WakeInv => NoLostWakeup /\ SleepingMeansFull
  BY DEF WakeInv
<1> QED BY <1>1, <1>2, WakeInit, Invariance, PTL DEF Spec

-----------------------------------------------------------------------------
(* The ring implements ByteQueue.                                          *)

(* Every step is a step of the queue, or a stutter.                        *)
LEMMA StepIsQueueStep ==
  ASSUME Inv, Inv', [Next]_vars
  PROVE  [Queue!Next]_Queue!vars
<1>0. RingInv /\ RingInv'
  BY InvSplit
<1>1. ASSUME UNCHANGED <<line, consumed, datacount>> PROVE [Queue!Next]_Queue!vars
  BY <1>0, <1>1, QueueStays
<1>2. ASSUME datacount > 0, Consume PROVE Queue!Next
  <2>1. datacount \in Nat /\ 1 \in 1 .. datacount
    BY <1>0, <1>2, RingAssumption DEF RingInv, RingTypeOK
  <2>2. line' = line /\ consumed' = consumed + 1 /\ datacount' = datacount - 1
    BY <1>2 DEF Consume
  <2> QED BY <1>0, <2>1, <2>2, QueueTakes
<1>3. CASE UNCHANGED vars
  BY <1>1, <1>3 DEF vars, ringVars
<1>4. CASE RdCount
  BY <1>0, <1>4, QueuePuts
<1>5. CASE \/ RdRead \/ RdCopy \/ RdReady \/ RdSignal \/ RdFull \/ RdSleep
           \/ RdResume \/ RdEnd \/ RdSpurious \/ LeaveMuxing \/ AsWait \/ AsGo
           \/ AsSpurious
  BY <1>1, <1>5 DEF RdRead, RdCopy, RdReady, RdSignal, RdFull, RdSleep, RdResume, RdEnd,
     RdSpurious, LeaveMuxing, AsWait, AsGo, AsSpurious, ringVars
<1>6. CASE FindNothing \/ FindDone \/ SkipDone \/ BodyEmpty \/ Overlong \/ FrameOut
  BY <1>1, <1>6 DEF FindNothing, FindDone, SkipDone, BodyEmpty, Overlong, FrameOut,
     SignalReader, ringVars
<1>7. CASE \/ FindFlag \/ SkipFlag \/ CloseShort \/ CloseBad \/ CloseGood
           \/ TakeEscaped \/ TakeEsc \/ TakePlain
  BY <1>2, <1>7 DEF FindFlag, SkipFlag, CloseShort, CloseBad, CloseGood, TakeEscaped,
     TakeEsc, TakePlain, Closing, Open
<1> QED BY <1>3, <1>4, <1>5, <1>6, <1>7 DEF Next, Reader, Assembler, Parser

(* In the advanced mode the ring, filled in chunks and emptied byte by     *)
(* byte without a lock around the copy, behaves as a bounded queue.        *)
THEOREM RingImplementsQueue == Spec => ImplementsQueue
<1>1. Init => Queue!Init
  BY QueueInit DEF Init
<1>2. Inv /\ Inv' /\ [Next]_vars => [Queue!Next]_Queue!vars
  BY StepIsQueueStep
<1> QED BY <1>1, <1>2, Invariance, PTL DEF Spec, ImplementsQueue, Queue!Spec

-----------------------------------------------------------------------------
(* What the modem writes: AdvEncode and LineOf, position by position.      *)

(* A character becomes one or two.                                         *)
Pieces(c) == [i \in DOMAIN c |-> Piece(c[i])]

(* Each piece is a sequence of bytes.                                      *)
LEMMA PieceType == \A b \in Byte : Piece(b) \in Seq(Byte)
<1> SUFFICES ASSUME NEW b \in Byte PROVE Piece(b) \in Seq(Byte)
  OBVIOUS
<1>1. <<ESC, Compl(b)>> \in Seq(Byte) /\ <<b>> \in Seq(Byte)
  BY AdvAssumption
<1> QED BY <1>1 DEF Piece

(* As many pieces as characters; Escape puts them together.                *)
LEMMA PiecesType ==
  ASSUME NEW c \in Seq(Byte)
  PROVE  /\ Pieces(c) \in Seq(Seq(Byte)) /\ Len(Pieces(c)) = Len(c)
         /\ \A i \in 1 .. Len(c) : Pieces(c)[i] = Piece(c[i])
         /\ Escape(c) = FlattenSeq(Pieces(c)) /\ Escape(c) \in Seq(Byte)
<1>1. DOMAIN c = 1 .. Len(c) /\ Len(c) \in Nat
  BY LenProperties
<1>2. \A i \in 1 .. Len(c) : Piece(c[i]) \in Seq(Byte)
  BY PieceType, ElementOfSeq
<1>3. Pieces(c) \in Seq(Seq(Byte)) /\ Len(Pieces(c)) = Len(c)
      /\ \A i \in 1 .. Len(c) : Pieces(c)[i] = Piece(c[i])
  BY <1>1, <1>2 DEF Pieces
<1>4. Escape(c) = FlattenSeq(Pieces(c))
  BY DEF Escape, Pieces
<1> QED BY <1>3, <1>4, FlattenType

(* Escaping the parts of a frame is escaping the frame.                    *)
LEMMA EscapeConcat ==
  ASSUME NEW x \in Seq(Byte), NEW y \in Seq(Byte)
  PROVE  Escape(x \o y) = Escape(x) \o Escape(y)
<1>1. PICK z \in Seq(Byte) : z = x \o y
  BY ConcatProperties
<1>2. Len(x) \in Nat /\ Len(y) \in Nat /\ Len(z) = Len(x) + Len(y)
      /\ \A i \in 1 .. Len(x) + Len(y) : z[i] = IF i <= Len(x) THEN x[i] ELSE y[i - Len(x)]
  BY <1>1, ConcatProperties, LenProperties
<1>3. PICK px \in Seq(Seq(Byte)) : px = Pieces(x)
  BY PiecesType
<1>4. PICK py \in Seq(Seq(Byte)) : py = Pieces(y)
  BY PiecesType
<1>5. PICK pz \in Seq(Seq(Byte)) : pz = Pieces(z)
  BY PiecesType
<1>6. /\ Len(px) = Len(x) /\ Len(py) = Len(y) /\ Len(pz) = Len(x) + Len(y)
      /\ \A i \in 1 .. Len(x) : px[i] = Piece(x[i])
      /\ \A i \in 1 .. Len(y) : py[i] = Piece(y[i])
      /\ \A i \in 1 .. Len(x) + Len(y) : pz[i] = Piece(z[i])
  BY <1>2, <1>3, <1>4, <1>5, PiecesType
<1>7. /\ px \o py \in Seq(Seq(Byte)) /\ Len(px \o py) = Len(x) + Len(y)
      /\ \A i \in 1 .. Len(x) + Len(y) :
           (px \o py)[i] = IF i <= Len(x) THEN px[i] ELSE py[i - Len(x)]
  <2>1. /\ px \o py \in Seq(Seq(Byte)) /\ Len(px \o py) = Len(px) + Len(py)
        /\ \A i \in 1 .. Len(px) + Len(py) :
             (px \o py)[i] = IF i <= Len(px) THEN px[i] ELSE py[i - Len(px)]
    BY ConcatProperties
  <2> QED BY <1>6, <2>1
<1>8. \A i \in 1 .. Len(x) + Len(y) : pz[i] = (px \o py)[i]
  <2> SUFFICES ASSUME NEW i \in 1 .. Len(x) + Len(y) PROVE pz[i] = (px \o py)[i]
    OBVIOUS
  <2>1. CASE i <= Len(x)
    <3>1. i \in 1 .. Len(x)
      BY <1>2, <2>1
    <3> QED BY <1>2, <1>6, <1>7, <2>1, <3>1
  <2>2. CASE ~ (i <= Len(x))
    <3>1. i - Len(x) \in 1 .. Len(y)
      BY <1>2, <2>2
    <3> QED BY <1>2, <1>6, <1>7, <2>2, <3>1
  <2> QED BY <2>1, <2>2
<1>9. pz = px \o py
  BY <1>6, <1>7, <1>8, SeqEqual
<1>10. FlattenSeq(pz) = FlattenSeq(px) \o FlattenSeq(py)
  BY <1>9, FlattenConcat
<1> QED BY <1>1, <1>3, <1>4, <1>5, <1>10, PiecesType

(* A character lies behind the escaped ones before it.                     *)
LEMMA EscapedAt ==
  ASSUME NEW c \in Seq(Byte), NEW m \in Nat, m < Len(c)
  PROVE  LET n == Len(Escape(SubSeq(c, 1, m)))
         IN  /\ n \in Nat
             /\ Len(Escape(SubSeq(c, 1, m + 1))) = n + Len(Piece(c[m + 1]))
             /\ n + Len(Piece(c[m + 1])) <= Len(Escape(c))
             /\ \A j \in 1 .. Len(Piece(c[m + 1])) : Escape(c)[n + j] = Piece(c[m + 1])[j]
<1>0. PICK n : n = Len(Escape(SubSeq(c, 1, m)))
  OBVIOUS
<1>1. PICK p \in Seq(Seq(Byte)) : p = Pieces(c)
  BY PiecesType
<1>2. /\ Len(p) = Len(c) /\ Len(c) \in Nat /\ \A i \in 1 .. Len(c) : p[i] = Piece(c[i])
      /\ Escape(c) = FlattenSeq(p)
  BY <1>1, PiecesType, LenProperties
<1>3. ASSUME NEW k \in 0 .. Len(c) PROVE Escape(SubSeq(c, 1, k)) = First(p, k)
  <2>1. PICK d \in Seq(Byte) : d = SubSeq(c, 1, k)
    BY FirstParts
  <2>2. Len(d) = k /\ \A i \in 1 .. k : d[i] = c[i]
    BY <2>1, FirstParts
  <2>3. PICK q \in Seq(Seq(Byte)) : q = SubSeq(p, 1, k)
    BY <1>2, FirstParts
  <2>4. Len(q) = k /\ \A i \in 1 .. k : q[i] = p[i]
    BY <1>2, <2>3, FirstParts
  <2>5. PICK r \in Seq(Seq(Byte)) : r = Pieces(d)
    BY PiecesType
  <2>6. Len(r) = k /\ \A i \in 1 .. k : r[i] = Piece(c[i])
    BY <2>2, <2>5, PiecesType
  <2>7. \A i \in 1 .. k : i \in 1 .. Len(c)
    BY <1>2
  <2>8. \A i \in 1 .. k : r[i] = q[i]
    BY <1>2, <2>4, <2>6, <2>7
  <2>9. r = q
    BY <2>4, <2>6, <2>8, SeqEqual
  <2> QED BY <2>1, <2>3, <2>5, <2>9, PiecesType DEF First
<1>4. m \in 0 .. Len(c) /\ m + 1 \in 0 .. Len(c) /\ m + 1 \in 1 .. Len(c)
  BY <1>2
<1>5. n = Len(First(p, m)) /\ Len(Escape(SubSeq(c, 1, m + 1))) = Len(First(p, m + 1))
  BY <1>0, <1>3, <1>4
<1>6. p[m + 1] = Piece(c[m + 1])
  BY <1>2, <1>4
<1>7. /\ Len(First(p, m)) \in Nat
      /\ Len(First(p, m + 1)) = Len(First(p, m)) + Len(p[m + 1])
      /\ Len(First(p, m)) + Len(p[m + 1]) <= Len(FlattenSeq(p))
      /\ \A j \in 1 .. Len(p[m + 1]) :
           FlattenSeq(p)[Len(First(p, m)) + j] = p[m + 1][j]
  BY <1>2, PartLies
<1> QED BY <1>0, <1>2, <1>5, <1>6, <1>7

(* A frame is a flag, the escaped content and a flag.                      *)
LEMMA Encoded ==
  ASSUME NEW f \in Frame(Byte)
  PROVE  /\ Content(f) \in Seq(Byte) /\ Len(Content(f)) >= 3
         /\ AdvEncode(f) = (<<FLAG>> \o Escape(Content(f))) \o <<FLAG>>
         /\ FcsOK(Content(f))
<1>1. /\ f.address \in Byte /\ f.control \in Byte /\ f.payload \in Seq(Byte)
      /\ Crc(Header(f)) \in Byte /\ FLAG \in Byte
  BY AdvAssumption, PeerAssumption DEF Frame, Header
<1>2. PICK h \in Seq(Byte) : h = Header(f) /\ Len(h) = 2 /\ h[1] = f.address /\ h[2] = f.control
  <2>1. <<f.address, f.control>> \in Seq(Byte)
    BY <1>1
  <2> QED BY <2>1 DEF Header
<1>3. PICK y \in Seq(Byte) : y = f.payload /\ Len(y) \in Nat
  BY <1>1, LenProperties
<1>4. PICK z \in Seq(Byte) : z = <<Crc(Header(f))>> /\ Len(z) = 1 /\ z[1] = Crc(Header(f))
  <2>1. <<Crc(Header(f))>> \in Seq(Byte)
    BY <1>1
  <2> QED BY <2>1
<1>5. PICK hy \in Seq(Byte) : hy = h \o y
  BY ConcatProperties
<1>6. Len(hy) = 2 + Len(y) /\ hy[1] = h[1] /\ hy[2] = h[2]
  <2>1. /\ Len(hy) = Len(h) + Len(y)
        /\ \A i \in 1 .. Len(h) + Len(y) : hy[i] = IF i <= Len(h) THEN h[i] ELSE y[i - Len(h)]
    BY <1>5, ConcatProperties
  <2>2. 1 \in 1 .. Len(h) + Len(y) /\ 2 \in 1 .. Len(h) + Len(y) /\ 1 <= Len(h) /\ 2 <= Len(h)
    BY <1>2, <1>3
  <2> QED BY <1>2, <2>1, <2>2
<1>7. PICK c \in Seq(Byte) : c = hy \o z
  BY ConcatProperties
<1>8. Len(c) = Len(y) + 3 /\ c[1] = h[1] /\ c[2] = h[2] /\ c[Len(c)] = z[1]
  BY <1>3, <1>4, <1>6, <1>7, ConcatProperties
<1>9. Content(f) = c
  BY <1>2, <1>3, <1>4, <1>5, <1>7 DEF Content
<1>10. Escape(c) = (Escape(h) \o Escape(y)) \o Escape(z)
  <2>1. Escape(c) = Escape(hy) \o Escape(z)
    BY <1>7, EscapeConcat
  <2>2. Escape(hy) = Escape(h) \o Escape(y)
    BY <1>5, EscapeConcat
  <2> QED BY <2>1, <2>2
<1>11. FcsOK(c)
  BY <1>2, <1>4, <1>8 DEF FcsOK, Header
<1>12. AdvEncode(f) = (((<<FLAG>> \o Escape(h)) \o Escape(y)) \o Escape(z)) \o <<FLAG>>
  BY <1>2, <1>3, <1>4 DEF AdvEncode
<1>13. ((<<FLAG>> \o Escape(h)) \o Escape(y)) \o Escape(z)
         = <<FLAG>> \o ((Escape(h) \o Escape(y)) \o Escape(z))
  <2>1. PICK g \in Seq(Byte) : g = <<FLAG>>
    <3>1. <<FLAG>> \in Seq(Byte)
      BY <1>1
    <3> QED BY <3>1
  <2>2. PICK p \in Seq(Byte) : p = Escape(h)
    BY PiecesType
  <2>3. PICK q \in Seq(Byte) : q = Escape(y)
    BY PiecesType
  <2>4. PICK r \in Seq(Byte) : r = Escape(z)
    BY PiecesType
  <2>5. PICK pq \in Seq(Byte) : pq = p \o q
    BY ConcatProperties
  <2>6. (g \o p) \o q = g \o pq
    <3>1. (g \o p) \o q = g \o (p \o q)
      BY SMTT(60)
    <3> QED BY <2>5, <3>1
  <2>7. (g \o pq) \o r = g \o (pq \o r)
    BY SMTT(60)
  <2> QED BY <2>1, <2>2, <2>3, <2>4, <2>5, <2>6, <2>7
<1>14. Len(c) >= 3
  BY <1>3, <1>8
<1>15. AdvEncode(f) = (<<FLAG>> \o Escape(c)) \o <<FLAG>>
  BY <1>10, <1>12, <1>13
<1> QED BY <1>9, <1>11, <1>14, <1>15

(* The frames of a stream, encoded, and where each of them starts.         *)
Encodings(s) == [i \in DOMAIN s |-> AdvEncode(s[i])]
Start(s, k) == Len(First(Encodings(s), k))

(* A line is its encoded frames put together.                              *)
LEMMA LineParts ==
  ASSUME NEW s \in Streams
  PROVE  /\ s \in Seq(Frame(Byte)) /\ Len(s) \in Nat
         /\ Encodings(s) \in Seq(Seq(Byte)) /\ Len(Encodings(s)) = Len(s)
         /\ \A i \in 1 .. Len(s) : s[i] \in Frame(Byte) /\ Encodings(s)[i] = AdvEncode(s[i])
         /\ LineOf(s) = FlattenSeq(Encodings(s))
<1>1. s \in Seq(Frame(Byte)) /\ DOMAIN s = 1 .. Len(s) /\ Len(s) \in Nat
      /\ \A i \in 1 .. Len(s) : s[i] \in Frame(Byte)
  BY PeerAssumption, LenProperties, ElementOfSeq
<1>2. ASSUME NEW f \in Frame(Byte) PROVE AdvEncode(f) \in Seq(Byte)
  <2>1. PICK a \in Seq(Byte) : a = <<FLAG>>
    <3>1. <<FLAG>> \in Seq(Byte)
      BY AdvAssumption
    <3> QED BY <3>1
  <2>2. PICK e \in Seq(Byte) : e = Escape(Content(f))
    BY Encoded, PiecesType
  <2>3. PICK ae \in Seq(Byte) : ae = a \o e
    BY ConcatProperties
  <2>4. ae \o a \in Seq(Byte)
    BY ConcatProperties
  <2> QED BY <2>1, <2>2, <2>3, <2>4, Encoded
<1>3. \A i \in 1 .. Len(s) : AdvEncode(s[i]) \in Seq(Byte)
  BY <1>1, <1>2
<1>4. Encodings(s) \in Seq(Seq(Byte)) /\ Len(Encodings(s)) = Len(s)
      /\ \A i \in 1 .. Len(s) : Encodings(s)[i] = AdvEncode(s[i])
  BY <1>1, <1>3 DEF Encodings
<1>5. LineOf(s) = FlattenSeq(Encodings(s))
  BY DEF LineOf, Encodings
<1> QED BY <1>1, <1>4, <1>5

(* The first frame starts the line, the last one ends it.                  *)
LEMMA LineEnds ==
  ASSUME NEW s \in Streams
  PROVE  Start(s, 0) = 0 /\ Start(s, Len(s)) = Len(LineOf(s))
<1>1. First(Encodings(s), 0) = <<>> /\ First(Encodings(s), Len(s)) = LineOf(s)
  BY LineParts, FirstEnds
<1> QED BY <1>1, EmptySeq DEF Start

(* Where the flags and the characters of a frame lie on the line.          *)
LEMMA FrameLies ==
  ASSUME NEW s \in Streams, NEW k \in Nat, k < Len(s)
  PROVE  LET c == Content(s[k + 1])
             n == Len(Escape(c))
             b == Start(s, k)
         IN  /\ s[k + 1] \in Frame(Byte) /\ c \in Seq(Byte) /\ n \in Nat /\ b \in Nat
             /\ Len(c) <= BufSize
             /\ Start(s, k + 1) = b + n + 2
             /\ LineOf(s)[b + 1] = FLAG /\ LineOf(s)[b + n + 2] = FLAG
             /\ \A p \in 1 .. n : LineOf(s)[b + 1 + p] = Escape(c)[p]
<1>p. PICK c, n, b : c = Content(s[k + 1]) /\ n = Len(Escape(c)) /\ b = Start(s, k)
  OBVIOUS
<1>1. /\ k + 1 \in 1 .. Len(s) /\ s[k + 1] \in Frame(Byte)
      /\ Encodings(s)[k + 1] = AdvEncode(s[k + 1])
      /\ Encodings(s) \in Seq(Seq(Byte)) /\ k < Len(Encodings(s))
      /\ LineOf(s) = FlattenSeq(Encodings(s))
  BY LineParts
<1>2. c \in Seq(Byte) /\ AdvEncode(s[k + 1]) = (<<FLAG>> \o Escape(c)) \o <<FLAG>>
  BY <1>1, <1>p, Encoded
<1>3. Len(c) <= BufSize
  <2>1. DOMAIN s = 1 .. Len(s)
    BY LineParts, LenProperties
  <2> QED BY <1>1, <1>p, <2>1, PeerAssumption
<1>4. PICK a \in Seq(Byte) : a = <<FLAG>> /\ Len(a) = 1 /\ a[1] = FLAG
  <2>1. <<FLAG>> \in Seq(Byte)
    BY AdvAssumption
  <2> QED BY <2>1
<1>5. PICK x \in Seq(Byte) : x = Escape(c) /\ Len(x) = n /\ n \in Nat
  BY <1>2, <1>p, PiecesType, LenProperties
<1>6. PICK ax \in Seq(Byte) : ax = a \o x
  BY ConcatProperties
<1>7. Len(ax) = n + 1 /\ ax[1] = FLAG /\ \A p \in 1 .. n : ax[1 + p] = x[p]
  <2>1. /\ Len(ax) = Len(a) + Len(x)
        /\ \A i \in 1 .. Len(a) + Len(x) : ax[i] = IF i <= Len(a) THEN a[i] ELSE x[i - Len(a)]
    BY <1>6, ConcatProperties
  <2> QED BY <1>4, <1>5, <2>1
<1>8. PICK e \in Seq(Byte) : e = ax \o a
  BY ConcatProperties
<1>9. Len(e) = n + 2 /\ e[1] = FLAG /\ e[n + 2] = FLAG /\ \A p \in 1 .. n : e[1 + p] = x[p]
  <2>1. /\ Len(e) = Len(ax) + Len(a)
        /\ \A i \in 1 .. Len(ax) + Len(a) : e[i] = IF i <= Len(ax) THEN ax[i] ELSE a[i - Len(ax)]
    BY <1>8, ConcatProperties
  <2> QED BY <1>4, <1>5, <1>7, <2>1
<1>10. Encodings(s)[k + 1] = e
  BY <1>1, <1>2, <1>4, <1>5, <1>6, <1>8
<1>11. /\ b \in Nat /\ Start(s, k + 1) = b + Len(e)
       /\ \A j \in 1 .. Len(e) : LineOf(s)[b + j] = e[j]
  <2>1. PICK ss \in Seq(Seq(Byte)) : ss = Encodings(s) /\ k < Len(ss)
    BY <1>1
  <2>2. /\ Len(First(ss, k)) \in Nat
        /\ Len(First(ss, k + 1)) = Len(First(ss, k)) + Len(ss[k + 1])
        /\ \A j \in 1 .. Len(ss[k + 1]) : FlattenSeq(ss)[Len(First(ss, k)) + j] = ss[k + 1][j]
    BY <2>1, PartLies
  <2>3. ss[k + 1] = e /\ FlattenSeq(ss) = LineOf(s)
        /\ b = Len(First(ss, k)) /\ Start(s, k + 1) = Len(First(ss, k + 1))
    BY <1>1, <1>10, <1>p, <2>1 DEF Start
  <2> QED BY <2>2, <2>3
<1>12. LineOf(s)[b + 1] = FLAG /\ LineOf(s)[b + n + 2] = FLAG
  <2>1. 1 \in 1 .. n + 2 /\ n + 2 \in 1 .. n + 2 /\ b + (n + 2) = b + n + 2
    BY <1>5, <1>11
  <2> QED BY <1>9, <1>11, <2>1
<1>13. \A p \in 1 .. n : LineOf(s)[b + 1 + p] = Escape(c)[p]
  <2>1. \A p \in 1 .. n : 1 + p \in 1 .. n + 2 /\ b + (1 + p) = b + 1 + p
    BY <1>5, <1>11
  <2> QED BY <1>5, <1>9, <1>11, <2>1
<1>14. Start(s, k + 1) = b + n + 2
  BY <1>5, <1>9, <1>11
<1> QED BY <1>p, <1>1, <1>2, <1>3, <1>5, <1>11, <1>12, <1>13, <1>14

-----------------------------------------------------------------------------
(* The parser follows the frames.                                          *)

(* The frame that the parser is at.                                        *)
At(s) == Content(s[Len(delivered) + 1])

(* Inside a frame: adv_data holds its first characters, and the bytes of   *)
(* these, and the escape byte of the next one, are consumed.               *)
Inside(s) ==
  /\ as # "frame" /\ Len(delivered) < Len(s)
  /\ Len(adv_data) <= Len(At(s)) /\ adv_data = SubSeq(At(s), 1, Len(adv_data))
  /\ consumed = Start(s, Len(delivered)) + 1 + Len(Escape(adv_data)) + adv_found_esc
  /\ adv_found_esc = 1 => /\ Len(adv_data) < Len(At(s))
                          /\ At(s)[Len(adv_data) + 1] \in Escaped

(* Between two frames: those before it are delivered, and their bytes are  *)
(* consumed.                                                               *)
Between(s) ==
  /\ as \notin {"skip", "body"}
  /\ consumed = Start(s, Len(delivered))

Parsed(s) ==
  /\ dropped_count = 0
  /\ Len(delivered) <= Len(s)
  /\ \A i \in 1 .. Len(delivered) : delivered[i] = Content(s[i])
  /\ as = "skip" => adv_data = <<>>
  /\ flag_found = 0 => Between(s)
  /\ flag_found = 1 => Inside(s)

(* DeliveredInOrder is not inductive: it does not say where in which frame *)
(* the parser is.                                                          *)
FramesInv == \A s \in Streams : line = LineOf(s) => Parsed(s)

(* Between two frames the next byte is the flag of the next one.           *)
LEMMA FlagIsNext ==
  ASSUME Inv, NEW s \in Streams, line = LineOf(s), Parsed(s), flag_found = 0, datacount > 0
  PROVE  Len(delivered) < Len(s) /\ Current = FLAG
<1>1. Current = line[consumed + 1] /\ consumed < Len(line) /\ consumed \in Nat
  BY CurrentOfLine, InvSplit
<1>2. consumed = Start(s, Len(delivered)) /\ Len(delivered) <= Len(s)
  BY DEF Parsed, Between
<1>3. Len(delivered) \in Nat /\ Len(s) \in Nat
  BY LineParts, InvSplit, LenProperties DEF ParserTypeOK
<1>4. Len(delivered) # Len(s)
  BY <1>1, <1>2, LineEnds
<1>5. Len(delivered) < Len(s)
  BY <1>2, <1>3, <1>4
<1>6. LineOf(s)[consumed + 1] = FLAG
  <2>1. PICK k \in Nat : k = Len(delivered)
    BY <1>3
  <2>2. LineOf(s)[Start(s, k) + 1] = FLAG
    BY <1>5, <2>1, FrameLies
  <2> QED BY <1>2, <2>1, <2>2
<1> QED BY <1>1, <1>5, <1>6

(* Inside a frame it is the closing flag, or belongs to the next character.*)
LEMMA InsideIsNext ==
  ASSUME Inv, NEW s \in Streams, line = LineOf(s), Parsed(s), flag_found = 1, datacount > 0,
         NEW c, c = At(s), NEW m, m = Len(adv_data)
  PROVE  /\ c \in Seq(Byte) /\ Len(c) \in Nat /\ 3 <= Len(c) /\ Len(c) <= BufSize
         /\ m \in Nat /\ m <= Len(c) /\ FcsOK(c) /\ adv_data = SubSeq(c, 1, m)
         /\ adv_found_esc = 0 /\ m = Len(c) =>
              Current = FLAG /\ consumed + 1 = Start(s, Len(delivered) + 1)
         /\ adv_found_esc = 0 /\ m < Len(c) /\ c[m + 1] \in Escaped => Current = ESC
         /\ adv_found_esc = 0 /\ m < Len(c) /\ c[m + 1] \notin Escaped =>
              /\ Current = c[m + 1] /\ Current \notin {FLAG, ESC}
              /\ Len(Escape(SubSeq(c, 1, m + 1))) = Len(Escape(adv_data)) + 1
         /\ adv_found_esc = 1 =>
              /\ m < Len(c) /\ Compl(Current) = c[m + 1] /\ Current # FLAG
              /\ Len(Escape(SubSeq(c, 1, m + 1))) = Len(Escape(adv_data)) + 2
<1>a. PICK k : k = Len(delivered)
  OBVIOUS
<1>b. PICK b : b = Start(s, k)
  OBVIOUS
<1>c. PICK n : n = Len(Escape(c))
  OBVIOUS
<1>d. PICK e : e = Len(Escape(adv_data))
  OBVIOUS
<1>0. k = Len(delivered) /\ b = Start(s, k) /\ n = Len(Escape(c)) /\ e = Len(Escape(adv_data))
  BY <1>a, <1>b, <1>c, <1>d
<1>1. Current = line[consumed + 1] /\ consumed \in Nat
  BY CurrentOfLine, InvSplit
<1>2. /\ k < Len(s) /\ m <= Len(c) /\ adv_data = SubSeq(c, 1, m)
      /\ consumed = b + 1 + e + adv_found_esc
      /\ adv_found_esc = 1 => m < Len(c) /\ c[m + 1] \in Escaped
  BY <1>0 DEF Parsed, Inside
<1>3. /\ k \in Nat /\ m \in Nat /\ adv_found_esc \in {0, 1} /\ adv_data \in Seq(Byte)
  BY <1>0, InvSplit, LenProperties DEF ParserTypeOK
<1>4. c = Content(s[k + 1])
  BY <1>0 DEF At
<1>5. /\ s[k + 1] \in Frame(Byte) /\ c \in Seq(Byte) /\ n \in Nat /\ b \in Nat
      /\ Len(c) <= BufSize
      /\ Start(s, k + 1) = b + n + 2
      /\ LineOf(s)[b + n + 2] = FLAG
      /\ \A p \in 1 .. n : LineOf(s)[b + 1 + p] = Escape(c)[p]
  <2>1. k \in Nat /\ k < Len(s) /\ b = Start(s, k) /\ n = Len(Escape(c))
    BY <1>0, <1>2, <1>3
  <2> QED BY <1>4, <2>1, FrameLies
<1>6. Len(c) \in Nat /\ 3 <= Len(c) /\ FcsOK(c)
  BY <1>4, <1>5, Encoded, LenProperties
<1>7. CASE m = Len(c)
  <2>1. adv_data = c /\ e = n
    BY <1>0, <1>2, <1>5, <1>7, SubSeqFull
  <2>2. adv_found_esc = 0
    BY <1>2, <1>3, <1>6, <1>7
  <2>3. consumed + 1 = b + n + 2
    BY <1>2, <1>5, <2>1, <2>2
  <2>4. Current = FLAG /\ consumed + 1 = Start(s, k + 1)
    BY <1>1, <1>5, <2>3
  <2>5. Current = FLAG /\ consumed + 1 = Start(s, Len(delivered) + 1)
    BY <1>0, <2>4
  <2> QED BY <1>2, <1>3, <1>5, <1>6, <1>7, <2>2, <2>5
<1>8. CASE m < Len(c)
  <2>1. /\ e \in Nat
        /\ Len(Escape(SubSeq(c, 1, m + 1))) = e + Len(Piece(c[m + 1]))
        /\ e + Len(Piece(c[m + 1])) <= n
        /\ \A j \in 1 .. Len(Piece(c[m + 1])) : Escape(c)[e + j] = Piece(c[m + 1])[j]
    <3>0. c \in Seq(Byte) /\ m \in Nat /\ m < Len(c)
      BY <1>3, <1>5, <1>8
    <3>1. e = Len(Escape(SubSeq(c, 1, m)))
      BY <1>0, <1>2
    <3>2. /\ e \in Nat
          /\ Len(Escape(SubSeq(c, 1, m + 1))) = e + Len(Piece(c[m + 1]))
          /\ e + Len(Piece(c[m + 1])) <= Len(Escape(c))
          /\ \A j \in 1 .. Len(Piece(c[m + 1])) : Escape(c)[e + j] = Piece(c[m + 1])[j]
      BY <3>0, <3>1, EscapedAt
    <3> QED BY <1>0, <3>2
  <2>2. ASSUME NEW j \in 1 .. Len(Piece(c[m + 1])), Len(Piece(c[m + 1])) \in Nat
        PROVE  LineOf(s)[b + 1 + e + j] = Piece(c[m + 1])[j]
    <3>1. e + j \in 1 .. n /\ b + 1 + (e + j) = b + 1 + e + j
      BY <1>5, <2>1, <2>2
    <3> QED BY <1>5, <2>1, <3>1
  <2>3. CASE c[m + 1] \in Escaped
    <3>1. /\ Len(Piece(c[m + 1])) = 2 /\ Piece(c[m + 1])[1] = ESC
          /\ Piece(c[m + 1])[2] = Compl(c[m + 1])
      BY <2>3 DEF Piece
    <3>2. LineOf(s)[b + 1 + e + 1] = ESC /\ LineOf(s)[b + 1 + e + 2] = Compl(c[m + 1])
      BY <2>2, <3>1
    <3>3. Compl(Compl(c[m + 1])) = c[m + 1] /\ Compl(c[m + 1]) # FLAG
      BY <2>3, PeerAssumption
    <3>4. CASE adv_found_esc = 0
      <4>1. consumed + 1 = b + 1 + e + 1
        BY <1>2, <1>5, <2>1, <3>4
      <4> QED BY <1>1, <1>2, <1>3, <1>5, <1>6, <1>8, <2>3, <3>2, <3>4, <4>1
    <3>5. CASE adv_found_esc = 1
      <4>1. consumed + 1 = b + 1 + e + 2
        BY <1>2, <1>5, <2>1, <3>5
      <4>2. Current = Compl(c[m + 1])
        BY <1>1, <3>2, <4>1
      <4>3. Compl(Current) = c[m + 1] /\ Current # FLAG
        BY <3>3, <4>2
      <4>4. Len(Escape(SubSeq(c, 1, m + 1))) = Len(Escape(adv_data)) + 2
        BY <1>0, <2>1, <3>1
      <4> QED BY <1>2, <1>3, <1>5, <1>6, <1>8, <3>5, <4>3, <4>4
    <3> QED BY <1>3, <3>4, <3>5
  <2>4. CASE c[m + 1] \notin Escaped
    <3>1. Len(Piece(c[m + 1])) = 1 /\ Piece(c[m + 1])[1] = c[m + 1]
      BY <2>4 DEF Piece
    <3>2. LineOf(s)[b + 1 + e + 1] = c[m + 1]
      BY <2>2, <3>1
    <3>3. adv_found_esc = 0 /\ consumed + 1 = b + 1 + e + 1
      <4>1. adv_found_esc = 0
        BY <1>2, <1>3, <2>4
      <4> QED BY <1>2, <1>5, <2>1, <4>1
    <3>4. Current = c[m + 1] /\ c[m + 1] \notin {FLAG, ESC}
      BY <1>1, <2>4, <3>2, <3>3, PeerAssumption
    <3>5. Len(Escape(SubSeq(c, 1, m + 1))) = Len(Escape(adv_data)) + 1
      BY <1>0, <2>1, <3>1
    <3>6. m # Len(c) /\ adv_found_esc # 1
      BY <1>3, <1>6, <1>8, <3>3
    <3>7. m <= Len(c)
      BY <1>2
    <3>8. m \in Nat /\ adv_data = SubSeq(c, 1, m)
      BY <1>2, <1>3
    <3> QED BY <1>5, <1>6, <2>4, <3>4, <3>5, <3>6, <3>7, <3>8, Zenon
  <2> QED BY <2>3, <2>4
<1> QED BY <1>2, <1>3, <1>6, <1>7, <1>8

(* A step that leaves the line, what is consumed and the parser alone.     *)
LEMMA FramesStay ==
  ASSUME NEW s \in Streams, Parsed(s), UNCHANGED <<consumed, parserVars>>,
         as' = as \/ as' \in {"check", "wait", "find"}
  PROVE  Parsed(s)'
BY DEF Parsed, Between, Inside, At, parserVars

(* The frame is done: the position behind it.                              *)
LEMMA CloseParsed ==
  ASSUME Inv, NEW s \in Streams, line = LineOf(s), Parsed(s), flag_found = 1,
         CloseShort \/ CloseBad \/ CloseGood
  PROVE  Parsed(s)'
<1>1. PICK c : c = At(s)
  OBVIOUS
<1>2. PICK m : m = Len(adv_data)
  OBVIOUS
<1>3. datacount > 0 /\ adv_found_esc = 0 /\ Current = FLAG
  BY DEF CloseShort, CloseBad, CloseGood, Closing
<1>4. /\ c \in Seq(Byte) /\ Len(c) \in Nat /\ 3 <= Len(c) /\ m \in Nat /\ m <= Len(c)
      /\ FcsOK(c) /\ adv_data = SubSeq(c, 1, m)
      /\ m = Len(c) => consumed + 1 = Start(s, Len(delivered) + 1)
      /\ m < Len(c) => FLAG = ESC \/ Current \notin {FLAG, ESC}
  BY <1>1, <1>2, <1>3, InsideIsNext
<1>5. m = Len(c) /\ adv_data = c
  <2>1. m = Len(c)
    BY <1>3, <1>4, AdvAssumption
  <2> QED BY <1>4, <2>1, SubSeqFull
<1>6. CloseGood
  <2>1. Len(adv_data) >= 3
    BY <1>2, <1>4, <1>5
  <2>2. ~CloseShort
    BY <1>2, <1>4, <2>1 DEF CloseShort
  <2>3. FcsOK(adv_data)
    BY <1>4, <1>5
  <2>4. ~CloseBad
    BY <2>3 DEF CloseBad
  <2> QED BY <2>2, <2>4
<1>7. /\ consumed' = consumed + 1 /\ flag_found' = 0 /\ as' = "frame"
      /\ delivered' = Append(delivered, c) /\ dropped_count' = dropped_count
  BY <1>5, <1>6 DEF CloseGood, Consume
<1>8. PICK k \in Nat : k = Len(delivered)
  BY InvSplit, LenProperties DEF ParserTypeOK
<1>9. /\ k < Len(s) /\ c = Content(s[k + 1]) /\ dropped_count = 0
      /\ \A i \in 1 .. k : delivered[i] = Content(s[i])
  BY <1>1, <1>8 DEF Parsed, Inside, At
<1>10. /\ Len(delivered') = k + 1 /\ delivered'[k + 1] = c
       /\ \A i \in 1 .. k : delivered'[i] = delivered[i]
  <2>1. delivered \in Seq(Seq(Byte))
    BY InvSplit DEF ParserTypeOK
  <2> QED BY <1>4, <1>7, <1>8, <2>1, AppendProperties
<1>11. \A i \in 1 .. k + 1 : delivered'[i] = Content(s[i])
  BY <1>9, <1>10
<1>12. consumed' = Start(s, k + 1) /\ k + 1 <= Len(s)
  <2>1. Len(s) \in Nat
    BY LineParts
  <2> QED BY <1>4, <1>5, <1>7, <1>8, <1>9, <2>1
<1> QED BY <1>7, <1>9, <1>10, <1>11, <1>12 DEF Parsed, Between, Inside

(* A character is stored: the position behind it.                          *)
LEMMA TakeParsed ==
  ASSUME Inv, NEW s \in Streams, line = LineOf(s), Parsed(s), flag_found = 1,
         TakeEscaped \/ TakeEsc \/ TakePlain
  PROVE  Parsed(s)'
<1>1. PICK c : c = At(s)
  OBVIOUS
<1>2. PICK m : m = Len(adv_data)
  OBVIOUS
<1>3. datacount > 0 /\ (adv_found_esc = 0 => Current # FLAG)
  BY DEF TakeEscaped, TakeEsc, TakePlain, Open, Closing
<1>4. /\ c \in Seq(Byte) /\ Len(c) \in Nat /\ m \in Nat /\ m <= Len(c) /\ adv_data = SubSeq(c, 1, m)
      /\ adv_found_esc = 0 /\ m = Len(c) => Current = FLAG
      /\ adv_found_esc = 0 /\ m < Len(c) /\ c[m + 1] \in Escaped => Current = ESC
      /\ adv_found_esc = 0 /\ m < Len(c) /\ c[m + 1] \notin Escaped =>
           /\ Current = c[m + 1] /\ Current \notin {FLAG, ESC}
           /\ Len(Escape(SubSeq(c, 1, m + 1))) = Len(Escape(adv_data)) + 1
      /\ adv_found_esc = 1 =>
           /\ m < Len(c) /\ Compl(Current) = c[m + 1]
           /\ Len(Escape(SubSeq(c, 1, m + 1))) = Len(Escape(adv_data)) + 2
  BY <1>1, <1>2, <1>3, InsideIsNext
<1>5. adv_found_esc \in {0, 1} /\ m < Len(c)
  <2>1. adv_found_esc \in {0, 1}
    BY InvSplit DEF ParserTypeOK
  <2> QED BY <1>3, <1>4, <2>1
<1>6. /\ dropped_count = 0 /\ Len(delivered) <= Len(s) /\ Len(delivered) < Len(s)
      /\ \A i \in 1 .. Len(delivered) : delivered[i] = Content(s[i])
      /\ as = "body" /\ consumed' = consumed + 1
      /\ UNCHANGED <<delivered, dropped_count, flag_found, as>>
  BY DEF TakeEscaped, TakeEsc, TakePlain, Open, Closing, Consume, Parsed, Inside
<1>7. PICK a \in Nat : a = Len(Escape(adv_data))
  <2>1. adv_data \in Seq(Byte)
    BY InvSplit DEF ParserTypeOK
  <2> QED BY <2>1, PiecesType, LenProperties
<1>8. PICK b \in Nat : b = Start(s, Len(delivered))
  <2>1. PICK k \in Nat : k = Len(delivered)
    BY InvSplit, LenProperties DEF ParserTypeOK
  <2>2. Start(s, k) \in Nat
    BY <1>6, <2>1, FrameLies
  <2> QED BY <2>1, <2>2
<1>9. consumed = b + 1 + a + adv_found_esc
  BY <1>7, <1>8 DEF Parsed, Inside
<1>10. At(s)' = c
  BY <1>1, <1>6 DEF At
<1>11. ASSUME adv_data' = Append(adv_data, c[m + 1]), adv_found_esc' = 0,
              b + 1 + Len(Escape(SubSeq(c, 1, m + 1))) = consumed + 1
       PROVE  Inside(s)'
  <2>1. m + 1 \in 1 .. Len(c) /\ m + 1 <= Len(c)
    BY <1>4, <1>5
  <2>2. adv_data' = SubSeq(c, 1, m + 1) /\ Len(adv_data') = m + 1
    <3>1. PICK d \in Seq(Byte) : d = adv_data /\ Len(d) = m
      BY <1>2, InvSplit DEF ParserTypeOK
    <3>2. c[m + 1] \in Byte
      BY <1>4, <2>1, ElementOfSeq
    <3>3. /\ Append(d, c[m + 1]) \in Seq(Byte) /\ Len(Append(d, c[m + 1])) = m + 1
          /\ \A i \in 1 .. m : Append(d, c[m + 1])[i] = d[i]
          /\ Append(d, c[m + 1])[m + 1] = c[m + 1]
      BY <3>1, <3>2, AppendProperties
    <3>4. \A i \in 1 .. m : d[i] = c[i]
      BY <1>4, <1>5, <3>1, FirstParts
    <3>5. PICK x \in Seq(Byte) : x = SubSeq(c, 1, m + 1) /\ Len(x) = m + 1
                                /\ \A i \in 1 .. m + 1 : x[i] = c[i]
      <4>1. m + 1 \in 0 .. Len(c)
        BY <1>4, <2>1
      <4>2. /\ SubSeq(c, 1, m + 1) \in Seq(Byte) /\ Len(SubSeq(c, 1, m + 1)) = m + 1
            /\ \A i \in 1 .. m + 1 : SubSeq(c, 1, m + 1)[i] = c[i]
        BY <1>4, <4>1, FirstParts
      <4> QED BY <4>2
    <3>6. \A i \in 1 .. m + 1 : Append(d, c[m + 1])[i] = x[i]
      BY <1>4, <3>3, <3>4, <3>5
    <3>7. Append(d, c[m + 1]) = x
      BY <3>3, <3>5, <3>6, SeqEqual
    <3> QED BY <1>11, <3>1, <3>3, <3>5, <3>7
  <2>3. consumed' = b + 1 + Len(Escape(adv_data')) + adv_found_esc'
    <3>1. Len(Escape(adv_data')) \in Nat
      BY <1>4, <2>1, <2>2, FirstParts, PiecesType, LenProperties
    <3> QED BY <1>6, <1>11, <2>2, <3>1
  <2> QED BY <1>6, <1>8, <1>10, <1>11, <2>1, <2>2, <2>3 DEF Inside
<1>12. CASE TakeEscaped
  <2>1. adv_data' = Append(adv_data, c[m + 1]) /\ adv_found_esc = 1 /\ adv_found_esc' = 0
    BY <1>4, <1>12 DEF TakeEscaped, Store
  <2>2. Len(Escape(SubSeq(c, 1, m + 1))) = a + 2
    BY <1>4, <1>7, <2>1
  <2>3. b + 1 + Len(Escape(SubSeq(c, 1, m + 1))) = consumed + 1
    BY <1>9, <2>1, <2>2
  <2> QED BY <1>6, <1>11, <2>1, <2>3 DEF Parsed
<1>13. CASE TakeEsc
  <2>1. adv_data' = adv_data /\ adv_found_esc = 0 /\ adv_found_esc' = 1 /\ Current = ESC
    BY <1>13 DEF TakeEsc
  <2>2. c[m + 1] \in Escaped
    BY <1>4, <1>5, <2>1
  <2>3. consumed' = b + 1 + Len(Escape(adv_data')) + adv_found_esc'
    BY <1>6, <1>7, <1>9, <2>1
  <2>4. Inside(s)'
    BY <1>2, <1>4, <1>5, <1>6, <1>8, <1>10, <2>1, <2>2, <2>3 DEF Inside
  <2> QED BY <1>6, <2>4 DEF Parsed
<1>14. CASE TakePlain
  <2>1. adv_data' = Append(adv_data, Current) /\ adv_found_esc = 0 /\ adv_found_esc' = 0
        /\ Current # ESC
    BY <1>14 DEF TakePlain, Store
  <2>2. Current = c[m + 1]
    BY <1>4, <1>5, <2>1
  <2>3. c[m + 1] \notin Escaped
    BY <1>4, <1>5, <2>1
  <2>4. Len(Escape(SubSeq(c, 1, m + 1))) = a + 1
    BY <1>4, <1>5, <1>7, <2>1, <2>3
  <2>5. b + 1 + Len(Escape(SubSeq(c, 1, m + 1))) = consumed + 1
    BY <1>9, <2>1, <2>4
  <2> QED BY <1>6, <1>11, <2>1, <2>2, <2>5 DEF Parsed
<1> QED BY <1>12, <1>13, <1>14

(* Every step of the parser.                                               *)
LEMMA ParserParsed ==
  ASSUME Inv, NEW s \in Streams, line = LineOf(s), Parsed(s), Parser
  PROVE  Parsed(s)'
<1>t. flag_found \in {0, 1} /\ as \in AsStates /\ Len(delivered) \in Nat
  BY InvSplit, LenProperties DEF ParserTypeOK
<1>i. as \in {"skip", "body"} => flag_found = 1
  BY <1>t DEF Parsed, Between
<1>1. CASE FindFlag
  <2>1. flag_found = 0 /\ datacount > 0 /\ as = "find"
    BY <1>1 DEF FindFlag
  <2>2. Len(delivered) < Len(s) /\ Current = FLAG
    BY <2>1, FlagIsNext
  <2>3. /\ consumed = Start(s, Len(delivered)) /\ dropped_count = 0
        /\ \A i \in 1 .. Len(delivered) : delivered[i] = Content(s[i])
    BY <2>1 DEF Parsed, Between
  <2>4. /\ consumed' = consumed + 1 /\ flag_found' = 1 /\ adv_data' = <<>> /\ adv_found_esc' = 0
        /\ UNCHANGED <<as, delivered, dropped_count>>
    BY <1>1, <2>2 DEF FindFlag, Consume
  <2>5. At(s) \in Seq(Byte) /\ Len(At(s)) \in Nat /\ consumed \in Nat
    <3>1. PICK k \in Nat : k = Len(delivered)
      BY <1>t
    <3>2. Content(s[k + 1]) \in Seq(Byte) /\ Start(s, k) \in Nat
      BY <2>2, <3>1, FrameLies
    <3> QED BY <2>3, <3>1, <3>2, LenProperties DEF At
  <2>6. Escape(<<>>) = <<>> /\ SubSeq(At(s), 1, 0) = <<>> /\ Len(<<>>) = 0
    <3>1. Pieces(<<>>) = <<>>
      BY DEF Pieces
    <3>2. <<>> \in Seq(Byte) /\ Len(<<>>) = 0
      BY EmptySeq
    <3>3. Escape(<<>>) = FlattenSeq(<<>>)
      BY <3>1, <3>2, PiecesType
    <3> QED BY <3>2, <3>3, SubSeqEmpty DEF FlattenSeq
  <2>7. At(s)' = At(s)
    BY <2>4 DEF At
  <2>8. Inside(s)'
    BY <2>1, <2>2, <2>3, <2>4, <2>5, <2>6, <2>7 DEF Inside
  <2> QED BY <2>1, <2>2, <2>3, <2>4, <2>8 DEF Parsed
<1>2. CASE FindNothing
  BY <1>2, FramesStay DEF FindNothing, ringVars
<1>3. CASE FindDone
  BY <1>3 DEF FindDone, ringVars, parserVars, Parsed, Between, Inside, At
<1>4. CASE SkipFlag
  <2>1. as = "skip" /\ datacount > 0 /\ Current = FLAG /\ adv_data = <<>>
    BY <1>4 DEF SkipFlag, Parsed
  <2>2. PICK c : c = At(s)
    OBVIOUS
  <2>3. PICK m : m = Len(adv_data)
    OBVIOUS
  <2>4. m = 0
    BY <2>1, <2>3, EmptySeq
  <2>5. adv_found_esc \in {0, 1}
    BY InvSplit DEF ParserTypeOK
  <2>6. FALSE
    BY <1>i, <2>1, <2>2, <2>3, <2>4, <2>5, InsideIsNext, AdvAssumption
  <2> QED BY <2>6
<1>5. CASE SkipDone
  BY <1>5, <1>i DEF SkipDone, ringVars, parserVars, Parsed, Between, Inside, At
<1>6. CASE BodyEmpty
  BY <1>6, FramesStay DEF BodyEmpty, ringVars
<1>7. CASE CloseShort \/ CloseBad \/ CloseGood
  BY <1>7, <1>i, CloseParsed DEF CloseShort, CloseBad, CloseGood, Closing
<1>8. CASE Overlong
  <2>1. as = "body" /\ datacount > 0 /\ Len(adv_data) >= BufSize
        /\ ~ (adv_found_esc = 0 /\ Current = FLAG)
    BY <1>8 DEF Overlong, Open, Closing
  <2>2. PICK c : c = At(s)
    OBVIOUS
  <2>3. PICK m : m = Len(adv_data)
    OBVIOUS
  <2>4. adv_found_esc \in {0, 1} /\ BufSize \in Nat
    BY InvSplit, RingAssumption DEF ParserTypeOK
  <2>5. /\ Len(c) \in Nat /\ Len(c) <= BufSize /\ m \in Nat /\ m <= Len(c)
        /\ adv_found_esc = 0 /\ m = Len(c) => Current = FLAG
        /\ adv_found_esc = 1 => m < Len(c)
    BY <1>i, <2>1, <2>2, <2>3, InsideIsNext
  <2>6. FALSE
    BY <2>1, <2>3, <2>4, <2>5
  <2> QED BY <2>6
<1>9. CASE TakeEscaped \/ TakeEsc \/ TakePlain
  BY <1>9, <1>i, TakeParsed DEF TakeEscaped, TakeEsc, TakePlain, Open
<1>10. CASE FrameOut
  BY <1>10, FramesStay DEF FrameOut, SignalReader, ringVars
<1> QED BY <1>1, <1>2, <1>3, <1>4, <1>5, <1>6, <1>7, <1>8, <1>9, <1>10 DEF Parser

(* At the start nothing is consumed and nothing delivered.                 *)
LEMMA FramesInit == Init => FramesInv
<1> SUFFICES ASSUME Init, NEW s \in Streams, line = LineOf(s) PROVE Parsed(s)
  BY DEF FramesInv
<1>1. /\ as = "check" /\ flag_found = 0 /\ delivered = <<>> /\ dropped_count = 0 /\ consumed = 0
  BY DEF Init, RingInit
<1>2. Len(delivered) = 0 /\ Len(s) \in Nat
  BY <1>1, EmptySeq, LineParts
<1>3. Start(s, 0) = 0
  BY LineEnds
<1> QED BY <1>1, <1>2, <1>3 DEF Parsed, Between

(* Only the parser consumes.                                               *)
LEMMA FramesNext == Inv /\ FramesInv /\ [Next]_vars => FramesInv'
<1> SUFFICES ASSUME Inv, FramesInv, [Next]_vars PROVE FramesInv'
  OBVIOUS
<1>1. line' = line
  BY DEF Next, vars, Parser, Reader, RdRead, RdCopy, RdCount, RdReady, RdSignal, RdFull, RdSleep,
         RdResume, RdEnd, RdSpurious, LeaveMuxing, Assembler, AsWait, AsGo, AsSpurious, ringVars,
         FindFlag, FindNothing, FindDone, SkipFlag, SkipDone, BodyEmpty, CloseShort, CloseBad,
         CloseGood, Overlong, TakeEscaped, TakeEsc, TakePlain, FrameOut, Consume, SignalReader
<1> SUFFICES ASSUME NEW s \in Streams, line = LineOf(s) PROVE Parsed(s)'
  BY <1>1 DEF FramesInv
<1>2. Parsed(s)
  BY DEF FramesInv
<1>3. CASE Parser
  BY <1>2, <1>3, ParserParsed
<1>4. CASE (Reader \/ RdSpurious \/ LeaveMuxing \/ Assembler) /\ UNCHANGED parserVars
  <2>1. consumed' = consumed /\ (as' = as \/ as' \in {"check", "wait", "find"})
    BY <1>4 DEF Reader, RdRead, RdCopy, RdCount, RdReady, RdSignal, RdFull, RdSleep, RdResume,
                RdEnd, RdSpurious, LeaveMuxing, Assembler, AsWait, AsGo, AsSpurious, ringVars
  <2> QED BY <1>2, <1>4, <2>1, FramesStay
<1>5. CASE UNCHANGED vars
  BY <1>2, <1>5, FramesStay DEF vars, ringVars
<1> QED BY <1>3, <1>4, <1>5 DEF Next

(* Whatever frames the modem writes, of whatever bytes, and however read() *)
(* cuts the line into chunks: extract_frames gets them unescaped, whole,   *)
(* in order, none twice, none invented and none dropped.                   *)
THEOREM FramesInOrder == Spec => []DeliveredInOrder
<1>1. Inv /\ FramesInv => DeliveredInOrder
  <2> SUFFICES ASSUME Inv, FramesInv, line \in IntactLines, NEW s \in StreamsOn[line]
               PROVE  /\ dropped_count = 0 /\ Len(delivered) <= Len(s)
                      /\ \A i \in DOMAIN delivered : delivered[i] = Content(s[i])
    BY DEF DeliveredInOrder
  <2>1. s \in Streams /\ line = LineOf(s)
    BY DEF StreamsOn
  <2>2. Parsed(s)
    BY <2>1 DEF FramesInv
  <2>3. DOMAIN delivered = 1 .. Len(delivered)
    BY InvSplit, LenProperties DEF ParserTypeOK
  <2> QED BY <2>2, <2>3 DEF Parsed
<1>2. Init => FramesInv
  BY FramesInit
<1>3. Inv /\ FramesInv /\ [Next]_vars => FramesInv'
  BY FramesNext
<1> QED BY <1>1, <1>2, <1>3, Invariance, PTL DEF Spec
=============================================================================
