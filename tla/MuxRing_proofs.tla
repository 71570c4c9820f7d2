---------------------------- MODULE MuxRing_proofs ----------------------------
(***************************************************************************)
(* Lemmas about the ring of MuxRing: every step of the serial reader and   *)
(* of the wait loop, and the taking of a byte, keep it a queue. The proofs *)
(* about both parsers rest on them.                                        *)
(***************************************************************************)
EXTENDS MuxRing, SequencesExt, SequenceTheorems, WellFoundedInduction, TLAPS

(* The bytes copied into the ring: the published ones and, between the     *)
(* copy and the count, those of the last read().                           *)
Filled == datacount + (IF rd = "count" THEN Len(rdbuf) ELSE 0)

(* RingIsQueue is not inductive: the step that raises datacount publishes  *)
(* bytes of which it says nothing. QueueInv follows the bytes of a read()  *)
(* from the line into rdbuf and from there into the slots ahead of writep. *)
QueueInv ==
  /\ sent = consumed + datacount + InFlight
  /\ rd \in {"copy", "count"} =>
       /\ Len(rdbuf) > 0
       /\ datacount + Len(rdbuf) <= BufSize
       /\ \A j \in 1 .. Len(rdbuf) :
            rdbuf[j] = line[consumed + datacount + j]
  /\ writep = Wrap(readp + Filled)
  /\ \A i \in 0 .. Filled - 1 : data[Wrap(readp + i)] = line[consumed + i + 1]

RingInv == RingTypeOK /\ QueueInv

-----------------------------------------------------------------------------
(* Indices.                                                                *)

(* One step over the end comes back into the ring.                         *)
LEMMA WrapInSlots ==
  ASSUME NEW r \in Slots, NEW n \in 0 .. BufSize
  PROVE  Wrap(r + n) \in Slots
  BY RingAssumption DEF Wrap, Slots

(* Where a slot lies when one counts from another: Ahead inverts Wrap.     *)
LEMMA AheadOfWrap ==
  ASSUME NEW r \in Slots, NEW n \in 0 .. BufSize, NEW k \in 0 .. BufSize - 1,
         writep = Wrap(r + n)
  PROVE  Ahead(Wrap(r + k)) = IF k >= n THEN k - n ELSE k - n + BufSize
  BY RingAssumption DEF Wrap, Slots, Ahead

(* Two steps in a row are one.                                             *)
LEMMA WrapAgain ==
  ASSUME NEW r \in Slots, NEW n \in 0 .. BufSize, NEW m \in 0 .. BufSize,
         n + m <= BufSize
  PROVE  Wrap(Wrap(r + n) + m) = Wrap(r + (n + m))
  BY RingAssumption DEF Wrap, Slots

-----------------------------------------------------------------------------
(* The reader thread keeps the queue.                                      *)

(* read() takes the next bytes of the line, as many as fit.                *)
LEMMA ReadInv == RingInv /\ RdRead => RingInv'
<1> SUFFICES ASSUME RingInv, RdRead PROVE RingInv'
  OBVIOUS
<1> USE RingAssumption DEF RingInv, RdRead
<1>1. PICK len \in 1 .. Free :
        /\ sent + len <= Len(line)
        /\ rdbuf' = SubSeq(line, sent + 1, sent + len)
        /\ sent' = sent + len
  OBVIOUS
<1>2. line \in Seq(Byte) /\ datacount \in 0 .. BufSize /\ sent \in Nat
      /\ consumed \in Nat /\ len \in Nat /\ sent = consumed + datacount
  BY <1>1 DEF RingTypeOK, QueueInv, InFlight, Free
<1>3. rdbuf' \in Seq(Byte) /\ Len(rdbuf') = len
  BY <1>1, <1>2
<1>4. \A j \in 1 .. len : rdbuf'[j] = line[sent + j]
  <2> SUFFICES ASSUME NEW j \in 1 .. len PROVE rdbuf'[j] = line[sent + j]
    OBVIOUS
  <2>1. j \in 1 .. (sent + len) - (sent + 1) + 1 /\ (sent + 1) + j - 1 = sent + j
    BY <1>2
  <2>2. SubSeq(line, sent + 1, sent + len)[j] = line[(sent + 1) + j - 1]
    BY <1>1, <1>2, <2>1
  <2> QED BY <1>1, <2>1, <2>2
<1>5. RingTypeOK'
  BY <1>1, <1>2, <1>3 DEF RingTypeOK, RdStates
<1>6. /\ rd = "poll" /\ rd' = "copy"
      /\ UNCHANGED <<line, consumed, data, readp, writep, datacount>>
  OBVIOUS
<1>7. Filled' = Filled /\ Filled = datacount /\ InFlight' = len
  BY <1>2, <1>3, <1>6 DEF Filled, InFlight
<1>8. sent' = consumed' + datacount' + InFlight'
  BY <1>1, <1>2, <1>6, <1>7
<1>9. /\ Len(rdbuf') > 0 /\ datacount' + Len(rdbuf') <= BufSize
      /\ \A j \in 1 .. Len(rdbuf') : rdbuf'[j] = line'[consumed' + datacount' + j]
  BY <1>1, <1>2, <1>3, <1>4, <1>6 DEF Free
<1>10. /\ writep' = Wrap(readp' + Filled')
       /\ \A i \in 0 .. Filled' - 1 : data'[Wrap(readp' + i)] = line'[consumed' + i + 1]
  BY <1>6, <1>7 DEF QueueInv, Wrap
<1>11. QueueInv'
  BY <1>8, <1>9, <1>10 DEF QueueInv
<1> QED BY <1>5, <1>11

(* The copy before the count: it changes no slot of an unread byte.        *)
LEMMA CopyInv == RingInv /\ RdCopy => RingInv'
<1> SUFFICES ASSUME RingInv, RdCopy PROVE RingInv'
  OBVIOUS
<1> USE RingAssumption DEF RingInv
<1>1. /\ datacount \in 0 .. BufSize /\ readp \in Slots /\ consumed \in Nat
      /\ rdbuf \in Seq(Byte) /\ Len(rdbuf) \in Nat
      /\ datacount + Len(rdbuf) <= BufSize
      /\ data \in [Slots -> Byte]
      /\ writep = Wrap(readp + datacount) /\ writep \in Slots
  BY DEF RingTypeOK, QueueInv, Filled, RdCopy
<1>2. /\ data' = [i \in Slots |-> IF Ahead(i) < Len(rdbuf)
                                  THEN rdbuf[Ahead(i) + 1] ELSE data[i]]
      /\ writep' = Wrap(writep + Len(rdbuf))
  BY <1>1 DEF RdCopy, Free
<1>3. data' \in [Slots -> Byte]
  <2>1. ASSUME NEW i \in Slots, Ahead(i) < Len(rdbuf)
        PROVE  Ahead(i) + 1 \in 1 .. Len(rdbuf)
    BY <1>1, <2>1 DEF Ahead, Slots
  <2> QED BY <1>1, <1>2, <2>1
<1>4. writep' = Wrap(readp + (datacount + Len(rdbuf))) /\ writep' \in Slots
  BY <1>1, <1>2, WrapAgain, WrapInSlots
<1>5. RingTypeOK'
  BY <1>3, <1>4 DEF RingTypeOK, RdCopy, RdStates
<1>6. \A k \in 0 .. datacount + Len(rdbuf) - 1 :
        data'[Wrap(readp + k)] = line[consumed + k + 1]
  <2> SUFFICES ASSUME NEW k \in 0 .. datacount + Len(rdbuf) - 1
               PROVE  data'[Wrap(readp + k)] = line[consumed + k + 1]
    OBVIOUS
  <2>1. k \in 0 .. BufSize - 1 /\ Wrap(readp + k) \in Slots
    BY <1>1, WrapInSlots
  <2>2. Ahead(Wrap(readp + k)) = IF k >= datacount THEN k - datacount
                                 ELSE k - datacount + BufSize
    BY <1>1, <2>1, AheadOfWrap
  <2>3. CASE k < datacount
    <3>1. ~(Ahead(Wrap(readp + k)) < Len(rdbuf))
      BY <1>1, <2>1, <2>2, <2>3
    <3>2. data[Wrap(readp + k)] = line[consumed + k + 1]
      BY <1>1, <2>1, <2>3 DEF QueueInv, Filled, RdCopy
    <3> QED BY <1>2, <2>1, <3>1, <3>2
  <2>4. CASE k >= datacount
    <3>1. /\ Ahead(Wrap(readp + k)) = k - datacount
          /\ k - datacount < Len(rdbuf) /\ k - datacount + 1 \in 1 .. Len(rdbuf)
      BY <1>1, <2>1, <2>2, <2>4
    <3>2. rdbuf[k - datacount + 1] = line[consumed + datacount + (k - datacount + 1)]
      BY <3>1 DEF QueueInv, RdCopy
    <3>3. consumed + datacount + (k - datacount + 1) = consumed + k + 1
      BY <1>1, <2>1
    <3> QED BY <1>2, <2>1, <3>1, <3>2, <3>3
  <2> QED BY <1>1, <2>1, <2>3, <2>4
<1>7. /\ sent' = consumed' + datacount' + InFlight'
      /\ rdbuf' = rdbuf /\ datacount' = datacount /\ readp' = readp
      /\ consumed' = consumed /\ line' = line
      /\ Filled' = datacount + Len(rdbuf)
  BY <1>1 DEF QueueInv, InFlight, Filled, RdCopy
<1>8. /\ Len(rdbuf') > 0
      /\ datacount' + Len(rdbuf') <= BufSize
      /\ \A j \in 1 .. Len(rdbuf') : rdbuf'[j] = line'[consumed' + datacount' + j]
  BY <1>1, <1>7 DEF QueueInv, RdCopy
<1>9. writep' = Wrap(readp' + Filled')
  BY <1>4, <1>7
<1>10. \A i \in 0 .. Filled' - 1 :
         data'[Wrap(readp + i)] = line[consumed + i + 1]
  BY <1>1, <1>6, <1>7
<1>11. \A i \in 0 .. Filled' - 1 :
         data'[Wrap(readp' + i)] = line'[consumed' + i + 1]
  BY <1>7, <1>10
<1> QED BY <1>5, <1>7, <1>8, <1>9, <1>11 DEF QueueInv

(* Raising datacount publishes what was copied.                            *)
LEMMA CountInv == RingInv /\ RdCount => RingInv'
<1> SUFFICES ASSUME RingInv, RdCount PROVE RingInv'
  OBVIOUS
<1> USE RingAssumption DEF RingInv, RdCount
<1>1. /\ datacount \in 0 .. BufSize /\ Len(rdbuf) \in Nat
      /\ datacount + Len(rdbuf) <= BufSize /\ sent \in Nat /\ consumed \in Nat
  BY DEF RingTypeOK, QueueInv
<1>2. RingTypeOK'
  BY <1>1 DEF RingTypeOK, RdStates
<1>3. sent' = consumed' + datacount' + InFlight'
  BY <1>1 DEF QueueInv, InFlight
<1>4. QueueInv'
  BY <1>1, <1>3 DEF QueueInv, Filled
<1> QED BY <1>2, <1>4

(* The steps of the reader that move no byte.                              *)
LEMMA IdleReaderInv ==
  ASSUME RingInv,
         RdReady \/ RdSignal \/ RdFull \/ RdSleep \/ RdResume \/ RdSpurious
           \/ RdEnd \/ LeaveMuxing
  PROVE  RingInv'
<1> USE DEF RingInv, QueueInv, InFlight, Filled, RingTypeOK, RdStates
<1>1. CASE RdReady  BY <1>1 DEF RdReady
<1>2. CASE RdSignal  BY <1>2 DEF RdSignal
<1>3. CASE RdFull  BY <1>3 DEF RdFull
<1>4. CASE RdSleep  BY <1>4 DEF RdSleep
<1>5. CASE RdResume  BY <1>5 DEF RdResume
<1>6. CASE RdSpurious  BY <1>6 DEF RdSpurious
<1>7. CASE RdEnd  BY <1>7 DEF RdEnd
<1>8. CASE LeaveMuxing  BY <1>8 DEF LeaveMuxing
<1> QED BY <1>1, <1>2, <1>3, <1>4, <1>5, <1>6, <1>7, <1>8

-----------------------------------------------------------------------------
(* The assembler thread keeps the queue.                                   *)

(* The parser takes the oldest unread byte.                                *)
LEMMA ConsumeInv == RingInv /\ datacount > 0 /\ Consume => RingInv'
<1> SUFFICES ASSUME RingInv, datacount > 0, Consume PROVE RingInv'
  OBVIOUS
<1> USE RingAssumption DEF RingInv, Consume
<1>0. /\ line \in Seq(Byte) /\ Len(line) \in Nat
      /\ rdbuf \in Seq(Byte) /\ Len(rdbuf) \in Nat
      /\ datacount \in 1 .. BufSize /\ readp \in Slots
      /\ consumed \in Nat /\ sent \in Nat /\ sent <= Len(line)
  BY DEF RingTypeOK
<1>1. /\ Filled \in 1 .. BufSize /\ Filled' = Filled - 1
      /\ InFlight \in Nat /\ InFlight' = InFlight
      /\ sent = consumed + datacount + InFlight
  <2>1. rd' = rd /\ rdbuf' = rdbuf /\ datacount' = datacount - 1
    OBVIOUS
  <2>2. rd \in {"copy", "count"} => Len(rdbuf) > 0 /\ datacount + Len(rdbuf) <= BufSize
    BY DEF QueueInv
  <2>3. Filled \in 1 .. BufSize
    BY <1>0, <2>2 DEF Filled
  <2>4. Filled' = Filled - 1
    BY <1>0, <2>1 DEF Filled
  <2>5. InFlight \in Nat /\ InFlight' = InFlight
    BY <1>0, <2>1 DEF InFlight
  <2>6. sent = consumed + datacount + InFlight
    BY DEF QueueInv
  <2> QED BY <2>3, <2>4, <2>5, <2>6
<1>2. readp' \in Slots
  BY <1>0, <1>1, WrapInSlots
<1>3. \A k \in 0 .. BufSize - 1 : Wrap(readp' + k) = Wrap(readp + (k + 1))
  BY <1>0, <1>1, WrapAgain
<1>4. writep' = Wrap(readp' + Filled')
  BY <1>0, <1>1, <1>3 DEF QueueInv
<1>5. \A k \in 0 .. Filled' - 1 : data'[Wrap(readp' + k)] = line'[consumed' + k + 1]
  <2> SUFFICES ASSUME NEW k \in 0 .. Filled' - 1
               PROVE  data[Wrap(readp' + k)] = line[consumed + 1 + k + 1]
    OBVIOUS
  <2>1. k + 1 \in 0 .. Filled - 1 /\ Wrap(readp' + k) = Wrap(readp + (k + 1))
    BY <1>0, <1>1, <1>3
  <2>2. data[Wrap(readp + (k + 1))] = line[consumed + (k + 1) + 1]
    BY <2>1 DEF QueueInv
  <2>3. consumed + (k + 1) + 1 = consumed + 1 + k + 1
    BY <1>0, <1>1, <2>1
  <2> QED BY <2>1, <2>2, <2>3
<1>6. RingTypeOK'
  BY <1>0, <1>1, <1>2 DEF RingTypeOK
<1>7. rd' \in {"copy", "count"} =>
        /\ Len(rdbuf') > 0
        /\ datacount' + Len(rdbuf') <= BufSize
        /\ \A j \in 1 .. Len(rdbuf') :
             rdbuf'[j] = line'[consumed' + datacount' + j]
  <2>1. consumed' + datacount' = consumed + datacount
    BY <1>0, <1>1
  <2> QED BY <1>0, <1>1, <2>1 DEF QueueInv
<1>8. sent' = consumed' + datacount' + InFlight'
  BY <1>0, <1>1
<1> QED BY <1>4, <1>5, <1>6, <1>7, <1>8 DEF QueueInv

(* Steps that leave the ring alone.                                        *)
LEMMA UnchangedInv == RingInv /\ UNCHANGED ringVars => RingInv'
BY DEF RingInv, QueueInv, InFlight, Filled, RingTypeOK, ringVars, Slots, RdStates

(* The wait loop and the wakeup move no byte.                              *)
LEMMA AssemblerInv ==
  RingInv /\ (AsWait \/ AsGo \/ AsSpurious \/ SignalReader) => RingInv'
<1> SUFFICES ASSUME RingInv, AsWait \/ AsGo \/ AsSpurious \/ SignalReader
             PROVE  RingInv'
  OBVIOUS
<1>1. CASE AsWait  BY <1>1, UnchangedInv DEF AsWait
<1>2. CASE AsSpurious  BY <1>2, UnchangedInv DEF AsSpurious
<1>3. CASE AsGo
  BY <1>3 DEF AsGo, RingInv, QueueInv, InFlight, Filled, RingTypeOK
<1>4. CASE SignalReader
  BY <1>4 DEF SignalReader, RingInv, QueueInv, InFlight, Filled, RingTypeOK, RdStates
<1> QED BY <1>1, <1>2, <1>3, <1>4

-----------------------------------------------------------------------------
(* Byte is inhabited, so that there is some content for a fresh ring.      *)
LEMMA RingInitInv ==
  ASSUME RingInit, NEW b \in Byte
  PROVE  RingInv
<1> USE RingAssumption DEF RingInit
<1>1. (CHOOSE x \in Byte : TRUE) \in Byte
  OBVIOUS
<1>2. line \in Seq(Byte) /\ 0 \in 0 .. Len(line)
  OBVIOUS
<1>3. RingTypeOK
  BY <1>1, <1>2 DEF RingTypeOK, Slots, RdStates
<1>4. QueueInv
  BY DEF QueueInv, Filled, InFlight, Wrap
<1> QED BY <1>3, <1>4 DEF RingInv

(* Published bytes are among the copied ones.                              *)
LEMMA PublishedIsFilled ==
  RingInv => \A i \in 0 .. datacount - 1 :
               data[Wrap(readp + i)] = line[consumed + i + 1]
<1> SUFFICES ASSUME RingInv, NEW i \in 0 .. datacount - 1
             PROVE  data[Wrap(readp + i)] = line[consumed + i + 1]
  OBVIOUS
<1>1. datacount \in Nat /\ Len(rdbuf) \in Nat /\ Filled >= datacount
  BY RingAssumption DEF RingInv, RingTypeOK, Filled
<1>2. i \in 0 .. Filled - 1
  BY <1>1, RingAssumption DEF RingInv, RingTypeOK, Filled
<1> QED BY <1>2 DEF RingInv, QueueInv

-----------------------------------------------------------------------------
(* The ring implements ByteQueue.                                          *)

(* The elements of a slice of a sequence.                                  *)
LEMMA SliceElements ==
  ASSUME NEW S, NEW s \in Seq(S), NEW k \in Nat, NEW c \in Nat, k + c <= Len(s)
  PROVE  /\ SubSeq(s, k + 1, k + c) \in Seq(S)
         /\ Len(SubSeq(s, k + 1, k + c)) = c
         /\ \A i \in 1 .. c : SubSeq(s, k + 1, k + c)[i] = s[k + i]
<1> DEFINE m == k + 1
           n == k + c
<1>1. m \in Int /\ n \in Int /\ n - m + 1 = c /\ (m <= n <=> c > 0)
  OBVIOUS
<1>2. \A i \in m .. n : s[i] \in S
  OBVIOUS
<1>3. \A i \in 1 .. c : m + i - 1 = k + i
  OBVIOUS
<1> HIDE DEF m, n
<1>4. /\ SubSeq(s, m, n) \in Seq(S)
      /\ Len(SubSeq(s, m, n)) = IF m <= n THEN n - m + 1 ELSE 0
      /\ \A i \in 1 .. n - m + 1 : SubSeq(s, m, n)[i] = s[m + i - 1]
  BY <1>1, <1>2, SubSeqProperties
<1>5. Len(SubSeq(s, m, n)) = c
  BY <1>1, <1>4
<1>6. \A i \in 1 .. c : SubSeq(s, m, n)[i] = s[k + i]
  BY <1>1, <1>3, <1>4
<1> QED BY <1>4, <1>5, <1>6 DEF m, n

(* In terms of the line: the unread bytes are a slice of it.               *)
Sliced ==
  /\ line \in Seq(Byte) /\ line \in Lines
  /\ consumed \in Nat /\ datacount \in 0 .. BufSize
  /\ consumed + datacount <= Len(line)
  /\ Unread = SubSeq(line, consumed + 1, consumed + datacount)

(* The unread part of the ring is a slice of the line.                     *)
LEMMA UnreadIsSlice == RingInv => Sliced
<1> SUFFICES ASSUME RingInv PROVE Sliced
  OBVIOUS
<1>1. /\ line \in Seq(Byte) /\ line \in Lines
      /\ consumed \in Nat /\ datacount \in 0 .. BufSize /\ datacount \in Nat
      /\ Len(rdbuf) \in Nat /\ sent <= Len(line) /\ sent \in Nat
  BY RingAssumption DEF RingInv, RingTypeOK
<1>2. consumed + datacount <= Len(line)
  <2>1. sent = consumed + datacount + InFlight
    BY DEF RingInv, QueueInv
  <2>2. InFlight \in Nat
    BY <1>1 DEF InFlight
  <2> QED BY <1>1, <2>1, <2>2
<1>3. \A i \in 1 .. datacount : data[Wrap(readp + i - 1)] = line[consumed + i]
  <2> SUFFICES ASSUME NEW i \in 1 .. datacount
               PROVE  data[Wrap(readp + i - 1)] = line[consumed + i]
    OBVIOUS
  <2>1. readp \in Int
    BY RingAssumption DEF RingInv, RingTypeOK, Slots
  <2>2. i - 1 \in 0 .. datacount - 1 /\ readp + (i - 1) = readp + i - 1
        /\ consumed + (i - 1) + 1 = consumed + i
    BY <1>1, <2>1
  <2>3. data[Wrap(readp + (i - 1))] = line[consumed + (i - 1) + 1]
    BY <2>2, PublishedIsFilled
  <2> QED BY <2>2, <2>3
<1>4. Unread = [i \in 1 .. datacount |-> line[consumed + i]]
  BY <1>3 DEF Unread
<1>5. \A i \in 1 .. datacount : line[consumed + i] \in Byte
  BY <1>1, <1>2
<1>6. Unread \in Seq(Byte) /\ Len(Unread) = datacount
      /\ \A i \in 1 .. datacount : Unread[i] = line[consumed + i]
  BY <1>1, <1>4, <1>5
<1>7. Unread = SubSeq(line, consumed + 1, consumed + datacount)
  BY <1>1, <1>2, <1>6, SliceElements, SeqEqual
<1> QED BY <1>1, <1>2, <1>7 DEF Sliced

(* The same, of a state and of the next one.                               *)
LEMMA SlicedBeforeAndAfter == /\ RingInv => Sliced
                              /\ RingInv' => Sliced'
BY UnreadIsSlice, PTL

(* A step that moves no byte is a stutter of the queue.                    *)
LEMMA QueueStays ==
  ASSUME RingInv, RingInv', UNCHANGED <<line, consumed, datacount>>
  PROVE  UNCHANGED Queue!vars
BY SlicedBeforeAndAfter DEF Sliced, Queue!vars

(* The consumer takes the oldest bytes, one or a whole frame.              *)
LEMMA QueueTakes ==
  ASSUME RingInv, RingInv', NEW n \in 1 .. datacount, line' = line,
         consumed' = consumed + n, datacount' = datacount - n
  PROVE  Queue!Next
<1>1. Sliced /\ Sliced'
  BY SlicedBeforeAndAfter
<1>2. n \in 1 .. BufSize /\ n \in Nat /\ datacount \in Nat /\ consumed \in Nat
  BY <1>1, RingAssumption DEF Sliced
<1>3. consumed' + datacount' = consumed + datacount
  BY <1>2
<1>4. Unread \in Seq(Byte) /\ Len(Unread) = datacount
      /\ \A i \in 1 .. datacount : Unread[i] = line[consumed + i]
  BY <1>1, <1>2, SliceElements DEF Sliced
<1>5. Unread' \in Seq(Byte) /\ Len(Unread') = datacount - n
      /\ \A i \in 1 .. datacount - n : Unread'[i] = line[consumed + n + i]
  <2>1. /\ consumed + n \in Nat /\ datacount - n \in Nat
        /\ (consumed + n) + (datacount - n) <= Len(line)
        /\ Unread' = SubSeq(line, (consumed + n) + 1, (consumed + n) + (datacount - n))
    BY <1>1, <1>2 DEF Sliced
  <2> QED BY <1>1, <2>1, SliceElements DEF Sliced
<1>6. SubSeq(Unread, n + 1, Len(Unread)) \in Seq(Byte)
      /\ Len(SubSeq(Unread, n + 1, Len(Unread))) = datacount - n
      /\ \A i \in 1 .. datacount - n :
           SubSeq(Unread, n + 1, Len(Unread))[i] = Unread[n + i]
  <2>1. n + (datacount - n) <= Len(Unread) /\ n + (datacount - n) = Len(Unread)
        /\ datacount - n \in Nat
    BY <1>2, <1>4
  <2>2. ASSUME NEW u \in Seq(Byte), NEW k \in Nat, NEW c \in Nat, k + c = Len(u)
        PROVE  /\ SubSeq(u, k + 1, Len(u)) \in Seq(Byte)
               /\ Len(SubSeq(u, k + 1, Len(u))) = c
               /\ \A i \in 1 .. c : SubSeq(u, k + 1, Len(u))[i] = u[k + i]
    <3>1. k + c <= Len(u)
      BY <2>2
    <3> QED BY <2>2, <3>1, SliceElements
  <2> QED BY <1>2, <1>4, <2>1, <2>2
<1>7. \A i \in 1 .. datacount - n : Unread'[i] = SubSeq(Unread, n + 1, Len(Unread))[i]
  <2> SUFFICES ASSUME NEW i \in 1 .. datacount - n
               PROVE  line[consumed + n + i] = Unread[n + i]
    BY <1>5, <1>6
  <2>1. n + i \in 1 .. datacount /\ consumed + (n + i) = consumed + n + i
    BY <1>2
  <2> QED BY <1>4, <2>1
<1>8. Unread' = SubSeq(Unread, n + 1, Len(Unread))
  BY <1>5, <1>6, <1>7, SeqEqual
<1>9. Queue!Take(n)
  BY <1>2, <1>3, <1>4, <1>8 DEF Queue!Take
<1> QED BY <1>2, <1>9 DEF Queue!Next

(* The producer puts the next bytes of the line.                           *)
LEMMA QueuePuts ==
  ASSUME RingInv, RingInv', RdCount
  PROVE  Queue!Next
<1> DEFINE n == Len(rdbuf)
<1>1. Sliced /\ Sliced'
  BY SlicedBeforeAndAfter
<1>2. /\ n \in 1 .. BufSize /\ n \in Nat /\ datacount \in Nat /\ consumed \in Nat
      /\ datacount + n <= BufSize
      /\ line' = line /\ consumed' = consumed /\ datacount' = datacount + n
  BY <1>1, RingAssumption DEF Sliced, RdCount, RingInv, RingTypeOK, QueueInv
<1> HIDE DEF n
<1>3. /\ line \in Seq(Byte) /\ consumed + (datacount + n) <= Len(line)
      /\ Unread = SubSeq(line, consumed + 1, consumed + datacount)
      /\ Unread' = SubSeq(line, consumed + 1, consumed + (datacount + n))
  BY <1>1, <1>2 DEF Sliced
<1>4. Unread' = Unread \o SubSeq(line, (consumed + datacount) + 1, (consumed + datacount) + n)
  <2>1. /\ consumed + 1 \in 1 .. Len(line) + 1
        /\ consumed + datacount \in (consumed + 1) - 1 .. Len(line)
        /\ (consumed + datacount) + n \in consumed + datacount .. Len(line)
        /\ consumed + (datacount + n) = (consumed + datacount) + n
    BY <1>2, <1>3
  <2> QED BY <1>3, <2>1, ConcatAdjacentSubSeq
<1>5. Len(Unread) = datacount
  BY <1>2, <1>3, SliceElements
<1>6. /\ (consumed + datacount) + n <= Len(line)
      /\ consumed' + datacount' = (consumed + datacount) + n
  BY <1>2, <1>3
<1>7. Queue!Put(n)
  BY <1>2, <1>4, <1>5, <1>6 DEF Queue!Put
<1> QED BY <1>2, <1>7 DEF Queue!Next

(* A fresh ring is an empty queue.                                         *)
LEMMA QueueInit == ASSUME RingInit PROVE Queue!Init
<1>1. line \in Lines /\ consumed = 0 /\ datacount = 0
  BY DEF RingInit
<1>2. Unread = <<>>
  BY <1>1 DEF Unread
<1> QED BY <1>1, <1>2 DEF Queue!Init

(* The parser sees the next byte of the line.                              *)
LEMMA CurrentOfLine ==
  ASSUME RingInv, datacount > 0
  PROVE  Current = line[consumed + 1] /\ consumed < Len(line) /\ consumed \in Nat
<1>1. Sliced
  BY UnreadIsSlice
<1>2. consumed \in Nat /\ datacount \in Nat /\ consumed + datacount <= Len(line) /\ Len(line) \in Nat
  BY <1>1, RingAssumption DEF Sliced
<1>3. 0 \in 0 .. datacount - 1 /\ consumed + 0 + 1 = consumed + 1
  BY <1>2
<1>4. readp + 0 = readp /\ Wrap(readp) = readp
  BY RingAssumption DEF RingInv, RingTypeOK, Slots, Wrap
<1>5. data[Wrap(readp + 0)] = line[consumed + 0 + 1]
  BY <1>3, PublishedIsFilled
<1> QED BY <1>2, <1>3, <1>4, <1>5 DEF Current

-----------------------------------------------------------------------------
(* Lines are made of frames, and frames of pieces: FlattenSeq.             *)

(* Induction over the natural numbers, for a set.                          *)
LEMMA SetInduction ==
  ASSUME NEW T, 0 \in T, \A n \in Nat : n \in T => n + 1 \in T
  PROVE  \A n \in Nat : n \in T
<1> SUFFICES ASSUME NEW m \in Nat, m \notin T PROVE FALSE
  OBVIOUS
<1> DEFINE B == {n \in Nat : n \notin T}
<1>1. B \subseteq Nat /\ B # {}
  OBVIOUS
<1>2. \E x \in B : \A y \in B : ~ (<<y, x>> \in OpToRel(<, Nat))
  <2> HIDE DEF B
  <2> QED BY <1>1, WFMin, NatLessThanWellFounded
<1>3. PICK x \in B : \A y \in B : ~ (<<y, x>> \in OpToRel(<, Nat))
  BY <1>2
<1>4. \A y \in B : ~ (y < x)
  BY <1>1, <1>3 DEF OpToRel
<1>5. x \in Nat /\ x \notin T /\ x # 0
  BY <1>3
<1>6. x - 1 \in Nat /\ x - 1 < x /\ x - 1 + 1 = x
  BY <1>5
<1>7. x - 1 \in T
  BY <1>4, <1>6
<1> QED BY <1>5, <1>6, <1>7

(* The prefixes of FlattenSeq(ss), one after the other, up to n.           *)
PrefixesTo(f, ss, n) ==
  \A i \in 1 .. n : f[i] = IF i = 1 THEN ss[i] ELSE f[i - 1] \o ss[i]

(* The set of all n up to which they exist.                                *)
HavePrefixes(S, ss) ==
  {n \in Nat : n <= Len(ss) => \E f \in [1 .. n -> Seq(S)] : PrefixesTo(f, ss, n)}

(* One of them and the next.                                               *)
LEMMA PrefixStep ==
  ASSUME NEW f, NEW ss, NEW n \in Nat, PrefixesTo(f, ss, n),
         NEW m \in Nat, m + 1 \in 1 .. n
  PROVE  f[m + 1] = IF m = 0 THEN ss[m + 1] ELSE f[m] \o ss[m + 1]
BY DEF PrefixesTo

(* The last of them.                                                       *)
LEMMA PrefixLast ==
  ASSUME NEW f, NEW ss, NEW n \in Nat, PrefixesTo(f, ss, n + 1)
  PROVE  f[n + 1] = IF n = 0 THEN ss[n + 1] ELSE f[n] \o ss[n + 1]
<1>1. n + 1 \in Nat /\ n + 1 \in 1 .. n + 1
  OBVIOUS
<1> QED BY <1>1, PrefixStep, Zenon

(* They exist up to the length of ss.                                      *)
LEMMA PrefixesExist ==
  ASSUME NEW S, NEW ss \in Seq(Seq(S))
  PROVE  \E f \in [1 .. Len(ss) -> Seq(S)] : PrefixesTo(f, ss, Len(ss))
<1>1. 0 \in HavePrefixes(S, ss)
  <2>1. [i \in 1 .. 0 |-> <<>>] \in [1 .. 0 -> Seq(S)]
    OBVIOUS
  <2>2. PrefixesTo([i \in 1 .. 0 |-> <<>>], ss, 0)
    BY DEF PrefixesTo
  <2> QED BY <2>1, <2>2 DEF HavePrefixes
<1>2. ASSUME NEW n \in Nat, n \in HavePrefixes(S, ss) PROVE n + 1 \in HavePrefixes(S, ss)
  <2> SUFFICES ASSUME n + 1 <= Len(ss)
               PROVE  \E f \in [1 .. n + 1 -> Seq(S)] : PrefixesTo(f, ss, n + 1)
    BY DEF HavePrefixes
  <2>1. PICK f \in [1 .. n -> Seq(S)] : PrefixesTo(f, ss, n)
    BY <1>2 DEF HavePrefixes
  <2>2. ss[n + 1] \in Seq(S) /\ (n # 0 => f[n] \in Seq(S))
    BY ElementOfSeq
  <2>3. PICK last \in Seq(S) : last = IF n = 0 THEN ss[n + 1] ELSE f[n] \o ss[n + 1]
    <3>1. CASE n = 0  BY <2>2, <3>1
    <3>2. CASE n # 0  BY <2>2, <3>2, ConcatProperties
    <3> QED BY <3>1, <3>2
  <2> DEFINE g == [i \in 1 .. n + 1 |-> IF i = n + 1 THEN last ELSE f[i]]
  <2>4. g \in [1 .. n + 1 -> Seq(S)]
    OBVIOUS
  <2>5. ASSUME NEW i \in 1 .. n + 1
        PROVE  g[i] = IF i = 1 THEN ss[i] ELSE g[i - 1] \o ss[i]
    <3>1. CASE i = n + 1
      <4>1. i # 1 => n \in 1 .. n /\ n # n + 1 /\ i - 1 = n /\ n # 0
        BY <3>1
      <4>2. i # 1 => g[i - 1] = f[n]
        BY <4>1
      <4> QED BY <2>3, <3>1, <4>1, <4>2
    <3>2. CASE i # n + 1
      <4>1. i \in 1 .. n /\ g[i] = f[i]
        BY <3>2
      <4>2. i # 1 => i - 1 \in 1 .. n /\ i - 1 # n + 1
        BY <4>1
      <4>3. i # 1 => g[i - 1] = f[i - 1]
        BY <4>2
      <4>4. f[i] = IF i = 1 THEN ss[i] ELSE f[i - 1] \o ss[i]
        BY <2>1, <4>1 DEF PrefixesTo
      <4> HIDE DEF g
      <4> QED BY <4>1, <4>3, <4>4
    <3> QED BY <3>1, <3>2
  <2> HIDE DEF g
  <2> QED BY <2>4, <2>5 DEF PrefixesTo
<1>3. \A n \in Nat : n \in HavePrefixes(S, ss)
  BY <1>1, <1>2, SetInduction
<1> QED BY <1>3 DEF HavePrefixes

(* They are determined by ss ...                                           *)
LEMMA PrefixesUnique ==
  ASSUME NEW ss, NEW f, NEW g, NEW n \in Nat, PrefixesTo(f, ss, n), PrefixesTo(g, ss, n)
  PROVE  \A i \in 1 .. n : f[i] = g[i]
<1> DEFINE T == {m \in Nat : m \in 1 .. n => f[m] = g[m]}
<1>1. 0 \in T
  OBVIOUS
<1>2. ASSUME NEW m \in Nat, m \in T PROVE m + 1 \in T
  <2> SUFFICES ASSUME m + 1 \in 1 .. n PROVE f[m + 1] = g[m + 1]
    OBVIOUS
  <2>1. /\ f[m + 1] = IF m + 1 = 1 THEN ss[m + 1] ELSE f[m + 1 - 1] \o ss[m + 1]
        /\ g[m + 1] = IF m + 1 = 1 THEN ss[m + 1] ELSE g[m + 1 - 1] \o ss[m + 1]
    BY DEF PrefixesTo
  <2>2. m + 1 # 1 => m \in 1 .. n
    OBVIOUS
  <2>3. m + 1 # 1 => f[m] = g[m]
    BY <1>2, <2>2
  <2> QED BY <2>1, <2>3
<1>3. \A m \in Nat : m \in T
  <2> HIDE DEF T
  <2> QED BY <1>1, <1>2, SetInduction
<1> QED BY <1>3

(* ... and FlattenSeq(ss) is the last of them.                             *)
LEMMA FlattenIsLast ==
  ASSUME NEW S, NEW ss \in Seq(Seq(S)), ss # <<>>, NEW f, PrefixesTo(f, ss, Len(ss))
  PROVE  FlattenSeq(ss) = f[Len(ss)]
<1> DEFINE F(g) == g = [i \in 1 .. Len(ss) |-> IF i = 1 THEN ss[i] ELSE g[i - 1] \o ss[i]]
           c == CHOOSE g : F(g)
<1>1. PICK h \in [1 .. Len(ss) -> Seq(S)] : PrefixesTo(h, ss, Len(ss))
  BY PrefixesExist
<1>2. F(h)
  BY <1>1 DEF PrefixesTo
<1>3. F(c)
  <2> HIDE DEF F
  <2> QED BY <1>2
<1>4. PrefixesTo(c, ss, Len(ss))
  BY <1>3 DEF PrefixesTo
<1>5. Len(ss) \in Nat /\ Len(ss) # 0 /\ Len(ss) \in 1 .. Len(ss)
  BY EmptySeq
<1>6. FlattenSeq(ss) = c[Len(ss)]
  BY <1>5 DEF FlattenSeq
<1>7. c[Len(ss)] = f[Len(ss)]
  <2> HIDE DEF c
  <2> QED BY <1>4, <1>5, PrefixesUnique
<1> QED BY <1>6, <1>7

(* Flattening sequences over S gives a sequence over S.                    *)
LEMMA FlattenType ==
  ASSUME NEW S, NEW ss \in Seq(Seq(S))
  PROVE  FlattenSeq(ss) \in Seq(S)
<1>1. CASE ss = <<>>
  BY <1>1 DEF FlattenSeq
<1>2. CASE ss # <<>>
  <2>1. PICK f \in [1 .. Len(ss) -> Seq(S)] : PrefixesTo(f, ss, Len(ss))
    BY PrefixesExist
  <2>2. Len(ss) \in 1 .. Len(ss)
    BY <1>2, EmptySeq
  <2>3. FlattenSeq(ss) = f[Len(ss)]
    BY <1>2, <2>1, FlattenIsLast, Zenon
  <2> QED BY <2>1, <2>2, <2>3
<1> QED BY <1>1, <1>2

(* One more sequence at the end.                                           *)
LEMMA FlattenAppendLong ==
  ASSUME NEW S, NEW ss \in Seq(Seq(S)), NEW tt \in Seq(Seq(S)), NEW n \in Nat,
         Len(ss) = n, Len(tt) = n + 1, \A i \in 1 .. n : tt[i] = ss[i]
  PROVE  FlattenSeq(tt) = FlattenSeq(ss) \o tt[n + 1]
<1>1. tt # <<>> /\ n + 1 \in 1 .. n + 1
  BY EmptySeq
<1>2. PICK f \in [1 .. n + 1 -> Seq(S)] : PrefixesTo(f, tt, n + 1)
  <2>1. \E f \in [1 .. Len(tt) -> Seq(S)] : PrefixesTo(f, tt, Len(tt))
    BY PrefixesExist, Zenon
  <2> QED BY <2>1, Zenon
<1>3. FlattenSeq(tt) = f[n + 1]
  BY <1>1, <1>2, FlattenIsLast
<1>4. f[n + 1] = IF n = 0 THEN tt[n + 1] ELSE f[n] \o tt[n + 1]
  <2>1. PrefixesTo(f, tt, n + 1)
    BY <1>2
  <2> QED BY <2>1, PrefixLast, ZenonT(60)
<1>5. CASE n = 0
  <2>1. FlattenSeq(ss) = <<>>
    BY <1>5, EmptySeq DEF FlattenSeq
  <2>2. tt[n + 1] \in Seq(S)
    BY <1>1, ElementOfSeq
  <2>3. <<>> \o tt[n + 1] = tt[n + 1]
    BY <2>2, ConcatEmptySeq
  <2> QED BY <1>3, <1>4, <1>5, <2>1, <2>3
<1>6. CASE n # 0
  <2>1. ss # <<>>
    BY <1>6, EmptySeq
  <2>2. \A i \in 1 .. n : i \in 1 .. n + 1
    OBVIOUS
  <2>3. PrefixesTo(f, ss, n)
    BY <1>2, <2>2 DEF PrefixesTo
  <2>4. FlattenSeq(ss) = f[n]
    BY <2>1, <2>3, FlattenIsLast
  <2> QED BY <1>3, <1>4, <1>6, <2>4
<1> QED BY <1>5, <1>6

-----------------------------------------------------------------------------
(* A sequence put together from parts: its first k parts.                  *)
First(ss, k) == FlattenSeq(SubSeq(ss, 1, k))

(* The first k of a sequence of parts.                                     *)
LEMMA FirstParts ==
  ASSUME NEW S, NEW ss \in Seq(S), NEW k \in 0 .. Len(ss)
  PROVE  /\ SubSeq(ss, 1, k) \in Seq(S) /\ Len(SubSeq(ss, 1, k)) = k
         /\ \A i \in 1 .. k : SubSeq(ss, 1, k)[i] = ss[i]
<1>1. k \in Nat /\ 0 \in Nat /\ 0 + k <= Len(ss) /\ 0 + 1 = 1 /\ 0 + k = k
  BY LenProperties
<1>2. \A i \in 1 .. k : 0 + i = i
  OBVIOUS
<1> QED BY <1>1, <1>2, SliceElements

(* They make a sequence of bytes.                                          *)
LEMMA FirstType ==
  ASSUME NEW S, NEW ss \in Seq(Seq(S)), NEW k \in 0 .. Len(ss)
  PROVE  First(ss, k) \in Seq(S)
BY FirstParts, FlattenType DEF First

(* None of the parts, and all of them.                                     *)
LEMMA FirstEnds ==
  ASSUME NEW S, NEW ss \in Seq(Seq(S))
  PROVE  First(ss, 0) = <<>> /\ First(ss, Len(ss)) = FlattenSeq(ss)
<1>1. SubSeq(ss, 1, 0) = <<>>
  BY SubSeqEmpty
<1>2. FlattenSeq(<<>>) = <<>>
  BY EmptySeq DEF FlattenSeq
<1>3. SubSeq(ss, 1, Len(ss)) = ss
  BY SubSeqFull
<1> QED BY <1>1, <1>2, <1>3 DEF First

(* One part more.                                                          *)
LEMMA FirstStep ==
  ASSUME NEW S, NEW ss \in Seq(Seq(S)), NEW k \in Nat, k < Len(ss)
  PROVE  First(ss, k + 1) = First(ss, k) \o ss[k + 1]
<1>1. k \in 0 .. Len(ss) /\ k + 1 \in 0 .. Len(ss) /\ k + 1 \in 1 .. k + 1
      /\ \A i \in 1 .. k : i \in 1 .. k + 1
  BY LenProperties
<1>2. PICK u \in Seq(Seq(S)) : u = SubSeq(ss, 1, k)
  BY <1>1, FirstParts
<1>3. PICK v \in Seq(Seq(S)) : v = SubSeq(ss, 1, k + 1)
  BY <1>1, FirstParts
<1>4. Len(u) = k /\ \A i \in 1 .. k : u[i] = ss[i]
  BY <1>1, <1>2, FirstParts
<1>5. Len(v) = k + 1 /\ \A i \in 1 .. k + 1 : v[i] = ss[i]
  BY <1>1, <1>3, FirstParts
<1>6. \A i \in 1 .. k : v[i] = u[i]
  BY <1>1, <1>4, <1>5
<1>7. FlattenSeq(v) = FlattenSeq(u) \o v[k + 1]
  BY <1>4, <1>5, <1>6, FlattenAppendLong
<1> QED BY <1>1, <1>2, <1>3, <1>5, <1>7 DEF First

(* The first parts lie at the beginning of the whole.                      *)
LEMMA FirstIsPrefix ==
  ASSUME NEW S, NEW ss \in Seq(Seq(S)), NEW k \in 0 .. Len(ss)
  PROVE  /\ Len(First(ss, k)) <= Len(FlattenSeq(ss))
         /\ \A p \in 1 .. Len(First(ss, k)) : FlattenSeq(ss)[p] = First(ss, k)[p]
<1> DEFINE Inside(m) == /\ Len(First(ss, k)) <= Len(First(ss, m))
                        /\ \A p \in 1 .. Len(First(ss, k)) : First(ss, m)[p] = First(ss, k)[p]
           T == {d \in Nat : k + d <= Len(ss) => Inside(k + d)}
<1>1. k \in Nat /\ Len(ss) \in Nat /\ First(ss, k) \in Seq(S) /\ Len(First(ss, k)) \in Nat
  BY FirstType, LenProperties
<1>2. 0 \in T
  <2>1. k + 0 = k
    BY <1>1
  <2>2. Inside(k)
    BY <1>1
  <2> QED BY <2>1, <2>2
<1>3. ASSUME NEW d \in Nat, d \in T PROVE d + 1 \in T
  <2> SUFFICES ASSUME k + (d + 1) <= Len(ss) PROVE Inside(k + (d + 1))
    OBVIOUS
  <2>1. PICK m \in Nat : m = k + d
    BY <1>1
  <2>2. k + (d + 1) = m + 1 /\ m < Len(ss) /\ m \in 0 .. Len(ss) /\ m + 1 \in 1 .. Len(ss)
    BY <1>1, <2>1
  <2>3. Inside(m)
    BY <1>1, <1>3, <2>1, <2>2
  <2>4. First(ss, m) \in Seq(S) /\ ss[m + 1] \in Seq(S)
    BY <2>2, FirstType, ElementOfSeq
  <2>5. First(ss, m + 1) = First(ss, m) \o ss[m + 1]
    BY <2>2, FirstStep
  <2>6. PICK a \in Seq(S) : a = First(ss, m)
    BY <2>4
  <2>7. PICK b \in Seq(S) : b = ss[m + 1]
    BY <2>4
  <2>8. Len(a \o b) = Len(a) + Len(b) /\ Len(a) \in Nat /\ Len(b) \in Nat
        /\ \A i \in 1 .. Len(a) : (a \o b)[i] = a[i]
    BY ConcatProperties, LenProperties
  <2>9. Inside(m + 1)
    <3>1. PICK l \in Nat : l = Len(First(ss, k))
      BY <1>1
    <3>2. First(ss, m + 1) = a \o b /\ l <= Len(a) /\ \A p \in 1 .. l : a[p] = First(ss, k)[p]
      BY <2>3, <2>5, <2>6, <2>7, <3>1
    <3>3. l <= Len(a \o b) /\ \A p \in 1 .. l : p \in 1 .. Len(a)
      BY <2>8, <3>2
    <3> QED BY <2>8, <3>1, <3>2, <3>3
  <2> HIDE DEF Inside
  <2> QED BY <2>2, <2>9
<1>4. \A d \in Nat : d \in T
  <2> HIDE DEF T
  <2> QED BY <1>2, <1>3, SetInduction
<1>5. PICK d \in Nat : k + d = Len(ss)
  <2>1. Len(ss) - k \in Nat /\ k + (Len(ss) - k) = Len(ss)
    BY <1>1
  <2> QED BY <2>1
<1>6. Inside(Len(ss))
  <2>1. Inside(k + d)
    <3>1. d \in T /\ k + d <= Len(ss)
      BY <1>1, <1>4, <1>5
    <3> QED BY <3>1, Zenon
  <2> QED BY <1>5, <2>1
<1> QED BY <1>6, FirstEnds

(* Where a part lies: behind those before it.                              *)
LEMMA PartLies ==
  ASSUME NEW S, NEW ss \in Seq(Seq(S)), NEW k \in Nat, k < Len(ss)
  PROVE  /\ Len(First(ss, k)) \in Nat /\ Len(ss[k + 1]) \in Nat
         /\ Len(First(ss, k + 1)) = Len(First(ss, k)) + Len(ss[k + 1])
         /\ Len(First(ss, k)) + Len(ss[k + 1]) <= Len(FlattenSeq(ss))
         /\ \A j \in 1 .. Len(ss[k + 1]) :
              FlattenSeq(ss)[Len(First(ss, k)) + j] = ss[k + 1][j]
<1>1. k \in 0 .. Len(ss) /\ k + 1 \in 0 .. Len(ss) /\ k + 1 \in 1 .. Len(ss)
  BY LenProperties
<1>2. PICK a \in Seq(S) : a = First(ss, k)
  BY <1>1, FirstType
<1>3. PICK b \in Seq(S) : b = ss[k + 1]
  BY <1>1, ElementOfSeq
<1>4. First(ss, k + 1) = a \o b
  BY <1>2, <1>3, FirstStep
<1>5. Len(a \o b) = Len(a) + Len(b) /\ Len(a) \in Nat /\ Len(b) \in Nat
      /\ \A j \in 1 .. Len(b) : (a \o b)[Len(a) + j] = b[j] /\ Len(a) + j \in 1 .. Len(a \o b)
  <2>1. \A j \in 1 .. Len(b) : ~ (Len(a) + j <= Len(a)) /\ Len(a) + j - Len(a) = j
                               /\ Len(a) + j \in 1 .. Len(a) + Len(b)
    BY LenProperties
  <2> QED BY <2>1, ConcatProperties, LenProperties
<1>6. /\ Len(First(ss, k + 1)) <= Len(FlattenSeq(ss))
      /\ \A p \in 1 .. Len(First(ss, k + 1)) : FlattenSeq(ss)[p] = First(ss, k + 1)[p]
  BY <1>1, FirstIsPrefix
<1> QED BY <1>2, <1>3, <1>4, <1>5, <1>6

(* Parts put behind parts.                                                 *)
LEMMA FlattenConcat ==
  ASSUME NEW S, NEW x \in Seq(Seq(S)), NEW y \in Seq(Seq(S))
  PROVE  FlattenSeq(x \o y) = FlattenSeq(x) \o FlattenSeq(y)
<1> DEFINE n == Len(x)
           z == x \o y
           T == {d \in Nat : d <= Len(y) => First(z, n + d) = FlattenSeq(x) \o First(y, d)}
<1>1. /\ z \in Seq(Seq(S)) /\ Len(z) = n + Len(y) /\ n \in Nat /\ Len(y) \in Nat
      /\ \A i \in 1 .. n : z[i] = x[i]
      /\ \A i \in 1 .. Len(y) : z[n + i] = y[i]
  <2>1. n \in Nat /\ Len(y) \in Nat
    BY LenProperties
  <2>2. \A i \in 1 .. Len(y) : ~ (n + i <= n) /\ n + i - n = i /\ n + i \in 1 .. n + Len(y)
    BY <2>1
  <2>3. \A i \in 1 .. n : i <= n /\ i \in 1 .. n + Len(y)
    BY <2>1
  <2> QED BY <2>1, <2>2, <2>3, ConcatProperties
<1> HIDE DEF z
<1>2. FlattenSeq(x) \in Seq(S)
  BY FlattenType
<1>3. 0 \in T
  <2>1. n \in 0 .. Len(z) /\ n + 0 = n
    BY <1>1
  <2>2. SubSeq(z, 1, n) \in Seq(Seq(S)) /\ Len(SubSeq(z, 1, n)) = n
        /\ \A i \in 1 .. n : SubSeq(z, 1, n)[i] = z[i]
    BY <1>1, <2>1, FirstParts
  <2>3. SubSeq(z, 1, n) = x
    BY <1>1, <2>2, SeqEqual
  <2>4. FlattenSeq(x) \o <<>> = FlattenSeq(x)
    BY <1>2, ConcatEmptySeq
  <2>5. First(y, 0) = <<>>
    BY FirstEnds
  <2>6. First(z, n) = FlattenSeq(x)
    BY <2>3 DEF First
  <2> QED BY <2>1, <2>4, <2>5, <2>6
<1>4. ASSUME NEW d \in Nat, d \in T PROVE d + 1 \in T
  <2> SUFFICES ASSUME d + 1 <= Len(y)
               PROVE  First(z, n + (d + 1)) = FlattenSeq(x) \o First(y, d + 1)
    OBVIOUS
  <2>1. /\ d < Len(y) /\ d <= Len(y) /\ d \in 0 .. Len(y) /\ d + 1 \in 1 .. Len(y)
        /\ n + d \in Nat /\ n + d < Len(z) /\ n + (d + 1) = (n + d) + 1
    BY <1>1
  <2>2. First(z, n + d) = FlattenSeq(x) \o First(y, d)
    BY <1>4, <2>1
  <2>3. First(z, (n + d) + 1) = First(z, n + d) \o z[(n + d) + 1]
    BY <1>1, <2>1, FirstStep
  <2>4. First(y, d + 1) = First(y, d) \o y[d + 1]
    BY <2>1, FirstStep
  <2>5. z[(n + d) + 1] = y[d + 1]
    BY <1>1, <2>1
  <2>6. First(y, d) \in Seq(S) /\ y[d + 1] \in Seq(S)
    BY <2>1, FirstType, ElementOfSeq
  <2>7. (FlattenSeq(x) \o First(y, d)) \o y[d + 1] = FlattenSeq(x) \o (First(y, d) \o y[d + 1])
    <3>1. PICK a \in Seq(S) : a = FlattenSeq(x)
      BY <1>2
    <3>2. PICK b \in Seq(S) : b = First(y, d)
      BY <2>6
    <3>3. PICK c \in Seq(S) : c = y[d + 1]
      BY <2>6
    <3>4. (a \o b) \o c = a \o (b \o c)
      BY SMTT(60)
    <3> QED BY <3>1, <3>2, <3>3, <3>4
  <2> QED BY <2>1, <2>2, <2>3, <2>4, <2>5, <2>7
<1>5. \A d \in Nat : d \in T
  <2> HIDE DEF T
  <2> QED BY <1>3, <1>4, SetInduction
<1>6. First(z, n + Len(y)) = FlattenSeq(x) \o First(y, Len(y))
  BY <1>1, <1>5
<1>7. First(z, Len(z)) = FlattenSeq(z) /\ First(y, Len(y)) = FlattenSeq(y)
  BY <1>1, FirstEnds
<1> QED BY <1>1, <1>6, <1>7 DEF z
=============================================================================
