----------------------------- MODULE MuxTx_proofs -----------------------------
(***************************************************************************)
(* Proofs about MuxTx, for any number of channels, frame lengths, retries  *)
(* and faults of the line.                                                 *)
(***************************************************************************)
EXTENDS MuxTx, SequenceTheorems, TLAPS

(* The thread holds write_frame_lock, in write_frame.                      *)
Writing(p) == pc[p] \in {"prefix", "data", "postfix", "fill", "write", "unlock"}

Owned == \A p \in Proc : Writing(p) => write_frame_lock = p

(* What the owner of the lock has put on the line. After a fault the owner *)
(* has left write_frame, but nobody gets the lock again.                   *)
TailOf(p) ==
  /\ \A i \in DOMAIN tail : tail[i].by = p
  /\ Len(tail) <= 3
  /\ pc[p] \in {"prefix", "fill", "write", "unlock"} => Len(tail) = 0
  /\ pc[p] = "data" => Len(tail) <= 1
  /\ pc[p] = "postfix" => Len(tail) <= 2

TailOwned ==
  /\ write_frame_lock = "none" => tail = <<>>
  /\ \A p \in Proc : write_frame_lock = p => TailOf(p)

(* The bytes of a frame are among those read and not yet written.          *)
Carried ==
  \A c \in Chan :
    /\ len[c] <= taken[c] /\ written[c] + Len(frame[c]) <= len[c]
    /\ pc[c] \in {"poll", "fc", "wait", "read"} => len[c] = 0

(* The read that a stopped channel may still do, before it waits.          *)
ReadDue == \A c \in Chan : tx_fc_off[c] /\ pc[c] = "read" => reads[c] <= wakes[c]

IInv == TypeOK /\ Owned /\ TailOwned /\ Carried /\ ReadDue /\ OneReadAfterOff

(* No thread writes, no bytes wait, nothing is on the line.                *)
LEMMA InitIInv == ASSUME TxAssumption PROVE Init => IInv
<1> SUFFICES ASSUME Init PROVE IInv
  OBVIOUS
<1> USE DEF Init, TxAssumption
<1>1. TypeOK
  <2>1. <<>> \in Frames /\ <<>> \in Seq([by : Proc, bytes : Frames])
    BY DEF Frames
  <2>2. 0 \in 0 .. ReadMax /\ 0 \in 0 .. Retries - 1 /\ 0 \in 0 .. MscBudget /\ 0 \in 0 .. WakeBudget
    OBVIOUS
  <2>3. pc \in [Proc -> States] /\ Asm \in Proc
    BY DEF Proc, States
  <2>4. adv_frame_buf \in [by : Proc, bytes : Frames]
    BY <2>1, <2>3 DEF Piece
  <2>5. \A c \in Chan : taken[c] = 0 /\ AppBytes[c] \in Nat
    OBVIOUS
  <2>6. \A c \in Chan : taken[c] <= AppBytes[c]
    BY <2>5
  <2> QED BY <2>1, <2>2, <2>3, <2>4, <2>6 DEF TypeOK
<1>2. Owned /\ TailOwned
  BY DEF Owned, Writing, TailOwned, Proc
<1>3. Carried
  BY DEF Carried, Proc
<1>4. ReadDue /\ OneReadAfterOff
  BY DEF ReadDue, OneReadAfterOff
<1> QED BY <1>1, <1>2, <1>3, <1>4 DEF IInv

-----------------------------------------------------------------------------
(* A step that changes neither the line nor who writes: the invariants on  *)
(* the line are kept.                                                      *)
LEMMA LineKept ==
  ASSUME TxAssumption, IInv, UNCHANGED <<write_frame_lock, tail>>,
         \A p \in Proc : Writing(p)' => Writing(p) /\ pc'[p] = pc[p]
  PROVE  Owned' /\ TailOwned'
<1>1. Owned'
  BY DEF IInv, Owned
<1>2. ASSUME NEW p \in Proc, write_frame_lock = p PROVE TailOf(p)'
  BY <1>2 DEF IInv, TailOwned, TailOf, Writing
<1> QED BY <1>1, <1>2 DEF IInv, TailOwned

(* A new frame holds no more than what remains to be written.              *)
LEMMA ChunkFits ==
  ASSUME TxAssumption, IInv, NEW c \in Chan
  PROVE  Chunk(c) \in Frames /\ written[c] + Len(Chunk(c)) <= len[c]
<1> DEFINE n == IF opened[c] THEN Smaller(N1[c], len[c] - written[c]) ELSE 0
<1>1. /\ len[c] \in Nat /\ written[c] \in Nat /\ taken[c] \in Nat /\ frame[c] \in Frames
      /\ N1[c] \in Nat /\ opened[c] \in BOOLEAN
  BY DEF IInv, TypeOK, Proc, TxAssumption
<1>2. written[c] + Len(frame[c]) <= len[c]
  BY DEF IInv, Carried
<1>3. Len(frame[c]) \in Nat
  BY <1>1 DEF Frames
<1>4. n \in Nat /\ written[c] + n <= len[c]
  BY <1>1, <1>2, <1>3 DEF Smaller
<1>5. Chunk(c) = [i \in 1 .. n |-> taken[c] - len[c] + written[c] + i]
  BY DEF Chunk
<1> HIDE DEF n
<1>6. \A i \in 1 .. n : taken[c] - len[c] + written[c] + i \in Int
  BY <1>1
<1>7. Chunk(c) \in Seq(Int) /\ Len(Chunk(c)) = n
  BY <1>4, <1>5, <1>6
<1> QED BY <1>4, <1>7 DEF Frames

(* The return of write_frame to its caller, with the bytes of a frame that *)
(* are counted as written.                                                 *)
LEMMA ReturnKeeps ==
  ASSUME TxAssumption, IInv, NEW p \in Proc, NEW n \in Nat, n <= Len(frame[p]),
         Return(p, n), frame' = [frame EXCEPT ![p] = <<>>],
         UNCHANGED <<opened, tx_fc_off, taken, reads, wakes>>
  PROVE  /\ len' \in [Chan -> 0 .. ReadMax] /\ written' \in [Chan -> 0 .. ReadMax]
         /\ tries' \in [Chan -> 0 .. Retries - 1]
         /\ pc' \in [Proc -> States] /\ frame' \in [Proc -> Frames]
         /\ failed' \subseteq {"TXTHREAD_SELECT_ERR", "TXTHREAD_ERR", "SERIAL_WRITE_ERR"}
         /\ Carried' /\ ReadDue' /\ OneReadAfterOff'
         /\ \A q \in Proc : Writing(q)' => q # p
         /\ \A q \in Proc : q # p => pc'[q] = pc[q]
<1> DEFINE Goal ==
             /\ len' \in [Chan -> 0 .. ReadMax] /\ written' \in [Chan -> 0 .. ReadMax]
             /\ tries' \in [Chan -> 0 .. Retries - 1]
             /\ pc' \in [Proc -> States]
             /\ failed' \subseteq {"TXTHREAD_SELECT_ERR", "TXTHREAD_ERR", "SERIAL_WRITE_ERR"}
             /\ Carried'
             /\ \A q \in Proc : Writing(q)' => q # p
             /\ \A q \in Proc : q # p => pc'[q] = pc[q]
             /\ pc'[p] # "read"
<1> USE DEF TxAssumption
<1>0. /\ len \in [Chan -> 0 .. ReadMax] /\ written \in [Chan -> 0 .. ReadMax]
      /\ tries \in [Chan -> 0 .. Retries - 1] /\ pc \in [Proc -> States]
      /\ taken \in [Chan -> Nat] /\ frame \in [Proc -> Frames]
      /\ failed \subseteq {"TXTHREAD_SELECT_ERR", "TXTHREAD_ERR", "SERIAL_WRITE_ERR"}
  BY DEF IInv, TypeOK
<1>1. frame' \in [Proc -> Frames] /\ \A q \in Proc : Len(frame'[q]) <= Len(frame[q])
                                                /\ Len(frame[q]) \in Nat /\ Len(frame'[q]) \in Nat
  <2>1. <<>> \in Frames /\ Len(<<>>) = 0
    BY DEF Frames
  <2>2. \A q \in Proc : Len(frame[q]) \in Nat
    BY <1>0 DEF Frames
  <2>3. frame' \in [Proc -> Frames]
    BY <1>0, <2>1
  <2>4. \A q \in Proc : Len(frame'[q]) = IF q = p THEN 0 ELSE Len(frame[q])
    BY <1>0, <2>1
  <2> QED BY <2>2, <2>3, <2>4
<1>2. ASSUME p = Asm PROVE Goal
  <2>1. pc' = [pc EXCEPT ![p] = "idle"] /\ UNCHANGED <<len, written, tries, failed>>
    BY <1>2 DEF Return, Goto
  <2>2. pc' \in [Proc -> States] /\ \A q \in Proc : pc'[q] = IF q = p THEN "idle" ELSE pc[q]
    BY <1>0, <2>1 DEF States
  <2>3. Carried'
    BY <1>0, <1>1, <1>2, <2>1, <2>2 DEF IInv, Carried, Proc
  <2> QED BY <1>0, <2>1, <2>2, <2>3 DEF Writing
<1>3. ASSUME p # Asm PROVE Goal
  <2> DEFINE w == written[p] + n
             i == IF n = 0 THEN tries[p] + 1 ELSE tries[p]
             more == w # len[p] /\ i < Retries
  <2>0. p \in Chan
    BY <1>3 DEF Proc
  <2>1. /\ pc' = [pc EXCEPT ![p] = IF more THEN "lock" ELSE "poll"]
        /\ written' = [written EXCEPT ![p] = IF more THEN w ELSE 0]
        /\ tries' = [tries EXCEPT ![p] = IF more THEN i ELSE 0]
        /\ len' = [len EXCEPT ![p] = IF more THEN @ ELSE 0]
        /\ IF more \/ w = len[p] THEN failed' = failed ELSE failed' = failed \cup {"SERIAL_WRITE_ERR"}
    BY <1>3 DEF Return, ReturnTo, Goto, Fail
  <2>2. w \in 0 .. ReadMax /\ w <= len[p] /\ len[p] \in 0 .. ReadMax
    <3>1. written[p] + Len(frame[p]) <= len[p] /\ Len(frame[p]) \in Nat
      BY <2>0, <1>1 DEF IInv, Carried
    <3> QED BY <3>1, <2>0, <1>0
  <2>3. i \in Nat /\ (more => i \in 0 .. Retries - 1) /\ 0 \in 0 .. Retries - 1 /\ 0 \in 0 .. ReadMax
    BY <2>0, <1>0
  <2> HIDE DEF w, i
  <2>4. /\ len' \in [Chan -> 0 .. ReadMax] /\ written' \in [Chan -> 0 .. ReadMax]
        /\ tries' \in [Chan -> 0 .. Retries - 1] /\ pc' \in [Proc -> States]
    BY <1>0, <2>0, <2>1, <2>2, <2>3 DEF States
  <2>5. \A q \in Proc : pc'[q] = IF q = p THEN IF more THEN "lock" ELSE "poll" ELSE pc[q]
    BY <1>0, <2>1
  <2>6. Carried'
    <3> SUFFICES ASSUME NEW c \in Chan
                 PROVE  /\ len'[c] <= taken[c] /\ written'[c] + Len(frame'[c]) <= len'[c]
                        /\ pc'[c] \in {"poll", "fc", "wait", "read"} => len'[c] = 0
      BY DEF Carried
    <3>1. /\ len[c] <= taken[c] /\ written[c] + Len(frame[c]) <= len[c]
          /\ pc[c] \in {"poll", "fc", "wait", "read"} => len[c] = 0
          /\ c \in Proc /\ taken[c] \in Nat
      BY <1>0 DEF IInv, Carried, Proc
    <3>2. CASE c = p
      <4>1. frame'[c] = <<>> /\ Len(frame'[c]) = 0
        BY <3>1, <3>2, <1>0
      <4>2. /\ written'[c] = IF more THEN w ELSE 0
            /\ len'[c] = IF more THEN len[c] ELSE 0
            /\ pc'[c] = IF more THEN "lock" ELSE "poll"
        BY <3>2, <2>1, <1>0, <3>1
      <4> HIDE DEF more
      <4> QED BY <4>1, <4>2, <3>1, <3>2, <2>2
    <3>3. CASE c # p
      <4>1. frame'[c] = frame[c] /\ written'[c] = written[c] /\ len'[c] = len[c] /\ pc'[c] = pc[c]
        BY <3>1, <3>3, <2>1, <1>0
      <4> QED BY <4>1, <3>1
    <3> QED BY <3>2, <3>3
  <2>7. failed' \subseteq {"TXTHREAD_SELECT_ERR", "TXTHREAD_ERR", "SERIAL_WRITE_ERR"}
    BY <1>0, <2>1
  <2>8. (\A q \in Proc : Writing(q)' => q # p) /\ pc'[p] # "read"
    BY <2>5 DEF Writing
  <2>9. \A q \in Proc : q # p => pc'[q] = pc[q]
    BY <2>5
  <2> QED BY <2>4, <2>6, <2>7, <2>8, <2>9
<1>4. Goal
  BY <1>2, <1>3
<1>5. ReadDue' /\ OneReadAfterOff'
  <2>1. OneReadAfterOff'
    BY DEF IInv, OneReadAfterOff
  <2>2. \A c \in Chan : pc'[c] = "read" => pc[c] = "read"
    <3> SUFFICES ASSUME NEW c \in Chan, pc'[c] = "read" PROVE pc[c] = "read"
      OBVIOUS
    <3>1. c \in Proc /\ c # p
      BY <1>4 DEF Proc
    <3> QED BY <1>4, <3>1
  <2> QED BY <2>1, <2>2 DEF IInv, ReadDue
<1> QED BY <1>1, <1>4, <1>5

-----------------------------------------------------------------------------
(* The threads outside of write_frame.                                     *)

(* The steps of pseudo_device_read other than the read itself.             *)
LEMMA PollKeeps ==
  ASSUME TxAssumption, IInv, NEW c \in Chan,
         PollReady(c) \/ PollClosed(c) \/ FcCheck(c) \/ FcSpurious(c) \/ ReadFails(c)
  PROVE  IInv'
<1> USE DEF TxAssumption
<1>0. c \in Proc /\ Chan \subseteq Proc
  BY DEF Proc
<1>1. /\ UNCHANGED <<cmux_mode, chanVars, dataVars, frame, write_frame_lock, lineVars,
                     msc, reads, faulted>>
      /\ pc' \in [Proc -> States] /\ \A p \in Proc : p # c => pc'[p] = pc[p]
      /\ pc[c] \in {"poll", "fc", "wait", "read"}
      /\ pc'[c] \in {"poll", "fc", "wait", "read", "ended"}
      /\ failed' \subseteq {"TXTHREAD_SELECT_ERR", "TXTHREAD_ERR", "SERIAL_WRITE_ERR"}
  BY <1>0, ZenonT(60)
  DEF IInv, TypeOK, PollReady, PollClosed, FcCheck, FcSpurious, ReadFails, Goto,
              Fail, States, chanVars, dataVars, lineVars
<1>2. /\ wakes' \in [Chan -> 0 .. WakeBudget] /\ \A d \in Chan : wakes[d] <= wakes'[d]
      /\ tx_fc_off[c] /\ pc'[c] = "read" => wakes'[c] = wakes[c] + 1 \/ pc[c] = "read"
  <2>0. wakes \in [Chan -> 0 .. WakeBudget] /\ pc \in [Proc -> States]
    BY DEF IInv, TypeOK
  <2>1. CASE FcSpurious(c)
    <3>1. wakes[c] < WakeBudget /\ wakes' = [wakes EXCEPT ![c] = @ + 1]
      BY <2>1 DEF FcSpurious
    <3>2. wakes[c] + 1 \in 0 .. WakeBudget /\ wakes'[c] = wakes[c] + 1
      BY <2>0, <3>1
    <3> QED BY <2>0, <3>1, <3>2
  <2>2. CASE ~FcSpurious(c)
    <3>1. wakes' = wakes
      BY <2>2 DEF PollReady, PollClosed, FcCheck, ReadFails
    <3>2. tx_fc_off[c] /\ pc'[c] = "read" => pc[c] = "read"
      BY <1>0, <2>0, <2>2 DEF PollReady, PollClosed, FcCheck, ReadFails, Goto
    <3>3. \A d \in Chan : wakes[d] <= wakes[d]
      BY <2>0
    <3> QED BY <2>0, <3>1, <3>2, <3>3
  <2> QED BY <2>1, <2>2
<1>3. TypeOK'
  BY <1>1, <1>2 DEF IInv, TypeOK, chanVars, dataVars, lineVars
<1>4. Owned' /\ TailOwned'
  BY <1>0, <1>1, LineKept DEF Writing, lineVars
<1>5. Carried'
  BY <1>0, <1>1 DEF IInv, Carried, dataVars
<1>6. OneReadAfterOff'
  <2> SUFFICES ASSUME NEW d \in Chan, tx_fc_off[d] PROVE reads[d] <= 1 + wakes'[d]
    BY <1>1 DEF OneReadAfterOff, chanVars
  <2>1. reads[d] \in Nat /\ wakes[d] \in Nat /\ wakes'[d] \in Nat /\ reads[d] <= 1 + wakes[d]
    BY <1>2 DEF IInv, TypeOK, OneReadAfterOff
  <2> QED BY <1>2, <2>1
<1>7. ReadDue'
  <2> SUFFICES ASSUME NEW d \in Chan, tx_fc_off[d], pc'[d] = "read"
               PROVE  reads[d] <= wakes'[d]
    BY <1>1 DEF ReadDue, chanVars
  <2>1. reads[d] \in Nat /\ wakes[d] \in Nat /\ wakes'[d] \in Nat /\ reads[d] <= 1 + wakes[d]
    BY <1>2 DEF IInv, TypeOK, OneReadAfterOff
  <2>2. CASE pc[d] = "read"
    BY <1>2, <2>1, <2>2 DEF IInv, ReadDue
  <2>3. CASE pc[d] # "read"
    BY <1>0, <1>1, <1>2, <2>1, <2>3
  <2> QED BY <2>2, <2>3
<1> QED BY <1>3, <1>4, <1>5, <1>6, <1>7 DEF IInv

(* A read: at most one after the stop, unless a wakeup allowed more.       *)
LEMMA ReadKeeps ==
  ASSUME TxAssumption, IInv, NEW c \in Chan, Read(c)
  PROVE  IInv'
<1> USE DEF TxAssumption
<1>0. c \in Proc /\ Chan \subseteq Proc
  BY DEF Proc
<1>1. /\ UNCHANGED <<cmux_mode, chanVars, written, tries, frame, write_frame_lock, lineVars,
                     msc, wakes, faulted, failed>>
      /\ pc[c] = "read" /\ pc' = [pc EXCEPT ![c] = "lock"]
      /\ reads' = [reads EXCEPT ![c] = @ + 1]
  BY DEF Read, Goto
<1>2. PICK n \in 1 .. Smaller(ReadMax, AppBytes[c] - taken[c]) :
           taken' = [taken EXCEPT ![c] = @ + n] /\ len' = [len EXCEPT ![c] = n]
  BY DEF Read
<1>3. /\ taken \in [Chan -> Nat] /\ len \in [Chan -> 0 .. ReadMax] /\ AppBytes[c] \in Nat
      /\ \A d \in Chan : taken[d] <= AppBytes[d]
      /\ pc \in [Proc -> States] /\ reads \in [Chan -> Nat] /\ wakes \in [Chan -> 0 .. WakeBudget]
  BY DEF IInv, TypeOK
<1>4. n \in 0 .. ReadMax /\ n \in Nat /\ taken[c] + n <= AppBytes[c] /\ taken[c] \in Nat
  BY <1>3 DEF Smaller
<1>5. /\ taken' \in [Chan -> Nat] /\ \A d \in Chan : taken'[d] <= AppBytes[d]
      /\ len' \in [Chan -> 0 .. ReadMax] /\ pc' \in [Proc -> States] /\ reads' \in [Chan -> Nat]
  <2>1. taken[c] + n \in Nat /\ "lock" \in States /\ reads[c] + 1 \in Nat
    BY <1>3, <1>4 DEF States
  <2>2. \A d \in Chan : taken'[d] <= AppBytes[d]
    BY <1>2, <1>3, <1>4
  <2> QED BY <1>1, <1>2, <1>3, <1>4, <2>1, <2>2
<1>6. TypeOK'
  BY <1>1, <1>5 DEF IInv, TypeOK, chanVars, lineVars
<1>7. Owned' /\ TailOwned'
  BY <1>0, <1>1, <1>3, LineKept DEF Writing, lineVars
<1>8. Carried'
  <2> SUFFICES ASSUME NEW d \in Chan
               PROVE  /\ len'[d] <= taken'[d] /\ written[d] + Len(frame[d]) <= len'[d]
                      /\ pc'[d] \in {"poll", "fc", "wait", "read"} => len'[d] = 0
    BY <1>1 DEF Carried
  <2>1. /\ len[d] <= taken[d] /\ written[d] + Len(frame[d]) <= len[d]
        /\ pc[d] \in {"poll", "fc", "wait", "read"} => len[d] = 0
        /\ frame[d] \in Frames /\ written[d] \in Nat /\ d \in Proc
    BY <1>0 DEF IInv, Carried, TypeOK
  <2>2. Len(frame[d]) \in Nat
    BY <2>1 DEF Frames
  <2>3. CASE d = c
    <3>1. len'[d] = n /\ taken'[d] = taken[c] + n /\ pc'[d] = "lock" /\ len[d] = 0
      BY <1>0, <1>1, <1>2, <1>3, <2>1, <2>3
    <3> QED BY <1>4, <2>1, <2>2, <3>1
  <2>4. CASE d # c
    <3>1. len'[d] = len[d] /\ taken'[d] = taken[d] /\ pc'[d] = pc[d]
      BY <1>1, <1>2, <1>3, <2>1, <2>4
    <3> QED BY <2>1, <3>1
  <2> QED BY <2>3, <2>4
<1>9. OneReadAfterOff' /\ ReadDue'
  <2> SUFFICES ASSUME NEW d \in Chan, tx_fc_off[d]
               PROVE  reads'[d] <= 1 + wakes[d] /\ (pc'[d] = "read" => reads'[d] <= wakes[d])
    BY <1>1 DEF OneReadAfterOff, ReadDue, chanVars
  <2>1. /\ reads[d] <= 1 + wakes[d] /\ (pc[d] = "read" => reads[d] <= wakes[d])
        /\ reads[d] \in Nat /\ wakes[d] \in Nat /\ d \in Proc
    BY <1>0, <1>3 DEF IInv, OneReadAfterOff, ReadDue
  <2> QED BY <1>0, <1>1, <1>3, <2>1
<1> QED BY <1>6, <1>7, <1>8, <1>9 DEF IInv

-----------------------------------------------------------------------------
(* write_frame.                                                            *)

(* A step of write_frame that moves its thread only.                       *)
LEMMA WritingKeeps ==
  ASSUME TxAssumption, IInv, NEW p \in Proc, Writing(p),
         NEW where \in States \ {"poll", "fc", "wait", "read"},
         pc' = [pc EXCEPT ![p] = where],
         UNCHANGED <<cmux_mode, chanVars, dataVars, frame, write_frame_lock, msc, reads,
                     wakes, faulted, failed>>,
         adv_frame_buf' \in [by : Proc, bytes : Frames],
         tail' \in Seq([by : Proc, bytes : Frames]), TailOf(p)'
  PROVE  IInv'
<1>1. /\ pc \in [Proc -> States] /\ pc' \in [Proc -> States]
      /\ \A q \in Proc : pc'[q] = IF q = p THEN where ELSE pc[q]
      /\ Chan \subseteq Proc /\ write_frame_lock = p /\ p # "none"
  BY DEF IInv, TypeOK, Owned, Proc, TxAssumption
<1>2. TypeOK'
  BY <1>1 DEF IInv, TypeOK, chanVars, dataVars
<1>3. Owned'
  BY <1>1 DEF IInv, Owned, Writing
<1>4. TailOwned'
  BY <1>1 DEF TailOwned
<1>5. Carried' /\ ReadDue' /\ OneReadAfterOff'
  BY <1>1 DEF IInv, Carried, ReadDue, OneReadAfterOff, chanVars, dataVars
<1> QED BY <1>2, <1>3, <1>4, <1>5 DEF IInv

(* One more piece of the owner's frame.                                    *)
LEMMA PieceAdded ==
  ASSUME TxAssumption, IInv, NEW p \in Proc, Writing(p), NEW bytes \in Frames,
         tail' = Append(tail, Piece(p, bytes))
  PROVE  /\ tail' \in Seq([by : Proc, bytes : Frames]) /\ Len(tail') = Len(tail) + 1
         /\ Len(tail) \in Nat /\ \A i \in DOMAIN tail' : tail'[i].by = p
         /\ TailOf(p)
<1>1. write_frame_lock = p
  BY DEF IInv, Owned
<1>2. TailOf(p)
  BY <1>1 DEF IInv, TailOwned
<1>3. tail \in Seq([by : Proc, bytes : Frames]) /\ Piece(p, bytes) \in [by : Proc, bytes : Frames]
  BY DEF IInv, TypeOK, Piece
<1>4. Piece(p, bytes).by = p
  BY DEF Piece
<1> QED BY <1>2, <1>3, <1>4 DEF TailOf

(* The prefix is the first piece of the owner's frame.                     *)
LEMMA PrefixKeeps ==
  ASSUME TxAssumption, IInv, NEW p \in Proc, WfPrefix(p)
  PROVE  IInv'
<1>1. /\ Writing(p) /\ <<>> \in Frames /\ tail' = Append(tail, Piece(p, <<>>))
      /\ pc[p] = "prefix" /\ pc \in [Proc -> States]
  BY DEF WfPrefix, Writing, Frames, IInv, TypeOK
<1> DEFINE where == IF frame[p] = <<>> THEN "postfix" ELSE "data"
<1>2. pc' = [pc EXCEPT ![p] = where] /\ where \in {"postfix", "data"}
  BY DEF WfPrefix, Goto
<1> HIDE DEF where
<1>3. /\ tail' \in Seq([by : Proc, bytes : Frames]) /\ Len(tail') = Len(tail) + 1
      /\ Len(tail) \in Nat /\ \A i \in DOMAIN tail' : tail'[i].by = p
      /\ TailOf(p)
  BY <1>1, PieceAdded
<1>4. TailOf(p)'
  BY <1>1, <1>2, <1>3 DEF TailOf
<1>5. where \in States \ {"poll", "fc", "wait", "read"}
  BY <1>2 DEF States
<1>6. adv_frame_buf' \in [by : Proc, bytes : Frames]
  BY DEF WfPrefix, IInv, TypeOK
<1> QED BY <1>1, <1>2, <1>3, <1>4, <1>5, <1>6, WritingKeeps DEF WfPrefix

(* The payload is the second piece.                                        *)
LEMMA DataKeeps ==
  ASSUME TxAssumption, IInv, NEW p \in Proc, WfData(p)
  PROVE  IInv'
<1>1. /\ Writing(p) /\ frame[p] \in Frames /\ tail' = Append(tail, Piece(p, frame[p]))
      /\ pc[p] = "data" /\ pc \in [Proc -> States] /\ pc' = [pc EXCEPT ![p] = "postfix"]
  BY DEF WfData, Writing, IInv, TypeOK, Goto
<1>2. /\ tail' \in Seq([by : Proc, bytes : Frames]) /\ Len(tail') = Len(tail) + 1
      /\ Len(tail) \in Nat /\ \A i \in DOMAIN tail' : tail'[i].by = p
      /\ TailOf(p)
  BY <1>1, PieceAdded
<1>3. TailOf(p)'
  BY <1>1, <1>2 DEF TailOf
<1>4. "postfix" \in States \ {"poll", "fc", "wait", "read"}
  BY DEF States
<1>5. adv_frame_buf' \in [by : Proc, bytes : Frames]
  BY DEF WfData, IInv, TypeOK
<1> QED BY <1>1, <1>2, <1>3, <1>4, <1>5, WritingKeeps DEF WfData

(* The shared buffer is filled with the owner's frame.                     *)
LEMMA FillKeeps ==
  ASSUME TxAssumption, IInv, NEW p \in Proc, WfFill(p)
  PROVE  IInv'
<1>1. /\ Writing(p) /\ frame[p] \in Frames /\ pc[p] = "fill" /\ pc \in [Proc -> States]
      /\ pc' = [pc EXCEPT ![p] = "write"] /\ tail' = tail
      /\ tail \in Seq([by : Proc, bytes : Frames])
  BY DEF WfFill, Writing, IInv, TypeOK, Goto
<1>2. TailOf(p)
  BY <1>1 DEF IInv, Owned, TailOwned
<1>3. TailOf(p)'
  BY <1>1, <1>2 DEF TailOf
<1>4. "write" \in States \ {"poll", "fc", "wait", "read"}
  BY DEF States
<1>5. adv_frame_buf' \in [by : Proc, bytes : Frames]
  BY <1>1 DEF WfFill, Piece
<1> QED BY <1>1, <1>3, <1>4, <1>5, WritingKeeps DEF WfFill

(* The last piece, or the whole frame: the line is clear again.            *)
LEMMA ReceivedKeeps ==
  ASSUME TxAssumption, IInv, NEW p \in Proc, WfPostfix(p) \/ WfWrite(p)
  PROVE  IInv'
<1>1. /\ Writing(p) /\ pc \in [Proc -> States] /\ pc' = [pc EXCEPT ![p] = "unlock"]
      /\ tail' = <<>>
  BY DEF WfPostfix, WfWrite, Receive, Writing, IInv, TypeOK, Goto
<1>2. TailOf(p)' /\ tail' \in Seq([by : Proc, bytes : Frames])
  BY <1>1 DEF TailOf
<1>3. "unlock" \in States \ {"poll", "fc", "wait", "read"}
  BY DEF States
<1>4. adv_frame_buf' \in [by : Proc, bytes : Frames]
  BY DEF WfPostfix, WfWrite, IInv, TypeOK
<1>5. UNCHANGED <<cmux_mode, chanVars, dataVars, frame, write_frame_lock, msc, reads,
                  wakes, faulted, failed>>
  BY DEF WfPostfix, WfWrite
<1> QED BY <1>1, <1>2, <1>3, <1>4, <1>5, WritingKeeps

(* The lock is free, so that nobody writes and the line holds no piece.    *)
LEMMA LockKeeps ==
  ASSUME TxAssumption, IInv, NEW p \in Proc, WfLock(p)
  PROVE  IInv'
<1> DEFINE where == IF cmux_mode = "basic" THEN "prefix" ELSE "fill"
           new == IF p = Asm THEN <<msc>> ELSE Chunk(p)
<1>1. /\ pc[p] = "lock" /\ pc' = [pc EXCEPT ![p] = where] /\ frame' = [frame EXCEPT ![p] = new]
      /\ write_frame_lock = "none" /\ write_frame_lock' = p
      /\ UNCHANGED <<cmux_mode, chanVars, dataVars, lineVars, msc, reads, wakes, faulted, failed>>
  BY DEF WfLock, Goto
<1>2. where \in {"prefix", "fill"} /\ where \in States
  BY DEF States
<1>3. new \in Frames /\ (p # Asm => written[p] + Len(new) <= len[p])
  <2>1. CASE p = Asm
    BY <2>1 DEF IInv, TypeOK, Frames
  <2>2. CASE p # Asm
    BY <2>2, ChunkFits DEF Proc
  <2> QED BY <2>1, <2>2
<1> HIDE DEF where, new
<1>4. /\ pc \in [Proc -> States] /\ frame \in [Proc -> Frames]
      /\ Chan \subseteq Proc /\ p # "none" /\ tail = <<>> /\ tail' = <<>>
      /\ \A q \in Proc : ~Writing(q)
      /\ Asm \notin Chan
  BY <1>1 DEF IInv, TypeOK, Owned, TailOwned, Proc, TxAssumption, lineVars
<1>5. /\ \A q \in Proc : pc'[q] = IF q = p THEN where ELSE pc[q]
      /\ \A q \in Proc : frame'[q] = IF q = p THEN new ELSE frame[q]
      /\ frame' \in [Proc -> Frames] /\ pc' \in [Proc -> States]
  BY <1>1, <1>2, <1>3, <1>4
<1>6. TypeOK'
  BY <1>1, <1>5 DEF IInv, TypeOK, chanVars, dataVars, lineVars
<1>7. Owned'
  BY <1>1, <1>4, <1>5 DEF Owned, Writing
<1>8. TailOwned'
  BY <1>1, <1>2, <1>4, <1>5 DEF TailOwned, TailOf
<1>9. Carried'
  BY <1>1, <1>2, <1>3, <1>4, <1>5 DEF IInv, Carried, dataVars
<1>10. ReadDue' /\ OneReadAfterOff'
  BY <1>1, <1>2, <1>4, <1>5 DEF IInv, ReadDue, OneReadAfterOff, chanVars
<1> QED BY <1>6, <1>7, <1>8, <1>9, <1>10 DEF IInv

(* The owner leaves with its frame complete and releases the lock.         *)
LEMMA UnlockKeeps ==
  ASSUME TxAssumption, IInv, NEW p \in Proc, WfUnlock(p)
  PROVE  IInv'
<1>1. /\ pc[p] = "unlock" /\ write_frame_lock' = "none" /\ Return(p, Len(frame[p]))
      /\ frame' = [frame EXCEPT ![p] = <<>>]
      /\ UNCHANGED <<cmux_mode, chanVars, taken, lineVars, msc, reads, wakes, faulted>>
  BY DEF WfUnlock
<1>2. Len(frame[p]) \in Nat
  BY DEF IInv, TypeOK, Frames
<1>3. /\ len' \in [Chan -> 0 .. ReadMax] /\ written' \in [Chan -> 0 .. ReadMax]
      /\ tries' \in [Chan -> 0 .. Retries - 1]
      /\ pc' \in [Proc -> States] /\ frame' \in [Proc -> Frames]
      /\ failed' \subseteq {"TXTHREAD_SELECT_ERR", "TXTHREAD_ERR", "SERIAL_WRITE_ERR"}
      /\ Carried' /\ ReadDue' /\ OneReadAfterOff'
      /\ \A q \in Proc : Writing(q)' => q # p
      /\ \A q \in Proc : q # p => pc'[q] = pc[q]
  <2>1. UNCHANGED <<opened, tx_fc_off, taken, reads, wakes>>
    BY <1>1 DEF chanVars
  <2> DEFINE n == Len(frame[p])
  <2>2. n \in Nat /\ n <= Len(frame[p]) /\ Return(p, n)
    BY <1>1, <1>2
  <2> HIDE DEF n
  <2> QED BY <1>1, <2>1, <2>2, ReturnKeeps
<1>4. write_frame_lock = p /\ tail = <<>>
  <2>1. Writing(p) /\ write_frame_lock = p
    BY <1>1 DEF Writing, IInv, Owned
  <2>2. TailOf(p) /\ tail \in Seq([by : Proc, bytes : Frames])
    BY <2>1 DEF IInv, TailOwned, TypeOK
  <2>3. Len(tail) = 0
    BY <1>1, <2>2 DEF TailOf
  <2> QED BY <2>1, <2>2, <2>3
<1>5. TypeOK'
  BY <1>1, <1>3 DEF IInv, TypeOK, chanVars, lineVars
<1>6. \A q \in Proc : ~Writing(q)'
  BY <1>3, <1>4 DEF IInv, Owned, Writing
<1>7. Owned'
  BY <1>6 DEF Owned
<1>8. TailOwned'
  BY <1>1, <1>4 DEF TailOwned, lineVars, TxAssumption, Proc
<1> QED BY <1>3, <1>5, <1>7, <1>8 DEF IInv

(* The lock stays with the thread that leaves.                             *)
LEMMA FaultKeeps ==
  ASSUME TxAssumption, IInv, NEW p \in Proc, WfFault(p)
  PROVE  IInv'
<1>1. /\ pc[p] \in {"prefix", "data", "postfix", "write"} /\ Return(p, 0)
      /\ frame' = [frame EXCEPT ![p] = <<>>] /\ faulted' = TRUE
      /\ UNCHANGED <<cmux_mode, chanVars, taken, write_frame_lock, adv_frame_buf, got,
                     msc, reads, wakes>>
  BY DEF WfFault
<1>2. frame[p] \in Frames /\ Len(frame[p]) \in Nat
  BY DEF IInv, TypeOK, Frames
<1>3. /\ len' \in [Chan -> 0 .. ReadMax] /\ written' \in [Chan -> 0 .. ReadMax]
      /\ tries' \in [Chan -> 0 .. Retries - 1]
      /\ pc' \in [Proc -> States] /\ frame' \in [Proc -> Frames]
      /\ failed' \subseteq {"TXTHREAD_SELECT_ERR", "TXTHREAD_ERR", "SERIAL_WRITE_ERR"}
      /\ Carried' /\ ReadDue' /\ OneReadAfterOff'
      /\ \A q \in Proc : Writing(q)' => q # p
      /\ \A q \in Proc : q # p => pc'[q] = pc[q]
  <2>1. UNCHANGED <<opened, tx_fc_off, taken, reads, wakes>> /\ 0 <= Len(frame[p]) /\ 0 \in Nat
    BY <1>1, <1>2 DEF chanVars
  <2> QED BY <1>1, <2>1, ReturnKeeps
<1>4. Writing(p) /\ write_frame_lock = p /\ p # "none"
  BY <1>1 DEF Writing, IInv, Owned, TxAssumption, Proc
<1>5. /\ tail' \in Seq([by : Proc, bytes : Frames]) /\ Len(tail') <= 3
      /\ \A i \in DOMAIN tail' : tail'[i].by = p
  <2>1. TailOf(p) /\ tail \in Seq([by : Proc, bytes : Frames])
    BY <1>4 DEF IInv, TailOwned, TypeOK
  <2>2. CASE tail' = tail
    BY <2>1, <2>2 DEF TailOf
  <2>3. CASE tail' # tail
    <3>1. PICK n \in 0 .. Len(frame[p]) : tail' = Append(tail, Piece(p, SubSeq(frame[p], 1, n)))
      BY <2>3 DEF WfFault
    <3>2. SubSeq(frame[p], 1, n) \in Frames
      BY <1>2, <3>1 DEF Frames
    <3>3. Len(tail') = Len(tail) + 1 /\ Len(tail) \in Nat
          /\ tail' \in Seq([by : Proc, bytes : Frames])
          /\ \A i \in DOMAIN tail' : tail'[i].by = p
      BY <1>4, <3>1, <3>2, PieceAdded
    <3>4. Len(tail) <= 2
      BY <1>1, <2>1, <3>3 DEF TailOf
    <3> QED BY <3>3, <3>4
  <2> QED BY <2>2, <2>3
<1>6. TypeOK'
  BY <1>1, <1>3, <1>5 DEF IInv, TypeOK, chanVars
<1>7. \A q \in Proc : ~Writing(q)'
  BY <1>3, <1>4 DEF IInv, Owned, Writing
<1>8. Owned'
  BY <1>7 DEF Owned
<1>9. TailOf(p)'
  BY <1>5, <1>7 DEF TailOf, Writing
<1>10. TailOwned'
  BY <1>1, <1>4, <1>9 DEF TailOwned
<1> QED BY <1>3, <1>6, <1>8, <1>10 DEF IInv

-----------------------------------------------------------------------------
(* The assembler: flow control commands and the end of a channel.          *)

(* A stop starts the count anew; a go wakes the waiting thread.            *)
LEMMA MscKeeps ==
  ASSUME TxAssumption, IInv, NEW c \in Chan, MscOff(c) \/ MscOn(c)
  PROVE  IInv'
<1>0. /\ pc \in [Proc -> States] /\ Asm \in Proc /\ c \in Proc /\ Chan \subseteq Proc
      /\ Asm \notin Chan /\ tx_fc_off \in [Chan -> BOOLEAN]
      /\ reads \in [Chan -> Nat] /\ wakes \in [Chan -> 0 .. WakeBudget]
      /\ msc \in 0 .. MscBudget /\ WakeBudget \in Nat /\ MscBudget \in Nat
  BY DEF IInv, TypeOK, Proc, TxAssumption
<1>1. /\ pc[Asm] = "idle" /\ msc < MscBudget /\ msc' = msc + 1
      /\ UNCHANGED <<cmux_mode, opened, dataVars, frame, write_frame_lock, lineVars,
                     faulted, failed>>
  BY DEF MscOff, MscOn
<1>2. /\ pc' \in [Proc -> States] /\ pc'[Asm] = "lock"
      /\ \A d \in Chan : pc'[d] = pc[d] \/ (pc[d] = "wait" /\ pc'[d] = "read" /\ ~tx_fc_off'[d])
  <2>1. CASE pc' = [pc EXCEPT ![Asm] = "lock"]
    <3>1. "lock" \in States
      BY DEF States
    <3>2. pc' \in [Proc -> States] /\ \A p \in Proc : pc'[p] = IF p = Asm THEN "lock" ELSE pc[p]
      BY <1>0, <2>1, <3>1
    <3>3. ASSUME NEW d \in Chan PROVE pc'[d] = pc[d]
      <4>1. d \in Proc /\ d # Asm
        BY <1>0
      <4> QED BY <3>2, <4>1
    <3> QED BY <1>0, <3>2, <3>3
  <2>2. CASE /\ tx_fc_off' = [tx_fc_off EXCEPT ![c] = FALSE]
             /\ pc' = [pc EXCEPT ![Asm] = "lock", ![c] = IF @ = "wait" THEN "read" ELSE @]
    <3> DEFINE then == IF pc[c] = "wait" THEN "read" ELSE pc[c]
    <3>1. "lock" \in States /\ then \in States
      BY <1>0 DEF States
    <3>2. pc' = [pc EXCEPT ![Asm] = "lock", ![c] = then]
      BY <1>0, <2>2
    <3>3. \A p \in Proc : pc'[p] = IF p = c THEN then ELSE IF p = Asm THEN "lock" ELSE pc[p]
      BY <1>0, <3>2
    <3>4. pc' \in [Proc -> States]
      BY <1>0, <3>1, <3>2
    <3>5. ~tx_fc_off'[c]
      BY <1>0, <2>2
    <3>6. ASSUME NEW d \in Chan
          PROVE  pc'[d] = pc[d] \/ (d = c /\ pc[d] = "wait" /\ pc'[d] = "read")
      <4>1. d \in Proc /\ d # Asm
        BY <1>0
      <4> QED BY <3>3, <4>1
    <3> HIDE DEF then
    <3>7. pc'[Asm] = "lock"
      BY <1>0, <3>3
    <3> QED BY <3>4, <3>5, <3>6, <3>7
  <2> QED BY <2>1, <2>2 DEF MscOff, MscOn, Goto
<1>3. /\ tx_fc_off' \in [Chan -> BOOLEAN] /\ reads' \in [Chan -> Nat]
      /\ wakes' \in [Chan -> 0 .. WakeBudget]
      /\ \A d \in Chan : tx_fc_off'[d] =>
           \/ tx_fc_off[d] /\ reads'[d] = reads[d] /\ wakes'[d] = wakes[d]
           \/ reads'[d] = 0 /\ wakes'[d] = 0
  <2>1. CASE UNCHANGED <<tx_fc_off, reads, wakes>>
    BY <1>0, <2>1
  <2>2. CASE tx_fc_off' = [tx_fc_off EXCEPT ![c] = FALSE] /\ UNCHANGED <<reads, wakes>>
    BY <1>0, <2>2
  <2>3. CASE /\ tx_fc_off' = [tx_fc_off EXCEPT ![c] = TRUE] /\ ~tx_fc_off[c]
             /\ reads' = [reads EXCEPT ![c] = 0] /\ wakes' = [wakes EXCEPT ![c] = 0]
    <3>1. 0 \in 0 .. WakeBudget
      BY <1>0
    <3> QED BY <1>0, <2>3, <3>1
  <2> QED BY <2>1, <2>2, <2>3 DEF MscOff, MscOn
<1>4. TypeOK'
  <2>1. msc' \in 0 .. MscBudget
    BY <1>0, <1>1
  <2>2. UNCHANGED <<cmux_mode, opened, taken, len, written, tries, frame, write_frame_lock,
                    adv_frame_buf, tail, faulted, failed>>
    BY <1>1 DEF dataVars, lineVars
  <2> QED BY <1>2, <1>3, <2>1, <2>2 DEF IInv, TypeOK
<1>5. Owned' /\ TailOwned'
  <2>1. \A p \in Proc : Writing(p)' => Writing(p) /\ pc'[p] = pc[p]
    BY <1>2 DEF Writing, Proc
  <2> QED BY <1>1, <2>1, LineKept DEF lineVars
<1>6. Carried'
  BY <1>1, <1>2 DEF IInv, Carried, dataVars
<1>7. OneReadAfterOff' /\ ReadDue'
  <2> SUFFICES ASSUME NEW d \in Chan, tx_fc_off'[d]
               PROVE  reads'[d] <= 1 + wakes'[d] /\ (pc'[d] = "read" => reads'[d] <= wakes'[d])
    BY DEF OneReadAfterOff, ReadDue
  <2>1. /\ reads[d] \in Nat /\ wakes[d] \in Nat /\ pc'[d] = pc[d]
    BY <1>0, <1>2
  <2> QED BY <1>3, <2>1 DEF IInv, OneReadAfterOff, ReadDue
<1> QED BY <1>4, <1>5, <1>6, <1>7 DEF IInv

(* The end of a channel clears tx_fc_off and moves no thread.              *)
LEMMA CloseKeeps ==
  ASSUME TxAssumption, IInv, NEW c \in Chan, Close(c)
  PROVE  IInv'
<1>1. /\ opened' = [opened EXCEPT ![c] = FALSE] /\ tx_fc_off' = [tx_fc_off EXCEPT ![c] = FALSE]
      /\ UNCHANGED <<cmux_mode, dataVars, pc, frame, write_frame_lock, lineVars, msc,
                     reads, wakes, faulted, failed>>
  BY DEF Close
<1>2. TypeOK'
  BY <1>1 DEF IInv, TypeOK, dataVars, lineVars
<1>3. Owned' /\ TailOwned'
  BY <1>1, LineKept DEF Writing, lineVars
<1>4. Carried'
  BY <1>1 DEF IInv, Carried, dataVars
<1>5. \A d \in Chan : tx_fc_off'[d] => tx_fc_off[d]
  BY <1>1 DEF IInv, TypeOK
<1>6. OneReadAfterOff' /\ ReadDue'
  BY <1>1, <1>5 DEF IInv, OneReadAfterOff, ReadDue
<1> QED BY <1>2, <1>3, <1>4, <1>6 DEF IInv

-----------------------------------------------------------------------------
(* Every step keeps the invariant.                                         *)
LEMMA StepIInv == ASSUME TxAssumption PROVE IInv /\ [Next]_vars => IInv'
<1> SUFFICES ASSUME IInv, [Next]_vars PROVE IInv'
  OBVIOUS
<1>1. ASSUME NEW p \in Proc, WriteFrame(p) PROVE IInv'
  BY <1>1, LockKeeps, PrefixKeeps, DataKeeps, ReceivedKeeps, FillKeeps, UnlockKeeps DEF WriteFrame
<1>2. ASSUME NEW c \in Chan, PollThread(c) \/ FcSpurious(c) PROVE IInv'
  <2>1. CASE WriteFrame(c)
    BY <1>1, <2>1 DEF Proc
  <2> QED BY <1>2, <2>1, PollKeeps, ReadKeeps DEF PollThread
<1>3. ASSUME NEW p \in Proc, WfFault(p) PROVE IInv'
  BY <1>3, FaultKeeps
<1>4. ASSUME NEW c \in Chan, MscOff(c) \/ MscOn(c) \/ Close(c) PROVE IInv'
  BY <1>4, MscKeeps, CloseKeeps
<1>5. CASE UNCHANGED vars
  <2>1. UNCHANGED <<cmux_mode, opened, tx_fc_off, taken, len, written, tries, pc, frame,
                    write_frame_lock, adv_frame_buf, tail, msc, reads, wakes, faulted, failed>>
    BY <1>5 DEF vars, chanVars, dataVars, lineVars
  <2>2. TypeOK' /\ Carried'
    BY <2>1 DEF IInv, TypeOK, Carried
  <2>3. Owned' /\ TailOwned' /\ ReadDue' /\ OneReadAfterOff'
    BY <2>1 DEF IInv, Owned, TailOwned, TailOf, Writing, ReadDue, OneReadAfterOff
  <2> QED BY <2>2, <2>3 DEF IInv
<1> QED BY <1>1, <1>2, <1>3, <1>4, <1>5 DEF Next, Proc

(* Every variable but got keeps its type: handle_channel_data never counts *)
(* more bytes than its buffer holds nor more retries than it is allowed.   *)
THEOREM TxTypeCorrect == ASSUME TxAssumption PROVE Spec => []TypeOK
<1>1. IInv => TypeOK
  BY DEF IInv
<1> QED BY InitIInv, StepIInv, <1>1, PTL DEF Spec

(* Frames of different threads never mix on the line, with any number of   *)
(* channels and whichever writes of a frame fail: the pieces that lie on   *)
(* the line all come from the owner of write_frame_lock, and after a fault *)
(* the lock keeps its owner for good.                                      *)
THEOREM FramesStayWhole == ASSUME TxAssumption PROVE Spec => []FramesWhole
<1>1. IInv => FramesWhole
  <2> SUFFICES ASSUME IInv PROVE FramesWhole
    OBVIOUS
  <2>1. CASE write_frame_lock = "none"
    BY <2>1 DEF IInv, TailOwned, FramesWhole
  <2>2. CASE write_frame_lock # "none"
    <3>1. write_frame_lock \in Proc
      BY <2>2 DEF IInv, TypeOK
    <3> QED BY <3>1 DEF IInv, TailOwned, TailOf, FramesWhole
  <2> QED BY <2>1, <2>2
<1> QED BY InitIInv, StepIInv, <1>1, PTL DEF Spec

(* A channel that was told to stop reads its pty at most once more, and    *)
(* once for each spurious wakeup of its wait.                              *)
THEOREM StopsAfterOneRead == ASSUME TxAssumption PROVE Spec => []OneReadAfterOff
<1>1. IInv => OneReadAfterOff
  BY DEF IInv
<1> QED BY InitIInv, StepIInv, <1>1, PTL DEF Spec

-----------------------------------------------------------------------------
(* The order of the bytes, on top of IInv.                                 *)

(* After a fault nobody writes again: the lock stays with the one who left.*)
FaultStops ==
  faulted => write_frame_lock # "none" /\ \A p \in Proc : ~Writing(p)

(* Whoever is about to write, or writes, has bytes left to write; no try   *)
(* failed so far; and a frame of an open channel is not empty.             *)
SendDue == \A c \in Chan : pc[c] = "lock" \/ Writing(c) => written[c] < len[c]
Untried == \A c \in Chan : opened[c] /\ ~faulted => tries[c] = 0
Filled == \A c \in Chan : opened[c] /\ Writing(c) => frame[c] # <<>>

(* What lies on the line, or in the shared buffer, is the writer's frame.  *)
Composed(p) ==
  /\ pc[p] = "data" => tail = <<Piece(p, <<>>)>>
  /\ pc[p] = "postfix" => \/ tail = <<Piece(p, <<>>)>> /\ frame[p] = <<>>
                          \/ tail = <<Piece(p, <<>>), Piece(p, frame[p])>>
  /\ pc[p] = "write" => adv_frame_buf = Piece(p, frame[p])

LineComposed == \A p \in Proc : Composed(p)

(* A frame on its way to the modem continues what the modem has.           *)
Sending(p) == pc[p] \in {"prefix", "data", "postfix", "fill", "write"}
Continues ==
  \A c \in Chan : Sending(c) =>
    \A i \in DOMAIN frame[c] : frame[c][i] = Len(got[c]) + i

OrderInv ==
  /\ got \in [Proc -> Frames]
  /\ FaultStops /\ SendDue /\ Untried /\ Filled /\ LineComposed /\ Continues
  /\ ChannelDataInOrder

(* The concatenation of one sequence, by its recursive definition.         *)
LEMMA FlattenOne ==
  ASSUME NEW S, NEW a \in Seq(S) PROVE FlattenSeq(<<a>>) = a
<1> DEFINE Def(g) == g = [i \in 1 .. 1 |-> IF i = 1 THEN <<a>>[i] ELSE g[i - 1] \o <<a>>[i]]
           f == CHOOSE g : Def(g)
<1>1. Def([i \in 1 .. 1 |-> a])
  OBVIOUS
<1>2. Def(f)
  <2> HIDE DEF Def
  <2> QED BY <1>1
<1>3. f[1] = a
  BY <1>2
<1>4. FlattenSeq(<<a>>) = f[1]
  <2>1. Len(<<a>>) = 1
    OBVIOUS
  <2> QED BY <2>1 DEF FlattenSeq
<1> QED BY <1>3, <1>4

(* The concatenation of two.                                               *)
LEMMA FlattenTwo ==
  ASSUME NEW S, NEW a \in Seq(S), NEW b \in Seq(S) PROVE FlattenSeq(<<a, b>>) = a \o b
<1> DEFINE Def(g) == g = [i \in 1 .. 2 |-> IF i = 1 THEN <<a, b>>[i] ELSE g[i - 1] \o <<a, b>>[i]]
           f == CHOOSE g : Def(g)
<1>1. Def([i \in 1 .. 2 |-> IF i = 1 THEN a ELSE a \o b])
  OBVIOUS
<1>2. Def(f)
  <2> HIDE DEF Def
  <2> QED BY <1>1
<1> HIDE DEF f
<1>3. f[1] = a /\ f[2] = f[1] \o b
  <2>1. /\ f[1] = IF 1 = 1 THEN <<a, b>>[1] ELSE f[1 - 1] \o <<a, b>>[1]
        /\ f[2] = IF 2 = 1 THEN <<a, b>>[2] ELSE f[2 - 1] \o <<a, b>>[2]
    <3>1. 1 \in 1 .. 2 /\ 2 \in 1 .. 2
      OBVIOUS
    <3> QED BY <1>2, <3>1, Zenon
  <2>2. f[1] = a /\ f[2] = f[2 - 1] \o b
    BY <2>1
  <2>3. 2 - 1 = 1
    OBVIOUS
  <2> QED BY <2>2, <2>3
<1>4. FlattenSeq(<<a, b>>) = f[2]
  <2>1. Len(<<a, b>>) = 2
    OBVIOUS
  <2> QED BY <2>1 DEF FlattenSeq, f
<1> QED BY <1>3, <1>4

(* The second piece of a frame comes after the first.                      *)
LEMMA AppendSecond ==
  ASSUME NEW S, NEW e \in S, NEW f \in S PROVE Append(<<e>>, f) = <<e, f>>
<1>1. /\ <<e>> \in Seq(S) /\ Len(<<e>>) = 1 /\ <<e>>[1] = e
      /\ <<e, f>> \in Seq(S) /\ Len(<<e, f>>) = 2 /\ <<e, f>>[1] = e /\ <<e, f>>[2] = f
  OBVIOUS
<1>2. /\ Append(<<e>>, f) \in Seq(S) /\ Len(Append(<<e>>, f)) = 2
      /\ Append(<<e>>, f)[1] = e /\ Append(<<e>>, f)[2] = f
  BY <1>1
<1> DEFINE s == Append(<<e>>, f)
           t == <<e, f>>
<1>3. s \in Seq(S) /\ t \in Seq(S) /\ Len(s) = Len(t) /\ \A i \in 1 .. Len(s) : s[i] = t[i]
  <2>1. \A i \in 1 .. 2 : i = 1 \/ i = 2
    OBVIOUS
  <2> HIDE DEF s, t
  <2> QED BY <1>1, <1>2, <2>1 DEF s, t
<1> HIDE DEF s, t
<1>4. s = t
  BY <1>3, SeqEqual
<1> QED BY <1>4 DEF s, t

(* Nothing is read, written or received.                                   *)
LEMMA InitOrder == ASSUME TxAssumption PROVE Init => OrderInv
<1> SUFFICES ASSUME Init PROVE OrderInv
  OBVIOUS
<1>0. Chan \subseteq Proc /\ Asm \in Proc /\ \A c \in Chan : c # Asm
  BY DEF Proc, TxAssumption
<1>1. got \in [Proc -> Frames]
  BY DEF Init, Frames
<1>2. ~faulted /\ \A c \in Chan : pc[c] = "poll" /\ tries[c] = 0
  BY <1>0 DEF Init
<1>3. \A p \in Proc : pc[p] \in {"poll", "idle"}
  BY DEF Init
<1>4. FaultStops /\ SendDue /\ Untried /\ Filled /\ LineComposed /\ Continues
  BY <1>2, <1>3 DEF FaultStops, SendDue, Untried, Filled, LineComposed, Composed,
     Continues, Sending, Writing
<1>5. ChannelDataInOrder
  BY <1>0 DEF Init, ChannelDataInOrder, Counted, Inside
<1> QED BY <1>1, <1>4, <1>5 DEF OrderInv

(* A step outside write_frame, or of the flow control, that moves no data. *)
LEMMA QuietOrder ==
  ASSUME IInv, OrderInv, UNCHANGED <<dataVars, frame, write_frame_lock, lineVars, faulted>>,
         \A c \in Chan : opened'[c] => opened[c],
         \A p \in Proc : \/ pc'[p] = pc[p]
                         \/ /\ ~Writing(p) /\ ~Writing(p)'
                            /\ p \in Chan => pc'[p] # "lock"
  PROVE  OrderInv'
<1>0. Chan \subseteq Proc
  BY DEF Proc
<1>1. UNCHANGED <<taken, len, written, tries, frame, write_frame_lock, adv_frame_buf, tail,
                  got, faulted>>
  BY DEF dataVars, lineVars
<1>2. \A p \in Proc : /\ Writing(p)' <=> Writing(p)
                      /\ Writing(p)' => pc'[p] = pc[p]
                      /\ pc'[p] = "unlock" <=> pc[p] = "unlock"
                      /\ p \in Chan /\ pc'[p] = "lock" => pc[p] = "lock"
  BY DEF Writing
<1>3. FaultStops' /\ SendDue' /\ Untried' /\ Filled'
  BY <1>0, <1>1, <1>2 DEF OrderInv, FaultStops, SendDue, Untried, Filled
<1>4. LineComposed' /\ Continues'
  BY <1>0, <1>1 DEF OrderInv, LineComposed, Composed, Continues, Sending, Writing
<1>5. ChannelDataInOrder'
  BY <1>0, <1>1, <1>2 DEF OrderInv, ChannelDataInOrder, Counted, Inside
<1> QED BY <1>1, <1>3, <1>4, <1>5 DEF OrderInv

(* Waiting for data, the check of tx_fc_off, the end of a thread.          *)
LEMMA PollOrder ==
  ASSUME TxAssumption, IInv, OrderInv, NEW c \in Chan,
         PollReady(c) \/ PollClosed(c) \/ FcCheck(c) \/ FcSpurious(c) \/ ReadFails(c)
  PROVE  OrderInv'
<1>1. /\ UNCHANGED <<dataVars, frame, write_frame_lock, lineVars, faulted, opened>>
      /\ pc[c] \in {"poll", "fc", "wait", "read"}
      /\ pc' = pc \/ \E where \in {"fc", "wait", "read", "ended"} : pc' = [pc EXCEPT ![c] = where]
  BY DEF PollReady, PollClosed, FcCheck, FcSpurious, ReadFails, Goto, chanVars
<1>2. pc \in [Proc -> States]
  BY DEF IInv, TypeOK
<1> QED BY <1>1, <1>2, QuietOrder DEF Writing

(* The flow control commands, and the end of a channel.                    *)
LEMMA FlowOrder ==
  ASSUME TxAssumption, IInv, OrderInv, NEW c \in Chan, MscOff(c) \/ MscOn(c) \/ Close(c)
  PROVE  OrderInv'
<1>0. pc \in [Proc -> States] /\ opened \in [Chan -> BOOLEAN] /\ Asm \in Proc /\ Asm \notin Chan
      /\ c \in Proc /\ c # Asm
  BY DEF IInv, TypeOK, Proc, TxAssumption
<1>1. /\ UNCHANGED <<dataVars, frame, write_frame_lock, lineVars, faulted>>
      /\ pc[Asm] = "idle"
      /\ \/ pc' = [pc EXCEPT ![Asm] = "lock"] \/ pc' = pc
         \/ pc' = [pc EXCEPT ![Asm] = "lock", ![c] = IF @ = "wait" THEN "read" ELSE @]
      /\ opened' = opened \/ opened' = [opened EXCEPT ![c] = FALSE]
  BY DEF MscOff, MscOn, Close, Goto
<1>2. \A d \in Chan : opened'[d] => opened[d]
  BY <1>0, <1>1
<1>3. \A p \in Proc : \/ pc'[p] = pc[p]
                      \/ p = Asm /\ pc[p] = "idle" /\ pc'[p] = "lock"
                      \/ p = c /\ pc[p] = "wait" /\ pc'[p] = "read"
  <2>1. CASE pc' = [pc EXCEPT ![Asm] = "lock"] \/ pc' = pc
    BY <1>0, <1>1, <2>1
  <2>2. CASE pc' = [pc EXCEPT ![Asm] = "lock", ![c] = IF @ = "wait" THEN "read" ELSE @]
    BY <1>0, <1>1, <2>2
  <2> QED BY <1>1, <2>1, <2>2
<1> QED BY <1>0, <1>1, <1>2, <1>3, QuietOrder DEF Writing

(* The bytes of a read are counted as read and not yet written.            *)
LEMMA ReadOrder ==
  ASSUME TxAssumption, IInv, OrderInv, NEW c \in Chan, Read(c)
  PROVE  OrderInv'
<1>0. c \in Proc /\ Chan \subseteq Proc
  BY DEF Proc
<1>1. /\ UNCHANGED <<opened, written, tries, frame, write_frame_lock, adv_frame_buf, tail,
                     got, faulted>>
      /\ pc[c] = "read" /\ pc' = [pc EXCEPT ![c] = "lock"]
  BY DEF Read, Goto, chanVars, lineVars
<1>2. PICK n \in 1 .. Smaller(ReadMax, AppBytes[c] - taken[c]) :
           taken' = [taken EXCEPT ![c] = @ + n] /\ len' = [len EXCEPT ![c] = n]
  BY DEF Read
<1>3. /\ taken \in [Chan -> Nat] /\ len \in [Chan -> 0 .. ReadMax] /\ written \in [Chan -> 0 .. ReadMax]
      /\ ReadMax \in Nat /\ AppBytes[c] \in Nat /\ pc \in [Proc -> States] /\ frame[c] \in Frames
  BY <1>0 DEF IInv, TypeOK, TxAssumption
<1>4. /\ \A p \in Proc : pc'[p] = IF p = c THEN "lock" ELSE pc[p]
      /\ \A d \in Chan : taken'[d] = IF d = c THEN taken[c] + n ELSE taken[d]
      /\ \A d \in Chan : len'[d] = IF d = c THEN n ELSE len[d]
  BY <1>1, <1>2, <1>3
<1>5. n > 0 /\ n \in Int /\ len[c] = 0 /\ written[c] = 0 /\ taken[c] \in Nat
  <2>1. written[c] + Len(frame[c]) <= len[c] /\ len[c] = 0 /\ Len(frame[c]) \in Nat
    BY <1>1, <1>3 DEF IInv, Carried, Frames
  <2> QED BY <1>2, <1>3, <2>1 DEF Smaller
<1>6. \A p \in Proc : (Writing(p)' <=> Writing(p)) /\ (Writing(p) => pc'[p] = pc[p])
  BY <1>1, <1>4 DEF Writing
<1>7. FaultStops' /\ Untried' /\ Filled'
  BY <1>0, <1>1, <1>6 DEF OrderInv, FaultStops, Untried, Filled
<1>8. SendDue'
  BY <1>0, <1>1, <1>4, <1>5, <1>6 DEF OrderInv, SendDue
<1>9. LineComposed' /\ Continues'
  BY <1>0, <1>1, <1>4 DEF OrderInv, LineComposed, Composed, Continues, Sending
<1>10. ChannelDataInOrder'
  <2> SUFFICES ASSUME NEW d \in Chan, opened[d] PROVE Len(got[d]) = Counted(d)'
    BY <1>1 DEF OrderInv, ChannelDataInOrder
  <2>1. Len(got[d]) = Counted(d)
    BY DEF OrderInv, ChannelDataInOrder
  <2>2. CASE d = c
    <3>1. Inside(c) = 0 /\ Inside(c)' = 0
      BY <1>0, <1>1, <1>4 DEF Inside
    <3>2. Counted(c) = taken[c] - len[c] + written[c] + 0
      BY <3>1 DEF Counted
    <3>3. Counted(c)' = taken'[c] - len'[c] + written[c] + 0
      BY <1>1, <3>1 DEF Counted
    <3> QED BY <1>4, <1>5, <2>1, <2>2, <3>2, <3>3
  <2>3. CASE d # c
    <3>1. taken'[d] = taken[d] /\ len'[d] = len[d] /\ pc'[d] = pc[d]
      BY <1>0, <1>4, <2>3
    <3> QED BY <1>1, <2>1, <3>1 DEF Counted, Inside
  <2> QED BY <2>2, <2>3
<1> QED BY <1>1, <1>7, <1>8, <1>9, <1>10 DEF OrderInv

(* The lock is free: no fault happened, nobody writes, and the new frame   *)
(* starts with the first byte that handle_channel_data has not written.    *)
LEMMA LockOrder ==
  ASSUME TxAssumption, IInv, OrderInv, NEW p \in Proc, WfLock(p)
  PROVE  OrderInv'
<1> DEFINE where == IF cmux_mode = "basic" THEN "prefix" ELSE "fill"
           new == IF p = Asm THEN <<msc>> ELSE Chunk(p)
<1>1. /\ pc[p] = "lock" /\ pc' = [pc EXCEPT ![p] = where] /\ frame' = [frame EXCEPT ![p] = new]
      /\ write_frame_lock = "none"
      /\ UNCHANGED <<opened, taken, len, written, tries, adv_frame_buf, tail, got, faulted>>
  BY DEF WfLock, Goto, chanVars, dataVars, lineVars
<1>2. where \in {"prefix", "fill"}
  OBVIOUS
<1>3. /\ pc \in [Proc -> States] /\ frame \in [Proc -> Frames] /\ Chan \subseteq Proc
      /\ ~faulted /\ Asm \notin Chan
      /\ \A q \in Proc : ~Writing(q)
  BY <1>1 DEF IInv, TypeOK, Owned, Proc, TxAssumption, OrderInv, FaultStops
<1> HIDE DEF where
<1>4. p \in Chan =>
        /\ opened[p] => new # <<>>
        /\ \A i \in DOMAIN new : new[i] = Len(got[p]) + i
  <2> SUFFICES ASSUME p \in Chan
               PROVE  /\ opened[p] => new # <<>>
                      /\ \A i \in DOMAIN new : new[i] = Len(got[p]) + i
    OBVIOUS
  <2> DEFINE n == IF opened[p] THEN Smaller(N1[p], len[p] - written[p]) ELSE 0
  <2>1. new = [i \in 1 .. n |-> taken[p] - len[p] + written[p] + i]
    BY <1>3 DEF Chunk
  <2>2. /\ len[p] \in Nat /\ written[p] \in Nat /\ taken[p] \in Nat /\ N1[p] \in Nat \ {0}
    BY DEF IInv, TypeOK, TxAssumption
  <2>3. written[p] < len[p]
    BY <1>1 DEF OrderInv, SendDue
  <2>4. n \in Nat /\ (opened[p] => n > 0)
    BY <2>2, <2>3 DEF Smaller
  <2>5. opened[p] => Len(got[p]) = taken[p] - len[p] + written[p]
    <3>1. opened[p] => Len(got[p]) = taken[p] - len[p] + written[p] + 0
      BY <1>1 DEF OrderInv, ChannelDataInOrder, Counted, Inside
    <3> QED BY <2>2, <3>1
  <2> HIDE DEF n
  <2>6. DOMAIN new = 1 .. n
    BY <2>1
  <2>7. ASSUME opened[p] PROVE new # <<>>
    <3>1. 1 \in DOMAIN new /\ DOMAIN <<>> = {}
      BY <2>4, <2>6, <2>7
    <3> QED BY <3>1
  <2>8. ASSUME NEW i \in DOMAIN new PROVE new[i] = Len(got[p]) + i
    <3>1. opened[p]
      BY <2>6, <2>8 DEF n
    <3>2. new[i] = taken[p] - len[p] + written[p] + i
      BY <2>1, <2>6
    <3> QED BY <2>5, <3>1, <3>2
  <2> QED BY <2>7, <2>8
<1> HIDE DEF new
<1>5. /\ \A q \in Proc : pc'[q] = IF q = p THEN where ELSE pc[q]
      /\ \A q \in Proc : frame'[q] = IF q = p THEN new ELSE frame[q]
  BY <1>1, <1>3
<1>6. FaultStops' /\ SendDue' /\ Untried'
  BY <1>1, <1>2, <1>3, <1>5 DEF OrderInv, FaultStops, SendDue, Untried, Writing
<1>7. Filled'
  BY <1>1, <1>3, <1>4, <1>5 DEF Filled, Writing
<1>8. LineComposed'
  BY <1>2, <1>3, <1>5 DEF LineComposed, Composed, Writing
<1>9. Continues'
  BY <1>1, <1>3, <1>4, <1>5 DEF Continues, Sending, Writing
<1>10. ChannelDataInOrder'
  BY <1>1, <1>2, <1>3, <1>5 DEF OrderInv, ChannelDataInOrder, Counted, Inside
<1> QED BY <1>1, <1>6, <1>7, <1>8, <1>9, <1>10 DEF OrderInv

(* The writer composes its frame on the line or in the shared buffer.      *)
LEMMA ComposeOrder ==
  ASSUME TxAssumption, IInv, OrderInv, NEW p \in Proc, WfPrefix(p) \/ WfData(p) \/ WfFill(p)
  PROVE  OrderInv'
<1>1. /\ Sending(p) /\ Writing(p)
      /\ UNCHANGED <<opened, taken, len, written, tries, frame, write_frame_lock, got, faulted>>
  BY DEF WfPrefix, WfData, WfFill, Sending, Writing, chanVars, dataVars
<1>2. PICK where \in {"data", "postfix", "write"} : pc' = [pc EXCEPT ![p] = where]
  BY DEF WfPrefix, WfData, WfFill, Goto
<1>3. /\ pc \in [Proc -> States] /\ Chan \subseteq Proc
      /\ tail \in Seq([by : Proc, bytes : Frames]) /\ frame[p] \in Frames
      /\ \A q \in Proc : q # p => ~Writing(q)
      /\ write_frame_lock = p
  BY <1>1 DEF IInv, TypeOK, Owned, Proc
<1>4. \A q \in Proc : pc'[q] = IF q = p THEN where ELSE pc[q]
  BY <1>2, <1>3
<1>5. (\A q \in Proc : (Writing(q)' <=> Writing(q)) /\ (Sending(q)' <=> Sending(q)))
  BY <1>1, <1>4 DEF Writing, Sending
<1>6. FaultStops' /\ Untried' /\ Filled'
  BY <1>1, <1>3, <1>5 DEF OrderInv, FaultStops, Untried, Filled
<1>7. SendDue'
  BY <1>1, <1>3, <1>4, <1>5 DEF OrderInv, SendDue
<1>8. Continues'
  BY <1>1, <1>3, <1>5 DEF OrderInv, Continues
<1>9. ChannelDataInOrder'
  <2>1. \A c \in Chan : pc'[c] = "unlock" <=> pc[c] = "unlock"
    BY <1>1, <1>3, <1>4 DEF Sending
  <2> QED BY <1>1, <2>1 DEF OrderInv, ChannelDataInOrder, Counted, Inside
<1>10. Composed(p)'
  <2>1. CASE WfPrefix(p)
    <3>1. TailOf(p)
      BY <1>3 DEF IInv, TailOwned
    <3>2. tail = <<>>
      BY <1>3, <2>1, <3>1 DEF TailOf, WfPrefix
    <3>3. tail' = <<Piece(p, <<>>)>>
      BY <2>1, <3>2 DEF WfPrefix
    <3>4. pc'[p] = IF frame[p] = <<>> THEN "postfix" ELSE "data"
      BY <1>3, <2>1 DEF WfPrefix, Goto
    <3> QED BY <1>1, <3>3, <3>4 DEF Composed
  <2>2. CASE WfData(p)
    <3>1. tail = <<Piece(p, <<>>)>>
      BY <2>2 DEF WfData, OrderInv, LineComposed, Composed
    <3>2. tail' = <<Piece(p, <<>>), Piece(p, frame[p])>>
      <4> DEFINE e == Piece(p, <<>>)
                 f == Piece(p, frame[p])
      <4>1. tail = <<e>> /\ tail' = Append(tail, f)
        BY <2>2, <3>1 DEF WfData
      <4> HIDE DEF e, f
      <4>2. Append(<<e>>, f) = <<e, f>>
        <5>1. e \in {e, f} /\ f \in {e, f}
          OBVIOUS
        <5> QED BY <5>1, AppendSecond
      <4>3. tail' = <<e, f>>
        BY <4>1, <4>2, Zenon
      <4> QED BY <4>3 DEF e, f
    <3>3. pc'[p] = "postfix"
      BY <1>3, <2>2 DEF WfData, Goto
    <3> QED BY <1>1, <3>2, <3>3 DEF Composed
  <2>3. CASE WfFill(p)
    <3>1. pc'[p] = "write" /\ adv_frame_buf' = Piece(p, frame[p])
      BY <1>3, <2>3 DEF WfFill, Goto
    <3> QED BY <1>1, <3>1 DEF Composed
  <2> QED BY <2>1, <2>2, <2>3
<1>11. LineComposed'
  BY <1>3, <1>5, <1>10 DEF LineComposed, Composed, Writing
<1> QED BY <1>1, <1>3, <1>6, <1>7, <1>8, <1>9, <1>11 DEF OrderInv

(* What the modem receives is the writer's frame, whole.                   *)
LEMMA ReceivedFrame ==
  ASSUME TxAssumption, IInv, OrderInv, NEW p \in Proc, WfPostfix(p) \/ WfWrite(p)
  PROVE  got' = [got EXCEPT ![p] = @ \o frame[p]]
<1>0. frame[p] \in Seq(Int) /\ <<>> \in Seq(Int)
  BY DEF IInv, TypeOK, Frames
<1> DEFINE e == Piece(p, <<>>)
           f == Piece(p, frame[p])
<1>1. e.by = p /\ e.bytes = <<>> /\ f.by = p /\ f.bytes = frame[p]
  BY DEF Piece
<1> HIDE DEF e, f
<1>2. ASSUME NEW pieces, Receive(pieces),
                \/ pieces = <<e>> /\ frame[p] = <<>>
                \/ pieces = <<f>>
                \/ pieces = <<e, f>>
      PROVE  got' = [got EXCEPT ![p] = @ \o frame[p]]
  <2> DEFINE bytes == [i \in DOMAIN pieces |-> pieces[i].bytes]
  <2>1. pieces[1].by = p
    BY <1>1, <1>2
  <2>2. FlattenSeq(bytes) = frame[p]
    <3>1. CASE pieces = <<e>> /\ frame[p] = <<>>
      <4>1. bytes = << frame[p] >>
        BY <1>1, <3>1
      <4> QED BY <1>0, <4>1, FlattenOne
    <3>2. CASE pieces = <<f>>
      <4>1. bytes = << frame[p] >>
        BY <1>1, <3>2
      <4> QED BY <1>0, <4>1, FlattenOne
    <3>3. CASE pieces = <<e, f>>
      <4>1. bytes = << <<>>, frame[p] >>
        BY <1>1, <3>3
      <4>2. <<>> \o frame[p] = frame[p]
        BY <1>0
      <4> QED BY <1>0, <4>1, <4>2, FlattenTwo
    <3> QED BY <1>2, <3>1, <3>2, <3>3
  <2>3. got' = [got EXCEPT ![pieces[1].by] = @ \o FlattenSeq(bytes)]
    BY <1>2 DEF Receive
  <2> QED BY <2>1, <2>2, <2>3
<1>3. CASE WfPostfix(p)
  <2>1. (tail = <<e>> /\ frame[p] = <<>>) \/ tail = <<e, f>>
    BY <1>3 DEF WfPostfix, OrderInv, LineComposed, Composed, e, f
  <2> QED BY <1>2, <1>3, <2>1 DEF WfPostfix
<1>4. CASE WfWrite(p)
  <2>1. adv_frame_buf = f
    BY <1>4 DEF WfWrite, OrderInv, LineComposed, Composed, f
  <2>2. tail = <<>>
    <3>1. TailOf(p) /\ tail \in Seq([by : Proc, bytes : Frames])
      BY <1>4 DEF WfWrite, IInv, Owned, Writing, TailOwned, TypeOK
    <3> QED BY <1>4, <3>1 DEF TailOf, WfWrite
  <2>3. Append(tail, adv_frame_buf) = <<f>>
    BY <2>1, <2>2
  <2> QED BY <1>2, <1>4, <2>3 DEF WfWrite
<1> QED BY <1>3, <1>4

(* The frame continues what the modem has, and is counted.                 *)
LEMMA ReceivedOrder ==
  ASSUME TxAssumption, IInv, OrderInv, NEW p \in Proc, WfPostfix(p) \/ WfWrite(p)
  PROVE  OrderInv'
<1>1. /\ Sending(p) /\ Writing(p) /\ pc' = [pc EXCEPT ![p] = "unlock"]
      /\ UNCHANGED <<opened, taken, len, written, tries, frame, write_frame_lock, adv_frame_buf,
                     faulted>>
  BY DEF WfPostfix, WfWrite, Sending, Writing, Goto, chanVars, dataVars
<1>2. got' = [got EXCEPT ![p] = @ \o frame[p]]
  BY ReceivedFrame
<1>3. /\ pc \in [Proc -> States] /\ Chan \subseteq Proc
      /\ frame[p] \in Seq(Int) /\ got \in [Proc -> Seq(Int)]
      /\ \A q \in Proc : q # p => ~Writing(q)
  BY <1>1 DEF IInv, TypeOK, Owned, Proc, OrderInv, Frames
<1>4. /\ \A q \in Proc : pc'[q] = IF q = p THEN "unlock" ELSE pc[q]
      /\ \A q \in Proc : got'[q] = IF q = p THEN got[p] \o frame[p] ELSE got[q]
  BY <1>1, <1>2, <1>3
<1>5. got' \in [Proc -> Frames]
  BY <1>2, <1>3 DEF Frames
<1>6. \A q \in Proc : (Writing(q)' <=> Writing(q)) /\ ~Sending(q)'
  BY <1>1, <1>3, <1>4 DEF Writing, Sending
<1>7. FaultStops' /\ Untried' /\ Filled'
  BY <1>1, <1>3, <1>6 DEF OrderInv, FaultStops, Untried, Filled
<1>8. SendDue'
  BY <1>1, <1>3, <1>4, <1>6 DEF OrderInv, SendDue
<1>9. LineComposed' /\ Continues'
  BY <1>3, <1>6 DEF LineComposed, Composed, Continues, Sending
<1>10. ChannelDataInOrder'
  <2> SUFFICES ASSUME NEW c \in Chan
               PROVE  /\ \A i \in DOMAIN got'[c] : got'[c][i] = i
                      /\ opened[c] => Len(got'[c]) = Counted(c)'
    BY <1>1 DEF ChannelDataInOrder
  <2>1. /\ \A i \in DOMAIN got[c] : got[c][i] = i
        /\ opened[c] => Len(got[c]) = Counted(c)
    BY DEF OrderInv, ChannelDataInOrder
  <2>2. CASE c = p
    <3>1. \A i \in DOMAIN frame[p] : frame[p][i] = Len(got[p]) + i
      BY <1>1, <2>2 DEF OrderInv, Continues
    <3>2. got'[c] = got[p] \o frame[p] /\ got[p] \in Seq(Int)
      BY <1>3, <1>4, <2>2
    <3>3. \A i \in DOMAIN got'[c] : got'[c][i] = i
      BY <1>3, <2>1, <2>2, <3>1, <3>2
    <3>4. Len(got'[c]) = Len(got[c]) + Len(frame[c]) /\ Len(frame[c]) \in Nat
      BY <1>3, <2>2, <3>2
    <3>5. Inside(c) = 0 /\ Inside(c)' = Len(frame[c])
      BY <1>1, <1>3, <1>4, <2>2 DEF Inside, Sending
    <3>6. /\ Counted(c) = taken[c] - len[c] + written[c] + 0
          /\ Counted(c)' = taken[c] - len[c] + written[c] + Len(frame[c])
      BY <1>1, <3>5 DEF Counted
    <3>7. taken[c] \in Nat /\ len[c] \in Nat /\ written[c] \in Nat
      BY DEF IInv, TypeOK, TxAssumption
    <3>8. ASSUME opened[c] PROVE Len(got'[c]) = Counted(c)'
      <4>1. Len(got[c]) = taken[c] - len[c] + written[c] + 0
        BY <2>1, <3>6, <3>8
      <4>2. Len(got'[c]) = taken[c] - len[c] + written[c] + Len(frame[c])
        BY <3>4, <3>7, <4>1
      <4> QED BY <3>6, <4>2
    <3> QED BY <3>3, <3>8
  <2>3. CASE c # p
    <3>1. got'[c] = got[c] /\ pc'[c] = pc[c]
      BY <1>3, <1>4, <2>3
    <3> QED BY <1>1, <2>1, <3>1 DEF Counted, Inside
  <2> QED BY <2>2, <2>3
<1> QED BY <1>5, <1>7, <1>8, <1>9, <1>10 DEF OrderInv

(* handle_channel_data counts the frame as written.                        *)
LEMMA UnlockOrder ==
  ASSUME TxAssumption, IInv, OrderInv, NEW p \in Proc, WfUnlock(p)
  PROVE  OrderInv'
<1>1. /\ pc[p] = "unlock" /\ Return(p, Len(frame[p]))
      /\ frame' = [frame EXCEPT ![p] = <<>>]
      /\ UNCHANGED <<opened, taken, adv_frame_buf, tail, got, faulted>>
  BY DEF WfUnlock, chanVars, lineVars
<1>2. /\ pc \in [Proc -> States] /\ Chan \subseteq Proc /\ Writing(p)
      /\ \A q \in Proc : q # p => ~Writing(q)
      /\ frame[p] \in Frames /\ Len(frame[p]) \in Nat
  <2>1. frame[p] \in Frames /\ Len(frame[p]) \in Nat
    BY DEF IInv, TypeOK, Frames
  <2> QED BY <1>1, <2>1 DEF IInv, TypeOK, Owned, Proc, Writing
<1>3. ~faulted
  BY <1>2 DEF OrderInv, FaultStops
<1>4. PICK where \in {"lock", "poll", "idle"} : pc' = [pc EXCEPT ![p] = where]
  BY <1>1 DEF Return, ReturnTo, Goto
<1>5. /\ \A q \in Proc : pc'[q] = IF q = p THEN where ELSE pc[q]
      /\ \A q \in Proc : ~Writing(q)' /\ ~Sending(q)'
  <2>1. \A q \in Proc : pc'[q] = IF q = p THEN where ELSE pc[q]
    BY <1>2, <1>4
  <2> QED BY <1>2, <1>4, <2>1 DEF Writing, Sending
<1>6. FaultStops' /\ Filled' /\ LineComposed' /\ Continues'
  BY <1>1, <1>2, <1>3, <1>5 DEF FaultStops, Filled, LineComposed, Composed, Continues, Sending,
     Writing
<1>7. ASSUME NEW c \in Chan
      PROVE  /\ pc'[c] = "lock" => written'[c] < len'[c]
             /\ opened[c] => tries'[c] = 0
             /\ opened[c] => taken[c] - len'[c] + written'[c] = Counted(c)
  <2>0. /\ taken[c] \in Nat /\ len[c] \in Nat /\ written[c] \in Nat
        /\ len \in [Chan -> 0 .. ReadMax] /\ written \in [Chan -> 0 .. ReadMax]
        /\ tries \in [Chan -> 0 .. Retries - 1] /\ Retries \in Nat \ {0}
    BY DEF IInv, TypeOK, TxAssumption
  <2>1. (opened[c] => tries[c] = 0) /\ c \in Proc
    BY <1>2, <1>3 DEF OrderInv, Untried
  <2>2. CASE c # p
    <3>1. pc'[c] = pc[c] /\ written'[c] = written[c] /\ len'[c] = len[c] /\ tries'[c] = tries[c]
      <4>1. p # Asm => p \in Chan
        BY DEF Proc
      <4> QED BY <1>1, <1>5, <2>0, <2>1, <2>2, <4>1 DEF Return, ReturnTo
    <3>2. Counted(c) = taken[c] - len[c] + written[c] + 0
      BY <1>2, <2>1, <2>2 DEF Counted, Inside, Writing
    <3>3. pc[c] = "lock" => written[c] < len[c]
      BY DEF OrderInv, SendDue
    <3> QED BY <2>0, <2>1, <3>1, <3>2, <3>3
  <2>3. CASE c = p
    <3> DEFINE n == Len(frame[c])
               w == written[c] + n
               i == IF n = 0 THEN tries[c] + 1 ELSE tries[c]
               more == w # len[c] /\ i < Retries
    <3>1. c # Asm
      BY DEF TxAssumption
    <3>2. /\ pc'[c] = IF more THEN "lock" ELSE "poll"
          /\ written'[c] = IF more THEN w ELSE 0
          /\ tries'[c] = IF more THEN i ELSE 0
          /\ len'[c] = IF more THEN len[c] ELSE 0
      <4>1. /\ pc' = [pc EXCEPT ![c] = IF more THEN "lock" ELSE "poll"]
            /\ written' = [written EXCEPT ![c] = IF more THEN w ELSE 0]
            /\ tries' = [tries EXCEPT ![c] = IF more THEN i ELSE 0]
            /\ len' = [len EXCEPT ![c] = IF more THEN len[c] ELSE 0]
        BY <1>1, <2>3, <3>1 DEF Return, ReturnTo, Goto
      <4> HIDE DEF more, w, i
      <4> QED BY <1>2, <2>0, <2>1, <4>1
    <3>3. w <= len[c] /\ n \in Nat
      BY <1>2, <2>3 DEF IInv, Carried
    <3>4. opened[c] => n > 0
      <4>1. opened[c] => frame[c] # <<>>
        BY <1>2, <2>3 DEF OrderInv, Filled
      <4>2. frame[c] \in Seq(Int)
        BY <1>2, <2>3 DEF Frames
      <4> QED BY <4>1, <4>2
    <3>5. Counted(c) = taken[c] - len[c] + written[c] + n
      BY <1>1, <2>3 DEF Counted, Inside
    <3> HIDE DEF n
    <3>6. opened[c] => i = 0 /\ (more <=> w # len[c])
      BY <2>0, <2>1, <3>4
    <3>7. more => w < len[c]
      BY <2>0, <3>3
    <3> QED BY <2>0, <3>2, <3>3, <3>5, <3>6, <3>7
  <2> QED BY <2>2, <2>3
<1>8. SendDue' /\ Untried'
  BY <1>1, <1>2, <1>5, <1>7 DEF SendDue, Untried
<1>9. ChannelDataInOrder'
  <2> SUFFICES ASSUME NEW c \in Chan, opened[c] PROVE Len(got[c]) = Counted(c)'
    BY <1>1 DEF OrderInv, ChannelDataInOrder
  <2>1. Len(got[c]) = taken[c] - len'[c] + written'[c]
    BY <1>7 DEF OrderInv, ChannelDataInOrder
  <2>2. Inside(c)' = 0
    BY <1>2, <1>5 DEF Inside, Writing
  <2>3. Counted(c)' = taken[c] - len'[c] + written'[c] + 0
    BY <1>1, <2>2 DEF Counted
  <2>4. Counted(c) = taken[c] - len[c] + written[c] + Inside(c) /\ Inside(c) \in Nat
    <3>1. frame[c] \in Seq(Int)
      BY <1>2 DEF IInv, TypeOK, Frames
    <3> QED BY <3>1 DEF Counted, Inside
  <2>5. Counted(c) \in Int /\ taken[c] - len'[c] + written'[c] = Counted(c)
    <3>1. taken[c] \in Nat /\ len[c] \in Nat /\ written[c] \in Nat
      BY DEF IInv, TypeOK, TxAssumption
    <3> QED BY <1>7, <2>4, <3>1
  <2> QED BY <2>1, <2>3, <2>5
<1> QED BY <1>1, <1>6, <1>8, <1>9 DEF OrderInv

(* The first and last fault: the one who gave up keeps the lock, and tries *)
(* again to no avail, as long as one more try is allowed.                  *)
LEMMA FaultOrder ==
  ASSUME TxAssumption, Retries > 1, IInv, OrderInv, NEW p \in Proc, WfFault(p)
  PROVE  OrderInv'
<1>1. /\ Sending(p) /\ Writing(p) /\ pc[p] # "unlock" /\ Return(p, 0)
      /\ frame' = [frame EXCEPT ![p] = <<>>] /\ faulted' = TRUE
      /\ UNCHANGED <<opened, taken, write_frame_lock, adv_frame_buf, got>>
  BY DEF WfFault, chanVars, Sending, Writing
<1>2. /\ pc \in [Proc -> States] /\ Chan \subseteq Proc
      /\ \A q \in Proc : q # p => ~Writing(q)
      /\ write_frame_lock # "none"
  BY <1>1 DEF IInv, TypeOK, Owned, Proc, TxAssumption
<1>3. ~faulted
  BY <1>1 DEF OrderInv, FaultStops
<1>4. PICK where \in {"lock", "poll", "idle"} : pc' = [pc EXCEPT ![p] = where]
  BY <1>1 DEF Return, ReturnTo, Goto
<1>5. /\ \A q \in Proc : pc'[q] = IF q = p THEN where ELSE pc[q]
      /\ \A q \in Proc : ~Writing(q)' /\ ~Sending(q)'
  <2>1. \A q \in Proc : pc'[q] = IF q = p THEN where ELSE pc[q]
    BY <1>2, <1>4
  <2> QED BY <1>2, <1>4, <2>1 DEF Writing, Sending
<1>6. FaultStops' /\ Untried' /\ Filled' /\ LineComposed' /\ Continues'
  BY <1>1, <1>2, <1>5 DEF FaultStops, Untried, Filled, LineComposed, Composed, Continues,
     Sending, Writing
<1>7. ASSUME NEW c \in Chan
      PROVE  /\ pc'[c] = "lock" => written'[c] < len'[c]
             /\ opened[c] => taken[c] - len'[c] + written'[c] = taken[c] - len[c] + written[c]
  <2>0. /\ taken[c] \in Nat /\ len[c] \in Nat /\ written[c] \in Nat
        /\ len \in [Chan -> 0 .. ReadMax] /\ written \in [Chan -> 0 .. ReadMax]
        /\ tries \in [Chan -> 0 .. Retries - 1] /\ Retries \in Nat \ {0} /\ c \in Proc
    BY <1>2 DEF IInv, TypeOK, TxAssumption
  <2>1. pc[c] = "lock" \/ Writing(c) => written[c] < len[c]
    BY DEF OrderInv, SendDue
  <2>2. CASE c # p
    <3>1. pc'[c] = pc[c] /\ written'[c] = written[c] /\ len'[c] = len[c]
      <4>1. p # Asm => p \in Chan
        BY DEF Proc
      <4> QED BY <1>1, <1>5, <2>0, <2>2, <4>1 DEF Return, ReturnTo
    <3> QED BY <2>0, <2>1, <3>1
  <2>3. CASE c = p
    <3> DEFINE w == written[c] + 0
               more == w # len[c] /\ tries[c] + 1 < Retries
    <3>1. c # Asm
      BY DEF TxAssumption
    <3>2. /\ pc'[c] = IF more THEN "lock" ELSE "poll"
          /\ written'[c] = IF more THEN w ELSE 0
          /\ len'[c] = IF more THEN len[c] ELSE 0
      <4>1. /\ pc' = [pc EXCEPT ![c] = IF more THEN "lock" ELSE "poll"]
            /\ written' = [written EXCEPT ![c] = IF more THEN w ELSE 0]
            /\ len' = [len EXCEPT ![c] = IF more THEN len[c] ELSE 0]
        BY <1>1, <2>3, <3>1 DEF Return, ReturnTo, Goto
      <4> HIDE DEF more, w
      <4> QED BY <1>2, <2>0, <4>1
    <3>3. written[c] < len[c]
      BY <1>1, <2>1, <2>3
    <3>4. opened[c] => tries[c] = 0
      BY <1>3 DEF OrderInv, Untried
    <3>5. opened[c] => more
      BY <2>0, <3>3, <3>4
    <3>6. w = written[c]
      BY <2>0
    <3> HIDE DEF more, w
    <3> QED BY <2>0, <3>2, <3>3, <3>5, <3>6
  <2> QED BY <2>2, <2>3
<1>8. SendDue'
  BY <1>1, <1>2, <1>5, <1>7 DEF SendDue
<1>9. ChannelDataInOrder'
  <2> SUFFICES ASSUME NEW c \in Chan, opened[c] PROVE Len(got[c]) = Counted(c)'
    BY <1>1 DEF OrderInv, ChannelDataInOrder
  <2>1. Inside(c) = 0 /\ Inside(c)' = 0
    BY <1>1, <1>2, <1>5 DEF Inside, Writing
  <2>2. /\ Counted(c)' = taken[c] - len'[c] + written'[c] + 0
        /\ Counted(c) = taken[c] - len[c] + written[c] + 0
    BY <1>1, <2>1 DEF Counted
  <2>3. Len(got[c]) = taken[c] - len[c] + written[c] + 0
    BY <2>2 DEF OrderInv, ChannelDataInOrder
  <2> QED BY <1>7, <2>2, <2>3
<1> QED BY <1>1, <1>6, <1>8, <1>9 DEF OrderInv

(* Every step keeps the order.                                             *)
LEMMA StepOrder ==
  ASSUME TxAssumption, Retries > 1 PROVE IInv /\ OrderInv /\ [Next]_vars => OrderInv'
<1> SUFFICES ASSUME IInv, OrderInv, [Next]_vars PROVE OrderInv'
  OBVIOUS
<1>1. ASSUME NEW p \in Proc, WriteFrame(p) PROVE OrderInv'
  BY <1>1, LockOrder, ComposeOrder, ReceivedOrder, UnlockOrder DEF WriteFrame
<1>2. ASSUME NEW c \in Chan, PollThread(c) \/ FcSpurious(c) PROVE OrderInv'
  <2>1. CASE WriteFrame(c)
    BY <1>1, <2>1 DEF Proc
  <2> QED BY <1>2, <2>1, PollOrder, ReadOrder DEF PollThread
<1>3. ASSUME NEW p \in Proc, WfFault(p) PROVE OrderInv'
  BY <1>3, FaultOrder
<1>4. ASSUME NEW c \in Chan, MscOff(c) \/ MscOn(c) \/ Close(c) PROVE OrderInv'
  BY <1>4, FlowOrder
<1>5. CASE UNCHANGED vars
  BY <1>5, QuietOrder DEF vars, chanVars
<1> QED BY <1>1, <1>2, <1>3, <1>4, <1>5 DEF Next, Proc

(* The modem receives the bytes of every channel in the order in which the *)
(* application wrote them, without gap or repetition, and while a channel  *)
(* is open exactly those that handle_channel_data counts as written, for   *)
(* any reads, frame lengths and number of channels. GSM0710_WRITE_RETRIES  *)
(* must allow a second try (it is 5): with a single one the bytes of the   *)
(* frame that met the fault would be counted and never sent.               *)
THEOREM ChannelBytesKept ==
  ASSUME TxAssumption, Retries > 1 PROVE Spec => []ChannelDataInOrder
<1>1. OrderInv => ChannelDataInOrder
  BY DEF OrderInv
<1> QED BY InitIInv, StepIInv, InitOrder, StepOrder, <1>1, PTL DEF Spec
=============================================================================
