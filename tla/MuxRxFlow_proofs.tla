---------------------------- MODULE MuxRxFlow_proofs ----------------------------
(***************************************************************************)
(* Proofs about MuxRxFlow, for any number of retry threads, any frames and *)
(* any watermark.                                                          *)
(***************************************************************************)
EXTENDS MuxRxFlow, SequenceTheorems, WellFoundedInduction, TLAPS

USE DEF ptyVars, WriteError, Reopened

(* What a hang-up and a reopen leave alone, as a step that changes nothing *)
(* does: they change the descriptor only.                                  *)
coreVars == <<logVars, out, opened, flags, listVars, peerOff, msc, rxVars, thVars, failed>>

LEMMA CoreSame == Pty \/ UNCHANGED vars => UNCHANGED coreVars
BY DEF Pty, HangUp, AskReopen, Watchdog, vars, coreVars

(* From the decision to write a frame directly to the creation of the      *)
(* thread that retries it.                                                 *)
Direct == rx \in {"write", "remain", "tellOff", "startLock", "wait", "setOff", "create"}

NobodyPushes == \A t \in Threads : ~Pushing(t)

(* A closed channel takes frames no further than the failing write.        *)
ClosedRx == ~opened => rx \in {"idle", "lock", "write"}

OneHolder == \A t, u \in Threads : Holding(t) /\ Holding(u) => t = u

(* While a thread pushes, or is about to be created, flow control is on,   *)
(* and no byte that some thread loaded and will store says otherwise: the  *)
(* lost updates on the flag byte can set rx_fc_off again, never clear it.  *)
OffWhilePushing ==
  opened /\ (rx = "create" \/ \E t \in Threads : Pushing(t)) =>
    /\ flags.rx_fc_off
    /\ rx = "txStore" => rxbyte.rx_fc_off
    /\ \A t \in Threads : Holding(t) => thbyte[t].rx_fc_off

FlagTypes ==
  /\ flags \in Flags /\ rxbyte \in Flags
  /\ th \in [Threads -> ThStates] /\ thbyte \in [Threads -> Flags]
  /\ opened \in BOOLEAN /\ rx \in RxStates /\ rxval \in BOOLEAN

IInv ==
  /\ FlagTypes
  /\ ClosedRx
  /\ OneHolder
  /\ OffWhilePushing
  /\ opened /\ Direct => NobodyPushes
  /\ OnePusher

(* No thread exists, no flag is set.                                       *)
LEMMA InitIInv == Init => IInv
<1> SUFFICES ASSUME Init PROVE IInv
  OBVIOUS
<1>1. FlagTypes
  BY DEF Init, FlagTypes, NoFlags, Flags, RxStates, ThStates
<1>2. \A t \in Threads : ~Pushing(t) /\ ~Holding(t)
  BY DEF Init, Pushing, Holding
<1> QED BY <1>1, <1>2 DEF Init, IInv, ClosedRx, OneHolder, OffWhilePushing, Direct, OnePusher

-----------------------------------------------------------------------------
(* The assembler thread.                                                   *)

(* A step that moves the assembler only, and into the direct path only     *)
(* while nobody pushes.                                                    *)
LEMMA MoveRx ==
  ASSUME IInv,
         UNCHANGED <<flags, rxbyte, rxval, th, thbyte, opened>>,
         rx' \in RxStates \ {"create", "txStore"},
         ~opened => rx' \in {"idle", "lock", "write"},
         Direct' => Direct \/ NobodyPushes
  PROVE  IInv'
<1> USE DEF IInv
<1>1. FlagTypes'
  BY DEF FlagTypes
<1>2. ClosedRx'
  BY DEF ClosedRx
<1>3. OneHolder' /\ OnePusher'
  BY DEF OneHolder, OnePusher, Holding, Pushing
<1>4. OffWhilePushing'
  BY DEF OffWhilePushing, Holding, Pushing
<1>5. (opened /\ Direct => NobodyPushes)'
  BY DEF NobodyPushes, Pushing
<1> QED BY <1>1, <1>2, <1>3, <1>4, <1>5

(* Under the lock and with flow control on, no thread pushes: the frame    *)
(* may go to the pty directly.                                             *)
LEMMA PassInv == IInv /\ RxPass => IInv'
<1> SUFFICES ASSUME IInv, RxPass PROVE IInv'
  OBVIOUS
<1>1. opened => NobodyPushes
  BY DEF RxPass, IInv, OffWhilePushing, NobodyPushes
<1>2. CASE opened
  BY <1>1, <1>2, MoveRx DEF RxPass, thVars, RxStates
<1>3. CASE ~opened
  <2>1. /\ UNCHANGED <<flags, rxbyte, rxval, th, thbyte, opened>> /\ rx' = "write"
    BY DEF RxPass, thVars
  <2>2. FlagTypes' /\ ClosedRx' /\ OneHolder' /\ OnePusher' /\ OffWhilePushing'
    BY <1>3, <2>1 DEF IInv, FlagTypes, ClosedRx, OneHolder, OnePusher, Holding,
       Pushing, OffWhilePushing, RxStates
  <2> QED BY <1>3, <2>1, <2>2 DEF IInv
<1> QED BY <1>2, <1>3

(* The steps of the assembler outside the direct path.                     *)
LEMMA PlainRxInv ==
  ASSUME IInv,
         \/ RxData \/ RxCache \/ RxDrop \/ RxWriteAll \/ RxWritePart \/ RxRemain
         \/ RxWriteError \/ RxTellOff \/ RxWait \/ RxSpurious \/ RxCreateFails
  PROVE  IInv'
<1> USE DEF thVars, rxVars, RxStates, Direct, IInv, ClosedRx
<1>1. CASE RxData  BY <1>1, MoveRx DEF RxData
<1>2. CASE RxCache  BY <1>2, MoveRx DEF RxCache
<1>3. CASE RxDrop  BY <1>3, MoveRx DEF RxDrop
<1>4. CASE RxWriteAll  BY <1>4, MoveRx DEF RxWriteAll
<1>5. CASE RxWritePart  BY <1>5, MoveRx DEF RxWritePart
<1>6. CASE RxRemain  BY <1>6, MoveRx DEF RxRemain
<1>7. CASE RxWriteError  BY <1>7, MoveRx DEF RxWriteError
<1>8. CASE RxTellOff  BY <1>8, MoveRx DEF RxTellOff
<1>9. CASE RxWait  BY <1>9, MoveRx DEF RxWait
<1>10. CASE RxSpurious  BY <1>10, MoveRx DEF RxSpurious
<1>11. CASE RxCreateFails  BY <1>11, MoveRx DEF RxCreateFails
<1> QED BY <1>1, <1>2, <1>3, <1>4, <1>5, <1>6, <1>7, <1>8, <1>9, <1>10, <1>11

(* rx_fc_off is set while nobody pushes.                                   *)
LEMMA SetOffInv == IInv /\ RxSetOff => IInv'
<1> SUFFICES ASSUME IInv, RxSetOff PROVE IInv'
  OBVIOUS
<1>1. /\ rx \in {"startLock", "setOff"} /\ rx' = "create"
      /\ flags' = [flags EXCEPT !.rx_fc_off = TRUE]
      /\ UNCHANGED <<rxbyte, rxval, th, thbyte, opened>>
      /\ \A t \in Threads : ~Holding(t)
  BY DEF RxSetOff, thVars, LockFree
<1>2. opened /\ NobodyPushes
  BY <1>1 DEF IInv, ClosedRx, Direct
<1>3. FlagTypes' /\ flags'.rx_fc_off
  BY <1>1 DEF IInv, FlagTypes, Flags, RxStates
<1>4. \A t \in Threads : ~Holding(t)' /\ ~Pushing(t)'
  BY <1>1, <1>2 DEF Holding, Pushing, NobodyPushes
<1> QED BY <1>1, <1>2, <1>3, <1>4 DEF IInv, ClosedRx, OneHolder, OnePusher,
           OffWhilePushing, NobodyPushes

(* The new thread is the only one that pushes.                             *)
LEMMA CreateInv == IInv /\ RxCreate => IInv'
<1> SUFFICES ASSUME IInv, RxCreate PROVE IInv'
  OBVIOUS
<1>1. PICK t \in Threads : th[t] = "none" /\ th' = [th EXCEPT ![t] = "start"]
  BY DEF RxCreate
<1>2. /\ rx = "create" /\ rx' = "idle" /\ UNCHANGED <<flags, rxbyte, rxval, thbyte, opened>>
  BY DEF RxCreate
<1>3. opened /\ NobodyPushes
  BY <1>2 DEF IInv, ClosedRx, Direct
<1>4. FlagTypes'
  BY <1>1, <1>2 DEF IInv, FlagTypes, ThStates, RxStates
<1>5. \A u \in Threads : (Holding(u)' => Holding(u)) /\ (Pushing(u)' => u = t)
  BY <1>1, <1>3 DEF IInv, FlagTypes, Holding, Pushing, NobodyPushes
<1> QED BY <1>2, <1>3, <1>4, <1>5 DEF IInv, ClosedRx, OneHolder, OnePusher,
           OffWhilePushing, Direct

(* The assignment of tx_fc_off by the MSC handler, in its two halves.      *)
LEMMA MscInv == IInv /\ (RxMsc \/ RxMscStore) => IInv'
<1> SUFFICES ASSUME IInv, RxMsc \/ RxMscStore PROVE IInv'
  OBVIOUS
<1>0. UNCHANGED <<th, thbyte, opened>>
  BY DEF RxMsc, RxMscStore, thVars
<1>1. \A t \in Threads : (Holding(t)' <=> Holding(t)) /\ (Pushing(t)' <=> Pushing(t))
  BY <1>0 DEF Holding, Pushing
<1>2. CASE RxMsc
  <2>1. rx = "idle" /\ rx' = "txStore" /\ rxbyte' = flags /\ flags' = flags /\ opened
    BY <1>2 DEF RxMsc
  <2>2. FlagTypes'
    BY <1>0, <1>2, <2>1 DEF RxMsc, IInv, FlagTypes, Flags, RxStates
  <2> QED BY <1>0, <1>1, <2>1, <2>2 DEF IInv, ClosedRx, OneHolder, OnePusher,
             OffWhilePushing, Direct
<1>3. CASE RxMscStore
  <2>1. /\ rx = "txStore" /\ rx' = "idle"
        /\ flags' = [rxbyte EXCEPT !.tx_fc_off = rxval] /\ rxbyte' = NoFlags
        /\ rxval' = FALSE
    BY <1>3 DEF RxMscStore
  <2>2. flags'.rx_fc_off = rxbyte.rx_fc_off
    BY <2>1 DEF IInv, FlagTypes, Flags
  <2>3. FlagTypes'
    BY <1>0, <2>1 DEF IInv, FlagTypes, Flags, NoFlags, RxStates
  <2> QED BY <1>0, <1>1, <2>1, <2>2, <2>3 DEF IInv, ClosedRx, OneHolder, OnePusher,
             OffWhilePushing, Direct
<1> QED BY <1>2, <1>3

(* A closed channel: its flags are reset under the running threads.        *)
LEMMA CloseInv == IInv /\ RxClose => IInv'
<1> SUFFICES ASSUME IInv, RxClose PROVE IInv'
  OBVIOUS
<1>1. /\ rx = "idle" /\ rx' = "idle" /\ opened' = FALSE /\ flags' = NoFlags
      /\ UNCHANGED <<rxbyte, rxval, th, thbyte>>
  BY DEF RxClose, rxVars, thVars
<1> QED BY <1>1 DEF IInv, FlagTypes, ClosedRx, OneHolder, OnePusher, OffWhilePushing,
           Direct, Holding, Pushing, NoFlags, Flags

-----------------------------------------------------------------------------
(* The retry threads. A step of thread t changes th[t] and thbyte[t] only, *)
(* and the flag byte when it stores.                                       *)

(* Steps that neither load nor store, nor make a thread push.              *)
LEMMA MoveTh ==
  ASSUME IInv, NEW t \in Threads, NEW where \in ThStates,
         th' = [th EXCEPT ![t] = where],
         UNCHANGED <<flags, rxbyte, rxval, thbyte, opened>>,
         rx' = rx \/ (rx = "wait" /\ rx' = "setOff"),
         ~Holding(t),
         where \notin {"startStore", "popStore", "clearStore"},
         where \in {"start", "write", "pop"} => Pushing(t)
  PROVE  IInv'
<1>1. \A u \in Threads : (Holding(u)' => Holding(u)) /\ (Pushing(u)' => Pushing(u))
  BY DEF IInv, FlagTypes, Holding, Pushing, ThStates
<1>2. FlagTypes'
  BY DEF IInv, FlagTypes, ThStates, RxStates
<1> QED BY <1>1, <1>2 DEF IInv, ClosedRx, OneHolder, OnePusher, OffWhilePushing,
           Direct, NobodyPushes

(* The load of the flag byte, under the lock.                              *)
LEMMA LoadInv ==
  ASSUME IInv, NEW t \in Threads, NEW from,
         NEW where \in {"startStore", "popStore", "clearStore"},
         ThLoad(t, from, where),
         where \in {"startStore", "popStore"} => Pushing(t)
  PROVE  IInv'
<1>1. /\ th[t] = from /\ th' = [th EXCEPT ![t] = where]
      /\ thbyte' = [thbyte EXCEPT ![t] = flags]
      /\ UNCHANGED <<flags, rxbyte, rxval, opened, rx>>
      /\ \A u \in Threads : ~Holding(u)
  BY DEF ThLoad, ThGoto, rxVars, LockFree
<1>2. \A u \in Threads : Holding(u)' => u = t
  BY <1>1 DEF IInv, FlagTypes, Holding
<1>3. \A u \in Threads : Pushing(u)' => Pushing(u)
  BY <1>1 DEF IInv, FlagTypes, Pushing
<1>4. FlagTypes'
  BY <1>1 DEF IInv, FlagTypes, ThStates
<1>5. thbyte'[t] = flags
  BY <1>1 DEF IInv, FlagTypes
<1> QED BY <1>1, <1>2, <1>3, <1>4, <1>5 DEF IInv, ClosedRx, OneHolder, OnePusher,
           OffWhilePushing, Direct, NobodyPushes

(* The store, by the only thread that holds the lock.                      *)
LEMMA StoreInv ==
  ASSUME IInv, NEW t \in Threads, Holding(t), NEW where \in ThStates,
         th' = [th EXCEPT ![t] = where],
         where \notin {"startStore", "popStore", "clearStore"},
         thbyte' = [thbyte EXCEPT ![t] = NoFlags],
         UNCHANGED <<rxbyte, rxval, opened, rx>>,
         flags' \in Flags,
         Pushing(t)' => Pushing(t),
         opened /\ (rx = "create" \/ \E u \in Threads : Pushing(u)')
           => flags'.rx_fc_off
  PROVE  IInv'
<1>1. \A u \in Threads : ~Holding(u)'
  BY DEF IInv, FlagTypes, OneHolder, Holding
<1>2. \A u \in Threads : Pushing(u)' => Pushing(u)
  BY DEF IInv, FlagTypes, Pushing
<1>3. FlagTypes'
  BY DEF IInv, FlagTypes, ThStates, NoFlags, Flags
<1> QED BY <1>1, <1>2, <1>3 DEF IInv, ClosedRx, OneHolder, OnePusher,
           OffWhilePushing, Direct, NobodyPushes

(* The store of rx_thread, and the first frame.                            *)
LEMMA FirstInv == IInv /\ (\E t \in Threads : ThFirst(t)) => IInv'
<1> SUFFICES ASSUME IInv, NEW t \in Threads, ThFirst(t) PROVE IInv'
  OBVIOUS
<1>0. PICK where \in {"crashed", "write"} : th' = [th EXCEPT ![t] = where]
  BY DEF ThFirst, ThGoto
<1>1. /\ th[t] = "startStore"
      /\ flags' = [thbyte[t] EXCEPT !.rx_thread = TRUE]
      /\ thbyte' = [thbyte EXCEPT ![t] = NoFlags]
      /\ UNCHANGED <<rxbyte, rxval, opened, rx>>
  BY DEF ThFirst, rxVars
<1>2. thbyte[t] \in Flags /\ Holding(t) /\ Pushing(t) /\ where \in ThStates
  BY <1>1 DEF IInv, FlagTypes, Holding, Pushing, ThStates
<1>3. flags' \in Flags /\ flags'.rx_fc_off = thbyte[t].rx_fc_off
  BY <1>1, <1>2 DEF Flags
<1>4. opened => thbyte[t].rx_fc_off
  BY <1>2 DEF IInv, OffWhilePushing
<1> QED BY <1>0, <1>1, <1>2, <1>3, <1>4, StoreInv

(* The store that turns flow control off: the thread pushes no more.       *)
LEMMA EmptyStoreInv == IInv /\ (\E t \in Threads : ThEmptyStore(t)) => IInv'
<1> SUFFICES ASSUME IInv, NEW t \in Threads, ThEmptyStore(t) PROVE IInv'
  OBVIOUS
<1>1. /\ th[t] = "popStore" /\ th' = [th EXCEPT ![t] = "tellOn"]
      /\ flags' = [thbyte[t] EXCEPT !.rx_fc_off = FALSE]
      /\ thbyte' = [thbyte EXCEPT ![t] = NoFlags]
      /\ UNCHANGED <<rxbyte, rxval, opened, rx>>
  BY DEF ThEmptyStore, rxVars, ThGoto
<1>2. thbyte[t] \in Flags /\ Holding(t) /\ Pushing(t) /\ ~Pushing(t)'
  BY <1>1 DEF IInv, FlagTypes, Holding, Pushing, ThStates
<1>3. flags' \in Flags
  BY <1>1, <1>2 DEF Flags
<1>4. opened => rx # "create"
  BY <1>2 DEF IInv, Direct, NobodyPushes
<1>5. \A u \in Threads : ~Pushing(u)'
  BY <1>1, <1>2 DEF IInv, FlagTypes, OnePusher, Pushing
<1> QED BY <1>1, <1>2, <1>3, <1>4, <1>5, StoreInv DEF ThStates

(* The store of rx_thread = 0, by a thread that does not push.             *)
LEMMA ClearStoreInv == IInv /\ (\E t \in Threads : ThClearStore(t)) => IInv'
<1> SUFFICES ASSUME IInv, NEW t \in Threads, ThClearStore(t) PROVE IInv'
  OBVIOUS
<1>1. /\ th[t] = "clearStore" /\ th' = [th EXCEPT ![t] = "signal"]
      /\ flags' = [thbyte[t] EXCEPT !.rx_thread = FALSE]
      /\ thbyte' = [thbyte EXCEPT ![t] = NoFlags]
      /\ UNCHANGED <<rxbyte, rxval, opened, rx>>
  BY DEF ThClearStore, rxVars, ThGoto
<1>2. thbyte[t] \in Flags /\ Holding(t) /\ ~Pushing(t)'
  BY <1>1 DEF IInv, FlagTypes, Holding, Pushing, ThStates
<1>3. flags' \in Flags /\ flags'.rx_fc_off = thbyte[t].rx_fc_off
  BY <1>1, <1>2 DEF Flags
<1>4. \A u \in Threads : Pushing(u)' => Pushing(u)
  BY <1>1 DEF IInv, FlagTypes, Pushing
<1>5. opened /\ (rx = "create" \/ \E u \in Threads : Pushing(u)')
        => flags'.rx_fc_off
  BY <1>2, <1>3, <1>4 DEF IInv, OffWhilePushing
<1> QED BY <1>1, <1>2, <1>3, <1>5, StoreInv DEF ThStates

(* Every step of a retry thread keeps IInv.                                *)
LEMMA ThInv == IInv /\ (\E t \in Threads : Th(t)) => IInv'
<1> SUFFICES ASSUME IInv, NEW t \in Threads, Th(t) PROVE IInv'
  OBVIOUS
<1> USE DEF ThGoto, rxVars, ThStates, Holding, Pushing
<1>1. CASE ThStart(t)
  BY <1>1, LoadInv DEF ThStart, ThLoad
<1>2. CASE ThEmpty(t)
  BY <1>2, LoadInv DEF ThEmpty, ThLoad
<1>3. CASE ThClear(t)
  BY <1>3, LoadInv DEF ThClear
<1>4. CASE ThFirst(t)
  BY <1>4, FirstInv
<1>5. CASE ThEmptyStore(t)
  BY <1>5, EmptyStoreInv
<1>6. CASE ThClearStore(t)
  BY <1>6, ClearStoreInv
<1>7. CASE ThWrite(t)
  <2>1. /\ th[t] = "write" /\ UNCHANGED <<flags, rxbyte, rxval, thbyte, opened, rx>>
    BY <1>7 DEF ThWrite
  <2>2. th' = [th EXCEPT ![t] = "write"] \/ th' = [th EXCEPT ![t] = "pop"]
    BY <1>7, <2>1 DEF ThWrite, IInv, FlagTypes
  <2> QED BY <2>1, <2>2, MoveTh
<1>8. CASE ThWriteError(t)
  <2>1. /\ th[t] = "write" /\ UNCHANGED <<flags, rxbyte, rxval, th, thbyte, opened, rx>>
    BY <1>8 DEF ThWriteError, thVars
  <2>2. th' = [th EXCEPT ![t] = "write"]
    BY <2>1 DEF IInv, FlagTypes
  <2> QED BY <2>1, <2>2, MoveTh
<1>9. CASE ThNext(t)
  BY <1>9, MoveTh DEF ThNext
<1>10. CASE ThTellOn(t)
  BY <1>10, MoveTh DEF ThTellOn
<1>11. CASE ThSignal(t)
  BY <1>11, MoveTh DEF ThSignal
<1> QED BY <1>1, <1>2, <1>3, <1>4, <1>5, <1>6, <1>7, <1>8, <1>9, <1>10, <1>11 DEF Th

-----------------------------------------------------------------------------
(* Every step keeps IInv.                                                  *)
LEMMA NextIInv == IInv /\ [Next]_vars => IInv'
<1> SUFFICES ASSUME IInv, [Next]_vars PROVE IInv'
  OBVIOUS
<1>1. CASE Rx
  BY <1>1, PassInv, PlainRxInv, SetOffInv, CreateInv, MscInv, CloseInv DEF Rx
<1>2. CASE RxSpurious
  BY <1>2, PlainRxInv
<1>3. CASE \E t \in Threads : Th(t)
  BY <1>3, ThInv
<1>4. CASE Pty \/ UNCHANGED vars
  BY <1>4, CoreSame DEF coreVars, rxVars, thVars, IInv, FlagTypes, ClosedRx, OneHolder, OnePusher,
              OffWhilePushing, Direct, NobodyPushes, Holding, Pushing
<1> QED BY <1>1, <1>2, <1>3, <1>4 DEF Next

(* IInv is an invariant of the assembler and all retry threads.            *)
THEOREM FlowInvariance == Spec => []IInv
<1> QED BY InitIInv, NextIInv, PTL DEF Spec

(* A channel never has two retry threads that write to its pty ...         *)
THEOREM OneWriterAtATime == Spec => []OnePusher
<1>1. IInv => OnePusher
  BY DEF IInv
<1> QED BY <1>1, FlowInvariance, PTL

(* ... and none while the assembler itself writes to it, or rebuilds the   *)
(* list without the lock.                                                  *)
THEOREM ListNeverShared == Spec => []ListNotShared
<1>1. IInv => ListNotShared
  BY DEF IInv, ListNotShared, Direct, NobodyPushes
<1> QED BY <1>1, FlowInvariance, PTL

-----------------------------------------------------------------------------
(* Types. A frame is in hand wherever one is written, and what was written *)
(* of it directly is less than all of it.                                  *)

FlowTypeInv ==
  /\ TypeOK
  /\ rx \in {"lock", "write", "remain"} => cur \in Frame
  /\ rx = "remain" => written < FrameLen[cur]
  /\ \A t \in Threads : th[t] = "write" => thframe[t] \in Frame

(* Frames have a length.                                                   *)
LEMMA LenNat == \A f \in Frame : FrameLen[f] \in Nat \ {0}
BY FlowAssumption DEF Frame

(* The bytes of a frame, as the pty sees them.                             *)
LEMMA BytesType ==
  ASSUME NEW f \in Frame, NEW i \in Nat, NEW j \in Nat, i <= j + 1
  PROVE  Bytes(f, i, j) \in Seq(Frame \X Nat)
<1> DEFINE n == j - i + 1
<1>1. n \in Nat
  OBVIOUS
<1>2. \A p \in 1 .. n : <<f, i + p - 1>> \in Frame \X Nat
  OBVIOUS
<1> QED BY <1>1, <1>2 DEF Bytes

(* What a write puts into out.                                             *)
LEMMA OutType ==
  ASSUME out \in Seq(Frame \X Nat), NEW f \in Frame, NEW m \in Nat,
         NEW n \in 0 .. FrameLen[f] - m
  PROVE  out \o Bytes(f, m + 1, m + n) \in Seq(Frame \X Nat)
<1>1. FrameLen[f] \in Nat
  BY LenNat
<1>2. n \in Nat /\ m + 1 \in Nat /\ m + n \in Nat /\ m + 1 <= m + n + 1
  BY <1>1
<1>3. Bytes(f, m + 1, m + n) \in Seq(Frame \X Nat)
  BY <1>2, BytesType
<1> QED BY <1>3

(* Appending to the list and taking from it.                               *)
LEMMA ListType ==
  ASSUME rx_fl \in Seq(Frame)
  PROVE  /\ ToSet(rx_fl) \subseteq Frame
         /\ \A f \in Frame : Append(rx_fl, f) \in Seq(Frame) /\ <<f>> \in Seq(Frame)
         /\ rx_fl # <<>> => Head(rx_fl) \in Frame /\ Tail(rx_fl) \in Seq(Frame)
BY DEF ToSet

(* Assigning a bit of the flag byte.                                       *)
LEMMA FlagsType ==
  /\ NoFlags \in Flags
  /\ \A b \in Flags, v \in BOOLEAN : /\ [b EXCEPT !.tx_fc_off = v] \in Flags
                                     /\ [b EXCEPT !.rx_fc_off = v] \in Flags
                                     /\ [b EXCEPT !.rx_thread = v] \in Flags
                                     /\ b.tx_fc_off \in BOOLEAN
BY DEF NoFlags, Flags

(* The types of the initial state.                                         *)
LEMMA FlowTypeInit == Init => FlowTypeInv
<1> SUFFICES ASSUME Init PROVE FlowTypeInv
  OBVIOUS
<1>1. /\ 1 \in 1 .. NFrames + 1 /\ 0 \in 0 .. NFrames /\ MscBudget \in 0 .. MscBudget
      /\ NoFlags \in Flags
  BY FlowAssumption, FlagsType
<1>2. /\ <<>> \in Seq(Frame) /\ <<>> \in Seq(Frame \X Nat)
      /\ [t \in Threads |-> 0] \in [Threads -> 0 .. NFrames]
      /\ [t \in Threads |-> 0] \in [Threads -> Nat]
      /\ [t \in Threads |-> "none"] \in [Threads -> ThStates]
      /\ [t \in Threads |-> NoFlags] \in [Threads -> Flags]
  BY <1>1 DEF ThStates
<1>3. TypeOK
  BY <1>1, <1>2, FlowAssumption DEF Init, TypeOK, RxStates
<1> QED BY <1>3 DEF Init, FlowTypeInv

(* Every step of the assembler keeps the types.                            *)
LEMMA RxTypes == FlowTypeInv /\ (Rx \/ RxSpurious) => FlowTypeInv'
<1> SUFFICES ASSUME FlowTypeInv, Rx \/ RxSpurious PROVE FlowTypeInv'
  OBVIOUS
<1> USE DEF FlowTypeInv, TypeOK, RxStates, logVars, listVars, rxVars, thVars, Fail
<1>0. cur \in Frame => FrameLen[cur] \in Nat \ {0} /\ cur \in 0 .. NFrames
  BY LenNat DEF Frame
<1>1. CASE RxData  BY <1>1, FlowAssumption DEF RxData, Frame
<1>2. CASE RxPass  BY <1>2 DEF RxPass
<1>3. CASE RxCache
  <2>1. Append(rx_fl, cur) \in Seq(Frame) /\ Append(accepted, cur) \in Seq(Frame)
        /\ rx_fl_total + FrameLen[cur] \in Nat
    BY <1>0, <1>3 DEF RxCache
  <2>2. rx_fl' \in Seq(Frame) /\ accepted' \in Seq(Frame) /\ rx_fl_total' \in Nat
    BY <1>3, <2>1 DEF RxCache
  <2>3. cur' \in 0 .. NFrames /\ rx' = "idle"
    BY <1>3, FlowAssumption DEF RxCache
  <2>4. TypeOK'
    BY <1>3, <2>2, <2>3 DEF RxCache
  <2> QED BY <1>3, <2>3, <2>4 DEF RxCache
<1>4. CASE RxDrop  BY <1>4, FlowAssumption DEF RxDrop
<1>5. CASE RxWriteAll
  <2>1. cur \in Frame /\ 0 \in Nat /\ FrameLen[cur] \in 0 .. FrameLen[cur] - 0
        /\ 0 + 1 = 1 /\ 0 + FrameLen[cur] = FrameLen[cur]
    BY <1>0, <1>5 DEF RxWriteAll
  <2>2. out \o Bytes(cur, 0 + 1, 0 + FrameLen[cur]) \in Seq(Frame \X Nat)
    BY <2>1, OutType
  <2>3. out' \in Seq(Frame \X Nat)
    BY <1>5, <2>1, <2>2 DEF RxWriteAll
  <2> QED BY <1>5, <2>1, <2>3, FlowAssumption DEF RxWriteAll
<1>6. CASE RxWritePart
  <2>1. PICK n \in 0 .. FrameLen[cur] - 1 : out' = out \o Bytes(cur, 1, n) /\ written' = n
    BY <1>6 DEF RxWritePart
  <2>2. cur \in Frame /\ n \in 0 .. FrameLen[cur] - 0 /\ n < FrameLen[cur]
        /\ n \in Nat /\ 0 + 1 = 1 /\ 0 + n = n
    BY <1>0, <1>6, <2>1 DEF RxWritePart
  <2>3. out \o Bytes(cur, 0 + 1, 0 + n) \in Seq(Frame \X Nat)
    BY <2>2, OutType
  <2>4. out' \in Seq(Frame \X Nat)
    BY <2>1, <2>2, <2>3
  <2> QED BY <1>6, <2>1, <2>2, <2>4 DEF RxWritePart
<1>7. CASE RxRemain
  <2>1. /\ cur \in Frame /\ rx_fl' = <<cur>> /\ <<cur>> \in Seq(Frame)
        /\ ToSet(rx_fl) \subseteq Frame /\ FrameLen[cur] - written \in Nat
    BY <1>0, <1>7, ListType DEF RxRemain
  <2>2. freed' \subseteq Frame
    BY <1>7, <2>1 DEF RxRemain
  <2>3. /\ rx_fl_total' \in Nat /\ rx_fl_written' \in Nat /\ written' \in Nat
        /\ cur' \in 0 .. NFrames /\ rx' = "tellOff"
        /\ rx_fl' \in Seq(Frame) /\ fl_mem' \in {"null", "list", "freed"}
    BY <1>7, <2>1, FlowAssumption DEF RxRemain
  <2>4. failed' \subseteq {"PTY_WRITE_9", "PTY_WRITE", "FRAMELIST_INIT", "RXTHREAD",
                            "CREATE_THREAD"}
    BY <1>7 DEF RxRemain
  <2>5. UNCHANGED <<next, accepted, dropped, out, ptyVars, flags, peerOff, msc, rxbyte,
                    rxval, th, thframe, thwritten, thbyte>>
    BY <1>7 DEF RxRemain
  <2> QED BY <2>2, <2>3, <2>4, <2>5
<1>8. CASE RxWriteError  BY <1>8 DEF RxWriteError
<1>9. CASE RxTellOff  BY <1>9 DEF RxTellOff
<1>10. CASE RxWait  BY <1>10 DEF RxWait
<1>11. CASE RxSpurious  BY <1>11 DEF RxSpurious
<1>12. CASE RxSetOff  BY <1>12, FlagsType DEF RxSetOff
<1>13. CASE RxCreate  BY <1>13 DEF RxCreate, ThStates
<1>14. CASE RxCreateFails  BY <1>14 DEF RxCreateFails
<1>15. CASE RxMsc  BY <1>15, FlowAssumption, FlagsType, SMTT(60) DEF RxMsc
<1>16. CASE RxMscStore  BY <1>16, FlagsType DEF RxMscStore
<1>17. CASE RxClose
  <2>1. freed' \subseteq Frame /\ rx_fl' \in Seq(Frame) /\ flags' \in Flags
    BY <1>17, ListType, FlagsType DEF RxClose
  <2> QED BY <1>17, <2>1 DEF RxClose
<1> QED BY <1>1, <1>2, <1>3, <1>4, <1>5, <1>6, <1>7, <1>8, <1>9, <1>10, <1>11, <1>12,
           <1>13, <1>14, <1>15, <1>16, <1>17 DEF Rx

(* Every step of a retry thread keeps the types.                           *)
LEMMA ThTypes == FlowTypeInv /\ (\E t \in Threads : Th(t)) => FlowTypeInv'
<1> SUFFICES ASSUME FlowTypeInv, NEW t \in Threads, Th(t) PROVE FlowTypeInv'
  OBVIOUS
<1> USE DEF FlowTypeInv, TypeOK, logVars, listVars, rxVars, thVars, Fail, ThGoto
<1>1. CASE ThStart(t)  BY <1>1 DEF ThStart, ThLoad, ThStates
<1>2. CASE ThFirst(t)
  <2>1. thbyte[t] \in Flags /\ flags' \in Flags /\ thbyte' \in [Threads -> Flags]
    BY <1>2, FlagsType DEF ThFirst
  <2>2. CASE rx_fl = <<>>
    BY <1>2, <2>1, <2>2 DEF ThFirst, ThStates
  <2>3. CASE rx_fl # <<>>
    <3>1. Head(rx_fl) \in Frame /\ Tail(rx_fl) \in Seq(Frame) /\ Head(rx_fl) \in 0 .. NFrames
      BY <2>3, ListType DEF Frame
    <3> QED BY <1>2, <2>1, <2>3, <3>1 DEF ThFirst, ThStates
  <2> QED BY <2>2, <2>3
<1>3. CASE ThWrite(t)
  <2> DEFINE f == thframe[t]
             w == thwritten[t]
  <2>1. f \in Frame /\ w \in Nat /\ FrameLen[f] \in Nat
    BY <1>3, LenNat DEF ThWrite
  <2>2. PICK n \in 1 .. FrameLen[f] - w :
          /\ out' = out \o Bytes(f, w + 1, w + n)
          /\ IF w + n < FrameLen[f]
             THEN /\ thwritten' = [thwritten EXCEPT ![t] = @ + n]
                  /\ UNCHANGED th
             ELSE /\ thwritten' = [thwritten EXCEPT ![t] = 0]
                  /\ th' = [th EXCEPT ![t] = "pop"]
    BY <1>3 DEF ThWrite
  <2>3. n \in 0 .. FrameLen[f] - w
    BY <2>1, <2>2
  <2>4. out' \in Seq(Frame \X Nat)
    BY <2>1, <2>2, <2>3, OutType
  <2>5. thwritten' \in [Threads -> Nat] /\ th' \in [Threads -> ThStates]
        /\ \A u \in Threads : th'[u] = "write" => th[u] = "write"
    <3>0. n \in Nat /\ w + n \in Nat /\ w = thwritten[t]
      BY <2>1, <2>3
    <3> HIDE DEF w
    <3>1. CASE w + n < FrameLen[f]
      BY <2>2, <3>0, <3>1
    <3>2. CASE ~(w + n < FrameLen[f])
      <4>1. thwritten' = [thwritten EXCEPT ![t] = 0] /\ th' = [th EXCEPT ![t] = "pop"]
        BY <2>2, <3>2
      <4>2. th \in [Threads -> ThStates] /\ "pop" \in ThStates
        BY DEF ThStates
      <4> QED BY <4>1, <4>2
    <3> QED BY <3>1, <3>2
  <2> QED BY <1>3, <2>4, <2>5 DEF ThWrite
<1>4. CASE ThWriteError(t)  BY <1>4 DEF ThWriteError
<1>5. CASE ThNext(t)
  <2>1. Head(rx_fl) \in Frame /\ Tail(rx_fl) \in Seq(Frame) /\ Head(rx_fl) \in 0 .. NFrames
    BY <1>5, ListType DEF ThNext, Frame
  <2> QED BY <1>5, <2>1 DEF ThNext, ThStates
<1>6. CASE ThEmpty(t)  BY <1>6 DEF ThEmpty, ThLoad, ThStates
<1>7. CASE ThEmptyStore(t)
  <2>1. flags' \in Flags /\ thbyte' \in [Threads -> Flags]
    BY <1>7, FlagsType DEF ThEmptyStore
  <2>2. /\ thframe' \in [Threads -> 0 .. NFrames] /\ th' \in [Threads -> ThStates]
        /\ th'[t] = "tellOn"
    BY <1>7, FlowAssumption DEF ThEmptyStore, ThStates
  <2>3. /\ \A u \in Threads : u # t => th'[u] = th[u] /\ thframe'[u] = thframe[u]
        /\ UNCHANGED <<next, accepted, dropped, out, ptyVars, rx_fl, rx_fl_total,
                      rx_fl_written, fl_mem, freed, peerOff, msc, rx, cur, written, rxbyte,
                      rxval, thwritten, failed>>
    BY <1>7 DEF ThEmptyStore
  <2> QED BY <2>1, <2>2, <2>3
<1>8. CASE ThTellOn(t)  BY <1>8 DEF ThTellOn, ThStates
<1>9. CASE ThClear(t)  BY <1>9 DEF ThClear, ThLoad, ThStates
<1>10. CASE ThClearStore(t)
  <2>1. flags' \in Flags /\ thbyte' \in [Threads -> Flags]
    BY <1>10, FlagsType DEF ThClearStore
  <2> QED BY <1>10, <2>1 DEF ThClearStore, ThStates
<1>11. CASE ThSignal(t)  BY <1>11 DEF ThSignal, ThStates, RxStates
<1> QED BY <1>1, <1>2, <1>3, <1>4, <1>5, <1>6, <1>7, <1>8, <1>9, <1>10, <1>11 DEF Th

(* So does every step of the pty.                                          *)
LEMMA PtyTypes == FlowTypeInv /\ (Pty \/ UNCHANGED vars) => FlowTypeInv'
<1> SUFFICES ASSUME FlowTypeInv, Pty \/ UNCHANGED vars PROVE FlowTypeInv'
  OBVIOUS
<1>1. UNCHANGED coreVars
  BY CoreSame
<1>2. hungUp' \in BOOLEAN /\ reopen' \in BOOLEAN
  BY DEF FlowTypeInv, TypeOK, Pty, HangUp, AskReopen, Watchdog, vars
<1>3. hangups \in Nat /\ (hangups' = hangups \/ (hangups > 0 /\ hangups' = hangups - 1))
  BY DEF FlowTypeInv, TypeOK, Pty, HangUp, AskReopen, Watchdog, vars
<1>4. hangups' \in Nat
  BY <1>3
<1> QED BY <1>1, <1>2, <1>4 DEF coreVars, logVars, listVars, rxVars, thVars, FlowTypeInv, TypeOK

(* Every variable keeps its type; in particular no write is attempted      *)
(* without a frame, and the byte counts stay natural numbers.              *)
THEOREM FlowTypeCorrect == Spec => []TypeOK
<1>1. FlowTypeInv /\ [Next]_vars => FlowTypeInv'
  <2> SUFFICES ASSUME FlowTypeInv, [Next]_vars PROVE FlowTypeInv'
    OBVIOUS
  <2>1. CASE Rx \/ RxSpurious
    BY <2>1, RxTypes
  <2>2. CASE \E t \in Threads : Th(t)
    BY <2>2, ThTypes
  <2>3. CASE Pty \/ UNCHANGED vars
    BY <2>3, PtyTypes
  <2> QED BY <2>1, <2>2, <2>3 DEF Next
<1>2. FlowTypeInv => TypeOK
  BY DEF FlowTypeInv
<1> QED BY <1>1, <1>2, FlowTypeInit, PTL DEF Spec

-----------------------------------------------------------------------------
(* What is appended behind is appended to the second of two parts.         *)
LEMMA ConcatAssociates ==
  ASSUME NEW S, NEW x \in Seq(S), NEW a \in Seq(S), NEW b \in Seq(S)
  PROVE  (x \o a) \o b = x \o (a \o b)
BY SMT

(* Induction over the natural numbers, for a set.                          *)
LEMMA SetInduction ==
  ASSUME NEW T, 0 \in T, \A n \in Nat : n \in T => n + 1 \in T
  PROVE  \A n \in Nat : n \in T
<1> SUFFICES ASSUME NEW m \in Nat, m \notin T PROVE FALSE
  OBVIOUS
<1> DEFINE B == {n \in Nat : n \notin T}
<1>1. B \subseteq Nat /\ B # {}
  OBVIOUS
<1>2. \E x \in B : \A y \in B : ~ (<<y, x>> \in OpToRel(<, Nat))
  <2> HIDE DEF B
  <2> QED BY <1>1, WFMin, NatLessThanWellFounded
<1>3. PICK x \in B : \A y \in B : ~ (<<y, x>> \in OpToRel(<, Nat))
  BY <1>2
<1>4. \A y \in B : ~ (y < x)
  BY <1>1, <1>3 DEF OpToRel
<1>5. x \in Nat /\ x \notin T /\ x # 0
  BY <1>3
<1>6. x - 1 \in Nat /\ x - 1 < x /\ x - 1 + 1 = x
  BY <1>5
<1>7. x - 1 \in T
  BY <1>4, <1>6
<1> QED BY <1>5, <1>6, <1>7

(* The prefixes of FlattenSeq(ss), one after the other, up to n.           *)
PrefixesTo(f, ss, n) ==
  \A i \in 1 .. n : f[i] = IF i = 1 THEN ss[i] ELSE f[i - 1] \o ss[i]

(* The set of all n up to which they exist.                                *)
HavePrefixes(S, ss) ==
  {n \in Nat : n <= Len(ss) => \E f \in [1 .. n -> Seq(S)] : PrefixesTo(f, ss, n)}

(* One of them and the next.                                               *)
LEMMA PrefixStep ==
  ASSUME NEW f, NEW ss, NEW n \in Nat, PrefixesTo(f, ss, n),
         NEW m \in Nat, m + 1 \in 1 .. n
  PROVE  f[m + 1] = IF m = 0 THEN ss[m + 1] ELSE f[m] \o ss[m + 1]
BY DEF PrefixesTo

(* The last of them.                                                       *)
LEMMA PrefixLast ==
  ASSUME NEW f, NEW ss, NEW n \in Nat, PrefixesTo(f, ss, n + 1)
  PROVE  f[n + 1] = IF n = 0 THEN ss[n + 1] ELSE f[n] \o ss[n + 1]
<1>1. n + 1 \in Nat /\ n + 1 \in 1 .. n + 1
  OBVIOUS
<1> QED BY <1>1, PrefixStep, Zenon

(* They exist up to the length of ss.                                      *)
LEMMA PrefixesExist ==
  ASSUME NEW S, NEW ss \in Seq(Seq(S))
  PROVE  \E f \in [1 .. Len(ss) -> Seq(S)] : PrefixesTo(f, ss, Len(ss))
<1>1. 0 \in HavePrefixes(S, ss)
  <2>1. [i \in 1 .. 0 |-> <<>>] \in [1 .. 0 -> Seq(S)]
    OBVIOUS
  <2>2. PrefixesTo([i \in 1 .. 0 |-> <<>>], ss, 0)
    BY DEF PrefixesTo
  <2> QED BY <2>1, <2>2 DEF HavePrefixes
<1>2. ASSUME NEW n \in Nat, n \in HavePrefixes(S, ss) PROVE n + 1 \in HavePrefixes(S, ss)
  <2> SUFFICES ASSUME n + 1 <= Len(ss)
               PROVE  \E f \in [1 .. n + 1 -> Seq(S)] : PrefixesTo(f, ss, n + 1)
    BY DEF HavePrefixes
  <2>1. PICK f \in [1 .. n -> Seq(S)] : PrefixesTo(f, ss, n)
    BY <1>2 DEF HavePrefixes
  <2>2. ss[n + 1] \in Seq(S) /\ (n # 0 => f[n] \in Seq(S))
    BY ElementOfSeq
  <2>3. PICK last \in Seq(S) : last = IF n = 0 THEN ss[n + 1] ELSE f[n] \o ss[n + 1]
    <3>1. CASE n = 0  BY <2>2, <3>1
    <3>2. CASE n # 0  BY <2>2, <3>2, ConcatProperties
    <3> QED BY <3>1, <3>2
  <2> DEFINE g == [i \in 1 .. n + 1 |-> IF i = n + 1 THEN last ELSE f[i]]
  <2>4. g \in [1 .. n + 1 -> Seq(S)]
    OBVIOUS
  <2>5. ASSUME NEW i \in 1 .. n + 1
        PROVE  g[i] = IF i = 1 THEN ss[i] ELSE g[i - 1] \o ss[i]
    <3>1. CASE i = n + 1
      <4>1. i # 1 => n \in 1 .. n /\ n # n + 1 /\ i - 1 = n /\ n # 0
        BY <3>1
      <4>2. i # 1 => g[i - 1] = f[n]
        BY <4>1
      <4> QED BY <2>3, <3>1, <4>1, <4>2
    <3>2. CASE i # n + 1
      <4>1. i \in 1 .. n /\ g[i] = f[i]
        BY <3>2
      <4>2. i # 1 => i - 1 \in 1 .. n /\ i - 1 # n + 1
        BY <4>1
      <4>3. i # 1 => g[i - 1] = f[i - 1]
        BY <4>2
      <4>4. f[i] = IF i = 1 THEN ss[i] ELSE f[i - 1] \o ss[i]
        BY <2>1, <4>1 DEF PrefixesTo
      <4> HIDE DEF g
      <4> QED BY <4>1, <4>3, <4>4
    <3> QED BY <3>1, <3>2
  <2> HIDE DEF g
  <2> QED BY <2>4, <2>5 DEF PrefixesTo
<1>3. \A n \in Nat : n \in HavePrefixes(S, ss)
  BY <1>1, <1>2, SetInduction
<1> QED BY <1>3 DEF HavePrefixes

(* They are determined by ss ...                                           *)
LEMMA PrefixesUnique ==
  ASSUME NEW ss, NEW f, NEW g, NEW n \in Nat, PrefixesTo(f, ss, n), PrefixesTo(g, ss, n)
  PROVE  \A i \in 1 .. n : f[i] = g[i]
<1> DEFINE T == {m \in Nat : m \in 1 .. n => f[m] = g[m]}
<1>1. 0 \in T
  OBVIOUS
<1>2. ASSUME NEW m \in Nat, m \in T PROVE m + 1 \in T
  <2> SUFFICES ASSUME m + 1 \in 1 .. n PROVE f[m + 1] = g[m + 1]
    OBVIOUS
  <2>1. /\ f[m + 1] = IF m + 1 = 1 THEN ss[m + 1] ELSE f[m + 1 - 1] \o ss[m + 1]
        /\ g[m + 1] = IF m + 1 = 1 THEN ss[m + 1] ELSE g[m + 1 - 1] \o ss[m + 1]
    BY DEF PrefixesTo
  <2>2. m + 1 # 1 => m \in 1 .. n
    OBVIOUS
  <2>3. m + 1 # 1 => f[m] = g[m]
    BY <1>2, <2>2
  <2> QED BY <2>1, <2>3
<1>3. \A m \in Nat : m \in T
  <2> HIDE DEF T
  <2> QED BY <1>1, <1>2, SetInduction
<1> QED BY <1>3

(* ... and FlattenSeq(ss) is the last of them.                             *)
LEMMA FlattenIsLast ==
  ASSUME NEW S, NEW ss \in Seq(Seq(S)), ss # <<>>, NEW f, PrefixesTo(f, ss, Len(ss))
  PROVE  FlattenSeq(ss) = f[Len(ss)]
<1> DEFINE F(g) == g = [i \in 1 .. Len(ss) |-> IF i = 1 THEN ss[i] ELSE g[i - 1] \o ss[i]]
           c == CHOOSE g : F(g)
<1>1. PICK h \in [1 .. Len(ss) -> Seq(S)] : PrefixesTo(h, ss, Len(ss))
  BY PrefixesExist
<1>2. F(h)
  BY <1>1 DEF PrefixesTo
<1>3. F(c)
  <2> HIDE DEF F
  <2> QED BY <1>2
<1>4. PrefixesTo(c, ss, Len(ss))
  BY <1>3 DEF PrefixesTo
<1>5. Len(ss) \in Nat /\ Len(ss) # 0 /\ Len(ss) \in 1 .. Len(ss)
  BY EmptySeq
<1>6. FlattenSeq(ss) = c[Len(ss)]
  BY <1>5 DEF FlattenSeq
<1>7. c[Len(ss)] = f[Len(ss)]
  <2> HIDE DEF c
  <2> QED BY <1>4, <1>5, PrefixesUnique
<1> QED BY <1>6, <1>7

(* Flattening sequences over S gives a sequence over S.                    *)
LEMMA FlattenType ==
  ASSUME NEW S, NEW ss \in Seq(Seq(S))
  PROVE  FlattenSeq(ss) \in Seq(S)
<1>1. CASE ss = <<>>
  BY <1>1 DEF FlattenSeq
<1>2. CASE ss # <<>>
  <2>1. PICK f \in [1 .. Len(ss) -> Seq(S)] : PrefixesTo(f, ss, Len(ss))
    BY PrefixesExist
  <2>2. Len(ss) \in 1 .. Len(ss)
    BY <1>2, EmptySeq
  <2>3. FlattenSeq(ss) = f[Len(ss)]
    BY <1>2, <2>1, FlattenIsLast, Zenon
  <2> QED BY <2>1, <2>2, <2>3
<1> QED BY <1>1, <1>2

(* One more sequence at the end.                                           *)
LEMMA FlattenAppendLong ==
  ASSUME NEW S, NEW ss \in Seq(Seq(S)), NEW tt \in Seq(Seq(S)), NEW n \in Nat,
         Len(ss) = n, Len(tt) = n + 1, \A i \in 1 .. n : tt[i] = ss[i]
  PROVE  FlattenSeq(tt) = FlattenSeq(ss) \o tt[n + 1]
<1>1. tt # <<>> /\ n + 1 \in 1 .. n + 1
  BY EmptySeq
<1>2. PICK f \in [1 .. n + 1 -> Seq(S)] : PrefixesTo(f, tt, n + 1)
  <2>1. \E f \in [1 .. Len(tt) -> Seq(S)] : PrefixesTo(f, tt, Len(tt))
    BY PrefixesExist, Zenon
  <2> QED BY <2>1, Zenon
<1>3. FlattenSeq(tt) = f[n + 1]
  BY <1>1, <1>2, FlattenIsLast
<1>4. f[n + 1] = IF n = 0 THEN tt[n + 1] ELSE f[n] \o tt[n + 1]
  <2>1. PrefixesTo(f, tt, n + 1)
    BY <1>2
  <2> QED BY <2>1, PrefixLast, ZenonT(60)
<1>5. CASE n = 0
  <2>1. FlattenSeq(ss) = <<>>
    BY <1>5, EmptySeq DEF FlattenSeq
  <2>2. tt[n + 1] \in Seq(S)
    BY <1>1, ElementOfSeq
  <2>3. <<>> \o tt[n + 1] = tt[n + 1]
    BY <2>2, ConcatEmptySeq
  <2> QED BY <1>3, <1>4, <1>5, <2>1, <2>3
<1>6. CASE n # 0
  <2>1. ss # <<>>
    BY <1>6, EmptySeq
  <2>2. \A i \in 1 .. n : i \in 1 .. n + 1
    OBVIOUS
  <2>3. PrefixesTo(f, ss, n)
    BY <1>2, <2>2 DEF PrefixesTo
  <2>4. FlattenSeq(ss) = f[n]
    BY <2>1, <2>3, FlattenIsLast
  <2> QED BY <1>3, <1>4, <1>6, <2>4
<1> QED BY <1>5, <1>6

(* The same, for Append.                                                   *)
LEMMA FlattenAppend ==
  ASSUME NEW S, NEW ss \in Seq(Seq(S)), NEW s \in Seq(S)
  PROVE  FlattenSeq(Append(ss, s)) = FlattenSeq(ss) \o s
<1>1. PICK n \in Nat : n = Len(ss)
  OBVIOUS
<1>2. PICK tt : tt = Append(ss, s)
  OBVIOUS
<1>3. /\ tt \in Seq(Seq(S)) /\ Len(tt) = n + 1 /\ tt[n + 1] = s
      /\ \A i \in 1 .. n : tt[i] = ss[i]
  BY <1>1, <1>2, AppendProperties
<1>4. FlattenSeq(tt) = FlattenSeq(ss) \o tt[n + 1]
  BY <1>1, <1>3, FlattenAppendLong
<1> QED BY <1>2, <1>3, <1>4

(* One more sequence in front.                                             *)
Shifted(ss, tt, n) ==
  /\ Len(tt) = n /\ Len(ss) = n + 1
  /\ \A i \in 1 .. n : tt[i] = ss[i + 1]

(* tt is ss without its first sequence.                                    *)
LEMMA FlattenConsLong ==
  ASSUME NEW S, NEW ss \in Seq(Seq(S)), NEW tt \in Seq(Seq(S)), NEW n \in Nat,
         Shifted(ss, tt, n)
  PROVE  FlattenSeq(ss) = ss[1] \o FlattenSeq(tt)
<1>0. Len(tt) = n /\ Len(ss) = n + 1
  BY DEF Shifted
<1>1. ss # <<>> /\ n + 1 \in 1 .. n + 1 /\ 1 \in 1 .. n + 1
  BY <1>0, EmptySeq
<1>2. PICK f \in [1 .. n + 1 -> Seq(S)] : PrefixesTo(f, ss, n + 1)
  <2>1. \E f \in [1 .. Len(ss) -> Seq(S)] : PrefixesTo(f, ss, Len(ss))
    BY PrefixesExist, Zenon
  <2> QED BY <1>0, <2>1, Zenon
<1>3. FlattenSeq(ss) = f[n + 1]
  BY <1>0, <1>1, <1>2, FlattenIsLast
<1>4. f[1] = ss[1] /\ ss[1] \in Seq(S)
  BY <1>0, <1>1, <1>2, ElementOfSeq DEF PrefixesTo
<1>5. CASE n = 0
  <2>1. FlattenSeq(tt) = <<>>
    BY <1>0, <1>5, EmptySeq DEF FlattenSeq
  <2>2. ss[1] \o <<>> = ss[1]
    BY <1>4, ConcatEmptySeq
  <2>3. n + 1 = 1
    BY <1>5
  <2> QED BY <1>3, <1>4, <2>1, <2>2, <2>3
<1>6. CASE n # 0
  <2>1. tt # <<>> /\ n \in 1 .. n
    BY <1>0, <1>6, EmptySeq
  <2>2. PICK g \in [1 .. n -> Seq(S)] : PrefixesTo(g, tt, n)
    BY <1>0, PrefixesExist
  <2>3. FlattenSeq(tt) = g[n]
    BY <1>0, <2>1, <2>2, FlattenIsLast
  <2> DEFINE T == {m \in Nat : m \in 1 .. n => f[m + 1] = ss[1] \o g[m]}
  <2>4. 0 \in T
    OBVIOUS
  <2>5. ASSUME NEW m \in Nat, m \in T PROVE m + 1 \in T
    <3> SUFFICES ASSUME m + 1 \in 1 .. n PROVE f[m + 1 + 1] = ss[1] \o g[m + 1]
      BY m + 1 \in Nat, Zenon
    <3>1. m + 1 + 1 \in 1 .. n + 1 /\ m + 1 \in Nat /\ (m # 0 => m \in 1 .. n)
          /\ n + 1 \in Nat
      OBVIOUS
    <3>2. tt[m + 1] = ss[m + 1 + 1] /\ tt[m + 1] \in Seq(S)
      BY <1>0, ElementOfSeq DEF Shifted
    <3>3. f[m + 1 + 1] = f[m + 1] \o tt[m + 1]
      <4>1. f[m + 1 + 1] = IF m + 1 = 0 THEN ss[m + 1 + 1] ELSE f[m + 1] \o ss[m + 1 + 1]
        BY <1>2, <3>1, PrefixStep, ZenonT(60)
      <4>2. m + 1 # 0
        OBVIOUS
      <4> QED BY <3>2, <4>1, <4>2, Zenon
    <3>4. g[m + 1] = IF m = 0 THEN tt[m + 1] ELSE g[m] \o tt[m + 1]
      BY <2>2, PrefixStep, Zenon
    <3>5. m # 0 => f[m + 1] = ss[1] \o g[m]
      BY <2>5, <3>1
    <3>6. CASE m = 0
      <4>1. f[m + 1] = ss[1]
        BY <1>4, <3>6
      <4> QED BY <3>3, <3>4, <3>6, <4>1, Zenon
    <3>7. CASE m # 0
      <4>1. g[m] \in Seq(S)
        BY <2>2, <3>1, <3>7
      <4>2. ss[1] \in Seq(S) /\ tt[m + 1] \in Seq(S)
        BY <1>4, <3>2
      <4>3. g[m + 1] = g[m] \o tt[m + 1]
        BY <3>4, <3>7, Zenon
      <4>4. f[m + 1] = ss[1] \o g[m]
        BY <3>5, <3>7, Zenon
      <4>5. (ss[1] \o g[m]) \o tt[m + 1] = ss[1] \o (g[m] \o tt[m + 1])
        <5>1. \A x, a, b \in Seq(S) : (x \o a) \o b = x \o (a \o b)
          BY ConcatAssociates, SMTT(60)
        <5> QED BY <4>1, <4>2, <5>1, ZenonT(60)
      <4> QED BY <3>3, <4>3, <4>4, <4>5, Zenon
    <3> QED BY <3>6, <3>7
  <2>6. \A m \in Nat : m \in T
    <3> HIDE DEF T
    <3> QED BY <2>4, <2>5, SetInduction
  <2>7. f[n + 1] = ss[1] \o g[n]
    BY <2>1, <2>6
  <2> QED BY <1>3, <2>3, <2>7
<1> QED BY <1>5, <1>6

(* The same, for Head and Tail.                                            *)
LEMMA FlattenCons ==
  ASSUME NEW S, NEW ss \in Seq(Seq(S)), ss # <<>>
  PROVE  FlattenSeq(ss) = Head(ss) \o FlattenSeq(Tail(ss))
<1>1. PICK tt : tt = Tail(ss)
  OBVIOUS
<1>2. tt \in Seq(Seq(S)) /\ Len(ss) = Len(tt) + 1 /\ Len(tt) \in Nat /\ Head(ss) = ss[1]
      /\ \A i \in 1 .. Len(tt) : tt[i] = ss[i + 1]
  BY <1>1, HeadTailProperties, EmptySeq
<1> QED BY <1>1, <1>2, FlattenConsLong DEF Shifted

-----------------------------------------------------------------------------
(* What is not written yet of a frame of which n bytes are.                *)
Rest(f, n) == Bytes(f, n + 1, FrameLen[f])

(* Two sequences after each other, element by element.                     *)
LEMMA ConcatAt ==
  ASSUME NEW S, NEW a \in Seq(S), NEW b \in Seq(S), NEW n, NEW k, Len(a) = n, Len(b) = k
  PROVE  /\ a \o b \in Seq(S) /\ Len(a \o b) = n + k
         /\ \A i \in 1 .. n + k : (a \o b)[i] = IF i <= n THEN a[i] ELSE b[i - n]
BY ConcatProperties

(* The bytes of a frame from i to j, and how many they are.                *)
LEMMA BytesSeq ==
  ASSUME NEW f \in Frame, NEW i \in Nat, NEW j \in Nat, i <= j + 1
  PROVE  /\ Bytes(f, i, j) \in Seq(Frame \X Nat)
         /\ Len(Bytes(f, i, j)) = j - i + 1
<1> DEFINE n == j - i + 1
<1>1. n \in Nat
  OBVIOUS
<1>2. \A p \in 1 .. n : <<f, i + p - 1>> \in Frame \X Nat
  OBVIOUS
<1> QED BY <1>1, <1>2 DEF Bytes

(* The rest of a frame, and how long it is.                                *)
LEMMA RestType ==
  ASSUME NEW f \in Frame, NEW n \in Nat, n <= FrameLen[f]
  PROVE  /\ Rest(f, n) \in Seq(Frame \X Nat)
         /\ Len(Rest(f, n)) = FrameLen[f] - n
<1>1. FrameLen[f] \in Nat /\ n + 1 \in Nat /\ n + 1 <= FrameLen[f] + 1
      /\ FrameLen[f] - (n + 1) + 1 = FrameLen[f] - n
  BY LenNat
<1> QED BY <1>1, BytesSeq DEF Rest

(* Nothing is left of a frame that was written.                            *)
LEMMA RestNone ==
  ASSUME NEW f \in Frame
  PROVE  Rest(f, FrameLen[f]) = <<>>
<1>1. FrameLen[f] \in Nat /\ FrameLen[f] <= FrameLen[f] /\ FrameLen[f] - FrameLen[f] = 0
  BY LenNat
<1>2. Rest(f, FrameLen[f]) \in Seq(Frame \X Nat) /\ Len(Rest(f, FrameLen[f])) = 0
  BY <1>1, RestType
<1> QED BY <1>2, EmptySeq

(* A write takes the first bytes of the rest.                              *)
LEMMA RestSplit ==
  ASSUME NEW f \in Frame, NEW m \in Nat, NEW n \in Nat, m + n <= FrameLen[f]
  PROVE  Rest(f, m) = Bytes(f, m + 1, m + n) \o Rest(f, m + n)
<1> DEFINE a == Bytes(f, m + 1, m + n)
           b == Rest(f, m + n)
           c == Rest(f, m)
<1>1. PICK L \in Nat : L = FrameLen[f]
  BY LenNat
<1>2. m + 1 \in Nat /\ m + n \in Nat /\ m + 1 <= m + n + 1 /\ m + n - (m + 1) + 1 = n
      /\ m <= L
  BY <1>1
<1>3. a \in Seq(Frame \X Nat) /\ Len(a) = n
  <2>1. PICK i \in Nat, j \in Nat : i = m + 1 /\ j = m + n /\ i <= j + 1 /\ j - i + 1 = n
    BY <1>2
  <2>2. Bytes(f, i, j) \in Seq(Frame \X Nat) /\ Len(Bytes(f, i, j)) = j - i + 1
    BY <2>1, BytesSeq, Zenon
  <2> QED BY <2>1, <2>2, Zenon
<1>4. b \in Seq(Frame \X Nat) /\ Len(b) = L - (m + n)
  BY <1>1, <1>2, RestType
<1>5. c \in Seq(Frame \X Nat) /\ Len(c) = L - m
  BY <1>1, <1>2, RestType
<1>6. \A i \in 1 .. n : a[i] = <<f, m + i>>
  <2> SUFFICES ASSUME NEW i \in 1 .. n PROVE a[i] = <<f, m + i>>
    OBVIOUS
  <2>1. a[i] = <<f, m + 1 + i - 1>>
    BY <1>2 DEF Bytes
  <2> QED BY <2>1
<1>7. \A i \in 1 .. L - (m + n) : b[i] = <<f, m + n + i>>
  <2> SUFFICES ASSUME NEW i \in 1 .. L - (m + n) PROVE b[i] = <<f, m + n + i>>
    OBVIOUS
  <2>0. L - (m + n + 1) + 1 = L - (m + n)
    OBVIOUS
  <2>1. b[i] = <<f, m + n + 1 + i - 1>>
    BY <1>1, <2>0 DEF Bytes, Rest
  <2> QED BY <2>1
<1>8. \A i \in 1 .. L - m : c[i] = <<f, m + i>>
  <2> SUFFICES ASSUME NEW i \in 1 .. L - m PROVE c[i] = <<f, m + i>>
    OBVIOUS
  <2>0. L - (m + 1) + 1 = L - m
    OBVIOUS
  <2>1. c[i] = <<f, m + 1 + i - 1>>
    BY <1>1, <2>0 DEF Bytes, Rest
  <2> QED BY <2>1
<1> HIDE DEF a, b, c
<1>9. /\ a \o b \in Seq(Frame \X Nat) /\ Len(a \o b) = L - m
      /\ \A i \in 1 .. L - m : (a \o b)[i] = IF i <= n THEN a[i] ELSE b[i - n]
  <2>1. n + (L - (m + n)) = L - m
    OBVIOUS
  <2>2. PICK k \in Nat : k = L - (m + n)
    BY <1>1
  <2>3. /\ a \o b \in Seq(Frame \X Nat) /\ Len(a \o b) = n + k
        /\ \A i \in 1 .. n + k : (a \o b)[i] = IF i <= n THEN a[i] ELSE b[i - n]
    BY <1>3, <1>4, <2>2, ConcatAt
  <2> QED BY <2>1, <2>2, <2>3
<1>10. \A i \in 1 .. L - m : (a \o b)[i] = c[i]
  <2> SUFFICES ASSUME NEW i \in 1 .. L - m PROVE (a \o b)[i] = c[i]
    OBVIOUS
  <2>1. CASE i <= n
    <3>1. i \in 1 .. n
      BY <2>1
    <3> QED BY <1>6, <1>8, <1>9, <2>1, <3>1
  <2>2. CASE ~(i <= n)
    <3>1. i - n \in 1 .. L - (m + n) /\ m + n + (i - n) = m + i
      BY <1>1, <2>2
    <3>2. (a \o b)[i] = b[i - n]
      BY <1>9, <2>2
    <3>3. b[i - n] = <<f, m + n + (i - n)>>
      BY <1>7, <3>1
    <3> QED BY <1>8, <3>1, <3>2, <3>3
  <2> QED BY <2>1, <2>2
<1> QED BY <1>5, <1>9, <1>10, SeqEqual DEF a, b, c

-----------------------------------------------------------------------------
(* The pieces that Stream puts together.                                   *)
Pieces(fs) == [i \in DOMAIN fs |-> Bytes(fs[i], 1, FrameLen[fs[i]])]

(* One piece for each frame, all of its bytes.                             *)
LEMMA PiecesType ==
  ASSUME NEW fs \in Seq(Frame)
  PROVE  /\ Pieces(fs) \in Seq(Seq(Frame \X Nat)) /\ Len(Pieces(fs)) = Len(fs)
         /\ \A i \in 1 .. Len(fs) : Pieces(fs)[i] = Rest(fs[i], 0)
<1>1. PICK n \in Nat : n = Len(fs) /\ DOMAIN fs = 1 .. n
  OBVIOUS
<1>2. \A i \in 1 .. n : /\ Rest(fs[i], 0) \in Seq(Frame \X Nat)
                        /\ Bytes(fs[i], 1, FrameLen[fs[i]]) = Rest(fs[i], 0)
  <2> SUFFICES ASSUME NEW i \in 1 .. n
               PROVE  /\ Rest(fs[i], 0) \in Seq(Frame \X Nat)
                      /\ Bytes(fs[i], 1, FrameLen[fs[i]]) = Rest(fs[i], 0)
    OBVIOUS
  <2>1. fs[i] \in Frame
    BY <1>1, ElementOfSeq
  <2>2. FrameLen[fs[i]] \in Nat /\ 0 <= FrameLen[fs[i]] /\ 0 + 1 = 1
    BY <2>1, LenNat
  <2> QED BY <2>1, <2>2, RestType DEF Rest
<1>3. Pieces(fs) = [i \in 1 .. n |-> Rest(fs[i], 0)]
  BY <1>1, <1>2 DEF Pieces
<1> QED BY <1>1, <1>2, <1>3

(* The stream of a list of frames is a sequence of bytes.                  *)
LEMMA StreamType ==
  ASSUME NEW fs \in Seq(Frame)
  PROVE  Stream(fs) \in Seq(Frame \X Nat)
BY PiecesType, FlattenType DEF Stream, Pieces

(* An empty list has nothing to write.                                     *)
LEMMA StreamEmpty == Stream(<<>>) = <<>>
BY DEF Stream, FlattenSeq

(* One more frame in the list.                                             *)
LEMMA StreamAppend ==
  ASSUME NEW fs \in Seq(Frame), NEW f \in Frame
  PROVE  Stream(Append(fs, f)) = Stream(fs) \o Rest(f, 0)
<1>1. PICK n \in Nat : n = Len(fs)
  OBVIOUS
<1>2. PICK gs : gs = Append(fs, f)
  OBVIOUS
<1>3. /\ gs \in Seq(Frame) /\ Len(gs) = n + 1 /\ gs[n + 1] = f
      /\ \A i \in 1 .. n : gs[i] = fs[i]
  BY <1>1, <1>2, AppendProperties
<1>4. \A i \in 1 .. n : i \in 1 .. n + 1
  OBVIOUS
<1>5. n + 1 \in 1 .. n + 1
  OBVIOUS
<1>6. Pieces(gs)[n + 1] = Rest(f, 0)
  BY <1>3, <1>5, PiecesType
<1>7. \A i \in 1 .. n : Pieces(gs)[i] = Pieces(fs)[i]
  BY <1>1, <1>3, <1>4, PiecesType
<1>8. /\ Pieces(fs) \in Seq(Seq(Frame \X Nat)) /\ Len(Pieces(fs)) = n
      /\ Pieces(gs) \in Seq(Seq(Frame \X Nat)) /\ Len(Pieces(gs)) = n + 1
  BY <1>1, <1>3, PiecesType
<1>9. FlattenSeq(Pieces(gs)) = FlattenSeq(Pieces(fs)) \o Pieces(gs)[n + 1]
  BY <1>7, <1>8, FlattenAppendLong
<1> QED BY <1>2, <1>6, <1>9 DEF Stream, Pieces

(* The first frame of the list.                                            *)
LEMMA StreamFirst ==
  ASSUME NEW fs \in Seq(Frame), fs # <<>>
  PROVE  Stream(fs) = Rest(Head(fs), 0) \o Stream(Tail(fs))
<1>1. PICK gs : gs = Tail(fs)
  OBVIOUS
<1>2. PICK n \in Nat : n = Len(gs) /\ gs \in Seq(Frame) /\ Len(fs) = n + 1
                       /\ Head(fs) = fs[1] /\ \A i \in 1 .. n : gs[i] = fs[i + 1]
  BY <1>1, HeadTailProperties, EmptySeq
<1>3. \A i \in 1 .. n : i + 1 \in 1 .. n + 1
  OBVIOUS
<1>4. 1 \in 1 .. n + 1
  OBVIOUS
<1>5. Pieces(fs)[1] = Rest(Head(fs), 0)
  BY <1>2, <1>4, PiecesType
<1>6. \A i \in 1 .. n : Pieces(gs)[i] = Pieces(fs)[i + 1]
  <2> SUFFICES ASSUME NEW i \in 1 .. n PROVE Pieces(gs)[i] = Pieces(fs)[i + 1]
    OBVIOUS
  <2>1. Pieces(gs)[i] = Rest(gs[i], 0)
    BY <1>2, PiecesType
  <2>2. i + 1 \in 1 .. Len(fs)
    BY <1>2, <1>3
  <2>3. Pieces(fs)[i + 1] = Rest(fs[i + 1], 0)
    BY <2>2, PiecesType
  <2> QED BY <1>2, <2>1, <2>3
<1>7. /\ Pieces(fs) \in Seq(Seq(Frame \X Nat)) /\ Len(Pieces(fs)) = n + 1
      /\ Pieces(gs) \in Seq(Seq(Frame \X Nat)) /\ Len(Pieces(gs)) = n
  BY <1>2, PiecesType
<1>8. FlattenSeq(Pieces(fs)) = Pieces(fs)[1] \o FlattenSeq(Pieces(gs))
  BY <1>6, <1>7, FlattenConsLong DEF Shifted
<1> QED BY <1>1, <1>5, <1>8 DEF Stream, Pieces

-----------------------------------------------------------------------------
(* From the start of the list to the creation of the thread that writes it.*)
TellsOff == rx \in {"tellOff", "startLock", "wait", "setOff"}

(* Flow control is on, and no loaded copy of the flag byte says otherwise. *)
SurelyOff ==
  /\ flags.rx_fc_off
  /\ rx = "txStore" => rxbyte.rx_fc_off
  /\ \A t \in Threads : Holding(t) => thbyte[t].rx_fc_off

Starting(t) == th[t] \in {"start", "startStore"}

(* What the state of an open channel says about its list.                  *)
WaitInv ==
  opened =>
    /\ TellsOff \/ rx = "create" \/ (\E t \in Threads : Starting(t)) => rx_fl # <<>>
    /\ rx_fl # <<>> /\ ~TellsOff => SurelyOff
    /\ \A t \in Threads : th[t] = "popStore" => rx_fl = <<>>
    /\ rx \in {"write", "remain"} => rx_fl = <<>>

(* Initially the list is empty and nobody waits.                           *)
LEMMA WaitInit == Init => WaitInv
BY DEF Init, WaitInv, TellsOff, Starting

(* Every step of the assembler keeps WaitInv.                              *)
LEMMA WaitRx == IInv /\ WaitInv /\ (Rx \/ RxSpurious) => WaitInv'
<1> SUFFICES ASSUME IInv, WaitInv, Rx \/ RxSpurious, opened' PROVE WaitInv'
  BY DEF WaitInv
<1>0. opened
  BY DEF Rx, RxData, RxPass, RxCache, RxDrop, RxWriteAll, RxWritePart, RxRemain, RxWriteError,
         RxTellOff, RxWait, RxSpurious, RxSetOff, RxCreate, RxCreateFails, RxMsc,
         RxMscStore, RxClose
<1> USE <1>0 DEF WaitInv, TellsOff, SurelyOff, Starting, Holding, thVars, rxVars, listVars, LockFree
<1>1. CASE RxData  BY <1>1 DEF RxData
<1>2. CASE RxPass  BY <1>2 DEF RxPass
<1>3. CASE RxCache  BY <1>3 DEF RxCache
<1>4. CASE RxDrop  BY <1>4 DEF RxDrop
<1>5. CASE RxWriteAll  BY <1>5 DEF RxWriteAll
<1>6. CASE RxWritePart  BY <1>6 DEF RxWritePart
<1>7. CASE RxRemain
  <2>1. \A t \in Threads : ~Pushing(t)
    BY <1>7 DEF RxRemain, IInv, Direct, NobodyPushes
  <2>2. rx_fl' # <<>>
    BY <1>7 DEF RxRemain
  <2> QED BY <1>7, <2>1, <2>2 DEF RxRemain, Pushing
<1>8. CASE RxWriteError  BY <1>8 DEF RxWriteError
<1>9. CASE RxTellOff  BY <1>9 DEF RxTellOff
<1>10. CASE RxWait  BY <1>10 DEF RxWait
<1>11. CASE RxSpurious  BY <1>11 DEF RxSpurious
<1>12. CASE RxSetOff  BY <1>12 DEF RxSetOff, IInv, FlagTypes, Flags
<1>13. CASE RxCreate
  <2>1. PICK t \in Threads : th[t] = "none" /\ th' = [th EXCEPT ![t] = "start"]
    BY <1>13 DEF RxCreate
  <2>2. \A u \in Threads : /\ Holding(u)' => Holding(u)
                           /\ th'[u] = "popStore" => th[u] = "popStore"
    BY <2>1 DEF IInv, FlagTypes
  <2> QED BY <1>13, <2>2 DEF RxCreate
<1>14. CASE RxCreateFails  BY <1>14 DEF RxCreateFails
<1>15. CASE RxMsc  BY <1>15 DEF RxMsc
<1>16. CASE RxMscStore  BY <1>16 DEF RxMscStore, IInv, FlagTypes, Flags
<1>17. CASE RxClose  BY <1>17 DEF RxClose
<1> QED BY <1>1, <1>2, <1>3, <1>4, <1>5, <1>6, <1>7, <1>8, <1>9, <1>10, <1>11, <1>12,
           <1>13, <1>14, <1>15, <1>16, <1>17 DEF Rx

(* A thread that leaves the list alone and stores no flag byte.            *)
LEMMA WaitMove ==
  ASSUME IInv, WaitInv, NEW t \in Threads, NEW where \in ThStates,
         th' = [th EXCEPT ![t] = where],
         UNCHANGED <<flags, rx_fl, rxbyte, thbyte, opened>>,
         rx' = rx \/ (rx = "wait" /\ rx' = "setOff"),
         where \in {"none", "write", "pop", "clear"}
  PROVE  WaitInv'
<1>1. \A u \in Threads : /\ Holding(u)' => Holding(u)
                         /\ Starting(u)' => Starting(u)
                         /\ th'[u] = "popStore" => th[u] = "popStore"
  BY DEF IInv, FlagTypes, Holding, Starting
<1> QED BY <1>1 DEF WaitInv, TellsOff, SurelyOff

(* The load of the flag byte keeps WaitInv.                                *)
LEMMA WaitLoad ==
  ASSUME IInv, WaitInv, NEW t \in Threads, NEW from, NEW where \in ThStates,
         ThLoad(t, from, where),
         where = "startStore" => from = "start",
         where \in {"popStore", "start"} => rx_fl = <<>> /\ where # "start"
  PROVE  WaitInv'
<1>1. /\ th[t] = from /\ th' = [th EXCEPT ![t] = where]
      /\ thbyte' = [thbyte EXCEPT ![t] = flags]
      /\ UNCHANGED <<flags, rxbyte, opened, rx, rx_fl>>
      /\ \A u \in Threads : ~Holding(u)
  BY DEF ThLoad, ThGoto, rxVars, LockFree, listVars
<1>2. \A u \in Threads : /\ Holding(u)' => u = t
                         /\ Starting(u)' => Starting(u)
                         /\ th'[u] = "popStore" => th[u] = "popStore" \/ rx_fl = <<>>
  BY <1>1 DEF IInv, FlagTypes, Holding, Starting
<1>3. thbyte'[t] = flags
  BY <1>1 DEF IInv, FlagTypes
<1> QED BY <1>1, <1>2, <1>3 DEF WaitInv, TellsOff, SurelyOff

(* Every step of a retry thread keeps WaitInv.                             *)
LEMMA WaitTh == IInv /\ WaitInv /\ (\E t \in Threads : Th(t)) => WaitInv'
<1> SUFFICES ASSUME IInv, WaitInv, NEW t \in Threads, Th(t) PROVE WaitInv'
  OBVIOUS
<1> USE DEF ThGoto, rxVars, thVars, listVars, ThStates
<1>1. CASE ThStart(t)  BY <1>1, WaitLoad DEF ThStart
<1>2. CASE ThFirst(t)
  <2>1. th[t] = "startStore" /\ UNCHANGED <<rxbyte, opened, rx>>
        /\ flags' = [thbyte[t] EXCEPT !.rx_thread = TRUE]
        /\ thbyte' = [thbyte EXCEPT ![t] = NoFlags]
    BY <1>2 DEF ThFirst
  <2>2. PICK where \in {"crashed", "write"} : th' = [th EXCEPT ![t] = where]
    BY <1>2 DEF ThFirst
  <2>3. Holding(t) /\ Pushing(t)
    BY <2>1 DEF Holding, Pushing
  <2>4. opened => /\ thbyte[t].rx_fc_off /\ ~Direct
                  /\ \A u \in Threads : ~Starting(u)' /\ ~Holding(u)' /\ th'[u] # "popStore"
    BY <2>1, <2>2, <2>3 DEF IInv, FlagTypes, OneHolder, OnePusher, OffWhilePushing, NobodyPushes,
       Starting, Holding, Pushing
  <2>5. flags'.rx_fc_off = thbyte[t].rx_fc_off
    BY <2>1 DEF IInv, FlagTypes, Flags
  <2>6. rx' = "txStore" /\ opened => rxbyte'.rx_fc_off
    BY <2>1, <2>3 DEF IInv, OffWhilePushing
  <2> QED BY <2>1, <2>4, <2>5, <2>6 DEF WaitInv, TellsOff, SurelyOff, Direct
<1>3. CASE ThWrite(t)
  <2>1. th[t] = "write" /\ UNCHANGED <<flags, rx_fl, rxbyte, thbyte, opened, rx>>
    BY <1>3 DEF ThWrite
  <2>2. th' = [th EXCEPT ![t] = "write"] \/ th' = [th EXCEPT ![t] = "pop"]
    BY <1>3, <2>1 DEF ThWrite, IInv, FlagTypes
  <2> QED BY <2>1, <2>2, WaitMove
<1>4. CASE ThWriteError(t)
  BY <1>4 DEF ThWriteError, WaitInv, TellsOff, SurelyOff, Starting, Holding
<1>5. CASE ThNext(t)
  <2>1. th[t] = "pop" /\ UNCHANGED <<flags, rxbyte, thbyte, opened, rx>>
        /\ th' = [th EXCEPT ![t] = "write"]
    BY <1>5 DEF ThNext
  <2>2. Pushing(t)
    BY <2>1 DEF Pushing
  <2>3. opened => SurelyOff /\ ~Direct
    BY <2>2 DEF IInv, OffWhilePushing, SurelyOff, NobodyPushes
  <2>4. \A u \in Threads : (Holding(u)' => Holding(u)) /\ (Pushing(u) => u = t)
                           /\ ~Starting(u)' /\ th'[u] # "popStore"
    BY <2>1, <2>2 DEF IInv, FlagTypes, OnePusher, Holding, Starting, Pushing
  <2> QED BY <2>1, <2>3, <2>4 DEF WaitInv, TellsOff, SurelyOff, Direct
<1>6. CASE ThEmpty(t)  BY <1>6, WaitLoad DEF ThEmpty
<1>7. CASE ThEmptyStore(t)
  <2>1. th[t] = "popStore" /\ th' = [th EXCEPT ![t] = "tellOn"]
        /\ UNCHANGED <<rxbyte, opened, rx, rx_fl>>
    BY <1>7 DEF ThEmptyStore
  <2>2. Pushing(t)
    BY <2>1 DEF Pushing
  <2>3. \A u \in Threads : ~Starting(u)' /\ th'[u] # "popStore"
    BY <2>1, <2>2 DEF IInv, FlagTypes, OnePusher, Starting, Pushing
  <2>4. opened => rx_fl = <<>> /\ ~Direct
    BY <2>1, <2>2 DEF WaitInv, IInv, NobodyPushes
  <2> QED BY <2>1, <2>3, <2>4 DEF WaitInv, TellsOff, Direct
<1>8. CASE ThTellOn(t)  BY <1>8, WaitMove DEF ThTellOn
<1>9. CASE ThClear(t)  BY <1>9, WaitLoad DEF ThClear
<1>10. CASE ThClearStore(t)
  <2>1. th[t] = "clearStore" /\ th' = [th EXCEPT ![t] = "signal"]
        /\ flags' = [thbyte[t] EXCEPT !.rx_thread = FALSE]
        /\ thbyte' = [thbyte EXCEPT ![t] = NoFlags]
        /\ UNCHANGED <<rxbyte, opened, rx, rx_fl>>
    BY <1>10 DEF ThClearStore
  <2>2. \A u \in Threads : /\ ~Holding(u)' /\ (Starting(u)' => Starting(u))
                           /\ th'[u] = "popStore" => th[u] = "popStore"
    BY <2>1 DEF IInv, FlagTypes, OneHolder, Holding, Starting
  <2>3. Holding(t) /\ flags'.rx_fc_off = thbyte[t].rx_fc_off
    BY <2>1 DEF IInv, FlagTypes, Flags, Holding
  <2> QED BY <2>1, <2>2, <2>3 DEF WaitInv, TellsOff, SurelyOff
<1>11. CASE ThSignal(t)  BY <1>11, WaitMove DEF ThSignal
<1> QED BY <1>1, <1>2, <1>3, <1>4, <1>5, <1>6, <1>7, <1>8, <1>9, <1>10, <1>11 DEF Th

(* Every step keeps WaitInv.                                               *)
LEMMA WaitNext == IInv /\ WaitInv /\ [Next]_vars => WaitInv'
<1> SUFFICES ASSUME IInv, WaitInv, [Next]_vars PROVE WaitInv'
  OBVIOUS
<1>1. CASE Rx \/ RxSpurious
  BY <1>1, WaitRx
<1>2. CASE \E t \in Threads : Th(t)
  BY <1>2, WaitTh
<1>3. CASE Pty \/ UNCHANGED vars
  BY <1>3, CoreSame DEF coreVars, rxVars, thVars, listVars, WaitInv, TellsOff, SurelyOff,
     Starting, Holding
<1> QED BY <1>1, <1>2, <1>3 DEF Next

-----------------------------------------------------------------------------
(* A retry thread that has taken its first frame and keeps the list.       *)
Busy(t) == th[t] \in {"write", "pop", "popStore"}

(* The counters of the list. rx_fl_total never counts less than the list   *)
(* holds, and more than one frame got into the list below the watermark.   *)
CountInv ==
  /\ rx_fl = <<>> => rx_fl_written = 0
  /\ rx_fl # <<>> => rx_fl_written < FrameLen[Head(rx_fl)]
  /\ ~opened \/ (\E t \in Threads : Busy(t)) => rx_fl_written = 0
  /\ Len(Stream(rx_fl)) <= rx_fl_total + rx_fl_written
  /\ Len(rx_fl) > 1 => rx_fl_total <= High

(* Initially nothing is counted.                                           *)
LEMMA CountInit == Init => CountInv
<1>1. Len(<<>>) = 0
  OBVIOUS
<1> QED BY <1>1, StreamEmpty DEF Init, CountInv, Busy

(* The length of the stream of a list.                                     *)
LEMMA StreamLen ==
  ASSUME NEW fs \in Seq(Frame)
  PROVE  /\ Len(Stream(fs)) \in Nat
         /\ \A f \in Frame : Len(Stream(Append(fs, f))) = Len(Stream(fs)) + FrameLen[f]
         /\ fs # <<>> => Len(Stream(fs)) = FrameLen[Head(fs)] + Len(Stream(Tail(fs)))
<1>1. Stream(fs) \in Seq(Frame \X Nat) /\ Len(Stream(fs)) \in Nat
  BY StreamType
<1>2. ASSUME NEW f \in Frame
      PROVE  Len(Stream(Append(fs, f))) = Len(Stream(fs)) + FrameLen[f]
  <2>1. 0 <= FrameLen[f] /\ FrameLen[f] - 0 = FrameLen[f]
    BY LenNat
  <2>2. Rest(f, 0) \in Seq(Frame \X Nat) /\ Len(Rest(f, 0)) = FrameLen[f]
    BY <2>1, RestType
  <2>3. Stream(Append(fs, f)) = Stream(fs) \o Rest(f, 0)
    BY StreamAppend
  <2> QED BY <1>1, <2>2, <2>3, ConcatAt
<1>3. ASSUME fs # <<>>
      PROVE  Len(Stream(fs)) = FrameLen[Head(fs)] + Len(Stream(Tail(fs)))
  <2>1. PICK f \in Frame : f = Head(fs)
    BY <1>3, HeadTailProperties
  <2>2. PICK gs \in Seq(Frame) : gs = Tail(fs)
    BY <1>3, HeadTailProperties
  <2>3. 0 <= FrameLen[f] /\ FrameLen[f] - 0 = FrameLen[f]
    BY LenNat
  <2>4. Rest(f, 0) \in Seq(Frame \X Nat) /\ Len(Rest(f, 0)) = FrameLen[f]
    BY <2>3, RestType
  <2>5. Stream(gs) \in Seq(Frame \X Nat)
    BY StreamType
  <2>6. Stream(fs) = Rest(f, 0) \o Stream(gs)
    BY <1>3, <2>1, <2>2, StreamFirst
  <2>7. Len(Rest(f, 0) \o Stream(gs)) = FrameLen[f] + Len(Stream(gs))
    BY <2>4, <2>5, ConcatAt, SMTT(60)
  <2> QED BY <2>1, <2>2, <2>6, <2>7
<1> QED BY <1>1, <1>2, <1>3

(* Steps that leave the list and its counters alone, and make no thread    *)
(* busy.                                                                   *)
LEMMA CountSame ==
  ASSUME CountInv, UNCHANGED listVars,
         ~opened' => ~opened,
         \A t \in Threads : Busy(t)' => Busy(t)
  PROVE  CountInv'
BY DEF CountInv, listVars

(* A thread that goes on without touching the list.                        *)
LEMMA CountMove ==
  ASSUME CountInv, UNCHANGED <<listVars, opened>>, th \in [Threads -> ThStates],
         NEW t \in Threads, NEW where, th' = [th EXCEPT ![t] = where],
         where \notin {"write", "pop"},
         where = "popStore" => th[t] = "pop"
  PROVE  CountInv'
<1>1. \A u \in Threads : Busy(u)' => Busy(u)
  BY DEF Busy
<1> QED BY <1>1, CountSame

(* An empty list.                                                          *)
LEMMA CountEmpty ==
  ASSUME rx_fl' = <<>>, rx_fl_written' = 0, rx_fl_total' \in Nat
  PROVE  CountInv'
<1>1. Len(<<>>) = 0 /\ Stream(<<>>) = <<>>
  BY StreamEmpty
<1> QED BY <1>1 DEF CountInv

(* Every step of the assembler keeps CountInv.                             *)
LEMMA CountRx == IInv /\ FlowTypeInv /\ WaitInv /\ CountInv /\ (Rx \/ RxSpurious) => CountInv'
<1> SUFFICES ASSUME IInv, FlowTypeInv, WaitInv, CountInv, Rx \/ RxSpurious PROVE CountInv'
  OBVIOUS
<1> USE DEF thVars, rxVars
<1>1. CASE RxCache
  <2>1. /\ rx_fl \in Seq(Frame) /\ cur \in Frame /\ rx_fl' = Append(rx_fl, cur)
        /\ rx_fl_total' = rx_fl_total + FrameLen[cur] /\ rx_fl_total' <= High
        /\ UNCHANGED <<rx_fl_written, th, opened>>
        /\ rx_fl_total \in Nat /\ rx_fl_written \in Nat
    BY <1>1 DEF RxCache, FlowTypeInv, TypeOK
  <2>2. Len(Stream(rx_fl')) = Len(Stream(rx_fl)) + FrameLen[cur]
        /\ Len(Stream(rx_fl)) \in Nat /\ FrameLen[cur] \in Nat \ {0}
    BY <2>1, StreamLen, LenNat
  <2>3. rx_fl' # <<>> /\ Head(rx_fl') = IF rx_fl = <<>> THEN cur ELSE Head(rx_fl)
    BY <2>1, HeadTailAppend
  <2>4. Len(Stream(rx_fl')) <= rx_fl_total' + rx_fl_written'
    BY <2>1, <2>2 DEF CountInv
  <2>5. rx_fl_written' < FrameLen[Head(rx_fl')]
    BY <2>1, <2>2, <2>3 DEF CountInv
  <2> QED BY <2>1, <2>3, <2>4, <2>5 DEF CountInv, Busy
<1>2. CASE RxRemain
  <2>1. /\ cur \in Frame /\ written \in Nat /\ written < FrameLen[cur]
        /\ rx_fl' = <<cur>> /\ rx_fl_total' = FrameLen[cur] - written
        /\ rx_fl_written' = written /\ UNCHANGED <<th, opened>> /\ rx = "remain"
    BY <1>2 DEF RxRemain, FlowTypeInv, TypeOK
  <2>2. opened /\ \A t \in Threads : ~Busy(t)
    BY <2>1 DEF IInv, ClosedRx, Direct, NobodyPushes, Pushing, Busy
  <2>3. <<cur>> = Append(<<>>, cur) /\ <<>> \in Seq(Frame) /\ Len(<<>>) = 0
        /\ <<cur>> # <<>> /\ Head(<<cur>>) = cur /\ Len(<<cur>>) = 1
    OBVIOUS
  <2>4. Len(Stream(<<cur>>)) = 0 + FrameLen[cur]
    BY <2>1, <2>3, StreamLen, StreamEmpty
  <2>5. FrameLen[cur] \in Nat
    BY <2>1, LenNat
  <2>6. Len(Stream(rx_fl')) <= rx_fl_total' + rx_fl_written'
    BY <2>1, <2>4, <2>5
  <2>7. ~(Len(rx_fl') > 1)
    BY <2>1, <2>3
  <2> QED BY <2>1, <2>2, <2>3, <2>6, <2>7 DEF CountInv, Busy
<1>3. CASE RxClose  BY <1>3, CountEmpty DEF RxClose
<1>4. CASE RxCreate
  <2>1. \A t \in Threads : Busy(t)' => Busy(t)
    BY <1>4 DEF RxCreate, IInv, FlagTypes, Busy
  <2> QED BY <1>4, <2>1, CountSame DEF RxCreate
<1>5. CASE RxData  BY <1>5, CountSame DEF RxData, Busy
<1>6. CASE RxPass  BY <1>6, CountSame DEF RxPass, Busy
<1>7. CASE RxDrop  BY <1>7, CountSame DEF RxDrop, Busy
<1>8. CASE RxWriteAll  BY <1>8, CountSame DEF RxWriteAll, Busy
<1>9. CASE RxWritePart  BY <1>9, CountSame DEF RxWritePart, Busy
<1>10. CASE RxWriteError  BY <1>10, CountSame DEF RxWriteError, Busy
<1>11. CASE RxTellOff  BY <1>11, CountSame DEF RxTellOff, Busy
<1>12. CASE RxWait  BY <1>12, CountSame DEF RxWait, Busy
<1>13. CASE RxSpurious  BY <1>13, CountSame DEF RxSpurious, Busy
<1>14. CASE RxSetOff  BY <1>14, CountSame DEF RxSetOff, Busy
<1>15. CASE RxCreateFails  BY <1>15, CountSame DEF RxCreateFails, Busy
<1>16. CASE RxMsc  BY <1>16, CountSame DEF RxMsc, Busy
<1>17. CASE RxMscStore  BY <1>17, CountSame DEF RxMscStore, Busy
<1> QED BY <1>1, <1>2, <1>3, <1>4, <1>5, <1>6, <1>7, <1>8, <1>9, <1>10, <1>11, <1>12,
           <1>13, <1>14, <1>15, <1>16, <1>17 DEF Rx

(* A thread takes the first frame of the list: what is left is shorter.    *)
LEMMA CountTake ==
  ASSUME FlowTypeInv, CountInv, rx_fl # <<>>, rx_fl' = Tail(rx_fl),
         rx_fl_written' = 0, rx_fl_total' = rx_fl_total
  PROVE  CountInv'
<1>1. /\ rx_fl \in Seq(Frame) /\ Head(rx_fl) \in Frame /\ Tail(rx_fl) \in Seq(Frame)
      /\ rx_fl_total \in Nat /\ rx_fl_written \in Nat
  BY ListType DEF FlowTypeInv, TypeOK
<1>2. Len(Stream(rx_fl)) = FrameLen[Head(rx_fl)] + Len(Stream(Tail(rx_fl)))
      /\ Len(Stream(Tail(rx_fl))) \in Nat
  BY <1>1, StreamLen
<1>3. FrameLen[Head(rx_fl)] \in Nat
  BY <1>1, LenNat
<1>4. Len(Stream(rx_fl')) <= rx_fl_total' + rx_fl_written'
  BY <1>1, <1>2, <1>3 DEF CountInv
<1>5. Len(rx_fl') > 1 => Len(rx_fl) > 1
  BY <1>1
<1>6. rx_fl' # <<>> => 0 < FrameLen[Head(rx_fl')]
  <2>1. rx_fl' # <<>> => Head(rx_fl') \in Frame
    BY <1>1
  <2> QED BY <2>1, LenNat
<1> QED BY <1>4, <1>5, <1>6 DEF CountInv

(* Every step of a retry thread keeps CountInv.                            *)
LEMMA CountTh ==
  IInv /\ FlowTypeInv /\ WaitInv /\ CountInv /\ (\E t \in Threads : Th(t)) => CountInv'
<1> SUFFICES ASSUME IInv, FlowTypeInv, WaitInv, CountInv, NEW t \in Threads, Th(t)
             PROVE  CountInv'
  OBVIOUS
<1> USE DEF thVars, rxVars, ThGoto
<1>0. th \in [Threads -> ThStates]
  BY DEF IInv, FlagTypes
<1>1. CASE ThFirst(t)
  <2>1. CASE rx_fl = <<>>
    BY <1>1, <2>1, CountEmpty DEF ThFirst, FlowTypeInv, TypeOK
  <2>2. CASE rx_fl # <<>>
    BY <1>1, <2>2, CountTake DEF ThFirst
  <2> QED BY <2>1, <2>2
<1>2. CASE ThNext(t)
  <2>1. Busy(t)
    BY <1>2 DEF ThNext, Busy
  <2>2. rx_fl_written' = 0
    BY <1>2, <2>1 DEF ThNext, CountInv
  <2> QED BY <1>2, <2>2, CountTake DEF ThNext
<1>3. CASE ThWrite(t)
  <2>1. \A u \in Threads : Busy(u)' => Busy(u)
    <3>1. th' = th \/ th' = [th EXCEPT ![t] = "pop"]
      BY <1>3 DEF ThWrite
    <3> QED BY <1>0, <1>3, <3>1 DEF Busy, ThWrite
  <2> QED BY <1>3, <2>1, CountSame DEF ThWrite
<1>4. CASE ThWriteError(t)  BY <1>4, CountSame DEF ThWriteError, Busy
<1>6. CASE ThStart(t)  BY <1>0, <1>6, CountMove DEF ThStart, ThLoad
<1>7. CASE ThEmpty(t)
  <2>1. /\ th[t] = "pop" /\ th' = [th EXCEPT ![t] = "popStore"]
        /\ UNCHANGED listVars /\ opened' = opened
    BY <1>7 DEF ThEmpty, ThLoad
  <2>2. \A u \in Threads : Busy(u)' => Busy(u)
    BY <1>0, <2>1 DEF Busy
  <2> QED BY <2>1, <2>2, CountSame
<1>8. CASE ThEmptyStore(t)  BY <1>0, <1>8, CountMove DEF ThEmptyStore
<1>9. CASE ThTellOn(t)  BY <1>0, <1>9, CountMove DEF ThTellOn
<1>10. CASE ThClear(t)  BY <1>0, <1>10, CountMove DEF ThClear, ThLoad
<1>11. CASE ThClearStore(t)  BY <1>0, <1>11, CountMove DEF ThClearStore
<1>12. CASE ThSignal(t)  BY <1>0, <1>12, CountMove DEF ThSignal
<1> QED BY <1>1, <1>2, <1>3, <1>4, <1>6, <1>7, <1>8, <1>9, <1>10, <1>11, <1>12 DEF Th

-----------------------------------------------------------------------------
(* What is left to write of the list, when no thread has taken from it.    *)
ListRest ==
  IF rx_fl = <<>> THEN <<>>
  ELSE Rest(Head(rx_fl), rx_fl_written) \o Stream(Tail(rx_fl))

(* On an open channel what was accepted is what was written, followed by   *)
(* what the writer of the moment has in hand, followed by the list.        *)
StreamOpen ==
  /\ rx = "write" => Stream(accepted) = out \o Rest(cur, 0)
  /\ rx = "remain" => Stream(accepted) = out \o Rest(cur, written)
  /\ rx \notin {"write", "remain"} /\ (\A t \in Threads : ~Busy(t)) =>
       Stream(accepted) = out \o ListRest
  /\ \A t \in Threads :
       /\ th[t] = "write" =>
            /\ Stream(accepted) = out \o (Rest(thframe[t], thwritten[t]) \o Stream(rx_fl))
            /\ thwritten[t] < FrameLen[thframe[t]]
       /\ th[t] \in {"pop", "popStore"} => Stream(accepted) = out \o Stream(rx_fl)
       /\ th[t] = "pop" => thwritten[t] = 0

(* Once it is closed nothing is written any more, and frames may still be  *)
(* accepted by an assembler that finds them uncached.                      *)
StreamInv == IF opened THEN StreamOpen ELSE PtyInOrder

Octet == Frame \X Nat

-----------------------------------------------------------------------------
(* Sequences after each other.                                             *)
LEMMA ConcatFirst ==
  ASSUME NEW S, NEW o \in Seq(S), NEW x \in Seq(S), NEW y \in Seq(S),
         NEW a, NEW r, r = x \o y, a = o \o r
  PROVE  a = (o \o x) \o y
BY SMT

(* What is appended joins the second of two parts.                         *)
LEMMA ConcatLast ==
  ASSUME NEW S, NEW o \in Seq(S), NEW x \in Seq(S), NEW y \in Seq(S), NEW a, a = o \o x
  PROVE  a \o y = o \o (x \o y)
BY SMT

(* The first of two parts moves in front, a third follows.                 *)
LEMMA ConcatMiddle ==
  ASSUME NEW S, NEW o \in Seq(S), NEW x \in Seq(S), NEW y \in Seq(S), NEW z \in Seq(S),
         NEW a, NEW r, r = x \o y, a = o \o (r \o z)
  PROVE  a = (o \o x) \o (y \o z)
<1>0. \A u, v, w \in Seq(S) : (u \o v) \o w = u \o (v \o w)
  BY ConcatAssociates, SMTT(60)
<1>1. y \o z \in Seq(S)
  BY ConcatProperties
<1>2. r \o z = x \o (y \o z)
  BY <1>0, Zenon
<1>3. (o \o x) \o (y \o z) = o \o (x \o (y \o z))
  BY <1>0, <1>1, Zenon
<1> QED BY <1>2, <1>3, Zenon

(* Nothing in front or behind.                                             *)
LEMMA ConcatNone ==
  ASSUME NEW S, NEW o \in Seq(S)
  PROVE  o \o <<>> = o /\ <<>> \o o = o
BY SMT

(* A first part is a prefix of the whole.                                  *)
LEMMA ConcatPrefix ==
  ASSUME NEW S, NEW o \in Seq(S), NEW x \in Seq(S), NEW a, a = o \o x
  PROVE  Len(o) <= Len(a) /\ \A i \in DOMAIN o : o[i] = a[i]
BY SMT

(* A prefix stays one when the whole grows.                                *)
LEMMA PrefixGrows ==
  ASSUME NEW S, NEW o \in Seq(S), NEW a \in Seq(S), NEW x \in Seq(S),
         Len(o) <= Len(a), \A i \in DOMAIN o : o[i] = a[i]
  PROVE  Len(o) <= Len(a \o x) /\ \A i \in DOMAIN o : o[i] = (a \o x)[i]
BY SMT

-----------------------------------------------------------------------------
(* Initially nothing is accepted and nothing is written.                   *)
LEMMA StreamInit == Init => StreamInv
<1> SUFFICES ASSUME Init PROVE StreamInv
  OBVIOUS
<1>1. opened /\ rx = "idle" /\ accepted = <<>> /\ out = <<>> /\ rx_fl = <<>>
      /\ th = [t \in Threads |-> "none"]
  BY DEF Init
<1>2. <<>> \o <<>> = <<>>
  OBVIOUS
<1> QED BY <1>1, <1>2, StreamEmpty DEF StreamInv, StreamOpen, ListRest, Busy

(* Steps that do not touch what StreamInv speaks about.                    *)
LEMMA StreamSame ==
  ASSUME StreamInv,
         UNCHANGED <<accepted, out, rx_fl, rx_fl_written, opened, thframe, thwritten>>,
         {rx, rx'} \cap {"write", "remain"} = {} \/ UNCHANGED <<rx, cur, written>>,
         \A t \in Threads : Busy(t) \/ Busy(t)' => th'[t] = th[t]
  PROVE  StreamInv'
<1>1. CASE ~opened
  BY <1>1 DEF StreamInv, PtyInOrder
<1>2. CASE opened
  <2>1. \A t \in Threads : (Busy(t)' <=> Busy(t)) /\ (Busy(t) => th'[t] = th[t])
    BY DEF Busy
  <2>2. Stream(accepted)' = Stream(accepted) /\ Stream(rx_fl)' = Stream(rx_fl)
        /\ ListRest' = ListRest
    BY DEF ListRest
  <2>3. \A t \in Threads :
           /\ th'[t] = "write" => th[t] = "write"
           /\ th'[t] = "pop" => th[t] = "pop"
           /\ th'[t] = "popStore" => th[t] = "popStore"
    BY <2>1 DEF Busy
  <2> QED BY <1>2, <2>1, <2>2, <2>3 DEF StreamInv, StreamOpen
<1> QED BY <1>1, <1>2

(* The types of the parts.                                                 *)
LEMMA PartTypes ==
  ASSUME FlowTypeInv
  PROVE  /\ out \in Seq(Octet) /\ accepted \in Seq(Frame) /\ rx_fl \in Seq(Frame)
         /\ Stream(accepted) \in Seq(Octet) /\ Stream(rx_fl) \in Seq(Octet)
         /\ CountInv => ListRest \in Seq(Octet)
<1>1. /\ out \in Seq(Octet) /\ accepted \in Seq(Frame) /\ rx_fl \in Seq(Frame)
      /\ Stream(accepted) \in Seq(Octet) /\ Stream(rx_fl) \in Seq(Octet)
      /\ rx_fl_written \in Nat
  BY StreamType DEF FlowTypeInv, TypeOK, Octet
<1>2. ASSUME CountInv PROVE ListRest \in Seq(Octet)
  <2>1. CASE rx_fl = <<>>
    BY <2>1 DEF ListRest
  <2>2. CASE rx_fl # <<>>
    <3>1. PICK f \in Frame : f = Head(rx_fl)
      BY <1>1, <2>2, HeadTailProperties
    <3>2. PICK gs \in Seq(Frame) : gs = Tail(rx_fl)
      BY <1>1, <2>2, HeadTailProperties
    <3>3. rx_fl_written <= FrameLen[f]
      BY <1>1, <1>2, <2>2, <3>1, LenNat DEF CountInv
    <3>4. Rest(f, rx_fl_written) \in Seq(Octet)
      BY <1>1, <3>3, RestType DEF Octet
    <3>5. Stream(gs) \in Seq(Octet)
      BY StreamType DEF Octet
    <3>6. Rest(f, rx_fl_written) \o Stream(gs) \in Seq(Octet)
      BY <3>4, <3>5, ConcatProperties
    <3> QED BY <2>2, <3>1, <3>2, <3>6 DEF ListRest
  <2> QED BY <2>1, <2>2
<1> QED BY <1>1, <1>2

(* What was written is the beginning of what was accepted.                 *)
LEMMA StreamPrefix == FlowTypeInv /\ IInv /\ CountInv /\ StreamInv => PtyInOrder
<1> SUFFICES ASSUME FlowTypeInv, IInv, CountInv, StreamInv PROVE PtyInOrder
  OBVIOUS
<1>1. CASE ~opened
  BY <1>1 DEF StreamInv
<1>2. CASE opened
  <2>0. StreamOpen
    BY <1>2 DEF StreamInv
  <2>1. \E x \in Seq(Octet) : Stream(accepted) = out \o x
    <3>1. CASE rx = "write"
      <4>1. cur \in Frame /\ 0 <= FrameLen[cur]
        BY <3>1, LenNat DEF FlowTypeInv
      <4>2. Rest(cur, 0) \in Seq(Octet)
        BY <4>1, RestType DEF Octet
      <4> QED BY <2>0, <3>1, <4>2 DEF StreamOpen
    <3>2. CASE rx = "remain"
      <4>1. cur \in Frame /\ written \in Nat /\ written <= FrameLen[cur]
        BY <3>2, LenNat DEF FlowTypeInv, TypeOK
      <4>2. Rest(cur, written) \in Seq(Octet)
        BY <4>1, RestType DEF Octet
      <4> QED BY <2>0, <3>2, <4>2 DEF StreamOpen
    <3>3. CASE rx \notin {"write", "remain"} /\ \A t \in Threads : ~Busy(t)
      BY <2>0, <3>3, PartTypes DEF StreamOpen
    <3>4. ASSUME NEW t \in Threads, th[t] = "write"
          PROVE  \E x \in Seq(Octet) : Stream(accepted) = out \o x
      <4>0. PICK f \in Frame, w \in Nat : f = thframe[t] /\ w = thwritten[t]
        BY <3>4 DEF FlowTypeInv, TypeOK
      <4>1. w <= FrameLen[f]
        BY <2>0, <3>4, <4>0, LenNat DEF StreamOpen
      <4>2. Rest(f, w) \in Seq(Octet)
        BY <4>1, RestType DEF Octet
      <4>3. Stream(rx_fl) \in Seq(Octet)
        BY PartTypes
      <4>4. Rest(f, w) \o Stream(rx_fl) \in Seq(Octet)
        BY <4>2, <4>3, ConcatProperties
      <4>5. Stream(accepted) = out \o (Rest(f, w) \o Stream(rx_fl))
        BY <2>0, <3>4, <4>0 DEF StreamOpen
      <4> QED BY <4>4, <4>5
    <3>5. ASSUME NEW t \in Threads, th[t] \in {"pop", "popStore"}
          PROVE  \E x \in Seq(Octet) : Stream(accepted) = out \o x
      <4>1. Stream(accepted) = out \o Stream(rx_fl)
        BY <2>0, <3>5 DEF StreamOpen
      <4> QED BY <4>1, PartTypes
    <3> QED BY <3>1, <3>2, <3>3, <3>4, <3>5 DEF Busy
  <2>2. PICK x \in Seq(Octet) : \E a : a = Stream(accepted) /\ a = out \o x
    BY <2>1
  <2>3. out \in Seq(Octet)
    BY PartTypes
  <2>4. PICK a : a = Stream(accepted) /\ a = out \o x
    BY <2>2
  <2>5. Len(out) <= Len(a) /\ \A i \in DOMAIN out : out[i] = a[i]
    BY <2>3, <2>4, ConcatPrefix
  <2> QED BY <2>4, <2>5 DEF PtyInOrder
<1> QED BY <1>1, <1>2

-----------------------------------------------------------------------------
(* The assembler accepts a frame and writes it itself.                     *)
LEMMA StreamPass ==
  IInv /\ FlowTypeInv /\ WaitInv /\ CountInv /\ StreamInv /\ RxPass => StreamInv'
<1> SUFFICES ASSUME IInv, FlowTypeInv, WaitInv, CountInv, StreamInv, RxPass
             PROVE  StreamInv'
  OBVIOUS
<1>1. /\ rx = "lock" /\ rx' = "write" /\ ~flags.rx_fc_off
      /\ accepted' = Append(accepted, cur) /\ cur \in Frame /\ 0 <= FrameLen[cur]
      /\ UNCHANGED <<out, opened, rx_fl, rx_fl_written, cur, th, thframe, thwritten>>
  BY LenNat DEF RxPass, listVars, thVars, FlowTypeInv
<1>2. /\ out \in Seq(Octet) /\ Stream(accepted) \in Seq(Octet) /\ Rest(cur, 0) \in Seq(Octet)
      /\ Stream(Append(accepted, cur)) = Stream(accepted) \o Rest(cur, 0)
  BY <1>1, PartTypes, RestType, StreamAppend DEF Octet
<1>3. CASE ~opened
  <2>1. PICK a, x : a = Stream(accepted) /\ x = Rest(cur, 0)
    OBVIOUS
  <2>2. Len(out) <= Len(a) /\ \A i \in DOMAIN out : out[i] = a[i]
    BY <1>3, <2>1 DEF StreamInv, PtyInOrder
  <2>3. Len(out) <= Len(a \o x) /\ \A i \in DOMAIN out : out[i] = (a \o x)[i]
    BY <1>2, <2>1, <2>2, PrefixGrows
  <2>4. PtyInOrder'
    BY <1>1, <1>2, <2>1, <2>3 DEF PtyInOrder
  <2> QED BY <1>1, <1>3, <2>4 DEF StreamInv
<1>4. CASE opened
  <2>1. \A t \in Threads : ~Busy(t)
    BY <1>1, <1>4 DEF IInv, OffWhilePushing, Pushing, Busy
  <2>2. rx_fl = <<>>
    BY <1>1, <1>4 DEF WaitInv, TellsOff, SurelyOff
  <2>3. Stream(accepted) = out \o <<>>
    BY <1>1, <1>4, <2>1, <2>2 DEF StreamInv, StreamOpen, ListRest
  <2>4. Stream(accepted) = out
    BY <1>2, <2>3, ConcatNone
  <2>5. Stream(accepted') = out' \o Rest(cur', 0)
    BY <1>1, <1>2, <2>4
  <2>6. \A t \in Threads : th'[t] \notin {"write", "pop", "popStore"}
    BY <1>1, <2>1 DEF Busy
  <2> QED BY <1>1, <1>4, <2>5, <2>6 DEF StreamInv, StreamOpen, Stream
<1> QED BY <1>3, <1>4

(* A frame joins the list.                                                 *)
LEMMA StreamCache ==
  IInv /\ FlowTypeInv /\ WaitInv /\ CountInv /\ StreamInv /\ RxCache => StreamInv'
<1> SUFFICES ASSUME IInv, FlowTypeInv, WaitInv, CountInv, StreamInv, RxCache
             PROVE  StreamInv'
  OBVIOUS
<1>1. /\ rx = "lock" /\ rx' = "idle" /\ rx_fl' = Append(rx_fl, cur)
      /\ accepted' = Append(accepted, cur) /\ cur \in Frame
      /\ UNCHANGED <<out, opened, rx_fl_written, th, thframe, thwritten>>
  BY DEF RxCache, thVars, FlowTypeInv
<1>2. PICK x \in Seq(Octet) : x = Rest(cur, 0)
  BY <1>1, RestType, LenNat DEF Octet
<1>3. /\ out \in Seq(Octet) /\ Stream(accepted) \in Seq(Octet) /\ rx_fl \in Seq(Frame)
      /\ Stream(rx_fl) \in Seq(Octet) /\ ListRest \in Seq(Octet)
      /\ Stream(accepted') = Stream(accepted) \o x /\ Stream(rx_fl') = Stream(rx_fl) \o x
  BY <1>1, <1>2, PartTypes, StreamAppend DEF Octet
<1>4. \A l \in Seq(Octet) : Stream(accepted) = out \o l => Stream(accepted') = out' \o (l \o x)
  <2> SUFFICES ASSUME NEW l \in Seq(Octet), Stream(accepted) = out \o l
               PROVE  Stream(accepted') = out' \o (l \o x)
    OBVIOUS
  <2>1. PICK a : a = Stream(accepted) /\ a = out \o l
    OBVIOUS
  <2>2. a \o x = out \o (l \o x)
    BY <1>3, <2>1, ConcatLast, SMTT(60)
  <2> QED BY <1>1, <1>3, <2>1, <2>2
<1>5. CASE ~opened
  <2>1. PICK a \in Seq(Octet) : a = Stream(accepted)
    BY <1>3
  <2>2. Len(out) <= Len(a) /\ \A i \in DOMAIN out : out[i] = a[i]
    BY <1>5, <2>1 DEF StreamInv, PtyInOrder
  <2>3. Len(out) <= Len(a \o x) /\ \A i \in DOMAIN out : out[i] = (a \o x)[i]
    BY <1>3, <2>1, <2>2, PrefixGrows
  <2>4. PtyInOrder'
    BY <1>1, <1>3, <2>1, <2>3 DEF PtyInOrder, Stream
  <2> QED BY <1>1, <1>5, <2>4 DEF StreamInv
<1>6. CASE opened
  <2>0. StreamOpen
    BY <1>6 DEF StreamInv
  <2>1. (\A t \in Threads : ~Busy(t)) => Stream(accepted') = out' \o ListRest'
    <3> SUFFICES ASSUME \A t \in Threads : ~Busy(t)
                 PROVE  Stream(accepted') = out' \o ListRest'
      OBVIOUS
    <3>1. Stream(accepted') = out' \o (ListRest \o x)
      BY <1>1, <1>3, <1>4, <2>0 DEF StreamOpen
    <3>2. CASE rx_fl = <<>>
      <4>1. rx_fl' # <<>> /\ Head(rx_fl') = cur /\ Tail(rx_fl') = <<>> /\ rx_fl_written' = 0
        BY <1>1, <1>3, <3>2 DEF CountInv
      <4>2. ListRest' = Rest(cur, 0) \o Stream(<<>>)
        BY <4>1 DEF ListRest, Stream
      <4> QED BY <1>2, <3>1, <3>2, <4>2, StreamEmpty, ConcatNone DEF ListRest
    <3>3. CASE rx_fl # <<>>
      <4>1. PICK f, gs : f = Head(rx_fl) /\ gs = Tail(rx_fl) /\ f \in Frame /\ gs \in Seq(Frame)
        BY <1>3, <3>3, HeadTailProperties
      <4>2. rx_fl' # <<>> /\ Head(rx_fl') = f /\ Tail(rx_fl') = Append(gs, cur)
        <5>1. /\ Head(Append(rx_fl, cur)) = Head(rx_fl)
              /\ Tail(Append(rx_fl, cur)) = Append(Tail(rx_fl), cur)
          BY <1>3, <3>3, HeadTailAppend, Zenon
        <5>2. Append(rx_fl, cur) # <<>>
          BY <1>1, <1>3, AppendProperties
        <5> QED BY <1>1, <4>1, <5>1, <5>2, Zenon
      <4>3. Stream(gs) \in Seq(Octet) /\ Stream(Append(gs, cur)) = Stream(gs) \o x
        BY <1>1, <1>2, <4>1, StreamType, StreamAppend DEF Octet
      <4>4. rx_fl_written \in Nat /\ rx_fl_written <= FrameLen[f]
        BY <3>3, <4>1, LenNat DEF CountInv, FlowTypeInv, TypeOK
      <4>5. PICK r : r = Rest(f, rx_fl_written) /\ r \in Seq(Octet)
        BY <4>1, <4>4, RestType DEF Octet
      <4>6. ListRest = r \o Stream(gs)
        BY <3>3, <4>1, <4>5 DEF ListRest
      <4>7. ListRest' = r \o (Stream(gs) \o x)
        BY <1>1, <4>2, <4>3, <4>5 DEF ListRest, Stream
      <4>8. PICK g, l : g = Stream(gs) /\ l = r \o g /\ l = ListRest /\ g \in Seq(Octet)
        BY <4>3, <4>6
      <4>9. l \o x = r \o (g \o x)
        <5>1. r \in Seq(Octet) /\ g \in Seq(Octet) /\ l = r \o g
          BY <4>5, <4>8, Zenon
        <5> QED BY <5>1, ConcatLast
      <4> QED BY <3>1, <4>7, <4>8, <4>9
    <3> QED BY <3>2, <3>3
  <2>2. ASSUME NEW t \in Threads, th[t] = "write"
        PROVE  Stream(accepted') = out' \o (Rest(thframe[t], thwritten[t]) \o Stream(rx_fl'))
    <3>1. PICK f \in Frame, w \in Nat : f = thframe[t] /\ w = thwritten[t]
      BY <2>2 DEF FlowTypeInv, TypeOK
    <3>2. w <= FrameLen[f]
      BY <2>0, <2>2, <3>1, LenNat DEF StreamOpen
    <3>3. PICK r \in Seq(Octet), s \in Seq(Octet) : r = Rest(f, w) /\ s = Stream(rx_fl)
      BY <1>3, <3>1, <3>2, RestType DEF Octet
    <3>4. r \o s \in Seq(Octet) /\ Stream(accepted) = out \o (r \o s)
      BY <2>0, <2>2, <3>1, <3>3, ConcatProperties DEF StreamOpen
    <3>5. Stream(accepted') = out' \o ((r \o s) \o x)
      BY <1>4, <3>4
    <3>6. (r \o s) \o x = r \o (s \o x)
      BY ConcatLast
    <3> QED BY <1>3, <3>1, <3>3, <3>5, <3>6
  <2>3. ASSUME NEW t \in Threads, th[t] \in {"pop", "popStore"}
        PROVE  Stream(accepted') = out' \o Stream(rx_fl')
    BY <1>3, <1>4, <2>0, <2>3 DEF StreamOpen
  <2>4. StreamOpen'
    <3>1. \A t \in Threads : th[t] = "write" => thwritten[t] < FrameLen[thframe[t]]
      BY <2>0 DEF StreamOpen
    <3>2. \A t \in Threads : th[t] = "pop" => thwritten[t] = 0
      BY <2>0 DEF StreamOpen
    <3> QED BY <1>1, <2>1, <2>2, <2>3, <3>1, <3>2 DEF StreamOpen, Busy, Stream
  <2> QED BY <1>1, <1>6, <2>4 DEF StreamInv
<1> QED BY <1>5, <1>6

(* The assembler writes all of the frame, or a part.                       *)
LEMMA StreamWrite ==
  IInv /\ FlowTypeInv /\ WaitInv /\ StreamInv /\ (RxWriteAll \/ RxWritePart) => StreamInv'
<1> SUFFICES ASSUME IInv, FlowTypeInv, WaitInv, StreamInv, RxWriteAll \/ RxWritePart
             PROVE  StreamInv'
  OBVIOUS
<1>1. /\ rx = "write" /\ opened /\ opened' /\ cur \in Frame
      /\ UNCHANGED <<accepted, rx_fl, th>>
  BY DEF RxWriteAll, RxWritePart, listVars, thVars, logVars, FlowTypeInv
<1>2. \A t \in Threads : ~Busy(t) /\ ~Busy(t)'
  BY <1>1 DEF IInv, Direct, NobodyPushes, Pushing, Busy
<1>3. rx_fl = <<>> /\ Stream(accepted) = out \o Rest(cur, 0)
  BY <1>1 DEF WaitInv, StreamInv, StreamOpen
<1>4. out \in Seq(Octet)
  BY PartTypes
<1>5. PICK L \in Nat : L = FrameLen[cur]
  BY <1>1, LenNat
<1>6. ASSUME NEW n \in 0 .. L
      PROVE  /\ Stream(accepted) = (out \o Bytes(cur, 1, n)) \o Rest(cur, n)
             /\ out \o Bytes(cur, 1, n) \in Seq(Octet)
  <2>1. n \in Nat /\ 0 \in Nat /\ 0 + n = n /\ 0 + 1 = 1 /\ n <= FrameLen[cur]
        /\ 1 <= n + 1 /\ 1 \in Nat
    BY <1>5
  <2>2. Rest(cur, 0) = Bytes(cur, 1, n) \o Rest(cur, n)
    <3>1. Rest(cur, 0) = Bytes(cur, 0 + 1, 0 + n) \o Rest(cur, 0 + n)
      BY <1>1, <2>1, RestSplit
    <3> QED BY <2>1, <3>1
  <2>3. PICK x, y : /\ x = Bytes(cur, 1, n) /\ y = Rest(cur, n)
                    /\ x \in Seq(Octet) /\ y \in Seq(Octet)
    BY <1>1, <2>1, BytesSeq, RestType DEF Octet
  <2>4. PICK a, r : a = Stream(accepted) /\ r = Rest(cur, 0)
    OBVIOUS
  <2>5. a = (out \o x) \o y
    <3>1. /\ x \in Seq(Octet) /\ y \in Seq(Octet) /\ r = x \o y /\ a = out \o r
      BY <1>3, <2>2, <2>3, <2>4, Zenon
    <3> QED BY <1>4, <3>1, ConcatFirst
  <2>6. out \o x \in Seq(Octet)
    BY <1>4, <2>3, ConcatProperties
  <2> QED BY <2>3, <2>4, <2>5, <2>6
<1>7. CASE RxWriteAll
  <2>1. rx' = "idle" /\ out' = out \o Bytes(cur, 1, FrameLen[cur])
    BY <1>7 DEF RxWriteAll
  <2>2. L \in 0 .. L /\ Rest(cur, L) = <<>>
    BY <1>1, <1>5, RestNone
  <2>3. out' \in Seq(Octet) /\ Stream(accepted) = out' \o <<>>
    BY <1>5, <1>6, <2>1, <2>2
  <2>4. ListRest' = <<>>
    BY <1>1, <1>3 DEF ListRest
  <2>5. StreamOpen'
    BY <1>1, <1>2, <2>1, <2>3, <2>4 DEF StreamOpen, Busy, Stream
  <2> QED BY <1>1, <2>5 DEF StreamInv
<1>8. CASE RxWritePart
  <2>1. PICK n \in 0 .. FrameLen[cur] - 1 :
          out' = out \o Bytes(cur, 1, n) /\ written' = n /\ rx' = "remain" /\ cur' = cur
    BY <1>8 DEF RxWritePart
  <2>2. n \in 0 .. L
    BY <1>5, <2>1
  <2>3. Stream(accepted) = out' \o Rest(cur', written')
    BY <1>6, <2>1, <2>2
  <2>4. StreamOpen'
    BY <1>1, <1>2, <2>1, <2>3 DEF StreamOpen, Busy, Stream
  <2> QED BY <1>1, <2>4 DEF StreamInv
<1> QED BY <1>7, <1>8

(* The rest of it starts the list.                                         *)
LEMMA StreamRemain ==
  IInv /\ FlowTypeInv /\ WaitInv /\ StreamInv /\ RxRemain => StreamInv'
<1> SUFFICES ASSUME IInv, FlowTypeInv, WaitInv, StreamInv, RxRemain PROVE StreamInv'
  OBVIOUS
<1>1. /\ rx = "remain" /\ rx' = "tellOff" /\ cur \in Frame /\ rx_fl' = <<cur>>
      /\ rx_fl_written' = written /\ UNCHANGED <<accepted, out, opened, th>>
      /\ written \in Nat /\ written <= FrameLen[cur]
  BY LenNat DEF RxRemain, thVars, FlowTypeInv, TypeOK
<1>2. opened /\ opened' /\ \A t \in Threads : ~Busy(t) /\ ~Busy(t)'
  BY <1>1 DEF IInv, ClosedRx, Direct, NobodyPushes, Pushing, Busy
<1>3. Stream(accepted) = out \o Rest(cur, written)
  BY <1>1, <1>2 DEF StreamInv, StreamOpen
<1>4. <<cur>> # <<>> /\ Head(<<cur>>) = cur /\ Tail(<<cur>>) = <<>>
  OBVIOUS
<1>5. Rest(cur, written) \in Seq(Octet)
  BY <1>1, RestType DEF Octet
<1>6. Rest(cur, written) \o <<>> = Rest(cur, written)
  BY <1>5, ConcatNone
<1>7. ListRest' = Rest(cur, written)
  BY <1>1, <1>4, <1>6, StreamEmpty DEF ListRest, Stream
<1>8. StreamOpen'
  BY <1>1, <1>2, <1>3, <1>7 DEF StreamOpen, Busy, Stream
<1> QED BY <1>2, <1>8 DEF StreamInv

-----------------------------------------------------------------------------
(* Every step of the assembler.                                            *)
LEMMA StreamRx ==
  IInv /\ FlowTypeInv /\ WaitInv /\ CountInv /\ StreamInv /\ (Rx \/ RxSpurious) => StreamInv'
<1> SUFFICES ASSUME IInv, FlowTypeInv, WaitInv, CountInv, StreamInv, Rx \/ RxSpurious
             PROVE  StreamInv'
  OBVIOUS
<1> USE DEF thVars, rxVars, listVars, logVars, Busy
<1>1. CASE RxData  BY <1>1, StreamSame DEF RxData
<1>2. CASE RxPass  BY <1>2, StreamPass
<1>3. CASE RxCache  BY <1>3, StreamCache
<1>4. CASE RxDrop  BY <1>4, StreamSame DEF RxDrop
<1>5. CASE RxWriteAll \/ RxWritePart  BY <1>5, StreamWrite
<1>6. CASE RxRemain  BY <1>6, StreamRemain
<1>7. CASE RxWriteError  BY <1>7, StreamSame DEF RxWriteError
<1>8. CASE RxTellOff  BY <1>8, StreamSame DEF RxTellOff
<1>9. CASE RxWait  BY <1>9, StreamSame DEF RxWait
<1>10. CASE RxSpurious  BY <1>10, StreamSame DEF RxSpurious
<1>11. CASE RxSetOff  BY <1>11, StreamSame DEF RxSetOff
<1>12. CASE RxCreate
  <2>1. \A t \in Threads : Busy(t) \/ Busy(t)' => th'[t] = th[t]
    BY <1>12 DEF RxCreate, IInv, FlagTypes
  <2> QED BY <1>12, <2>1, StreamSame DEF RxCreate
<1>13. CASE RxCreateFails  BY <1>13, StreamSame DEF RxCreateFails
<1>14. CASE RxMsc  BY <1>14, StreamSame DEF RxMsc
<1>15. CASE RxMscStore  BY <1>15, StreamSame DEF RxMscStore
<1>16. CASE RxClose
  <2>1. ~opened' /\ UNCHANGED <<accepted, out>>
    BY <1>16 DEF RxClose
  <2>2. PtyInOrder
    BY StreamPrefix
  <2> QED BY <2>1, <2>2 DEF StreamInv, PtyInOrder, Stream
<1> QED BY <1>1, <1>2, <1>3, <1>4, <1>5, <1>6, <1>7, <1>8, <1>9, <1>10, <1>11, <1>12,
           <1>13, <1>14, <1>15, <1>16 DEF Rx

-----------------------------------------------------------------------------
(* Thread t takes the first frame: it is the only one at work.             *)
LEMMA StreamTake ==
  ASSUME IInv, FlowTypeInv, CountInv, StreamInv, opened, rx_fl # <<>>,
         NEW t \in Threads, Pushing(t),
         th' = [th EXCEPT ![t] = "write"],
         thframe' = [thframe EXCEPT ![t] = Head(rx_fl)],
         thwritten'[t] = rx_fl_written,
         rx_fl' = Tail(rx_fl),
         UNCHANGED <<accepted, out, opened, rx>>,
         Stream(accepted) = out \o ListRest
  PROVE  StreamInv'
<1>1. \A u \in Threads : u # t => ~Busy(u)'
  BY DEF IInv, FlagTypes, OnePusher, Pushing, Busy
<1>2. rx \notin {"write", "remain"}
  BY DEF IInv, Direct, NobodyPushes
<1>3. th'[t] = "write" /\ thframe'[t] = Head(rx_fl)
  BY DEF IInv, FlagTypes, FlowTypeInv, TypeOK
<1>4. Stream(accepted') = out' \o (Rest(thframe'[t], thwritten'[t]) \o Stream(rx_fl'))
  BY <1>3 DEF ListRest
<1>5. thwritten'[t] < FrameLen[thframe'[t]]
  BY <1>3 DEF CountInv
<1>6. StreamOpen'
  BY <1>1, <1>2, <1>3, <1>4, <1>5 DEF StreamOpen, Busy, Stream
<1> QED BY <1>6 DEF StreamInv

(* A retry thread starts with the first frame, where the write stopped.    *)
LEMMA StreamThFirst ==
  IInv /\ FlowTypeInv /\ WaitInv /\ CountInv /\ StreamInv /\ (\E t \in Threads : ThFirst(t))
    => StreamInv'
<1> SUFFICES ASSUME IInv, FlowTypeInv, WaitInv, CountInv, StreamInv,
                    NEW t \in Threads, ThFirst(t)
             PROVE  StreamInv'
  OBVIOUS
<1>1. /\ th[t] = "startStore" /\ thwritten' = [thwritten EXCEPT ![t] = rx_fl_written]
      /\ UNCHANGED <<accepted, out, opened, rx>>
      /\ rx_fl # <<>> => /\ thframe' = [thframe EXCEPT ![t] = Head(rx_fl)]
                         /\ rx_fl' = Tail(rx_fl) /\ th' = [th EXCEPT ![t] = "write"]
  BY DEF ThFirst, rxVars, logVars, ThGoto
<1>2. CASE ~opened
  BY <1>1, <1>2 DEF StreamInv, PtyInOrder, Stream
<1>3. CASE opened
  <2>1. Pushing(t) /\ rx_fl # <<>>
    BY <1>1, <1>3 DEF Pushing, WaitInv, Starting
  <2>2. thwritten'[t] = rx_fl_written
    BY <1>1 DEF FlowTypeInv, TypeOK
  <2>3. rx \notin {"write", "remain"} /\ \A u \in Threads : ~Busy(u)
    BY <1>1, <1>3, <2>1 DEF IInv, Direct, NobodyPushes, OnePusher, Pushing, Busy
  <2>4. Stream(accepted) = out \o ListRest
    BY <1>3, <2>3 DEF StreamInv, StreamOpen
  <2> QED BY <1>1, <1>3, <2>1, <2>2, <2>4, StreamTake
<1> QED BY <1>2, <1>3

(* A retry thread goes on with the next frame.                             *)
LEMMA StreamThNext ==
  IInv /\ FlowTypeInv /\ WaitInv /\ CountInv /\ StreamInv /\ (\E t \in Threads : ThNext(t))
    => StreamInv'
<1> SUFFICES ASSUME IInv, FlowTypeInv, WaitInv, CountInv, StreamInv,
                    NEW t \in Threads, ThNext(t)
             PROVE  StreamInv'
  OBVIOUS
<1>1. /\ th[t] = "pop" /\ rx_fl # <<>> /\ thframe' = [thframe EXCEPT ![t] = Head(rx_fl)]
      /\ rx_fl' = Tail(rx_fl) /\ th' = [th EXCEPT ![t] = "write"]
      /\ UNCHANGED <<accepted, out, opened, rx, thwritten>>
  BY DEF ThNext, rxVars, logVars, ThGoto
<1>2. CASE ~opened
  BY <1>1, <1>2 DEF StreamInv, PtyInOrder, Stream
<1>3. CASE opened
  <2>1. Pushing(t) /\ Busy(t)
    BY <1>1 DEF Pushing, Busy
  <2>2. rx_fl_written = 0 /\ thwritten'[t] = 0 /\ Stream(accepted) = out \o Stream(rx_fl)
    BY <1>1, <1>3, <2>1 DEF CountInv, StreamInv, StreamOpen
  <2>3. rx_fl \in Seq(Frame)
    BY DEF FlowTypeInv, TypeOK
  <2>4. Stream(rx_fl) = ListRest
    BY <1>1, <2>2, <2>3, StreamFirst DEF ListRest
  <2> QED BY <1>1, <1>3, <2>1, <2>2, <2>4, StreamTake
<1> QED BY <1>2, <1>3

(* Thread t writes some bytes of its frame.                                *)
LEMMA StreamThWrite ==
  IInv /\ FlowTypeInv /\ StreamInv /\ (\E t \in Threads : ThWrite(t)) => StreamInv'
<1> SUFFICES ASSUME IInv, FlowTypeInv, StreamInv, NEW t \in Threads, ThWrite(t)
             PROVE  StreamInv'
  OBVIOUS
<1>1. /\ th[t] = "write" /\ opened /\ thframe' = thframe /\ rx' = rx
      /\ UNCHANGED <<accepted, opened, rx_fl, rx_fl_written>>
  BY DEF ThWrite, rxVars, logVars, listVars
<1>2. PICK f, w : f = thframe[t] /\ w = thwritten[t] /\ f \in Frame /\ w \in Nat
  BY <1>1 DEF FlowTypeInv, TypeOK
<1>3. PICK L : L = FrameLen[f] /\ L \in Nat
  BY <1>2, LenNat
<1>4. PICK n \in 1 .. L - w :
        /\ out' = out \o Bytes(f, w + 1, w + n)
        /\ IF w + n < L
           THEN thwritten' = [thwritten EXCEPT ![t] = w + n] /\ th' = th
           ELSE thwritten' = [thwritten EXCEPT ![t] = 0] /\ th' = [th EXCEPT ![t] = "pop"]
  BY <1>2, <1>3 DEF ThWrite, ThGoto
<1>5. n \in Nat /\ w + n <= L /\ w + n \in Nat /\ w <= L
  BY <1>2, <1>3, <1>4
<1>6. \A u \in Threads : u # t => ~Busy(u) /\ ~Busy(u)'
  <2>1. Pushing(t)
    BY <1>1 DEF Pushing
  <2>2. \A u \in Threads : u # t => ~Busy(u)
    BY <2>1 DEF IInv, OnePusher, Pushing, Busy
  <2>3. \A u \in Threads : u # t => th'[u] = th[u]
    BY <1>4 DEF IInv, FlagTypes
  <2> QED BY <2>2, <2>3 DEF Busy
<1>7. rx \notin {"write", "remain"}
  BY <1>1 DEF IInv, Direct, NobodyPushes, Pushing
<1>8. PICK x, y, z : /\ x = Bytes(f, w + 1, w + n) /\ y = Rest(f, w + n) /\ z = Stream(rx_fl)
                     /\ x \in Seq(Octet) /\ y \in Seq(Octet) /\ z \in Seq(Octet)
  <2>1. PICK i, j : i = w + 1 /\ j = w + n /\ i \in Nat /\ j \in Nat /\ i <= j + 1
    <3>1. w + 1 \in Nat /\ w + n \in Nat /\ w + 1 <= w + n + 1
      BY <1>2, <1>5
    <3> QED BY <3>1, Zenon
  <2>2. Bytes(f, i, j) \in Seq(Octet)
    BY <1>2, <2>1, BytesSeq DEF Octet
  <2>3. Rest(f, j) \in Seq(Octet)
    BY <1>2, <1>3, <1>5, <2>1, RestType DEF Octet
  <2> QED BY <2>1, <2>2, <2>3, PartTypes
<1>9. out \in Seq(Octet)
  BY PartTypes
<1>10. Stream(accepted) = out' \o (y \o z)
  <2>1. PICK r, a : r = Rest(f, w) /\ a = Stream(accepted)
    OBVIOUS
  <2>2. r = x \o y
    BY <1>2, <1>3, <1>5, <1>8, <2>1, RestSplit
  <2>3. a = out \o (r \o z)
    BY <1>1, <1>2, <1>8, <2>1 DEF StreamInv, StreamOpen
  <2>4. a = (out \o x) \o (y \o z)
    <3>1. x \in Seq(Octet) /\ y \in Seq(Octet) /\ z \in Seq(Octet)
      BY <1>8, Zenon
    <3> QED BY <1>9, <2>2, <2>3, <3>1, ConcatMiddle, SMTT(60)
  <2> QED BY <1>4, <1>8, <2>1, <2>4
<1>11. CASE w + n < L
  <2>1. thwritten'[t] = w + n /\ th' = th
    BY <1>4, <1>11 DEF FlowTypeInv, TypeOK
  <2>2. Stream(accepted') = out' \o (Rest(thframe'[t], thwritten'[t]) \o Stream(rx_fl'))
        /\ thwritten'[t] < FrameLen[thframe'[t]]
    BY <1>1, <1>2, <1>3, <1>8, <1>10, <1>11, <2>1
  <2>3. StreamOpen'
    BY <1>1, <1>6, <1>7, <2>1, <2>2 DEF StreamOpen, Busy, Stream
  <2> QED BY <1>1, <2>3 DEF StreamInv
<1>12. CASE ~(w + n < L)
  <2>1. thwritten'[t] = 0 /\ th'[t] = "pop"
    BY <1>4, <1>12 DEF FlowTypeInv, TypeOK
  <2>2. w + n = L
    BY <1>2, <1>3, <1>5, <1>12
  <2>3. y = <<>>
    BY <1>2, <1>3, <1>8, <2>2, RestNone
  <2>4. Stream(accepted') = out' \o Stream(rx_fl')
    BY <1>1, <1>8, <1>10, <2>3, ConcatNone
  <2>5. StreamOpen'
    BY <1>1, <1>6, <1>7, <2>1, <2>4 DEF StreamOpen, Busy, Stream
  <2> QED BY <1>1, <2>5 DEF StreamInv
<1> QED BY <1>11, <1>12

(* It finds the list empty, and turns flow control off.                    *)
LEMMA StreamThEmpty ==
  IInv /\ WaitInv /\ StreamInv /\ (\E t \in Threads : ThEmpty(t) \/ ThEmptyStore(t))
    => StreamInv'
<1> SUFFICES ASSUME IInv, WaitInv, StreamInv, NEW t \in Threads, ThEmpty(t) \/ ThEmptyStore(t)
             PROVE  StreamInv'
  OBVIOUS
<1>1. /\ th[t] \in {"pop", "popStore"}
      /\ \/ th' = [th EXCEPT ![t] = "popStore"]
         \/ th[t] = "popStore" /\ th' = [th EXCEPT ![t] = "tellOn"]
      /\ UNCHANGED <<accepted, out, opened, rx, rx_fl, rx_fl_written>>
  BY DEF ThEmpty, ThLoad, ThEmptyStore, rxVars, logVars, listVars, ThGoto
<1>2. CASE ~opened
  BY <1>1, <1>2 DEF StreamInv, PtyInOrder, Stream
<1>3. CASE opened
  <2>1. Pushing(t)
    BY <1>1 DEF Pushing
  <2>2. \A u \in Threads : u # t => ~Busy(u)'
    BY <1>1, <2>1 DEF IInv, FlagTypes, OnePusher, Pushing, Busy
  <2>3. rx \notin {"write", "remain"}
    BY <1>3, <2>1 DEF IInv, Direct, NobodyPushes
  <2>4. Stream(accepted) = out \o Stream(rx_fl)
    BY <1>1, <1>3 DEF StreamInv, StreamOpen
  <2>5. th[t] = "popStore" => ListRest = Stream(rx_fl)
    BY <1>3, StreamEmpty DEF WaitInv, ListRest
  <2>6. th'[t] = "popStore" \/ (th[t] = "popStore" /\ th'[t] = "tellOn")
    BY <1>1 DEF IInv, FlagTypes
  <2>7. ListRest' = ListRest
    BY <1>1 DEF ListRest, Stream
  <2>8. StreamOpen'
    BY <1>1, <2>2, <2>3, <2>4, <2>5, <2>6, <2>7 DEF StreamOpen, Busy, Stream
  <2> QED BY <1>1, <1>3, <2>8 DEF StreamInv
<1> QED BY <1>2, <1>3

(* Every step of a retry thread keeps StreamInv.                           *)
LEMMA StreamTh ==
  IInv /\ FlowTypeInv /\ WaitInv /\ CountInv /\ StreamInv /\ (\E t \in Threads : Th(t))
    => StreamInv'
<1> SUFFICES ASSUME IInv, FlowTypeInv, WaitInv, CountInv, StreamInv, NEW t \in Threads, Th(t)
             PROVE  StreamInv'
  OBVIOUS
<1>0. th \in [Threads -> ThStates]
  BY DEF IInv, FlagTypes
<1>1. ASSUME NEW from, NEW where, th[t] = from, th' = [th EXCEPT ![t] = where],
             {from, where} \cap {"write", "pop", "popStore"} = {},
             UNCHANGED <<accepted, out, rx_fl, rx_fl_written, opened, thframe, thwritten>>,
             UNCHANGED <<rx, cur, written>> \/ {rx, rx'} \cap {"write", "remain"} = {}
      PROVE  StreamInv'
  <2>1. \A u \in Threads : Busy(u) \/ Busy(u)' => th'[u] = th[u]
    BY <1>0, <1>1 DEF Busy
  <2> QED BY <1>1, <2>1, StreamSame
<1> USE DEF thVars, rxVars, listVars, logVars, ThGoto
<1>2. CASE ThFirst(t)  BY <1>2, StreamThFirst
<1>3. CASE ThNext(t)  BY <1>3, StreamThNext
<1>4. CASE ThWrite(t)  BY <1>4, StreamThWrite
<1>5. CASE ThEmpty(t) \/ ThEmptyStore(t)  BY <1>5, StreamThEmpty
<1>6. CASE ThWriteError(t)  BY <1>6, StreamSame DEF ThWriteError, Busy
<1>7. CASE ThStart(t)  BY <1>1, <1>7 DEF ThStart, ThLoad
<1>8. CASE ThTellOn(t)  BY <1>1, <1>8 DEF ThTellOn
<1>9. CASE ThClear(t)  BY <1>1, <1>9 DEF ThClear, ThLoad
<1>10. CASE ThClearStore(t)  BY <1>1, <1>10 DEF ThClearStore
<1>11. CASE ThSignal(t)
  <2>1. /\ th[t] = "signal" /\ th' = [th EXCEPT ![t] = "none"]
        /\ UNCHANGED <<accepted, out, rx_fl, rx_fl_written, opened, thframe, thwritten>>
        /\ UNCHANGED <<rx, cur, written>> \/ {rx, rx'} \cap {"write", "remain"} = {}
    BY <1>11 DEF ThSignal
  <2> QED BY <1>1, <2>1
<1> QED BY <1>2, <1>3, <1>4, <1>5, <1>6, <1>7, <1>8, <1>9, <1>10, <1>11 DEF Th

-----------------------------------------------------------------------------
(* On a quiet channel every store of the flag byte stores what is there,   *)
(* but for the bit it is for.                                              *)
QuietInv ==
  Quiet => /\ rx # "txStore"
           /\ \A t \in Threads : Holding(t) => thbyte[t] = flags
           /\ flags.rx_fc_off => rx = "create" \/ \E t \in Threads : Pushing(t)

(* Initially flow control is not on.                                       *)
LEMMA QuietInit == Init => QuietInv
BY DEF Init, QuietInv, Holding, NoFlags

(* A channel does not become quiet.                                        *)
LEMMA QuietBack ==
  ASSUME FlowTypeInv, Next, Quiet'
  PROVE  Quiet
<1> USE DEF Fail, listVars, rxVars, thVars, logVars
<1>1. CASE Rx \/ RxSpurious
  <2>1. (opened' => opened) /\ failed \subseteq failed'
    BY <1>1 DEF Rx, RxData, RxPass, RxCache, RxDrop, RxWriteAll, RxWritePart,
       RxRemain, RxWriteError, RxTellOff, RxWait, RxSpurious, RxSetOff, RxCreate,
       RxCreateFails, RxMsc, RxMscStore, RxClose
  <2>2. msc' = msc \/ msc' = msc - 1
    BY <1>1 DEF Rx, RxData, RxPass, RxCache, RxDrop, RxWriteAll, RxWritePart,
       RxRemain, RxWriteError, RxTellOff, RxWait, RxSpurious, RxSetOff, RxCreate,
       RxCreateFails, RxMsc, RxMscStore, RxClose
  <2>3. msc \in 0 .. MscBudget /\ MscBudget \in Nat
    BY FlowAssumption DEF FlowTypeInv, TypeOK
  <2> QED BY <2>1, <2>2, <2>3 DEF Quiet
<1>2. ASSUME NEW t \in Threads, Th(t) PROVE Quiet
  BY <1>2 DEF Quiet, Th, ThStart, ThFirst, ThWrite, ThWriteError, ThNext, ThEmpty,
     ThEmptyStore, ThTellOn, ThClear, ThClearStore, ThSignal, ThLoad
<1>3. CASE Pty
  BY <1>3, CoreSame DEF coreVars, Quiet
<1> QED BY <1>1, <1>2, <1>3 DEF Next

(* Every step of the assembler keeps QuietInv.                             *)
LEMMA QuietRx == IInv /\ FlowTypeInv /\ QuietInv /\ Next /\ (Rx \/ RxSpurious) => QuietInv'
<1> SUFFICES ASSUME IInv, FlowTypeInv, QuietInv, Next, Rx \/ RxSpurious, Quiet'
             PROVE  QuietInv'
  BY DEF QuietInv
<1>0. Quiet
  BY QuietBack
<1> USE <1>0 DEF QuietInv, Holding, Pushing, thVars, rxVars, LockFree
<1>1. CASE RxSetOff  BY <1>1 DEF RxSetOff
<1>2. CASE RxCreate
  <2>1. PICK t \in Threads : th[t] = "none" /\ th' = [th EXCEPT ![t] = "start"]
    BY <1>2 DEF RxCreate
  <2>2. th'[t] = "start" /\ \A u \in Threads : Holding(u)' => Holding(u)
    BY <2>1 DEF IInv, FlagTypes
  <2>3. rx' = "idle" /\ UNCHANGED <<flags, thbyte>>
    BY <1>2 DEF RxCreate
  <2> QED BY <2>2, <2>3
<1>3. CASE RxMsc
  BY <1>3 DEF RxMsc, Quiet, FlowTypeInv, TypeOK
<1>4. CASE RxCreateFails
  BY <1>4 DEF RxCreateFails, Quiet, Fail
<1>5. CASE RxMscStore  BY <1>5 DEF RxMscStore
<1>6. CASE RxClose  BY <1>6 DEF RxClose, Quiet
<1>7. CASE RxData  BY <1>7 DEF RxData
<1>8. CASE RxPass  BY <1>8 DEF RxPass
<1>9. CASE RxCache  BY <1>9 DEF RxCache
<1>10. CASE RxDrop  BY <1>10 DEF RxDrop
<1>11. CASE RxWriteAll  BY <1>11 DEF RxWriteAll
<1>12. CASE RxWritePart  BY <1>12 DEF RxWritePart
<1>13. CASE RxRemain  BY <1>13 DEF RxRemain
<1>14. CASE RxWriteError  BY <1>14 DEF RxWriteError
<1>15. CASE RxTellOff  BY <1>15 DEF RxTellOff
<1>16. CASE RxWait  BY <1>16 DEF RxWait
<1>17. CASE RxSpurious  BY <1>17 DEF RxSpurious
<1> QED BY <1>1, <1>2, <1>3, <1>4, <1>5, <1>6, <1>7, <1>8, <1>9, <1>10, <1>11, <1>12,
           <1>13, <1>14, <1>15, <1>16, <1>17 DEF Rx

(* Every step of a retry thread keeps QuietInv.                            *)
LEMMA QuietTh ==
  IInv /\ FlowTypeInv /\ WaitInv /\ QuietInv /\ Next /\ (\E t \in Threads : Th(t))
    => QuietInv'
<1> SUFFICES ASSUME IInv, FlowTypeInv, WaitInv, QuietInv, Next, NEW t \in Threads, Th(t), Quiet'
             PROVE  QuietInv'
  BY DEF QuietInv
<1>0. Quiet /\ opened /\ th \in [Threads -> ThStates] /\ thbyte \in [Threads -> Flags]
      /\ flags \in Flags
  BY QuietBack DEF Quiet, IInv, FlagTypes
<1> USE DEF thVars, rxVars, listVars, ThGoto
(* Whoever moves on without a store still pushes if he did.                *)
<1>1. ASSUME NEW where, th' = [th EXCEPT ![t] = where], UNCHANGED <<flags, thbyte>>,
             rx' = rx \/ (rx = "wait" /\ rx' = "setOff"),
             where \notin {"startStore", "popStore", "clearStore"},
             Pushing(t) => where \in {"start", "write", "pop"}
      PROVE  QuietInv'
  <2>1. \A u \in Threads : (Holding(u)' => Holding(u)) /\ (Pushing(u) => Pushing(u)')
    BY <1>0, <1>1 DEF Holding, Pushing
  <2> QED BY <1>0, <1>1, <2>1 DEF QuietInv
<1>2. ASSUME NEW from, NEW where, ThLoad(t, from, where),
             where \in {"startStore", "popStore", "clearStore"},
             Pushing(t) => where # "clearStore"
      PROVE  QuietInv'
  <2>1. /\ th' = [th EXCEPT ![t] = where] /\ thbyte' = [thbyte EXCEPT ![t] = flags]
        /\ UNCHANGED <<flags, rx>> /\ \A u \in Threads : ~Holding(u)
    BY <1>2 DEF ThLoad, LockFree
  <2>2. \A u \in Threads : (Holding(u)' => u = t) /\ (Pushing(u) => Pushing(u)')
    BY <1>0, <1>2, <2>1 DEF Holding, Pushing
  <2> QED BY <1>0, <2>1, <2>2 DEF QuietInv
<1>3. ASSUME NEW where, Holding(t), th' = [th EXCEPT ![t] = where], rx' = rx,
             where \notin {"startStore", "popStore", "clearStore"},
             flags'.rx_fc_off => flags.rx_fc_off /\ (Pushing(t) => where = "write")
      PROVE  QuietInv'
  <2>1. \A u \in Threads : ~Holding(u)'
    BY <1>0, <1>3 DEF IInv, OneHolder, Holding
  <2>2. flags'.rx_fc_off => \A u \in Threads : Pushing(u) => Pushing(u)'
    BY <1>0, <1>3 DEF Pushing
  <2> QED BY <1>0, <1>3, <2>1, <2>2 DEF QuietInv
<1>4. CASE ThFirst(t)
  <2>1. th[t] = "startStore" /\ rx' = rx /\ flags' = [thbyte[t] EXCEPT !.rx_thread = TRUE]
    BY <1>4 DEF ThFirst
  <2>2. Holding(t) /\ rx_fl # <<>>
    BY <1>0, <2>1 DEF Holding, WaitInv, Starting
  <2>3. th' = [th EXCEPT ![t] = "write"]
    BY <1>4, <2>2 DEF ThFirst
  <2>4. flags'.rx_fc_off = flags.rx_fc_off
    BY <1>0, <2>1, <2>2 DEF QuietInv, Flags
  <2> QED BY <1>3, <2>1, <2>2, <2>3, <2>4
<1>5. CASE ThEmptyStore(t)
  <2>1. /\ th[t] = "popStore" /\ th' = [th EXCEPT ![t] = "tellOn"] /\ rx' = rx
        /\ flags' = [thbyte[t] EXCEPT !.rx_fc_off = FALSE]
    BY <1>5 DEF ThEmptyStore
  <2>2. Holding(t) /\ ~flags'.rx_fc_off
    BY <1>0, <2>1 DEF Holding, Flags
  <2> QED BY <1>3, <2>1, <2>2
<1>6. CASE ThClearStore(t)
  <2>1. /\ th[t] = "clearStore" /\ th' = [th EXCEPT ![t] = "signal"] /\ rx' = rx
        /\ flags' = [thbyte[t] EXCEPT !.rx_thread = FALSE]
    BY <1>6 DEF ThClearStore
  <2>2. Holding(t) /\ ~Pushing(t)
    BY <2>1 DEF Holding, Pushing
  <2>3. flags'.rx_fc_off = flags.rx_fc_off
    BY <1>0, <2>1, <2>2 DEF QuietInv, Flags
  <2> QED BY <1>3, <2>1, <2>2, <2>3
<1>7. CASE ThWrite(t)
  <2>1. th[t] = "write" /\ UNCHANGED <<flags, thbyte, rx>>
    BY <1>7 DEF ThWrite
  <2>2. th' = [th EXCEPT ![t] = "write"] \/ th' = [th EXCEPT ![t] = "pop"]
    BY <1>0, <1>7, <2>1 DEF ThWrite
  <2> QED BY <1>1, <2>1, <2>2
<1>8. CASE ThWriteError(t)  BY <1>0, <1>8 DEF ThWriteError, QuietInv, Holding, Pushing
<1>9. CASE ThNext(t)  BY <1>1, <1>9 DEF ThNext
<1>10. CASE ThTellOn(t)  BY <1>1, <1>10 DEF ThTellOn, Pushing
<1>11. CASE ThSignal(t)  BY <1>1, <1>11 DEF ThSignal, Pushing
<1>12. CASE ThStart(t)  BY <1>2, <1>12 DEF ThStart
<1>13. CASE ThEmpty(t)  BY <1>2, <1>13 DEF ThEmpty
<1>14. CASE ThClear(t)  BY <1>2, <1>14 DEF ThClear, ThLoad, Pushing
<1> QED BY <1>4, <1>5, <1>6, <1>7, <1>8, <1>9, <1>10, <1>11, <1>12, <1>13, <1>14 DEF Th

-----------------------------------------------------------------------------
(* The whole inductive invariant.                                          *)
FlowInv == IInv /\ FlowTypeInv /\ WaitInv /\ CountInv /\ StreamInv /\ QuietInv

(* Every step keeps the whole invariant.                                   *)
LEMMA FlowInvNext == FlowInv /\ [Next]_vars => FlowInv'
<1> SUFFICES ASSUME FlowInv, [Next]_vars PROVE FlowInv'
  OBVIOUS
<1>1. IInv' /\ WaitInv'
  BY NextIInv, WaitNext DEF FlowInv
<1>2. CASE Next /\ (Rx \/ RxSpurious)
  BY <1>1, <1>2, RxTypes, CountRx, StreamRx, QuietRx DEF FlowInv
<1>3. CASE Next /\ \E t \in Threads : Th(t)
  BY <1>1, <1>3, ThTypes, CountTh, StreamTh, QuietTh DEF FlowInv
<1>4. CASE Pty \/ UNCHANGED vars
  <2>1. FlowTypeInv'
    BY <1>4, PtyTypes DEF FlowInv
  <2>2. CountInv' /\ QuietInv'
    BY <1>4, CoreSame DEF FlowInv, coreVars, listVars, rxVars, thVars, CountInv, QuietInv,
       Quiet, Holding, Pushing, Busy
  <2>3. StreamInv'
    BY <1>4, CoreSame, StreamSame DEF FlowInv, coreVars, logVars, listVars, rxVars, thVars
  <2> QED BY <1>1, <2>1, <2>2, <2>3 DEF FlowInv
<1> QED BY <1>2, <1>3, <1>4 DEF Next

(* It holds always.                                                        *)
LEMMA FlowInvariant == Spec => []FlowInv
<1>1. Init => FlowInv
  BY InitIInv, FlowTypeInit, WaitInit, CountInit, StreamInit, QuietInit DEF FlowInv
<1> QED BY <1>1, FlowInvNext, PTL DEF Spec

(* The application reads the payload of the accepted frames, in order of   *)
(* arrival: the direct write, the cache and the retry thread hand the      *)
(* stream over to each other without losing, repeating or moving a byte.   *)
THEOREM PtyStream == Spec => []PtyInOrder
<1>1. FlowInv => PtyInOrder
  BY StreamPrefix DEF FlowInv
<1> QED BY <1>1, FlowInvariant, PTL

(* The watermark bounds the list, although rx_fl_total is never reduced    *)
(* while the retry thread takes frames from it.                            *)
THEOREM ListStaysBounded == Spec => []ListBounded
<1>1. FlowInv => ListBounded
  <2> SUFFICES ASSUME FlowInv, Len(rx_fl) > 1
               PROVE  PendingBytes <= High + rx_fl_written
    BY DEF ListBounded
  <2>1. /\ Len(Stream(rx_fl)) <= rx_fl_total + rx_fl_written /\ rx_fl_total <= High
        /\ rx_fl \in Seq(Frame) /\ rx_fl_total \in Nat /\ rx_fl_written \in Nat /\ High \in Nat
    BY FlowAssumption DEF FlowInv, CountInv, FlowTypeInv, TypeOK
  <2>2. Len(Stream(rx_fl)) \in Nat
    BY <2>1, StreamLen
  <2> QED BY <2>1, <2>2 DEF PendingBytes
<1> QED BY <1>1, FlowInvariant, PTL

(* While flow control is on, on a channel without lost updates and failed  *)
(* thread creations, some thread is there to turn it off again.            *)
THEOREM OffIsTurnedOn == Spec => []OffHasPusher
<1>1. FlowInv => OffHasPusher
  BY DEF FlowInv, QuietInv, OffHasPusher
<1> QED BY <1>1, FlowInvariant, PTL
=============================================================================
