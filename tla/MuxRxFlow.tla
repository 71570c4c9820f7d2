------------------------------- MODULE MuxRxFlow -------------------------------
(***************************************************************************)
(* Receive flow control of one data channel of gsm0710muxd.                *)
(*                                                                         *)
(* The assembler thread writes the payload of each UIH frame to the        *)
(* channel's pty. When the pty does not take all of it, the rest is cached *)
(* in the frame list rx_fl, the modem is told to stop (MSC with FC off)    *)
(* and a retry thread is created that writes the list out, tells the modem *)
(* to go on and ends. Frames that arrive meanwhile join the list.          *)
(*                                                                         *)
(* tx_fc_off, rx_fc_off and rx_thread are bit fields of one byte of        *)
(* Channel: assigning one of them loads the byte and stores it back. The   *)
(* assembler assigns tx_fc_off under tx_fc_lock, the retry threads assign  *)
(* the other two under rx_fc_lock, so that these stores may interleave.    *)
(***************************************************************************)
EXTENDS Integers, Sequences, FiniteSets, SequencesExt

CONSTANTS
  NFrames,       \* bound: how many data frames the modem sends on the channel
  FrameLen,      \* frame->length of each of them
  High,          \* RX_FLOW_CTRL_HIGH_WATERMARK
  Threads,       \* identities of retry_write_pty_thread instances
  HangUps,       \* bound: how often an application closes its pty
  MscBudget,     \* bound: flow control commands the modem sends
  MayClose,      \* may the modem end the channel (DM, or DISC)?
  MayFail        \* may pthread_create fail?

ASSUME FlowAssumption ==
  /\ NFrames \in Nat /\ High \in Nat /\ MscBudget \in Nat /\ HangUps \in Nat
  /\ FrameLen \in [1 .. NFrames -> Nat \ {0}]
  /\ MayClose \in BOOLEAN /\ MayFail \in BOOLEAN

VARIABLES
  next,          \* the next frame of the modem
  accepted,      \* frames written or cached so far, in order of arrival
  dropped,       \* frames dropped at the watermark
  freed,         \* frames given to destroy_frame
  out,           \* bytes written to the pty, <<frame, position>>
  opened,        \* channel->opened
  hungUp,        \* the application closed its pty: channel->fd is -1
  reopen,        \* channel->reopen
  hangups,       \* how often an application may still do so
  flags,         \* the byte of tx_fc_off, rx_fc_off and rx_thread
  rx_fl,         \* the frames of channel->rx_fl, oldest first
  fl_mem,        \* what channel->rx_fl points to: "null", "list" or "freed"
  rx_fl_total, rx_fl_written,
  peerOff,       \* the last MSC sent to the modem carried FC off
  msc,           \* flow control commands the modem may still send
  rx,            \* where the assembler thread is
  cur,           \* the frame it deals with, 0 for NULL
  written,       \* write_result of its write()
  rxbyte,        \* the flag byte it loaded for an assignment
  rxval,         \* the value it is assigning to tx_fc_off
  th,            \* where each retry thread is
  thframe, thwritten, thbyte,   \* its locals: frame, written, loaded flag byte
  failed         \* assertions raised and errors logged so far

ptyVars  == <<opened, hungUp, reopen, hangups>>
listVars == <<rx_fl, fl_mem, rx_fl_total, rx_fl_written>>
rxVars   == <<rx, cur, written, rxbyte, rxval>>
thVars   == <<th, thframe, thwritten, thbyte>>
logVars  == <<next, accepted, dropped, freed>>
vars == <<logVars, out, ptyVars, flags, listVars, peerOff, msc, rxVars, thVars,
          failed>>

Frame == 1 .. NFrames
Flags == [tx_fc_off : BOOLEAN, rx_fc_off : BOOLEAN, rx_thread : BOOLEAN]
NoFlags == [tx_fc_off |-> FALSE, rx_fc_off |-> FALSE, rx_thread |-> FALSE]

RxStates == {"idle", "lock", "write", "remain", "tellOff", "startLock",
             "wait", "setOff", "create", "txStore"}
ThStates == {"none", "start", "startStore", "write", "pop", "popStore",
             "tellOn", "clear", "clearStore", "signal", "crashed"}

Init ==
  /\ next = 1 /\ accepted = <<>> /\ dropped = {} /\ freed = {}
  /\ out = <<>>
  /\ opened = TRUE /\ hungUp = FALSE /\ reopen = FALSE /\ hangups = HangUps
  /\ flags = NoFlags
  /\ rx_fl = <<>> /\ fl_mem = "null" /\ rx_fl_total = 0 /\ rx_fl_written = 0
  /\ peerOff = FALSE /\ msc = MscBudget
  /\ rx = "idle" /\ cur = 0 /\ written = 0 /\ rxbyte = NoFlags /\ rxval = FALSE
  /\ th = [t \in Threads |-> "none"]
  /\ thframe = [t \in Threads |-> 0]
  /\ thwritten = [t \in Threads |-> 0]
  /\ thbyte = [t \in Threads |-> NoFlags]
  /\ failed = {}

(* A retry thread holds rx_fc_lock between its load and its store.         *)
Holding(t) == th[t] \in {"startStore", "popStore", "clearStore"}
LockFree == \A t \in Threads : ~Holding(t)

(* Bytes i to j of frame f, as they reach the pty.                         *)
Bytes(f, i, j) == [p \in 1 .. j - i + 1 |-> <<f, i + p - 1>>]

Fail(code) == failed' = failed \cup {code}

ThGoto(t, where) == th' = [th EXCEPT ![t] = where]

-----------------------------------------------------------------------------
(* Mutations of the actions below, BM_A in place of A: each is a mistake   *)
(* this code could contain, and breaks a property that the code keeps.     *)

(* Write to the pty without a look at rx_fc_off.                           *)
BM_RxPass ==
  /\ rx = "lock" /\ LockFree
  /\ accepted' = Append(accepted, cur)
  /\ rx' = "write"
  /\ UNCHANGED <<next, dropped, freed, out, ptyVars, flags, listVars, peerOff,
                 msc, cur, written, rxbyte, rxval, thVars, failed>>

(* Cache without a look at the watermark.                                  *)
BM_RxCache ==
  /\ rx = "lock" /\ LockFree /\ flags.rx_fc_off
  /\ rx_fl_total' = rx_fl_total + FrameLen[cur]
  /\ rx_fl' = Append(rx_fl, cur)
  /\ accepted' = Append(accepted, cur)
  /\ cur' = 0 /\ rx' = "idle"
  /\ UNCHANGED <<next, dropped, freed, out, ptyVars, flags, fl_mem,
                 rx_fl_written, peerOff, msc, written, rxbyte, rxval, thVars, failed>>

(* rx_fc_off is not set when the retry thread is started.                  *)
BM_RxSetOff ==
  /\ LockFree
  /\ rx = "setOff" \/ (rx = "startLock" /\ ~flags.rx_thread)
  /\ rx' = "create"
  /\ UNCHANGED <<logVars, out, ptyVars, flags, listVars, peerOff, msc, cur, written,
                 rxbyte, rxval, thVars, failed>>

(* rx_fc_off is not reset when the list is empty.                          *)
BM_ThEmptyStore(t) ==
  /\ th[t] = "popStore"
  /\ flags' = thbyte[t]
  /\ thbyte' = [thbyte EXCEPT ![t] = NoFlags]
  /\ thframe' = [thframe EXCEPT ![t] = 0]
  /\ ThGoto(t, "tellOn")
  /\ UNCHANGED <<logVars, out, ptyVars, listVars, peerOff, msc, rxVars,
                 thwritten, failed>>

(* The end of the retry thread is not signalled.                           *)
BM_ThSignal(t) ==
  /\ th[t] = "signal"
  /\ ThGoto(t, "none")
  /\ UNCHANGED <<logVars, out, ptyVars, flags, listVars, peerOff, msc, rxVars,
                 thframe, thwritten, thbyte, failed>>

-----------------------------------------------------------------------------
(* The assembler thread in extract_frames.                                 *)

(* A UIH frame for the channel.                                            *)
RxData ==
  /\ rx = "idle" /\ next <= NFrames
  /\ cur' = next /\ next' = next + 1
  /\ rx' = "lock"
  /\ UNCHANGED <<accepted, dropped, freed, out, ptyVars, flags, listVars,
                 peerOff, msc, written, rxbyte, rxval, thVars, failed>>

(* Under rx_fc_lock: flow control is on, the frame may be written.         *)
RxPass ==
  /\ rx = "lock" /\ LockFree /\ ~flags.rx_fc_off
  /\ accepted' = Append(accepted, cur)
  /\ rx' = "write"
  /\ UNCHANGED <<next, dropped, freed, out, ptyVars, flags, listVars, peerOff,
                 msc, cur, written, rxbyte, rxval, thVars, failed>>

(* _fc_cacheFrameData below the watermark.                                 *)
RxCache ==
  /\ rx = "lock" /\ LockFree /\ flags.rx_fc_off
  /\ rx_fl_total + FrameLen[cur] <= High
  /\ rx_fl_total' = rx_fl_total + FrameLen[cur]
  /\ rx_fl' = Append(rx_fl, cur)
  /\ accepted' = Append(accepted, cur)
  /\ cur' = 0 /\ rx' = "idle"
  /\ UNCHANGED <<next, dropped, freed, out, ptyVars, flags, fl_mem,
                 rx_fl_written, peerOff, msc, written, rxbyte, rxval, thVars, failed>>

(* _fc_cacheFrameData above the watermark.                                 *)
RxDrop ==
  /\ rx = "lock" /\ LockFree /\ flags.rx_fc_off
  /\ rx_fl_total + FrameLen[cur] > High
  /\ dropped' = dropped \cup {cur}
  /\ freed' = freed \cup {cur}
  /\ cur' = 0 /\ rx' = "idle"
  /\ UNCHANGED <<next, accepted, out, ptyVars, flags, listVars, peerOff, msc,
                 written, rxbyte, rxval, thVars, failed>>

(* The pty takes the whole payload.                                        *)
RxWriteAll ==
  /\ rx = "write" /\ opened /\ ~hungUp
  /\ out' = out \o Bytes(cur, 1, FrameLen[cur])
  /\ freed' = freed \cup {cur}
  /\ cur' = 0 /\ rx' = "idle"
  /\ UNCHANGED <<next, accepted, dropped, ptyVars, flags, listVars, peerOff,
                 msc, written, rxbyte, rxval, thVars, failed>>

(* It takes a part, or none (EAGAIN): _fc_cacheRemainingFrameData, called  *)
(* without rx_fc_lock, starts the list. A list that is not empty is an     *)
(* assertion, after which _fl_init empties it.                             *)
RxWritePart ==
  /\ rx = "write" /\ opened /\ ~hungUp
  /\ \E n \in 0 .. FrameLen[cur] - 1 :
       /\ out' = out \o Bytes(cur, 1, n)
       /\ written' = n
  /\ rx' = "remain"
  /\ UNCHANGED <<logVars, ptyVars, flags, listVars, peerOff, msc, cur, rxbyte,
                 rxval, thVars, failed>>

RxRemain ==
  /\ rx = "remain"
  /\ IF rx_fl = <<>>
     THEN UNCHANGED <<failed, freed>>
     ELSE Fail("FRAMELIST_INIT") /\ freed' = freed \cup ToSet(rx_fl)
  /\ rx_fl' = <<cur>>
  /\ fl_mem' = IF fl_mem = "null" THEN "list" ELSE fl_mem
  /\ rx_fl_total' = FrameLen[cur] - written
  /\ rx_fl_written' = written /\ written' = 0
  /\ cur' = 0 /\ rx' = "tellOff"
  /\ UNCHANGED <<next, accepted, dropped, out, ptyVars, flags, peerOff, msc,
                 rxbyte, rxval, thVars>>

(* watchdog() gives a channel that waits to be reopened another pty        *)
(* (MuxSession, with the requests that cross it). A channel that the modem *)
(* has closed meanwhile is not followed any further: its list is freed.    *)
Reopened ==
  /\ reopen /\ opened
  /\ hungUp' = FALSE /\ reopen' = FALSE
  /\ UNCHANGED <<opened, hangups>>

(* A write without a descriptor fails with EBADF: a call of watchdog() if  *)
(* the channel waits to be reopened, else an assertion; then the same write*)
(* again. The call does nothing before pts_reopen is set: that is a step   *)
(* which changes nothing.                                                  *)
WriteError(code) ==
  /\ ~opened \/ hungUp
  /\ IF reopen THEN Reopened /\ UNCHANGED failed
               ELSE Fail(code) /\ UNCHANGED ptyVars

RxWriteError ==
  /\ rx = "write" /\ WriteError("PTY_WRITE_9")
  /\ UNCHANGED <<logVars, out, flags, listVars, peerOff, msc, rxVars, thVars>>

(* start_retry_write_thread: MSC with FC off first ...                     *)
RxTellOff ==
  /\ rx = "tellOff"
  /\ peerOff' = TRUE
  /\ rx' = "startLock"
  /\ UNCHANGED <<logVars, out, ptyVars, flags, listVars, msc, cur, written, rxbyte,
                 rxval, thVars, failed>>

(* ... then, if the previous retry thread has not ended, one wait for it.  *)
RxWait ==
  /\ rx = "startLock" /\ LockFree /\ flags.rx_thread
  /\ rx' = "wait"
  /\ UNCHANGED <<logVars, out, ptyVars, flags, listVars, peerOff, msc, cur,
                 written, rxbyte, rxval, thVars, failed>>

RxSpurious ==
  /\ rx = "wait"
  /\ rx' = "setOff"
  /\ UNCHANGED <<logVars, out, ptyVars, flags, listVars, peerOff, msc, cur,
                 written, rxbyte, rxval, thVars, failed>>

RxSetOff ==
  /\ LockFree
  /\ \/ rx = "startLock" /\ ~flags.rx_thread
     \/ rx = "setOff"
  /\ flags' = [flags EXCEPT !.rx_fc_off = TRUE]
  /\ rx' = "create"
  /\ UNCHANGED <<logVars, out, ptyVars, listVars, peerOff, msc, cur, written, rxbyte,
                 rxval, thVars, failed>>

RxCreate ==
  /\ rx = "create"
  /\ \E t \in Threads : th[t] = "none" /\ th' = [th EXCEPT ![t] = "start"]
  /\ rx' = "idle"
  /\ UNCHANGED <<logVars, out, ptyVars, flags, listVars, peerOff, msc, cur,
                 written, rxbyte, rxval, thframe, thwritten, thbyte, failed>>

(* A failing pthread_create is only logged.                                *)
RxCreateFails ==
  /\ MayFail
  /\ rx = "create"
  /\ Fail("CREATE_THREAD")
  /\ rx' = "idle"
  /\ UNCHANGED <<logVars, out, ptyVars, flags, listVars, peerOff, msc, cur,
                 written, rxbyte, rxval, thVars>>

(* MSC from the modem, for its own direction: handle_command assigns       *)
(* tx_fc_off when it changes, here the load of the byte and then the store.*)
RxMsc ==
  /\ rx = "idle" /\ opened /\ msc > 0
  /\ msc' = msc - 1
  /\ rxval' = ~flags.tx_fc_off
  /\ rxbyte' = flags
  /\ rx' = "txStore"
  /\ UNCHANGED <<logVars, out, ptyVars, flags, listVars, peerOff, cur, written,
                 thVars, failed>>

RxMscStore ==
  /\ rx = "txStore"
  /\ flags' = [rxbyte EXCEPT !.tx_fc_off = rxval]
  /\ rxbyte' = NoFlags /\ rxval' = FALSE
  /\ rx' = "idle"
  /\ UNCHANGED <<logVars, out, ptyVars, listVars, peerOff, msc, cur, written,
                 thVars, failed>>

(* DM or DISC: logical_channel_close calls _fc_closeContext, which frees   *)
(* the list, takes no lock and leaves the pointer as it is.                *)
RxClose ==
  /\ MayClose
  /\ rx = "idle" /\ opened
  /\ opened' = FALSE
  /\ flags' = NoFlags
  /\ freed' = freed \cup ToSet(rx_fl)
  /\ rx_fl' = <<>>
  /\ fl_mem' = IF fl_mem = "null" THEN "null" ELSE "freed"
  /\ rx_fl_total' = 0 /\ rx_fl_written' = 0
  /\ UNCHANGED <<next, accepted, dropped, out, hungUp, reopen, hangups, peerOff,
                 msc, rxVars, thVars, failed>>

Rx ==
  \/ RxData \/ RxPass \/ RxCache \/ RxDrop
  \/ RxWriteAll \/ RxWritePart \/ RxRemain \/ RxWriteError
  \/ RxTellOff \/ RxWait \/ RxSetOff \/ RxCreate \/ RxCreateFails
  \/ RxMsc \/ RxMscStore \/ RxClose

-----------------------------------------------------------------------------
(* retry_write_pty_thread.                                                 *)

ThLoad(t, from, where) ==
  /\ th[t] = from /\ LockFree
  /\ thbyte' = [thbyte EXCEPT ![t] = flags]
  /\ ThGoto(t, where)
  /\ UNCHANGED <<logVars, out, ptyVars, flags, listVars, peerOff, msc, rxVars,
                 thframe, thwritten, failed>>

ThStart(t) == ThLoad(t, "start", "startStore")

(* rx_thread = 1, the first frame and how much of it is written already.   *)
ThFirst(t) ==
  /\ th[t] = "startStore"
  /\ flags' = [thbyte[t] EXCEPT !.rx_thread = TRUE]
  /\ thbyte' = [thbyte EXCEPT ![t] = NoFlags]
  /\ thwritten' = [thwritten EXCEPT ![t] = rx_fl_written]
  /\ rx_fl_written' = 0
  /\ IF rx_fl = <<>>
     THEN /\ Fail("RXTHREAD") /\ ThGoto(t, "crashed")
          /\ UNCHANGED <<rx_fl, thframe>>
     ELSE /\ thframe' = [thframe EXCEPT ![t] = Head(rx_fl)]
          /\ rx_fl' = Tail(rx_fl)
          /\ ThGoto(t, "write")
          /\ UNCHANGED failed
  /\ UNCHANGED <<logVars, out, ptyVars, fl_mem, rx_fl_total, peerOff, msc,
                 rxVars>>

(* One write(): some bytes, none of them for a pty that is still full.     *)
ThWrite(t) ==
  /\ th[t] = "write" /\ opened /\ ~hungUp
  /\ LET f == thframe[t] IN
     \E n \in 1 .. FrameLen[f] - thwritten[t] :
       /\ out' = out \o Bytes(f, thwritten[t] + 1, thwritten[t] + n)
       /\ IF thwritten[t] + n < FrameLen[f]
          THEN /\ thwritten' = [thwritten EXCEPT ![t] = @ + n]
               /\ UNCHANGED th
          ELSE /\ thwritten' = [thwritten EXCEPT ![t] = 0]
               /\ ThGoto(t, "pop")
  /\ UNCHANGED <<logVars, ptyVars, flags, listVars, peerOff, msc, rxVars,
                 thframe, thbyte, failed>>

ThWriteError(t) ==
  /\ th[t] = "write" /\ WriteError("PTY_WRITE")
  /\ UNCHANGED <<logVars, out, flags, listVars, peerOff, msc, rxVars, thVars>>

ThNext(t) ==
  /\ th[t] = "pop" /\ LockFree /\ rx_fl # <<>>
  /\ thframe' = [thframe EXCEPT ![t] = Head(rx_fl)]
  /\ rx_fl' = Tail(rx_fl)
  /\ ThGoto(t, "write")
  /\ UNCHANGED <<logVars, out, ptyVars, flags, fl_mem, rx_fl_total,
                 rx_fl_written, peerOff, msc, rxVars, thwritten, thbyte, failed>>

(* The list is empty: rx_fc_off = 0 under the same hold of the lock.       *)
ThEmpty(t) == rx_fl = <<>> /\ ThLoad(t, "pop", "popStore")

ThEmptyStore(t) ==
  /\ th[t] = "popStore"
  /\ flags' = [thbyte[t] EXCEPT !.rx_fc_off = FALSE]
  /\ thbyte' = [thbyte EXCEPT ![t] = NoFlags]
  /\ thframe' = [thframe EXCEPT ![t] = 0]
  /\ ThGoto(t, "tellOn")
  /\ UNCHANGED <<logVars, out, ptyVars, listVars, peerOff, msc, rxVars,
                 thwritten, failed>>

(* MSC with FC on.                                                         *)
ThTellOn(t) ==
  /\ th[t] = "tellOn"
  /\ peerOff' = FALSE
  /\ ThGoto(t, "clear")
  /\ UNCHANGED <<logVars, out, ptyVars, flags, listVars, msc, rxVars, thframe,
                 thwritten, thbyte, failed>>

ThClear(t) == ThLoad(t, "clear", "clearStore")

ThClearStore(t) ==
  /\ th[t] = "clearStore"
  /\ flags' = [thbyte[t] EXCEPT !.rx_thread = FALSE]
  /\ thbyte' = [thbyte EXCEPT ![t] = NoFlags]
  /\ ThGoto(t, "signal")
  /\ UNCHANGED <<logVars, out, ptyVars, listVars, peerOff, msc, rxVars, thframe,
                 thwritten, failed>>

(* The signal follows the unlock: it may find a later wait.                *)
ThSignal(t) ==
  /\ th[t] = "signal"
  /\ rx' = IF rx = "wait" THEN "setOff" ELSE rx
  /\ ThGoto(t, "none")
  /\ UNCHANGED <<logVars, out, ptyVars, flags, listVars, peerOff, msc, cur,
                 written, rxbyte, rxval, thframe, thwritten, thbyte, failed>>

Th(t) ==
  \/ ThStart(t) \/ ThFirst(t) \/ ThWrite(t) \/ ThWriteError(t) \/ ThNext(t)
  \/ ThEmpty(t) \/ ThEmptyStore(t) \/ ThTellOn(t) \/ ThClear(t)
  \/ ThClearStore(t) \/ ThSignal(t)

-----------------------------------------------------------------------------
(* The thread that reads the pty, and the callers of watchdog() outside    *)
(* this module: the list stays as it is while the descriptor is closed and *)
(* another one opened.                                                     *)
HangUp ==
  /\ opened /\ ~hungUp /\ hangups > 0
  /\ hungUp' = TRUE /\ hangups' = hangups - 1
  /\ UNCHANGED <<logVars, out, opened, reopen, flags, listVars, peerOff, msc,
                 rxVars, thVars, failed>>

AskReopen ==
  /\ hungUp /\ ~reopen
  /\ reopen' = TRUE
  /\ UNCHANGED <<logVars, out, opened, hungUp, hangups, flags, listVars,
                 peerOff, msc, rxVars, thVars, failed>>

Watchdog ==
  /\ Reopened
  /\ UNCHANGED <<logVars, out, flags, listVars, peerOff, msc, rxVars, thVars,
                 failed>>

Pty == HangUp \/ AskReopen \/ Watchdog

(* A thread that dereferences a NULL frame takes the process with it.      *)
Running == \A t \in Threads : th[t] # "crashed"

Next == Running /\ (Rx \/ RxSpurious \/ Pty \/ \E t \in Threads : Th(t))

Spec == Init /\ [][Next]_vars

(* The scheduler runs threads that can run; the application reads its pty, *)
(* so that a retried write makes progress again; an ended thread of a      *)
(* channel calls watchdog(), and main() does every five seconds.           *)
FairSpec ==
  /\ Spec
  /\ WF_vars(Running /\ Rx)
  /\ WF_vars(Running /\ (AskReopen \/ Watchdog))
  /\ \A t \in Threads : WF_vars(Running /\ Th(t))

-----------------------------------------------------------------------------
(* The bytes of a sequence of frames.                                      *)
Stream(fs) == FlattenSeq([i \in DOMAIN fs |-> Bytes(fs[i], 1, FrameLen[fs[i]])])

(* A thread that still has list entries to take or bytes to write.         *)
Pushing(t) == th[t] \in {"start", "startStore", "write", "pop", "popStore"}

TypeOK ==
  /\ next \in 1 .. NFrames + 1
  /\ accepted \in Seq(Frame) /\ dropped \subseteq Frame /\ freed \subseteq Frame
  /\ out \in Seq(Frame \X Nat)
  /\ opened \in BOOLEAN /\ hungUp \in BOOLEAN /\ reopen \in BOOLEAN /\ hangups \in Nat
  /\ flags \in Flags
  /\ rx_fl \in Seq(Frame) /\ fl_mem \in {"null", "list", "freed"}
  /\ rx_fl_total \in Nat /\ rx_fl_written \in Nat
  /\ peerOff \in BOOLEAN /\ msc \in 0 .. MscBudget
  /\ rx \in RxStates /\ cur \in 0 .. NFrames /\ written \in Nat
  /\ rxbyte \in Flags /\ rxval \in BOOLEAN
  /\ th \in [Threads -> ThStates]
  /\ thframe \in [Threads -> 0 .. NFrames]
  /\ thwritten \in [Threads -> Nat]
  /\ thbyte \in [Threads -> Flags]
  /\ failed \subseteq {"PTY_WRITE_9", "PTY_WRITE", "FRAMELIST_INIT", "RXTHREAD",
                      "CREATE_THREAD"}

(* Two writers, one pty: what the application reads is the payload of the  *)
(* accepted frames, in order of arrival, no byte lost, repeated or moved,  *)
(* although the direct write and the retried ones run in different threads,*)
(* and although the pty may be closed and another one opened between them. *)
PtyInOrder ==
  /\ Len(out) <= Len(Stream(accepted))
  /\ \A i \in DOMAIN out : out[i] = Stream(accepted)[i]

(* _fc_cacheRemainingFrameData works on the list without rx_fc_lock: while *)
(* the assembler is on its way to it, no retry thread has a use for the    *)
(* list.                                                                   *)
ListNotShared ==
  opened /\ rx \in {"write", "remain"} => \A t \in Threads : ~Pushing(t)

(* The wait for rx_fc_on_signal, rx_fc_off and the single assembler keep   *)
(* the channel at one pushing retry thread.                                *)
OnePusher ==
  \A t, u \in Threads : Pushing(t) /\ Pushing(u) => t = u

(* The watermark bounds the memory of the list: the frames in it carry at  *)
(* most High bytes, or what was left of the one frame that started it.     *)
PendingBytes == Len(Stream(rx_fl))
ListBounded == Len(rx_fl) > 1 => PendingBytes <= High + rx_fl_written

(* A channel that stays open, whose retry threads could all be created and *)
(* for which the modem has not sent a flow control command yet.            *)
Quiet == opened /\ msc = MscBudget /\ "CREATE_THREAD" \notin failed

(* No frame is cached for ever: while flow control is on for such a        *)
(* channel, some thread is there, or about to be created, to turn it off.  *)
OffHasPusher ==
  flags.rx_fc_off /\ Quiet =>
    \/ \E t \in Threads : Pushing(t)
    \/ rx = "create"

(* Every frame of the modem reaches the pty or is dropped, a hang-up or    *)
(* not.                                                                    *)
Settled == next > NFrames /\ rx = "idle" /\ out = Stream(accepted)
AllWritten == <>~Quiet \/ <>[]Settled

-----------------------------------------------------------------------------
(* gsm0710muxd_fc.c, above the last write_frame of the retry thread: "Send *)
(* MSC with FC On to modem side: Enable RX again!". Once the thread that   *)
(* says so has ended and no other took over, frames pass again.            *)
RxEnabledAgain ==
  flags.rx_fc_off /\ opened /\ "CREATE_THREAD" \notin failed =>
    \/ \E t \in Threads : Pushing(t)
    \/ rx = "create"
=============================================================================
