-------------------------------- MODULE MuxTx --------------------------------
(***************************************************************************)
(* Transmit path of gsm0710muxd. Each data channel has a thread that reads *)
(* what the application wrote to the channel's pty (poll_thread calling    *)
(* pseudo_device_read) and sends it in frames of at most negotiated_N1     *)
(* bytes (handle_channel_data, write_frame). The assembler thread carries  *)
(* out the modem's flow control commands (handle_command) and acknowledges *)
(* them on the control channel with the same write_frame. All threads      *)
(* share the serial line, write_frame_lock and, in the advanced mode,      *)
(* serial.adv_frame_buf.                                                   *)
(*                                                                         *)
(* The bytes of a channel are numbered in the order the application wrote  *)
(* them. A control frame carries the number of the command it answers.     *)
(***************************************************************************)
EXTENDS Integers, Sequences, FiniteSets, SequencesExt

CONSTANTS
  Chan,            \* the data channels
  Asm,             \* the assembler thread and, on the line, channel 0
  AppBytes,        \* bound: bytes the application writes to each channel
  ReadMax,         \* size of buf in pseudo_device_read
  N1,              \* negotiated_N1 of each channel
  Retries,         \* GSM0710_WRITE_RETRIES
  MscBudget,       \* bound: flow control commands the modem sends
  WakeBudget,      \* bound: spurious wakeups of a channel's thread
  MayFault,        \* may write(serial.fd) be short or fail?
  MayClose         \* may the modem end a channel (DM)?

ASSUME TxAssumption ==
  /\ Asm \notin Chan /\ "none" \notin Chan \cup {Asm}
  /\ AppBytes \in [Chan -> Nat] /\ ReadMax \in Nat \ {0} /\ Retries \in Nat \ {0}
  /\ MscBudget \in Nat /\ WakeBudget \in Nat
  /\ N1 \in [Chan -> Nat \ {0}]
  /\ MayFault \in BOOLEAN /\ MayClose \in BOOLEAN

Proc == Chan \cup {Asm}

VARIABLES
  cmux_mode,       \* the command line's choice of the multiplexer mode
  opened,          \* channel->opened; channel->fd and negotiated_N1 follow it
  tx_fc_off,       \* channel->tx_fc_off
  taken,           \* bytes read from the pty of each channel
  len, written,    \* handle_channel_data: the bytes read, those written
  tries,           \* its i: writes that achieved nothing
  pc,              \* where each thread is
  frame,           \* the payload each thread is writing a frame for
  write_frame_lock,\* its owner, or "none"
  adv_frame_buf,   \* the frame encoded in serial.adv_frame_buf
  tail,            \* the pieces of the unfinished frame on the line
  got,             \* what the modem has received on each channel
  msc,             \* flow control commands the modem has sent
  reads, wakes,    \* per channel, since it was last told to stop: reads of
                   \* the pty, and spurious wakeups of its thread
  faulted,         \* a write to the line was short or failed
  failed           \* assertion codes raised so far

chanVars == <<opened, tx_fc_off>>
dataVars == <<taken, len, written, tries>>
lineVars == <<adv_frame_buf, tail, got>>
vars == <<cmux_mode, chanVars, dataVars, pc, frame, write_frame_lock, lineVars,
          msc, reads, wakes, faulted, failed>>

States == {"poll", "fc", "wait", "read", "ended", "idle",
           "lock", "prefix", "data", "postfix", "fill", "write", "unlock"}

(* A piece of a frame, as one write() puts it on the line.                 *)
Piece(by, bytes) == [by |-> by, bytes |-> bytes]

Init ==
  /\ cmux_mode \in {"basic", "advanced"}
  /\ opened = [c \in Chan |-> TRUE] /\ tx_fc_off = [c \in Chan |-> FALSE]
  /\ taken = [c \in Chan |-> 0]
  /\ len = [c \in Chan |-> 0] /\ written = [c \in Chan |-> 0]
  /\ tries = [c \in Chan |-> 0]
  /\ pc = [p \in Proc |-> IF p = Asm THEN "idle" ELSE "poll"]
  /\ frame = [p \in Proc |-> <<>>]
  /\ write_frame_lock = "none"
  /\ adv_frame_buf = Piece(Asm, <<>>) /\ tail = <<>>
  /\ got = [p \in Proc |-> <<>>]
  /\ msc = 0
  /\ reads = [c \in Chan |-> 0] /\ wakes = [c \in Chan |-> 0]
  /\ faulted = FALSE /\ failed = {}

Goto(p, where) == pc' = [pc EXCEPT ![p] = where]
Fail(code) == failed' = failed \cup {code}
Smaller(i, j) == IF i <= j THEN i ELSE j

-----------------------------------------------------------------------------
(* pseudo_device_read, in the thread of channel c.                         *)

(* select() reports data on the pty.                                       *)
PollReady(c) ==
  /\ pc[c] = "poll" /\ opened[c] /\ taken[c] < AppBytes[c]
  /\ Goto(c, "fc")
  /\ UNCHANGED <<cmux_mode, chanVars, dataVars, frame, write_frame_lock, lineVars,
                 msc, reads, wakes, faulted, failed>>

(* select() on a descriptor that another thread has closed: an assertion,  *)
(* and again.                                                              *)
PollClosed(c) ==
  /\ pc[c] = "poll" /\ ~opened[c]
  /\ Fail("TXTHREAD_SELECT_ERR")
  /\ UNCHANGED <<cmux_mode, chanVars, dataVars, pc, frame, write_frame_lock,
                 lineVars, msc, reads, wakes, faulted>>

(* The check of tx_fc_off, under tx_fc_lock.                               *)
BM_FcCheck(c) ==   \* tx_fc_off is not looked at
  /\ pc[c] = "fc"
  /\ IF opened[c] THEN UNCHANGED failed ELSE Fail("TXTHREAD_ERR")
  /\ Goto(c, "read")
  /\ UNCHANGED <<cmux_mode, chanVars, dataVars, frame, write_frame_lock, lineVars,
                 msc, reads, wakes, faulted>>

FcCheck(c) ==
  /\ pc[c] = "fc"
  /\ IF opened[c] THEN UNCHANGED failed ELSE Fail("TXTHREAD_ERR")
  /\ Goto(c, IF tx_fc_off[c] THEN "wait" ELSE "read")
  /\ UNCHANGED <<cmux_mode, chanVars, dataVars, frame, write_frame_lock, lineVars,
                 msc, reads, wakes, faulted>>

(* pthread_cond_wait may return without a signal; tx_fc_off is not looked  *)
(* at again.                                                               *)
FcSpurious(c) ==
  /\ pc[c] = "wait" /\ wakes[c] < WakeBudget
  /\ wakes' = [wakes EXCEPT ![c] = @ + 1]
  /\ Goto(c, "read")
  /\ UNCHANGED <<cmux_mode, chanVars, dataVars, frame, write_frame_lock, lineVars,
                 msc, reads, faulted, failed>>

(* Some bytes, for handle_channel_data to send.                            *)
Read(c) ==
  /\ pc[c] = "read" /\ opened[c]
  /\ \E n \in 1 .. Smaller(ReadMax, AppBytes[c] - taken[c]) :
       /\ taken' = [taken EXCEPT ![c] = @ + n]
       /\ len' = [len EXCEPT ![c] = n]
  /\ reads' = [reads EXCEPT ![c] = @ + 1]
  /\ Goto(c, "lock")
  /\ UNCHANGED <<cmux_mode, chanVars, written, tries, frame, write_frame_lock,
                 lineVars, msc, wakes, faulted, failed>>

(* close_pty_channel: the thread asks for a reopen and ends.               *)
ReadFails(c) ==
  /\ pc[c] = "read" /\ ~opened[c]
  /\ Goto(c, "ended")
  /\ UNCHANGED <<cmux_mode, chanVars, dataVars, frame, write_frame_lock, lineVars,
                 msc, reads, wakes, faulted, failed>>

-----------------------------------------------------------------------------
(* write_frame, in any thread.                                             *)

(* negotiated_N1 is 0 once the channel is closed.                          *)
Chunk(c) ==
  LET n == IF opened[c] THEN Smaller(N1[c], len[c] - written[c]) ELSE 0
  IN  [i \in 1 .. n |-> taken[c] - len[c] + written[c] + i]

BM_WfLock(p) ==   \* the lock is not taken
  /\ pc[p] = "lock"
  /\ frame' = [frame EXCEPT ![p] = IF p = Asm THEN <<msc>> ELSE Chunk(p)]
  /\ Goto(p, IF cmux_mode = "basic" THEN "prefix" ELSE "fill")
  /\ UNCHANGED <<cmux_mode, chanVars, dataVars, write_frame_lock, lineVars, msc,
                 reads, wakes, faulted, failed>>

WfLock(p) ==
  /\ pc[p] = "lock" /\ write_frame_lock = "none"
  /\ write_frame_lock' = p
  /\ frame' = [frame EXCEPT ![p] = IF p = Asm THEN <<msc>> ELSE Chunk(p)]
  /\ Goto(p, IF cmux_mode = "basic" THEN "prefix" ELSE "fill")
  /\ UNCHANGED <<cmux_mode, chanVars, dataVars, lineVars, msc, reads, wakes,
                 faulted, failed>>

(* Basic mode: the prefix, the payload unless it is empty, the postfix.    *)
WfPrefix(p) ==
  /\ pc[p] = "prefix"
  /\ tail' = Append(tail, Piece(p, <<>>))
  /\ Goto(p, IF frame[p] = <<>> THEN "postfix" ELSE "data")
  /\ UNCHANGED <<cmux_mode, chanVars, dataVars, frame, write_frame_lock,
                 adv_frame_buf, got, msc, reads, wakes, faulted, failed>>

WfData(p) ==
  /\ pc[p] = "data"
  /\ tail' = Append(tail, Piece(p, frame[p]))
  /\ Goto(p, "postfix")
  /\ UNCHANGED <<cmux_mode, chanVars, dataVars, frame, write_frame_lock,
                 adv_frame_buf, got, msc, reads, wakes, faulted, failed>>

(* The modem takes what lies on the line for one frame of the channel in   *)
(* the first address field.                                                *)
Receive(pieces) ==
  LET payload == FlattenSeq([i \in DOMAIN pieces |-> pieces[i].bytes])
  IN  /\ got' = [got EXCEPT ![pieces[1].by] = @ \o payload]
      /\ tail' = <<>>

WfPostfix(p) ==
  /\ pc[p] = "postfix"
  /\ Receive(tail)
  /\ Goto(p, "unlock")
  /\ UNCHANGED <<cmux_mode, chanVars, dataVars, frame, write_frame_lock,
                 adv_frame_buf, msc, reads, wakes, faulted, failed>>

(* Advanced mode: the frame is encoded in the shared buffer and written as *)
(* a whole.                                                                *)
WfFill(p) ==
  /\ pc[p] = "fill"
  /\ adv_frame_buf' = Piece(p, frame[p])
  /\ Goto(p, "write")
  /\ UNCHANGED <<cmux_mode, chanVars, dataVars, frame, write_frame_lock, tail,
                 got, msc, reads, wakes, faulted, failed>>

WfWrite(p) ==
  /\ pc[p] = "write"
  /\ Receive(Append(tail, adv_frame_buf))
  /\ Goto(p, "unlock")
  /\ UNCHANGED <<cmux_mode, chanVars, dataVars, frame, write_frame_lock,
                 adv_frame_buf, msc, reads, wakes, faulted, failed>>

(* Back in handle_channel_data with the number of bytes written, n: write  *)
(* on, or end with the bytes that remain. The assembler ignores n.         *)
ReturnTo(c, n) ==
  LET w == written[c] + n
      i == IF n = 0 THEN tries[c] + 1 ELSE tries[c]
      more == w # len[c] /\ i < Retries
  IN  /\ Goto(c, IF more THEN "lock" ELSE "poll")
      /\ written' = [written EXCEPT ![c] = IF more THEN w ELSE 0]
      /\ tries' = [tries EXCEPT ![c] = IF more THEN i ELSE 0]
      /\ len' = [len EXCEPT ![c] = IF more THEN @ ELSE 0]
      /\ IF more \/ w = len[c] THEN UNCHANGED failed ELSE Fail("SERIAL_WRITE_ERR")

Return(p, n) ==
  IF p = Asm THEN Goto(p, "idle") /\ UNCHANGED <<len, written, tries, failed>>
             ELSE ReturnTo(p, n)

WfUnlock(p) ==
  /\ pc[p] = "unlock"
  /\ write_frame_lock' = "none"
  /\ Return(p, Len(frame[p]))
  /\ frame' = [frame EXCEPT ![p] = <<>>]
  /\ UNCHANGED <<cmux_mode, chanVars, taken, lineVars, msc, reads, wakes,
                 faulted>>

BM_WfFault(p) ==   \* the error path unlocks
  /\ MayFault
  /\ pc[p] \in {"prefix", "data", "postfix", "write"}
  /\ UNCHANGED tail
  /\ faulted' = TRUE
  /\ Return(p, 0)
  /\ frame' = [frame EXCEPT ![p] = <<>>]
  /\ write_frame_lock' = "none"
  /\ UNCHANGED <<cmux_mode, chanVars, taken, adv_frame_buf, got, msc, reads, wakes>>

(* A write() that fails or is short: a part of the piece may be on the     *)
(* line, and write_frame returns 0 without unlocking.                      *)
WfFault(p) ==
  /\ MayFault
  /\ pc[p] \in {"prefix", "data", "postfix", "write"}
  /\ \/ UNCHANGED tail
     \/ \E n \in 0 .. Len(frame[p]) :
          /\ n > 0 => pc[p] \in {"data", "write"} /\ n < Len(frame[p])
          /\ tail' = Append(tail, Piece(p, SubSeq(frame[p], 1, n)))
  /\ faulted' = TRUE
  /\ Return(p, 0)
  /\ frame' = [frame EXCEPT ![p] = <<>>]
  /\ UNCHANGED <<cmux_mode, chanVars, taken, write_frame_lock, adv_frame_buf,
                 got, msc, reads, wakes>>

WriteFrame(p) ==
  \/ WfLock(p) \/ WfPrefix(p) \/ WfData(p) \/ WfPostfix(p)
  \/ WfFill(p) \/ WfWrite(p) \/ WfUnlock(p)

-----------------------------------------------------------------------------
(* handle_command in the assembler thread, for an MSC command of the modem *)
(* on channel c: tx_fc_off changes under tx_fc_lock, and "on" wakes the    *)
(* channel's thread. The acknowledgement follows, for closed channels too. *)
MscOff(c) ==
  /\ pc[Asm] = "idle" /\ msc < MscBudget
  /\ msc' = msc + 1
  /\ IF opened[c] /\ ~tx_fc_off[c]
     THEN /\ tx_fc_off' = [tx_fc_off EXCEPT ![c] = TRUE]
          /\ reads' = [reads EXCEPT ![c] = 0] /\ wakes' = [wakes EXCEPT ![c] = 0]
     ELSE UNCHANGED <<tx_fc_off, reads, wakes>>
  /\ Goto(Asm, "lock")
  /\ UNCHANGED <<cmux_mode, opened, dataVars, frame, write_frame_lock, lineVars,
                 faulted, failed>>

BM_MscOn(c) ==   \* tx_fc_on_signal is not signalled
  /\ pc[Asm] = "idle" /\ msc < MscBudget
  /\ msc' = msc + 1
  /\ IF opened[c] THEN tx_fc_off' = [tx_fc_off EXCEPT ![c] = FALSE]
                  ELSE UNCHANGED tx_fc_off
  /\ Goto(Asm, "lock")
  /\ UNCHANGED <<cmux_mode, opened, dataVars, frame, write_frame_lock, lineVars,
                 reads, wakes, faulted, failed>>

MscOn(c) ==
  /\ pc[Asm] = "idle" /\ msc < MscBudget
  /\ msc' = msc + 1
  /\ IF opened[c] /\ tx_fc_off[c]
     THEN /\ tx_fc_off' = [tx_fc_off EXCEPT ![c] = FALSE]
          /\ pc' = [pc EXCEPT ![Asm] = "lock",
                              ![c] = IF @ = "wait" THEN "read" ELSE @]
     ELSE Goto(Asm, "lock") /\ UNCHANGED tx_fc_off
  /\ UNCHANGED <<cmux_mode, opened, dataVars, frame, write_frame_lock, lineVars,
                 reads, wakes, faulted, failed>>

(* DM: logical_channel_close with _fc_closeContext. Nobody is signalled.   *)
Close(c) ==
  /\ MayClose
  /\ pc[Asm] = "idle" /\ opened[c]
  /\ opened' = [opened EXCEPT ![c] = FALSE]
  /\ tx_fc_off' = [tx_fc_off EXCEPT ![c] = FALSE]
  /\ UNCHANGED <<cmux_mode, dataVars, pc, frame, write_frame_lock, lineVars, msc,
                 reads, wakes, faulted, failed>>

PollThread(c) ==
  \/ PollReady(c) \/ PollClosed(c) \/ FcCheck(c) \/ Read(c) \/ ReadFails(c)
  \/ WriteFrame(c)

Next ==
  \/ \E c \in Chan : PollThread(c) \/ FcSpurious(c)
  \/ WriteFrame(Asm)
  \/ \E p \in Proc : WfFault(p)
  \/ \E c \in Chan : MscOff(c) \/ MscOn(c) \/ Close(c)

Spec == Init /\ [][Next]_vars

(* Every thread that can run is run; the modem keeps reading the line, so  *)
(* that a blocking write() ends.                                           *)
FairSpec ==
  /\ Spec
  /\ \A c \in Chan : WF_vars(PollThread(c))
  /\ WF_vars(WriteFrame(Asm))

-----------------------------------------------------------------------------
(* What write_frame and handle_channel_data keep in range: the bytes read  *)
(* and written, the retries, the pieces on the line.                       *)
Frames == Seq(Int)

TypeOK ==
  /\ cmux_mode \in {"basic", "advanced"}
  /\ opened \in [Chan -> BOOLEAN] /\ tx_fc_off \in [Chan -> BOOLEAN]
  /\ taken \in [Chan -> Nat] /\ \A c \in Chan : taken[c] <= AppBytes[c]
  /\ len \in [Chan -> 0 .. ReadMax] /\ written \in [Chan -> 0 .. ReadMax]
  /\ tries \in [Chan -> 0 .. Retries - 1]
  /\ pc \in [Proc -> States]
  /\ frame \in [Proc -> Frames]
  /\ write_frame_lock \in Proc \cup {"none"}
  /\ adv_frame_buf \in [by : Proc, bytes : Frames]
  /\ tail \in Seq([by : Proc, bytes : Frames])
  /\ msc \in 0 .. MscBudget
  /\ reads \in [Chan -> Nat] /\ wakes \in [Chan -> 0 .. WakeBudget]
  /\ faulted \in BOOLEAN
  /\ failed \subseteq {"TXTHREAD_SELECT_ERR", "TXTHREAD_ERR", "SERIAL_WRITE_ERR"}

(* Frames of different threads never mix on the line, also when one of the *)
(* three writes of a frame fails half way and the frame stays unfinished.  *)
FramesWhole ==
  /\ Len(tail) <= 3
  /\ \A i \in DOMAIN tail : tail[i].by = write_frame_lock

Inside(c) == IF pc[c] = "unlock" THEN Len(frame[c]) ELSE 0
Counted(c) == taken[c] - len[c] + written[c] + Inside(c)

(* The modem receives the bytes of a channel in the order the application  *)
(* wrote them, none lost or repeated by the cutting into reads and frames, *)
(* the retries or the switch between threads; and while the channel is     *)
(* open, exactly those that handle_channel_data counts as written.         *)
ChannelDataInOrder ==
  \A c \in Chan :
    /\ \A i \in DOMAIN got[c] : got[c][i] = i
    /\ opened[c] => Len(got[c]) = Counted(c)

(* A channel that was told to stop reads its pty at most once more before  *)
(* it waits, whatever the thread was doing when the command came, and once *)
(* more for each spurious wakeup.                                          *)
OneReadAfterOff ==
  \A c \in Chan : tx_fc_off[c] => reads[c] <= 1 + wakes[c]

(* With a working line and open channels, everything the applications      *)
(* write reaches the modem unless it stays stopped, and every command is   *)
(* acknowledged.                                                           *)
AllSent ==
  \/ <>(faulted \/ \E c \in Chan : ~opened[c])
  \/ <>[](/\ \A c \in Chan : Len(got[c]) = AppBytes[c] \/ tx_fc_off[c]
          /\ Len(got[Asm]) = msc)
=============================================================================
