------------------------------- MODULE MuxRing -------------------------------
(***************************************************************************)
(* The receive path of gsm0710muxd up to the frame parser: the circular    *)
(* buffer GSM0710_Buffer, the thread that fills it from the modem's serial *)
(* line (poll_thread_serial calling thread_serial_device_read) and the     *)
(* wait loop of the thread that empties it (assemble_frame_thread).        *)
(*                                                                         *)
(* The parser differs between the advanced and the basic multiplexer mode: *)
(* MuxRxAdv extends this module with the parser of the advanced mode.       *)
(*                                                                         *)
(* Bytes keep their identity: the modem's bytes are the sequence line, and *)
(* the byte at position k of it is what the k-th consumed byte must be.    *)
(***************************************************************************)
EXTENDS Integers, Sequences

CONSTANTS
  Byte,       \* the bytes of the serial line
  BufSize,    \* GSM0710_BUFFER_SIZE, the capacity of the ring and of adv_data
  Lines       \* the byte sequences the modem may send

ASSUME RingAssumption ==
  /\ BufSize \in Nat \ {0}
  /\ Lines \subseteq Seq(Byte)

VARIABLES
  line,            \* the bytes the modem sends, fixed at the start
  sent,            \* how many of them read(serial.fd) has returned
  consumed,        \* how many bytes the parser has taken out of the ring
  data,            \* buf->data
  readp, writep,   \* indices of buf->readp and buf->writep in buf->data
  datacount,       \* buf->datacount
  newdataready,    \* buf->newdataready
  input_sleeping,  \* buf->input_sleeping
  muxing,          \* serial->state = MUX_STATE_MUXING
  rd,              \* where the serial reader thread is
  rdbuf,           \* its local array, the bytes of one read()
  as               \* where the assembler thread is

ringVars == <<line, sent, consumed, data, readp, writep, datacount,
              newdataready, input_sleeping, muxing, rd, rdbuf>>

RdStates == {"poll", "copy", "count", "ready", "signal",
             "full", "sleep", "woken", "ended"}

Slots == 0 .. BufSize - 1

(* Mutations: BM_A in place of A is a mistake this code could contain. The *)
(* index is one past the end before it wraps; one slot too many is free.   *)
BM_Free == BufSize - datacount + 1

(* The step of gsm0710_buffer_inc, for an offset of at most BufSize: past  *)
(* the last slot (endp) the index continues at the first one.              *)
Wrap(i) == IF i >= BufSize THEN i - BufSize ELSE i

Free == BufSize - datacount

RingInit ==
  /\ line \in Lines
  /\ sent = 0
  /\ consumed = 0
  /\ data \in [Slots -> {CHOOSE b \in Byte : TRUE}]
  /\ readp = 0 /\ writep = 0 /\ datacount = 0
  /\ newdataready = 0 /\ input_sleeping = 0
  /\ muxing = TRUE
  /\ rd = "poll" /\ rdbuf = <<>>

-----------------------------------------------------------------------------
(* The serial reader thread.                                               *)

(* Free space: read() returns between one byte and what fits.              *)
RdRead ==
  /\ rd = "poll" /\ muxing
  /\ Free > 0
  /\ \E len \in 1 .. Free :
       /\ sent + len <= Len(line)
       /\ rdbuf' = SubSeq(line, sent + 1, sent + len)
       /\ sent' = sent + len
  /\ rd' = "copy"
  /\ UNCHANGED <<line, consumed, data, readp, writep, datacount, newdataready,
                 input_sleeping, muxing, as>>

(* How far slot i lies ahead of writep.                                    *)
Ahead(i) == IF i >= writep THEN i - writep ELSE i - writep + BufSize

(* gsm0710_buffer_write copies before it publishes: one or two memcpy, the *)
(* second one from the start of the ring.                                  *)
RdCopy ==
  /\ rd = "copy"
  /\ LET length == IF Len(rdbuf) < Free THEN Len(rdbuf) ELSE Free
     IN  /\ data' = [i \in Slots |-> IF Ahead(i) < length
                                     THEN rdbuf[Ahead(i) + 1] ELSE data[i]]
         /\ writep' = Wrap(writep + length)
  /\ rd' = "count"
  /\ UNCHANGED <<line, sent, consumed, readp, datacount, newdataready,
                 input_sleeping, muxing, rdbuf, as>>

(* Under datacount_lock.                                                   *)
RdCount ==
  /\ rd = "count"
  /\ datacount' = datacount + Len(rdbuf)
  /\ rdbuf' = <<>>
  /\ rd' = "ready"
  /\ UNCHANGED <<line, sent, consumed, data, readp, writep, newdataready,
                 input_sleeping, muxing, as>>

(* Under newdataready_lock; the signal follows after the unlock.           *)
RdReady ==
  /\ rd = "ready"
  /\ newdataready' = 1
  /\ rd' = "signal"
  /\ UNCHANGED <<line, sent, consumed, data, readp, writep, datacount,
                 input_sleeping, muxing, rdbuf, as>>

BM_RdSignal ==   \* nobody is signalled
  /\ rd = "signal"
  /\ rd' = "poll"
  /\ UNCHANGED <<line, sent, consumed, data, readp, writep, datacount,
                 newdataready, input_sleeping, muxing, rdbuf, as>>

RdSignal ==
  /\ rd = "signal"
  /\ as' = IF as = "wait" THEN "check" ELSE as
  /\ rd' = "poll"
  /\ UNCHANGED <<line, sent, consumed, data, readp, writep, datacount,
                 newdataready, input_sleeping, muxing, rdbuf>>

(* No free space: the thread takes bufferready_lock, which it holds while  *)
(* rd is "full", and announces that it is about to sleep.                  *)
RdFull ==
  /\ rd = "poll" /\ muxing
  /\ Free = 0
  /\ input_sleeping' = 1
  /\ rd' = "full"
  /\ UNCHANGED <<line, sent, consumed, data, readp, writep, datacount,
                 newdataready, muxing, rdbuf, as>>

(* The while around pthread_cond_wait(&bufferready_signal), entered with   *)
(* the lock held or re-entered after a wakeup.                             *)
RdSleep ==
  /\ rd \in {"full", "woken"}
  /\ Free = 0
  /\ rd' = "sleep"
  /\ UNCHANGED <<line, sent, consumed, data, readp, writep, datacount,
                 newdataready, input_sleeping, muxing, rdbuf, as>>

RdResume ==
  /\ rd \in {"full", "woken"}
  /\ Free > 0
  /\ input_sleeping' = 0
  /\ rd' = "poll"
  /\ UNCHANGED <<line, sent, consumed, data, readp, writep, datacount,
                 newdataready, muxing, rdbuf, as>>

(* POSIX lets pthread_cond_wait return without a signal.                   *)
RdSpurious ==
  /\ rd = "sleep"
  /\ rd' = "woken"
  /\ UNCHANGED <<line, sent, consumed, data, readp, writep, datacount,
                 newdataready, input_sleeping, muxing, rdbuf, as>>

(* In any other state of the multiplexer the read function returns 1 and   *)
(* poll_thread_serial ends.                                                *)
RdEnd ==
  /\ rd = "poll" /\ ~muxing
  /\ rd' = "ended"
  /\ UNCHANGED <<line, sent, consumed, data, readp, writep, datacount,
                 newdataready, input_sleeping, muxing, rdbuf, as>>

(* Another thread moves serial.state on (close down, dead channel).        *)
LeaveMuxing ==
  /\ muxing
  /\ muxing' = FALSE
  /\ UNCHANGED <<line, sent, consumed, data, readp, writep, datacount,
                 newdataready, input_sleeping, rd, rdbuf, as>>

Reader ==
  \/ RdRead \/ RdCopy \/ RdCount \/ RdReady \/ RdSignal
  \/ RdFull \/ RdSleep \/ RdResume \/ RdEnd

-----------------------------------------------------------------------------
(* The wait loop of assemble_frame_thread, under newdataready_lock.        *)

NothingNew == datacount = 0 \/ newdataready = 0

AsWait ==
  /\ as = "check"
  /\ NothingNew /\ input_sleeping # 1
  /\ as' = "wait"
  /\ UNCHANGED ringVars

(* A sleeping reader means a full ring: the thread parses without waiting. *)
AsGo ==
  /\ as = "check"
  /\ ~NothingNew \/ input_sleeping = 1
  /\ newdataready' = 0
  /\ as' = "find"
  /\ UNCHANGED <<line, sent, consumed, data, readp, writep, datacount,
                 input_sleeping, muxing, rd, rdbuf>>

AsSpurious ==
  /\ as = "wait"
  /\ as' = "check"
  /\ UNCHANGED ringVars

(* What a parser sees and does: the byte at readp, taken off the ring by   *)
(* gsm0710_buffer_inc under datacount_lock.                                *)
Current == data[readp]

Consume ==
  /\ readp' = Wrap(readp + 1)
  /\ datacount' = datacount - 1
  /\ consumed' = consumed + 1
  /\ UNCHANGED <<line, sent, data, writep, newdataready, input_sleeping,
                 muxing, rd, rdbuf>>

BM_SignalReader ==   \* the signal is forgotten
  /\ rd # "full"
  /\ UNCHANGED ringVars

(* After a frame, extract_frames signals bufferready_signal if             *)
(* input_sleeping is set. It needs bufferready_lock, free unless rd = "full"*)
SignalReader ==
  /\ rd # "full"
  /\ rd' = IF input_sleeping = 1 /\ rd = "sleep" THEN "woken" ELSE rd
  /\ UNCHANGED <<line, sent, consumed, data, readp, writep, datacount,
                 newdataready, input_sleeping, muxing, rdbuf>>

-----------------------------------------------------------------------------
(* The unread bytes, in the order the parser will meet them.               *)
Unread == [i \in 1 .. datacount |-> data[Wrap(readp + i - 1)]]

(* GSM0710_Buffer as the queue it is meant to be: put are the published    *)
(* bytes, in the queue those the parser has not taken.                     *)
Queue == INSTANCE ByteQueue WITH
           Cap <- BufSize, Inputs <- Lines, input <- line,
           put <- consumed + datacount, queue <- Unread

(* The ring behaves as a bounded queue: whatever the chunks of read(), the *)
(* interleaving of the two threads and the copy that runs before datacount *)
(* is raised, a step puts the next bytes of the line behind the unread     *)
(* ones, takes the oldest, or leaves all of them as they are.              *)
ImplementsQueue == Queue!Spec

(* Bytes that read() has returned and that are not published yet.          *)
InFlight == IF rd \in {"copy", "count"} THEN Len(rdbuf) ELSE 0

RingTypeOK ==
  /\ line \in Lines
  /\ sent \in 0 .. Len(line)
  /\ consumed \in 0 .. Len(line)
  /\ data \in [Slots -> Byte]
  /\ readp \in Slots /\ writep \in Slots
  /\ datacount \in 0 .. BufSize
  /\ newdataready \in {0, 1} /\ input_sleeping \in {0, 1}
  /\ muxing \in BOOLEAN
  /\ rd \in RdStates
  /\ rdbuf \in Seq(Byte)
=============================================================================
