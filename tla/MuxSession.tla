------------------------------ MODULE MuxSession ------------------------------
(***************************************************************************)
(* The life of a multiplexer session in gsm0710muxd: the state machine     *)
(* watchdog(), which main() calls in its loop, which a channel's thread    *)
(* calls when it ends and which the assembler thread calls when it meets a *)
(* channel that waits to be reopened; the control frames that the          *)
(* assembler thread answers in extract_frames; the applications that hang  *)
(* up; and the end of the process.                                         *)
(*                                                                         *)
(* watch_lock lets one caller at a time into watchdog(), so that one       *)
(* position, wd, serves for all of them. Threads of a channel are counted: *)
(* poll[c] of them select() on the channel's present descriptor, stale[c]  *)
(* on one that another thread has closed.                                  *)
(*                                                                         *)
(* The modem answers each command at once, but its answers are read later. *)
(* Frames of data (MuxTx, MuxRxFlow) are left out, except for what they    *)
(* find when they are written to a channel without a descriptor. A write to*)
(* the serial device may fail or be short at any time: write_frame then    *)
(* keeps its lock, and whoever writes the next frame waits for ever.       *)
(***************************************************************************)
EXTENDS Integers, Sequences, FiniteSets, SequencesExt

CONSTANTS
  NChan,         \* configured data channels, MUXD_CH_NUM_ALL - 1
  vir_ports,     \* the command line's number of virtual ports
  CmdLines,      \* what the command line says of cmux_mode, ping and timeout
  Sessions,      \* bound: how often the serial device is opened
  Budgets        \* bounds: how often an application closes its pty (hangups);
                 \* how much goes wrong (odd): calls of the system that fail,
                 \* wakeups without a signal, frames that a cooperative modem
                 \* would not send; and whether it sends such frames before
                 \* the first channel setup is complete (early)

ASSUME SessionAssumption ==
  /\ NChan \in Nat \ {0} /\ vir_ports \in Nat \ {0} /\ Sessions \in Nat \ {0}
  /\ CmdLines \subseteq [cmux_mode : {"basic", "advanced"}, use_ping : Nat,
                          use_timeout : BOOLEAN]
  /\ Budgets \subseteq [hangups : Nat, odd : Nat, early : BOOLEAN]

Chan == 1 .. NChan
All  == 0 .. NChan         \* with the control channel
Run  == 1 .. Sessions      \* the threads started in each session

VARIABLES
  cmd,                \* the command line
  state,              \* serial.state
  serial_fd,          \* serial.fd >= 0
  session,            \* how often the device was opened
  ping_number,        \* serial.ping_number
  fd,                 \* channel->fd >= 0
  opened, reopen, sabm_ua_pending, disc_ua_pending,   \* as in Channel
  pts_reopen,
  sabm_ua_received, mux_setup_chnl_complete, rild_started,
  close_down_send_disc_for_all_chnl,
  watch_lock,         \* who is in watchdog(), or has left it locked
  wd, wi,             \* where, and its loop index
  main,               \* where the main thread is
  asm, rd,            \* the assembler and the serial reader of each session
  poll, stale,        \* see above: how many
  telling,            \* threads of a channel between reopen and pts_reopen
  callers,            \* ended threads of channels that wait for watch_lock
  line, inbox,        \* frames of the modem: not read yet, read
  wf_stuck,           \* write_frame_lock was left locked
  main_exit_signal,   \* an assertion or a signal has set it
  pty_trouble,        \* a pty could not be opened, or was asked for by the
                      \* thread of a closed one before rild was started
  odd, hangups, early,   \* what is left of the budget
  discs,              \* channels to which close_devices sent DISC
  crossed             \* a pty was hung up while watchdog() reopened others

devVars  == <<state, serial_fd, session, ping_number>>
chanVars == <<fd, opened, sabm_ua_pending, disc_ua_pending>>
reVars   == <<reopen, pts_reopen>>
setVars  == <<sabm_ua_received, mux_setup_chnl_complete, rild_started>>
thrVars  == <<poll, stale, telling, callers>>
wdVars   == <<watch_lock, wd, wi>>
procVars == <<main, asm, rd>>
lineVars == <<line, inbox, wf_stuck>>
exitVars == <<main_exit_signal, pty_trouble>>
histVars == <<discs, crossed>>
envVars  == <<odd, hangups, early, histVars>>
vars == <<cmd, devVars, chanVars, reVars, setVars,
          close_down_send_disc_for_all_chnl, thrVars, wdVars, procVars,
          lineVars, exitVars, envVars>>

Frame(t, c) == [type |-> t, ch |-> c]
Types == {"UA", "DM", "DISC", "SABM", "CLD", "DATA"}

Init ==
  /\ cmd \in CmdLines
  /\ state = "OPENING" /\ serial_fd = FALSE /\ session = 0 /\ ping_number = 0
  /\ fd = [c \in Chan |-> FALSE] /\ opened = [c \in All |-> FALSE]
  /\ reopen = [c \in Chan |-> FALSE]
  /\ sabm_ua_pending = [c \in All |-> FALSE]
  /\ disc_ua_pending = [c \in All |-> FALSE]
  /\ pts_reopen = FALSE
  /\ sabm_ua_received = 0 /\ mux_setup_chnl_complete = FALSE
  /\ rild_started = FALSE
  /\ close_down_send_disc_for_all_chnl = FALSE
  /\ watch_lock = "none" /\ wd = "none" /\ wi = 1
  /\ main = "loop"
  /\ asm = [s \in Run |-> "none"] /\ rd = [s \in Run |-> "none"]
  /\ poll = [c \in Chan |-> 0] /\ stale = [c \in Chan |-> 0]
  /\ telling = [c \in Chan |-> 0] /\ callers = 0
  /\ line = <<>> /\ inbox = <<>> /\ wf_stuck = FALSE
  /\ main_exit_signal = FALSE /\ pty_trouble = FALSE
  /\ \E b \in Budgets : odd = b.odd /\ hangups = b.hangups /\ early = b.early
  /\ discs = {} /\ crossed = FALSE

-----------------------------------------------------------------------------
(* Helpers.                                                                *)

(* Gsm0710Muxd_Assert in the release build: main() is to exit.             *)
Gsm0710Muxd_Assert == main_exit_signal' = TRUE

(* write_frame, and what the modem answers to it. A write that fails or is *)
(* short, as any does without a serial device, returns 0 and leaves        *)
(* write_frame_lock locked (MuxTx); no caller looks at the result.         *)
Sent(answer) == ~wf_stuck /\ serial_fd /\ line' = line \o answer /\ UNCHANGED wf_stuck
Write(answer) ==
  \/ Sent(answer) /\ UNCHANGED odd
  \/ /\ ~wf_stuck /\ wf_stuck' = TRUE /\ UNCHANGED line
     /\ IF serial_fd THEN odd > 0 /\ odd' = odd - 1 ELSE UNCHANGED odd

(* Something goes wrong: in the system, or in the modem.                   *)
Trouble == odd > 0 /\ odd' = odd - 1 /\ UNCHANGED <<hangups, early, histVars>>
CanBeOdd == odd > 0 /\ (early \/ rild_started)

(* The modem acknowledges, refuses, or does not answer.                    *)
Answered(c) ==
  \/ Write(<<Frame("UA", c)>>)
  \/ /\ CanBeOdd /\ odd' = odd - 1
     /\ Sent(<<Frame("DM", c)>>) \/ Sent(<<>>)

(* logical_channel_close of the channels in S. Nobody tells their threads. *)
CloseChannels(S) ==
  /\ fd' = [c \in Chan |-> fd[c] /\ c \notin S]
  /\ opened' = [c \in All |-> opened[c] /\ c \notin S]
  /\ sabm_ua_pending' = [c \in All |-> sabm_ua_pending[c] /\ c \notin S]
  /\ disc_ua_pending' = [c \in All |-> disc_ua_pending[c] /\ c \notin S]
  /\ stale' = [c \in Chan |-> IF c \in S THEN stale[c] + poll[c] ELSE stale[c]]
  /\ poll' = [c \in Chan |-> IF c \in S THEN 0 ELSE poll[c]]

-----------------------------------------------------------------------------
(* The callers of watchdog().                                              *)

BM_MainLoop ==   \* main_exit_signal is not looked at
  /\ main = "loop"
  /\ main' = "call"
  /\ UNCHANGED <<cmd, devVars, chanVars, reVars, setVars,
                 close_down_send_disc_for_all_chnl, thrVars, wdVars, asm, rd,
                 lineVars, exitVars, envVars>>

(* The loop of main(): sleep(5), then this test.                           *)
MainLoop ==
  /\ main = "loop"
  /\ main' = IF main_exit_signal THEN "final" ELSE "call"
  /\ UNCHANGED <<cmd, devVars, chanVars, reVars, setVars,
                 close_down_send_disc_for_all_chnl, thrVars, wdVars, asm, rd,
                 lineVars, exitVars, envVars>>

BM_Entry ==   \* the session is not ended by the modem's close down
  CASE state = "OPENING"      -> "open"
    [] state = "INITILIZING"  -> "start"
    [] state = "CLOSING"      -> "disc"
    [] OTHER                  -> "muxing"

Entry == CASE state = "OPENING"      -> "open"
           [] state = "INITILIZING"  -> "start"
           [] state = "MUXING"       -> "muxing"
           [] state = "CLOSING"      -> "disc"
           [] state = "PEER_CLOSING" -> "shutdown"

Acquire(p) ==
  /\ watch_lock = "none"
  /\ watch_lock' = p /\ wd' = Entry /\ wi' = 1
  /\ UNCHANGED <<cmd, devVars, chanVars, reVars, setVars, rd,
                 close_down_send_disc_for_all_chnl, poll, stale, telling,
                 lineVars, exitVars, envVars>>

MainCalls == main = "call" /\ main' = "in" /\ Acquire("Main") /\ UNCHANGED <<asm, callers>>

AsmCalls(s) ==
  /\ asm[s] = "call"
  /\ asm' = [asm EXCEPT ![s] = "in"]
  /\ Acquire("Asm") /\ UNCHANGED <<main, callers>>

HelperCalls ==
  /\ callers > 0
  /\ callers' = callers - 1
  /\ Acquire("Helper") /\ UNCHANGED <<main, asm>>

(* Return from watchdog(). main() goes on or leaves its loop; the assembler*)
(* writes its frame again; a channel's thread ends.                        *)
Resume(mainNext) ==
  /\ wd' = "none" /\ wi' = 1
  /\ main' = IF watch_lock = "Main" THEN mainNext ELSE main
  /\ asm' = [s \in Run |-> IF asm[s] = "in" THEN "idle" ELSE asm[s]]

Leave == watch_lock' = "none" /\ Resume("loop")

(* The error returns do not unlock watch_lock.                             *)
ReturnError(mainNext) == watch_lock' = "leaked" /\ Resume(mainNext)

-----------------------------------------------------------------------------
(* watchdog(): OPENING and INITILIZING.                                    *)

(* open_serial_device initializes every channel before it opens the device.*)
WdOpen ==
  /\ wd = "open" /\ session < Sessions
  /\ CloseChannels(All)
  /\ reopen' = [c \in Chan |-> FALSE]
  /\ serial_fd' = TRUE /\ session' = session + 1
  /\ ping_number' = 0 /\ state' = "INITILIZING"
  /\ wd' = "start"
  /\ UNCHANGED <<cmd, pts_reopen, setVars, close_down_send_disc_for_all_chnl,
                 telling, callers, watch_lock, wi, procVars, lineVars, exitVars,
                 envVars>>

WdOpenFails ==
  /\ Trouble /\ wd = "open"
  /\ CloseChannels(All)
  /\ reopen' = [c \in Chan |-> FALSE]
  /\ ReturnError("final")
  /\ UNCHANGED <<cmd, devVars, pts_reopen, setVars, rd,
                 close_down_send_disc_for_all_chnl, telling, callers, lineVars,
                 exitVars>>

(* start_muxer: the AT dialogue eats what is left on the line.             *)
WdStart ==
  /\ wd = "start"
  /\ state' = "MUXING" /\ line' = <<>>
  /\ wd' = "threads"
  /\ UNCHANGED <<cmd, serial_fd, session, ping_number, chanVars, reVars,
                 setVars, close_down_send_disc_for_all_chnl, thrVars, watch_lock,
                 wi, procVars, inbox, wf_stuck, exitVars, envVars>>

WdStartFails ==
  /\ Trouble /\ wd = "start"
  /\ Gsm0710Muxd_Assert /\ ReturnError("final")
  /\ UNCHANGED <<cmd, devVars, chanVars, reVars, setVars, rd,
                 close_down_send_disc_for_all_chnl, thrVars, lineVars, pty_trouble>>

(* Another assembler and another serial reader.                            *)
WdAssembler ==
  /\ wd = "threads"
  /\ asm' = [asm EXCEPT ![session] = "idle"]
  /\ wd' = "reader"
  /\ UNCHANGED <<cmd, devVars, chanVars, reVars, setVars, main, rd,
                 close_down_send_disc_for_all_chnl, thrVars, watch_lock, wi,
                 lineVars, exitVars, envVars>>

WdReader ==
  /\ wd = "reader"
  /\ rd' = [rd EXCEPT ![session] = "check"]
  /\ wd' = "sabm"
  /\ UNCHANGED <<cmd, devVars, chanVars, reVars, setVars, main, asm,
                 close_down_send_disc_for_all_chnl, thrVars, watch_lock, wi,
                 lineVars, exitVars, envVars>>

WdThreadsFail ==
  /\ Trouble /\ wd \in {"threads", "reader"}
  /\ Gsm0710Muxd_Assert /\ ReturnError("final")
  /\ UNCHANGED <<cmd, devVars, chanVars, reVars, setVars, rd,
                 close_down_send_disc_for_all_chnl, thrVars, lineVars, pty_trouble>>

WdSabm ==
  /\ wd = "sabm"
  /\ sabm_ua_pending' = [sabm_ua_pending EXCEPT ![0] = TRUE]
  /\ Answered(0)
  /\ wd' = "alloc"
  /\ UNCHANGED <<cmd, devVars, fd, opened, disc_ua_pending, reVars, setVars,
                 close_down_send_disc_for_all_chnl, thrVars, watch_lock, wi,
                 procVars, inbox, exitVars, hangups, early, histVars>>

(* c_alloc_channel takes the first channel without a descriptor; when all  *)
(* have one, it goes on with the last of them.                             *)
Allocated == IF \E c \in Chan : ~fd[c]
             THEN CHOOSE c \in Chan : ~fd[c] /\ \A d \in Chan : d < c => fd[d]
             ELSE NChan

(* logical_channel_establish: a pty, a thread that reads it, SABM.         *)
WdAlloc ==
  /\ wd = "alloc" /\ wi <= vir_ports /\ state = "MUXING"
  /\ fd' = [fd EXCEPT ![Allocated] = TRUE]
  /\ poll' = [poll EXCEPT ![Allocated] = @ + 1]
  /\ sabm_ua_pending' = [sabm_ua_pending EXCEPT ![Allocated] = TRUE]
  /\ Answered(Allocated)
  /\ wi' = wi + 1
  /\ UNCHANGED <<cmd, devVars, opened, disc_ua_pending, reVars, setVars,
                 close_down_send_disc_for_all_chnl, stale, telling, callers,
                 watch_lock, wd, procVars, inbox, exitVars, hangups, early,
                 histVars>>

(* setup_pty_interface fails, with or without an open descriptor.          *)
WdAllocFails ==
  /\ Trouble
  /\ wd = "alloc" /\ wi <= vir_ports /\ state = "MUXING"
  /\ \E ok \in BOOLEAN : fd' = [fd EXCEPT ![Allocated] = ok]
  /\ Gsm0710Muxd_Assert /\ pty_trouble' = TRUE
  /\ wi' = wi + 1
  /\ UNCHANGED <<cmd, devVars, opened, sabm_ua_pending, disc_ua_pending,
                 reVars, setVars, close_down_send_disc_for_all_chnl, thrVars,
                 watch_lock, wd, procVars, lineVars>>

WdAllocRefused ==
  /\ wd = "alloc" /\ wi <= vir_ports /\ state # "MUXING"
  /\ ReturnError(IF main_exit_signal THEN "final" ELSE "ended")
  /\ UNCHANGED <<cmd, devVars, chanVars, reVars, setVars, rd,
                 close_down_send_disc_for_all_chnl, thrVars, lineVars,
                 exitVars, envVars>>

(* The wait for the end of the channel setup, under                        *)
(* setup_chnl_complete_lock.                                               *)
WdSetup ==
  /\ wd = "alloc" /\ wi > vir_ports
  /\ wd' = IF mux_setup_chnl_complete THEN "rild" ELSE "wait"
  /\ mux_setup_chnl_complete' = FALSE
  /\ UNCHANGED <<cmd, devVars, chanVars, reVars, sabm_ua_received,
                 rild_started, close_down_send_disc_for_all_chnl, thrVars,
                 watch_lock, wi, procVars, lineVars, exitVars, envVars>>

(* pthread_cond_wait may return without a signal; the flag is not looked   *)
(* at again.                                                               *)
WdSpurious ==
  /\ wd = "wait" /\ Trouble
  /\ wd' = "woken"
  /\ UNCHANGED <<cmd, devVars, chanVars, reVars, setVars,
                 close_down_send_disc_for_all_chnl, thrVars, watch_lock, wi,
                 procVars, lineVars, exitVars>>

WdWoken ==
  /\ wd = "woken"
  /\ mux_setup_chnl_complete' = FALSE
  /\ wd' = "rild"
  /\ UNCHANGED <<cmd, devVars, chanVars, reVars, sabm_ua_received,
                 rild_started, close_down_send_disc_for_all_chnl, thrVars,
                 watch_lock, wi, procVars, lineVars, exitVars, envVars>>

(* The first time, the RIL daemon is started.                              *)
WdRild ==
  /\ wd = "rild"
  /\ rild_started' = TRUE
  /\ Leave
  /\ UNCHANGED <<cmd, devVars, chanVars, reVars, sabm_ua_received, rd,
                 mux_setup_chnl_complete, close_down_send_disc_for_all_chnl,
                 thrVars, lineVars, exitVars, envVars>>

-----------------------------------------------------------------------------
(* watchdog(): MUXING.                                                     *)

WdMuxing ==
  /\ wd = "muxing"
  /\ wd' = IF pts_reopen THEN "reopen" ELSE "ping"
  /\ UNCHANGED <<cmd, devVars, chanVars, reVars, setVars,
                 close_down_send_disc_for_all_chnl, thrVars, watch_lock, wi,
                 procVars, lineVars, exitVars, envVars>>

(* setup_pty_interface starts the channel's new thread ...                 *)
WdReopen ==
  /\ wd = "reopen" /\ wi <= NChan /\ reopen[wi]
  /\ fd' = [fd EXCEPT ![wi] = TRUE]
  /\ poll' = [poll EXCEPT ![wi] = @ + 1]
  /\ wd' = "clear"
  /\ UNCHANGED <<cmd, devVars, opened, sabm_ua_pending, disc_ua_pending,
                 reVars, setVars, close_down_send_disc_for_all_chnl, stale,
                 telling, callers, watch_lock, wi, procVars, lineVars, exitVars,
                 envVars>>

BM_WdClear ==   \* channel->reopen is not reset
  /\ wd = "clear"
  /\ wd' = "clearAll"
  /\ UNCHANGED <<cmd, devVars, chanVars, reVars, setVars,
                 close_down_send_disc_for_all_chnl, thrVars, watch_lock, wi,
                 procVars, lineVars, exitVars, envVars>>

(* ... then the requests are reset.                                        *)
WdClear ==
  /\ wd = "clear"
  /\ reopen' = [reopen EXCEPT ![wi] = FALSE]
  /\ wd' = "clearAll"
  /\ UNCHANGED <<cmd, devVars, chanVars, pts_reopen, setVars,
                 close_down_send_disc_for_all_chnl, thrVars, watch_lock, wi,
                 procVars, lineVars, exitVars, envVars>>

WdClearAll ==
  /\ wd = "clearAll"
  /\ pts_reopen' = FALSE
  /\ wd' = "reopen" /\ wi' = wi + 1
  /\ UNCHANGED <<cmd, devVars, chanVars, reopen, setVars,
                 close_down_send_disc_for_all_chnl, thrVars, watch_lock,
                 procVars, lineVars, exitVars, envVars>>

WdReopenFails ==
  /\ Trouble /\ wd = "reopen" /\ wi <= NChan /\ reopen[wi]
  /\ \E ok \in BOOLEAN : fd' = [fd EXCEPT ![wi] = ok]
  /\ Gsm0710Muxd_Assert /\ pty_trouble' = TRUE
  /\ wi' = wi + 1
  /\ UNCHANGED <<cmd, devVars, opened, sabm_ua_pending, disc_ua_pending,
                 reVars, setVars, close_down_send_disc_for_all_chnl, thrVars,
                 watch_lock, wd, procVars, lineVars>>

WdReopenNext ==
  /\ wd = "reopen"
  /\ IF wi > NChan THEN wd' = "ping" /\ wi' = 1
                   ELSE ~reopen[wi] /\ wi' = wi + 1 /\ UNCHANGED wd
  /\ UNCHANGED <<cmd, devVars, chanVars, reVars, setVars,
                 close_down_send_disc_for_all_chnl, thrVars, watch_lock,
                 procVars, lineVars, exitVars, envVars>>

(* A ping unless too many were sent; silence of the line for use_timeout   *)
(* seconds, by a time that no frame updates, closes the session too.       *)
WdPing ==
  /\ wd = "ping"
  /\ LET tooMany == cmd.use_ping > 0 /\ ping_number > cmd.use_ping
         ping    == cmd.use_ping > 0 /\ ~tooMany
     IN  /\ state' \in IF tooMany THEN {"CLOSING"}
                       ELSE IF cmd.use_timeout THEN {state, "CLOSING"} ELSE {state}
         /\ IF ping THEN Write(<<>>) /\ ping_number' = ping_number + 1
                    ELSE UNCHANGED <<line, wf_stuck, odd, ping_number>>
  /\ Leave
  /\ UNCHANGED <<cmd, serial_fd, session, chanVars, reVars, setVars, rd,
                 close_down_send_disc_for_all_chnl, thrVars, inbox, exitVars,
                 hangups, early, histVars>>

-----------------------------------------------------------------------------
(* watchdog(): CLOSING, close_devices; and PEER_CLOSING, shutdown_devices. *)

Live == {c \in Chan : fd[c] /\ opened[c]}

(* ua_rsp_for_disc_lock is taken until the wait ...                        *)
WdDisc ==
  /\ wd = "disc"
  /\ close_down_send_disc_for_all_chnl' = TRUE
  /\ discs' = {} /\ wd' = "discSend"
  /\ UNCHANGED <<cmd, devVars, chanVars, reVars, setVars, thrVars, watch_lock,
                 wi, procVars, lineVars, exitVars, odd, hangups, early, crossed>>

(* ... for DISC to one channel after the other, or in the advanced mode for*)
(* a frame that no modem answers.                                          *)
BM_WdDiscSend ==   \* disc_ua_pending is not set for the last channel
  /\ wd = "discSend" /\ wi <= NChan /\ wi' = wi + 1
  /\ IF wi \in Live /\ cmd.cmux_mode = "basic"
     THEN /\ disc_ua_pending' = [disc_ua_pending EXCEPT ![wi] = wi # NChan \/ @]
          /\ discs' = discs \cup {wi}
          /\ Write(<<Frame("UA", wi)>>)
     ELSE /\ IF wi \in Live THEN Write(<<>>) ELSE UNCHANGED <<line, wf_stuck, odd>>
          /\ UNCHANGED <<disc_ua_pending, discs>>
  /\ UNCHANGED <<cmd, devVars, fd, opened, sabm_ua_pending, reVars, setVars,
                 close_down_send_disc_for_all_chnl, thrVars, watch_lock, wd,
                 procVars, inbox, exitVars, hangups, early, crossed>>

WdDiscSend ==
  /\ wd = "discSend" /\ wi <= NChan /\ wi' = wi + 1
  /\ IF wi \in Live /\ cmd.cmux_mode = "basic"
     THEN /\ disc_ua_pending' = [disc_ua_pending EXCEPT ![wi] = TRUE]
          /\ discs' = discs \cup {wi}
          /\ Write(<<Frame("UA", wi)>>)
     ELSE /\ IF wi \in Live THEN Write(<<>>) ELSE UNCHANGED <<line, wf_stuck, odd>>
          /\ UNCHANGED <<disc_ua_pending, discs>>
  /\ UNCHANGED <<cmd, devVars, fd, opened, sabm_ua_pending, reVars, setVars,
                 close_down_send_disc_for_all_chnl, thrVars, watch_lock, wd,
                 procVars, inbox, exitVars, hangups, early, crossed>>

WdDiscSent ==
  /\ wd = "discSend" /\ wi > NChan /\ wi' = 1
  /\ wd' = IF discs = {} \/ ~serial_fd THEN "cld" ELSE "discWait"
  /\ UNCHANGED <<cmd, devVars, chanVars, reVars, setVars, thrVars, watch_lock,
                 close_down_send_disc_for_all_chnl, procVars, lineVars, exitVars,
                 envVars>>

(* ACK_T1_TIMEOUT, or a spurious wakeup.                                   *)
WdDiscTimeout ==
  /\ wd = "discWait"
  /\ close_down_send_disc_for_all_chnl' = FALSE
  /\ wd' = "cld"
  /\ UNCHANGED <<cmd, devVars, chanVars, reVars, setVars, thrVars,
                 watch_lock, wi, procVars, lineVars, exitVars, envVars>>

WdDiscDone ==
  /\ wd = "discDone"
  /\ close_down_send_disc_for_all_chnl' = FALSE
  /\ wd' = "cld"
  /\ UNCHANGED <<cmd, devVars, chanVars, reVars, setVars, thrVars,
                 watch_lock, wi, procVars, lineVars, exitVars, envVars>>

(* The close down command, then the device is closed.                      *)
WdCld ==
  /\ wd = "cld"
  /\ IF serial_fd THEN Write(<<>>) ELSE UNCHANGED <<line, wf_stuck, odd>>
  /\ serial_fd' = FALSE /\ state' = "OPENING"
  /\ Leave
  /\ UNCHANGED <<cmd, session, ping_number, chanVars, reVars, setVars, rd,
                 close_down_send_disc_for_all_chnl, thrVars, inbox, exitVars,
                 hangups, early, histVars>>

(* The answer to the modem's close down command.                           *)
WdShutdown ==
  /\ wd = "shutdown"
  /\ CloseChannels(Live)
  /\ IF serial_fd THEN Write(<<>>) ELSE UNCHANGED <<line, wf_stuck, odd>>
  /\ serial_fd' = FALSE /\ state' = "OPENING"
  /\ Leave
  /\ UNCHANGED <<cmd, session, ping_number, reVars, setVars, telling, rd,
                 callers, close_down_send_disc_for_all_chnl, inbox, exitVars,
                 hangups, early, histVars>>

(* After the loop of main().                                               *)
MainFinal ==
  /\ main = "final"
  /\ CloseChannels(Live)
  /\ serial_fd' = FALSE /\ state' = "OFF"
  /\ main' = "ended"
  /\ UNCHANGED <<cmd, session, ping_number, reVars, setVars, telling,
                 callers, close_down_send_disc_for_all_chnl, wdVars, asm, rd,
                 lineVars, exitVars, envVars>>

-----------------------------------------------------------------------------
(* The serial reader (MuxRing) and the control frames in extract_frames.   *)

RdCheck(s) ==
  /\ rd[s] = "check"
  /\ rd' = [rd EXCEPT ![s] = IF state = "MUXING" THEN "read" ELSE "ended"]
  /\ UNCHANGED <<cmd, devVars, chanVars, reVars, setVars,
                 close_down_send_disc_for_all_chnl, thrVars, wdVars, main, asm,
                 lineVars, exitVars, envVars>>

RdRead(s) ==
  /\ rd[s] = "read" /\ serial_fd
  /\ line # <<>>
  /\ \E n \in {1, Len(line)} :
       /\ inbox' = inbox \o SubSeq(line, 1, n)
       /\ line' = SubSeq(line, n + 1, Len(line))
  /\ rd' = [rd EXCEPT ![s] = "check"]
  /\ UNCHANGED <<cmd, devVars, chanVars, reVars, setVars,
                 close_down_send_disc_for_all_chnl, thrVars, wdVars, main, asm,
                 wf_stuck, exitVars, envVars>>

Got(s, types) == asm[s] = "idle" /\ inbox # <<>> /\ Head(inbox).type \in types
From == Head(inbox).ch
Taken == inbox' = Tail(inbox)

(* UA on an open channel, under ua_rsp_for_disc_lock: it may be the answer *)
(* to a DISC.                                                              *)
AsmUaOpen(s) ==
  /\ Got(s, {"UA"}) /\ opened[From] /\ wd # "discSend"
  /\ IF disc_ua_pending[From]
     THEN CloseChannels({From})
     ELSE UNCHANGED <<chanVars, poll, stale>>
  /\ wd' = IF /\ close_down_send_disc_for_all_chnl /\ wd = "discWait"
              /\ \A c \in Chan : ~disc_ua_pending[c]'
           THEN "discDone" ELSE wd
  /\ Taken
  /\ UNCHANGED <<cmd, devVars, reVars, setVars, telling, callers, watch_lock,
                 wi, close_down_send_disc_for_all_chnl, procVars, line, wf_stuck,
                 exitVars, envVars>>

(* UA to a SABM: the channel is open. The last one of all completes the    *)
(* setup; the signal follows after setup_chnl_complete_lock.               *)
AsmUaSabm(s) ==
  /\ Got(s, {"UA"}) /\ ~opened[From] /\ sabm_ua_pending[From]
  /\ opened' = [opened EXCEPT ![From] = TRUE]
  /\ sabm_ua_pending' = [sabm_ua_pending EXCEPT ![From] = FALSE]
  /\ sabm_ua_received' = sabm_ua_received + 1
  /\ LET complete == sabm_ua_received' = NChan + 1
     IN  /\ mux_setup_chnl_complete' = (complete \/ mux_setup_chnl_complete)
         /\ asm' = [asm EXCEPT ![s] = IF complete THEN "signal" ELSE "idle"]
  /\ Taken
  /\ UNCHANGED <<cmd, devVars, fd, disc_ua_pending, reVars, rild_started,
                 close_down_send_disc_for_all_chnl, thrVars, wdVars, main, rd,
                 line, wf_stuck, exitVars, odd, hangups, early, discs,
                 crossed>>

AsmSignal(s) ==
  /\ asm[s] = "signal"
  /\ wd' = IF wd = "wait" THEN "woken" ELSE wd
  /\ asm' = [asm EXCEPT ![s] = "idle"]
  /\ UNCHANGED <<cmd, devVars, chanVars, reVars, setVars,
                 close_down_send_disc_for_all_chnl, thrVars, watch_lock, wi,
                 main, rd, lineVars, exitVars, envVars>>

(* UA on a channel that is neither open nor being opened.                  *)
AsmUaClosed(s) ==
  /\ Got(s, {"UA"}) /\ ~opened[From] /\ ~sabm_ua_pending[From]
  /\ disc_ua_pending' = [disc_ua_pending EXCEPT ![From] = FALSE]
  /\ Taken
  /\ UNCHANGED <<cmd, devVars, fd, opened, sabm_ua_pending, reVars, setVars,
                 close_down_send_disc_for_all_chnl, thrVars, wdVars, procVars,
                 line, wf_stuck, exitVars, envVars>>

AsmDm(s) ==
  /\ Got(s, {"DM"})
  /\ IF opened[From]
     THEN CloseChannels({From}) /\ UNCHANGED state
     ELSE /\ state' = IF From = 0 THEN "CLOSING" ELSE state
          /\ UNCHANGED <<chanVars, poll, stale>>
  /\ Taken
  /\ UNCHANGED <<cmd, serial_fd, session, ping_number, reVars, setVars,
                 close_down_send_disc_for_all_chnl, telling, callers, wdVars,
                 procVars, line, wf_stuck, exitVars, envVars>>

(* DISC is answered, by UA or DM; on channel 0 it ends the session.        *)
AsmDisc(s) ==
  /\ Got(s, {"DISC"})
  /\ Write(<<>>)
  /\ state' = IF From = 0 /\ opened[0] THEN "PEER_CLOSING" ELSE state
  /\ IF From = 0
     THEN /\ opened' = [opened EXCEPT ![0] = FALSE]
          /\ UNCHANGED <<fd, sabm_ua_pending, disc_ua_pending, poll, stale>>
     ELSE IF opened[From] THEN CloseChannels({From})
                          ELSE UNCHANGED <<chanVars, poll, stale>>
  /\ Taken
  /\ UNCHANGED <<cmd, serial_fd, session, ping_number, reVars, setVars,
                 close_down_send_disc_for_all_chnl, telling, callers, wdVars,
                 procVars, exitVars, hangups, early, histVars>>

(* The modem opens a channel: UA, without a look at the channel.           *)
AsmSabm(s) ==
  /\ Got(s, {"SABM"})
  /\ Write(<<>>)
  /\ opened' = [opened EXCEPT ![From] = TRUE]
  /\ Taken
  /\ UNCHANGED <<cmd, devVars, fd, sabm_ua_pending, disc_ua_pending, reVars,
                 setVars, close_down_send_disc_for_all_chnl, thrVars, wdVars,
                 procVars, exitVars, hangups, early, histVars>>

(* handle_command: the close down command, acknowledged.                   *)
AsmCld(s) ==
  /\ Got(s, {"CLD"})
  /\ Write(<<>>)
  /\ state' = "PEER_CLOSING"
  /\ Taken
  /\ UNCHANGED <<cmd, serial_fd, session, ping_number, chanVars, reVars,
                 setVars, close_down_send_disc_for_all_chnl, thrVars, wdVars,
                 procVars, exitVars, hangups, early, histVars>>

(* Data for a pty. Without a descriptor the thread calls watchdog() for a  *)
(* channel to be reopened, or raises an assertion, and tries again.        *)
AsmData(s) ==
  /\ Got(s, {"DATA"})
  /\ IF fd[From]
     THEN Taken /\ UNCHANGED <<asm, exitVars>>
     ELSE IF reopen[From]
     THEN asm' = [asm EXCEPT ![s] = "call"] /\ UNCHANGED <<inbox, exitVars>>
     ELSE Gsm0710Muxd_Assert /\ UNCHANGED <<inbox, asm, pty_trouble>>
  /\ UNCHANGED <<cmd, devVars, chanVars, reVars, setVars, line, wf_stuck,
                 close_down_send_disc_for_all_chnl, thrVars, wdVars, main, rd,
                 envVars>>

Asm(s) ==
  \/ AsmUaOpen(s) \/ AsmUaSabm(s) \/ AsmSignal(s) \/ AsmUaClosed(s) \/ AsmDm(s)
  \/ AsmDisc(s) \/ AsmSabm(s) \/ AsmCld(s) \/ AsmData(s)

-----------------------------------------------------------------------------
(* The threads of the channels, the modem and the operating system.        *)

(* A read of a channel's thread fails: the thread closes the channel's     *)
(* descriptor and asks for a reopen. A channel that is not open is first an*)
(* assertion of pseudo_device_read.                                        *)
ReadFails(c) ==
  /\ fd' = [fd EXCEPT ![c] = FALSE]
  /\ reopen' = [reopen EXCEPT ![c] = TRUE]
  /\ telling' = [telling EXCEPT ![c] = @ + 1]
  /\ main_exit_signal' = (main_exit_signal \/ ~opened[c])
  /\ crossed' = (crossed \/ wd \in {"reopen", "clear", "clearAll"}
                         \/ \E d \in Chan \ {c} : reopen[d])
  /\ UNCHANGED <<cmd, devVars, opened, sabm_ua_pending, disc_ua_pending,
                 pts_reopen, setVars, close_down_send_disc_for_all_chnl,
                 callers, wdVars, procVars, lineVars, odd, early, discs>>

(* The application has closed its pty ...                                  *)
Dropped(c) == rild_started /\ fd[c] /\ hangups > 0 /\ hangups' = hangups - 1

HangUp(c) ==
  /\ poll[c] > 0 /\ Dropped(c)
  /\ poll' = [poll EXCEPT ![c] = @ - 1]
  /\ ReadFails(c)
  /\ UNCHANGED <<stale, pty_trouble>>

(* ... or the descriptor went away between the thread's select() and its   *)
(* read(), which is of descriptor -1, or of the one that came after it.    *)
StaleRead(c) ==
  /\ stale[c] > 0
  /\ Dropped(c) \/ (~fd[c] /\ UNCHANGED hangups)
  /\ stale' = [stale EXCEPT ![c] = @ - 1 + poll[c]]
  /\ poll' = [poll EXCEPT ![c] = 0]
  /\ pty_trouble' = (pty_trouble \/ ~rild_started)
  /\ ReadFails(c)

BM_Tell(c) ==   \* pts_reopen is not set
  /\ telling[c] > 0
  /\ telling' = [telling EXCEPT ![c] = @ - 1]
  /\ callers' = callers + 1
  /\ UNCHANGED <<cmd, devVars, chanVars, reVars, setVars,
                 close_down_send_disc_for_all_chnl, poll, stale, wdVars,
                 procVars, lineVars, exitVars, envVars>>

(* Then it tells so, and ends by calling watchdog().                       *)
Tell(c) ==
  /\ telling[c] > 0
  /\ pts_reopen' = TRUE
  /\ telling' = [telling EXCEPT ![c] = @ - 1]
  /\ callers' = callers + 1
  /\ UNCHANGED <<cmd, devVars, chanVars, reopen, setVars,
                 close_down_send_disc_for_all_chnl, poll, stale, wdVars,
                 procVars, lineVars, exitVars, envVars>>

(* select() on a descriptor that another thread has closed, or data of an  *)
(* application on a channel that is not open.                              *)
StaleSelect(c) ==
  /\ stale[c] > 0 \/ (rild_started /\ poll[c] > 0 /\ ~opened[c])
  /\ Gsm0710Muxd_Assert
  /\ UNCHANGED <<cmd, devVars, chanVars, reVars, setVars, wdVars, procVars,
                 close_down_send_disc_for_all_chnl, thrVars, lineVars, pty_trouble, envVars>>

(* A retry thread (MuxRxFlow) finds no descriptor: as AsmData, but in a    *)
(* thread of its own, which waits for watch_lock with the ended ones.      *)
RetryWrite(c) ==
  /\ rild_started /\ ~fd[c] /\ Trouble
  /\ IF reopen[c] THEN callers' = callers + 1 /\ UNCHANGED exitVars
                  ELSE Gsm0710Muxd_Assert /\ UNCHANGED <<callers, pty_trouble>>
  /\ UNCHANGED <<cmd, devVars, chanVars, reVars, setVars, wdVars, procVars,
                 close_down_send_disc_for_all_chnl, poll, stale, telling, lineVars>>

(* Frames nobody asked for.                                                *)
ModemSends ==
  /\ CanBeOdd /\ serial_fd /\ state = "MUXING"
  /\ odd' = odd - 1
  /\ \E t \in Types, c \in All :
       /\ t = "CLD" => c = 0
       /\ t = "DATA" => c > 0
       /\ line' = Append(line, Frame(t, c))
  /\ UNCHANGED <<cmd, devVars, chanVars, reVars, setVars, thrVars, wdVars,
                 close_down_send_disc_for_all_chnl, procVars, inbox, wf_stuck,
                 exitVars, hangups, early, histVars>>

-----------------------------------------------------------------------------
Wd ==
  \/ WdOpen \/ WdOpenFails \/ WdStart \/ WdStartFails
  \/ WdAssembler \/ WdReader \/ WdThreadsFail \/ WdSabm \/ WdAlloc \/ WdAllocFails
  \/ WdAllocRefused \/ WdSetup \/ WdWoken \/ WdRild
  \/ WdMuxing \/ WdReopen \/ WdReopenFails \/ WdReopenNext \/ WdClear
  \/ WdClearAll \/ WdPing
  \/ WdDisc \/ WdDiscSend \/ WdDiscSent \/ WdDiscTimeout \/ WdDiscDone \/ WdCld \/ WdShutdown

Running == main # "ended"

Next ==
  /\ Running
  /\ \/ Wd \/ WdSpurious
     \/ MainLoop \/ MainCalls \/ MainFinal \/ HelperCalls
     \/ \E s \in Run : RdCheck(s) \/ RdRead(s) \/ Asm(s) \/ AsmCalls(s)
     \/ \E c \in Chan : HangUp(c) \/ StaleRead(c) \/ Tell(c) \/ StaleSelect(c) \/ RetryWrite(c)
     \/ ModemSends

Spec == Init /\ [][Next]_vars

(* Threads that can run do run. main() sleeps 5 seconds between two calls, *)
(* so that the other callers get watch_lock in the end.                    *)
FairSpec ==
  /\ Spec
  /\ WF_vars(Running /\ (Wd \/ MainLoop \/ MainCalls \/ MainFinal))
  /\ WF_vars(Running /\ \E s \in Run : RdCheck(s) \/ RdRead(s) \/ Asm(s))
  /\ WF_vars(Running /\ \E c \in Chan : Tell(c))
  /\ SF_vars(Running /\ HelperCalls)
  /\ SF_vars(Running /\ \E s \in Run : AsmCalls(s))

-----------------------------------------------------------------------------
(* While the ptys can be opened, each descriptor has exactly one thread    *)
(* that reads it, whatever hangs up, is reopened or closed at the same     *)
(* time. This is about the first session, and about reopens that are asked *)
(* for after its channel setup: c_alloc_channel takes a channel that waits *)
(* to be reopened for a free one, and watchdog() opens it once more.       *)
OneReader ==
  pty_trouble \/ \A c \in Chan : poll[c] = IF fd[c] THEN 1 ELSE 0

(* The wait of close_devices is ended early only when the answer to each   *)
(* of its DISC commands has come and has closed its channel.               *)
DiscsAnswered == wd = "discDone" => \A c \in discs : ~fd[c]

(* A session that is to end after the first channel setup does end: the    *)
(* device is closed, in close_devices or shutdown_devices, although the    *)
(* modem does not answer, applications hang up and other threads hold      *)
(* watch_lock. Only a write to the device that failed prevents it: its     *)
(* lock is kept, and the next frame is waited for under watch_lock.        *)
Stopped == main \in {"final", "ended"}
CloseHandled ==
  (state \in {"CLOSING", "PEER_CLOSING"} /\ rild_started)
    ~> (~serial_fd \/ Stopped \/ wf_stuck)

(* A pty whose application hung up is opened again, unless another one was *)
(* hung up while that was done, the modem closes the channel, the session  *)
(* ends, or a write to the device failed.                                  *)
AllReopened ==
  \A c \in Chan :
    reopen[c] ~> (fd[c] \/ ~opened[c] \/ crossed \/ state # "MUXING" \/ ~serial_fd \/ Stopped
                        \/ pty_trouble \/ wf_stuck)

(* An assertion after the first channel setup ends main(), unless one of   *)
(* the two locks that the error returns of watchdog() and write_frame      *)
(* forget is left locked, or no more sessions are explored.                *)
ExitFollows ==
  (main_exit_signal /\ rild_started)
    ~> (Stopped \/ wd = "open" \/ watch_lock = "leaked" \/ wf_stuck)
=============================================================================
