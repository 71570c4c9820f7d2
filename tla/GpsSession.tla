------------------------------ MODULE GpsSession ------------------------------
(***************************************************************************)
(* Sessions of the GPS HAL, gps_mtk_aosp.c: the framework's thread inside   *)
(* init, start, stop and cleanup, the thread gps_state_thread that reads    *)
(* the control socket pair, the NMEA device and the messages of MNLD, and   *)
(* the five latched conditions of lock_for_sync by which they meet.  A stop *)
(* is asynchronous: it is over when MNLD's HAL_CMD_MNL_DIE was handled.     *)
(*                                                                         *)
(* What a thread does one store or callback after the other is a script:    *)
(* todo[t] holds the steps thread t has still to take.                      *)
(***************************************************************************)
EXTENDS Integers, Sequences, SequencesExt

CONSTANTS
  MaxInits,    \* bound: sessions (calls of init)
  MaxStarts,   \* bound: calls of start
  MaxMsgs,     \* bound: messages MNLD sends on its own
  Kinds,       \* the kinds of those messages
  Faults       \* the faults that may happen, see below

ASSUME FaultsAssumption ==
  Faults \subseteq {"open",   \* /dev/gps or the first send fails in init
                    "codec",  \* gps_state_thread cannot open its codec socket
                    "send",   \* a datagram to MNLD cannot be sent
                    "die",    \* MNLD dies during a session
                    "early"}  \* MNLD dies, or asks, before start or init is through

\* The optional interfaces and the messages that call back through them: the
\* gated ones are made only while the interface is open.
Gated == {"measurement", "navigation"}
Ungated == {"ni", "agps", "ril"}
Plain == {"location", "time", "inject", "epo"}
ASSUME KindsAssumption ==
  Kinds \subseteq Gated \cup Ungated \cup Plain \cup {"iconOn", "iconOff"}

VARIABLES
  fw,          \* the framework's thread: where it is in a call, "idle" outside
  hal,         \* gps_state_thread: "none", "boot", "loop" or in a "script"
  todo,        \* the steps that are left of a thread's script
  init,        \* s->init
  start_flag,  \* s->start_flag
  started,     \* started, the HAL thread's view, which outlives the thread
  flag_unlock, \* the first NMEA sentence of the session has come
  cond,        \* lock_for_sync[...].condtion
  control,     \* commands in the socket pair
  sta,         \* the one GpsStatus record both threads report
  epo,         \* the EPO thread: "none" or "run"
  exit_flag,   \* s->thread_epo_exit_flag
  set, open,   \* interfaces whose callbacks were stored, whose flag is 1
  toMnld, fromMnld, nmea, mnld,        \* MNLD and what is under way to and from it
  seen, wakelocks, icon, mixed, navigating,   \* what the framework knows
  inits, starts, msgs, faulted

hvars == <<hal, started, flag_unlock>>
mvars == <<toMnld, fromMnld, nmea, mnld>>
avars == <<sta, seen, wakelocks, icon, mixed>>
evars == <<epo, exit_flag>>
ivars == <<set, open>>
bvars == <<inits, starts, msgs, faulted>>
vars == <<fw, todo, init, start_flag, cond, control, navigating,
          hvars, mvars, avars, evars, ivars, bvars>>

Threads == {"fw", "hal"}
Conditions == {"M_START", "M_STOP", "M_CLEANUP", "M_INIT", "M_THREAD_EXIT"}
Statuses == {"on", "begin", "end", "off"}

Init ==
  /\ fw = "idle" /\ hal = "none" /\ todo = [t \in Threads |-> <<>>]
  /\ init = FALSE /\ start_flag = 0 /\ started = FALSE /\ flag_unlock = FALSE
  /\ cond = [c \in Conditions |-> FALSE]
  /\ control = <<>> /\ sta = "none"
  /\ epo = "none" /\ exit_flag = FALSE /\ set = {} /\ open = {}
  /\ toMnld = <<>> /\ fromMnld = <<>> /\ nmea = FALSE /\ mnld = "off"
  /\ seen = "none" /\ wakelocks = 0 /\ icon = FALSE /\ mixed = FALSE
  /\ navigating = FALSE
  /\ inits = 0 /\ starts = 0 /\ msgs = 0 /\ faulted = FALSE

-----------------------------------------------------------------------------
(* Latched conditions and datagrams *)

\* get_condition: waits for the latch and takes it.
GetCondition(c) == cond[c] /\ cond' = [cond EXCEPT ![c] = FALSE]
ReleaseCondition(c) == cond' = [cond EXCEPT ![c] = TRUE]

MaxUnderWay == 2   \* bound: datagrams under way in either direction

\* mtk_daemon_send: the datagram is queued, or the send fails.
Send(cmd, ok) ==
  /\ ok \/ "send" \in Faults
  /\ Len(toMnld) < MaxUnderWay
  /\ toMnld' = IF ok THEN Append(toMnld, cmd) ELSE toMnld
  /\ faulted' = (faulted \/ ~ok)
  /\ UNCHANGED <<fromMnld, nmea, mnld, inits, starts, msgs>>

\* A datagram MNLD's part in the session does not depend on.
Tell(ok) ==
  /\ ok \/ "send" \in Faults
  /\ faulted' = (faulted \/ ~ok)
  /\ UNCHANGED <<mvars, inits, starts, msgs>>

-----------------------------------------------------------------------------
(* mtk_gps_init *)

\* The descriptors are opened and the thread is created.
InitThread ==
  /\ fw = "idle" /\ ~init /\ inits < MaxInits
  /\ inits' = inits + 1
  /\ fw' = "initWait" /\ hal' = "boot"
  /\ UNCHANGED <<todo, init, start_flag, cond, control, navigating, started, flag_unlock,
                 mvars, avars, evars, ivars, starts, msgs, faulted>>

\* No device: no thread.  After any other failure gps_state_done waits for the
\* end of a thread that was never created.
InitFails ==
  /\ "open" \in Faults
  /\ fw = "idle" /\ ~init /\ inits < MaxInits
  /\ inits' = inits + 1
  /\ fw' \in {"initWait", "failWait"}
  /\ faulted' = TRUE
  /\ UNCHANGED <<todo, init, start_flag, cond, control, navigating, hvars, mvars, avars,
                 evars, ivars, starts, msgs>>

InitReady ==
  /\ fw = "initWait"
  /\ GetCondition("M_INIT")
  /\ init' = TRUE /\ fw' = "xtra"
  /\ UNCHANGED <<todo, start_flag, control, navigating, hvars, mvars, avars, evars, ivars, bvars>>

\* mtk_gps_epo_interface_init creates the EPO thread, and clears the flag that
\* ends it afterwards; the framework then stores its AGPS, NI and RIL callbacks.
XtraThread ==
  /\ fw = "xtra" /\ fw' = "xtraFlag"
  /\ epo' = "run"
  /\ UNCHANGED <<todo, init, start_flag, cond, control, navigating, hvars, mvars, avars,
                 exit_flag, ivars, bvars>>
XtraFlag ==
  /\ fw = "xtraFlag" /\ fw' = "idle"
  /\ exit_flag' = FALSE
  /\ set' = set \cup Ungated
  /\ UNCHANGED <<todo, init, start_flag, cond, control, navigating, hvars, mvars, avars,
                 epo, open, bvars>>

-----------------------------------------------------------------------------
(* mtk_gps_start *)

StartCall ==
  /\ fw = "idle" /\ init /\ ~navigating /\ starts < MaxStarts
  /\ starts' = starts + 1
  /\ fw' = "startSpin"
  /\ UNCHANGED <<todo, init, start_flag, cond, control, navigating, hvars, mvars, avars,
                 evars, ivars, inits, msgs, faulted>>

BM_StartSend ==
  /\ fw = "startSpin"
  /\ \E ok \in BOOLEAN : /\ Send("start", ok)
                         /\ fw' = IF ok THEN "startWait" ELSE "idle"
                         /\ navigating' = ok
  /\ UNCHANGED <<todo, init, start_flag, cond, control, hvars, avars, evars, ivars>>

\* It polls start_flag, then sends MNL_CMD_START; it returns -1 if it cannot.
StartSend ==
  /\ fw = "startSpin" /\ start_flag = 0
  /\ \E ok \in BOOLEAN : /\ Send("start", ok)
                         /\ fw' = IF ok THEN "startWait" ELSE "idle"
                         /\ navigating' = ok
  /\ UNCHANGED <<todo, init, start_flag, cond, control, hvars, avars, evars, ivars>>

\* A step is a pair; sta is stored, then reported through status_cb(&sta).
ReportScript(s) == <<<<"status", s>>, <<"report", "sta">>>>

StartScript == ReportScript("on") \o ReportScript("begin")
               \o <<<<"wake", "acquire">>, <<"stop", "clear">>, <<"flag", "up">>>>

\* After the first NMEA sentence: gps_state_start, then the callbacks, the wake
\* lock, the stale M_STOP and start_flag.
StartRun ==
  /\ fw = "startWait"
  /\ GetCondition("M_START")
  /\ control' = Append(control, "START")
  /\ todo' = [todo EXCEPT !["fw"] = StartScript]
  /\ fw' = "script"
  /\ mixed' = (mixed \/ todo["hal"] # <<>>)
  /\ UNCHANGED <<init, start_flag, navigating, hvars, mvars, sta, seen, wakelocks, icon,
                 evars, ivars, bvars>>

-----------------------------------------------------------------------------
(* mtk_gps_stop *)

StopCall ==
  /\ fw = "idle" /\ init /\ navigating
  /\ fw' = "stopSpin" /\ navigating' = FALSE
  /\ UNCHANGED <<todo, init, start_flag, cond, control, hvars, mvars, avars, evars, ivars, bvars>>

StopSend ==
  /\ fw = "stopSpin" /\ start_flag = 1
  /\ \E ok \in BOOLEAN : /\ Send("stop", ok)
                         /\ fw' = IF ok THEN "stopCmd" ELSE "idle"
  /\ UNCHANGED <<todo, init, start_flag, cond, control, navigating, hvars, avars, evars, ivars>>

StopCmd ==
  /\ fw = "stopCmd" /\ fw' = "idle"
  /\ control' = Append(control, "STOP")
  /\ UNCHANGED <<todo, init, start_flag, cond, navigating, hvars, mvars, avars, evars, ivars, bvars>>

-----------------------------------------------------------------------------
(* mtk_gps_cleanup *)

\* A failed send is only logged.
CleanupCall ==
  /\ fw = "idle" /\ init /\ ~navigating
  /\ \E ok \in BOOLEAN : Send("cleanup", ok)
  /\ fw' = "cleanTest"
  /\ UNCHANGED <<todo, init, start_flag, cond, control, navigating, hvars, avars, evars, ivars>>

CleanupTest ==
  /\ fw = "cleanTest"
  /\ fw' = IF start_flag = 1 THEN "cleanStop" ELSE "cleanClear"
  /\ UNCHANGED <<todo, init, start_flag, cond, control, navigating, hvars, mvars, avars,
                 evars, ivars, bvars>>

CleanupStopped ==
  /\ fw = "cleanStop" /\ fw' = "cleanClear"
  /\ GetCondition("M_STOP")
  /\ UNCHANGED <<todo, init, start_flag, control, navigating, hvars, mvars, avars, evars,
                 ivars, bvars>>

BM_CleanupClear ==
  /\ fw = "cleanClear" /\ fw' = "cleanQuit"
  /\ UNCHANGED <<todo, init, start_flag, cond, control, navigating, hvars, mvars, avars,
                 evars, ivars, bvars>>

CleanupClear ==
  /\ fw = "cleanClear" /\ fw' = "cleanQuit"
  /\ cond' = [cond EXCEPT !["M_STOP"] = FALSE]
  /\ UNCHANGED <<todo, init, start_flag, control, navigating, hvars, mvars, avars, evars,
                 ivars, bvars>>

\* gps_state_done: the command to quit, and the wait for the thread's end.
CleanupQuit ==
  /\ fw = "cleanQuit" /\ fw' = "cleanDone"
  /\ control' = Append(control, "QUIT")
  /\ UNCHANGED <<todo, init, start_flag, cond, navigating, hvars, mvars, avars, evars,
                 ivars, bvars>>
CleanupDone ==
  /\ fw = "cleanDone" /\ fw' = "cleanEpo"
  /\ GetCondition("M_CLEANUP")
  /\ control' = <<>> /\ init' = FALSE
  /\ UNCHANGED <<todo, start_flag, navigating, hvars, mvars, avars, evars, ivars, bvars>>

CleanupEpo ==
  /\ fw = "cleanEpo" /\ fw' = "cleanEpoWait"
  /\ exit_flag' = TRUE
  /\ UNCHANGED <<todo, init, start_flag, cond, control, navigating, hvars, mvars, avars,
                 epo, ivars, bvars>>
CleanupReturn ==
  /\ fw = "cleanEpoWait" /\ fw' = "idle"
  /\ GetCondition("M_THREAD_EXIT")
  /\ UNCHANGED <<todo, init, start_flag, control, navigating, hvars, mvars, avars, evars,
                 ivars, bvars>>

\* thread_epo_file_update, of which only the end matters here.
EpoExits ==
  /\ epo = "run" /\ exit_flag
  /\ epo' = "none"
  /\ ReleaseCondition("M_THREAD_EXIT")
  /\ UNCHANGED <<fw, todo, init, start_flag, control, navigating, hvars, mvars, avars,
                 exit_flag, ivars, bvars>>

-----------------------------------------------------------------------------
(* The measurement and navigation interfaces *)

BM_OpenScript(k) == <<<<"open", k>>, <<"set", k>>>>

OpenScript(k) == <<<<"set", k>>, <<"open", k>>>>

\* mtk_gps_measurement_init, mtk_gps_navigation_init.
OpenInterface(k) ==
  /\ fw = "idle" /\ init /\ k \in (Gated \cap Kinds) \ open
  /\ \E ok \in BOOLEAN :
        /\ Tell(ok)
        /\ todo' = [todo EXCEPT !["fw"] = IF ok THEN OpenScript(k) ELSE <<>>]
        /\ fw' = IF ok THEN "script" ELSE "idle"
  /\ UNCHANGED <<init, start_flag, cond, control, navigating, hvars, avars, evars, ivars>>

\* mtk_gps_measurement_close, mtk_gps_navigation_close: whether the send worked or not.
CloseInterface(k) ==
  /\ fw = "idle" /\ init /\ k \in open
  /\ \E ok \in BOOLEAN : Tell(ok)
  /\ open' = open \ {k}
  /\ UNCHANGED <<fw, todo, init, start_flag, cond, control, navigating, hvars, avars, evars, set>>

-----------------------------------------------------------------------------
(* gps_state_thread *)

BM_Boot ==
  /\ hal = "boot" /\ hal' = "loop"
  /\ UNCHANGED <<fw, todo, init, start_flag, cond, control, navigating, started, flag_unlock,
                 mvars, avars, evars, ivars, bvars>>

\* The sockets are opened and registered, M_INIT is released.
Boot ==
  /\ hal = "boot" /\ hal' = "loop"
  /\ ReleaseCondition("M_INIT")
  /\ UNCHANGED <<fw, todo, init, start_flag, control, navigating, started, flag_unlock,
                 mvars, avars, evars, ivars, bvars>>

BootFails ==
  /\ "codec" \in Faults
  /\ hal = "boot" /\ hal' = "none"
  /\ faulted' = TRUE
  /\ UNCHANGED <<fw, todo, init, start_flag, cond, control, navigating, started, flag_unlock,
                 mvars, avars, evars, ivars, inits, starts, msgs>>

OnStart ==
  /\ hal = "loop" /\ control # <<>> /\ Head(control) = "START"
  /\ control' = Tail(control)
  /\ started' = TRUE
  /\ UNCHANGED <<fw, hal, todo, init, start_flag, cond, navigating, flag_unlock, mvars,
                 avars, evars, ivars, bvars>>

BM_OnStop ==   \* started is not reset
  /\ hal = "loop" /\ control # <<>> /\ Head(control) = "STOP"
  /\ control' = Tail(control)
  /\ UNCHANGED <<fw, hal, todo, init, start_flag, cond, navigating, started, flag_unlock, mvars,
                 avars, evars, ivars, bvars>>

OnStop ==
  /\ hal = "loop" /\ control # <<>> /\ Head(control) = "STOP"
  /\ control' = Tail(control)
  /\ started' = FALSE
  /\ UNCHANGED <<fw, hal, todo, init, start_flag, cond, navigating, flag_unlock, mvars,
                 avars, evars, ivars, bvars>>

\* The socket is closed with the messages in it.
OnQuit ==
  /\ hal = "loop" /\ control # <<>> /\ Head(control) = "QUIT"
  /\ hal' = "none"
  /\ control' = Tail(control) /\ fromMnld' = <<>>
  /\ ReleaseCondition("M_CLEANUP")
  /\ UNCHANGED <<fw, todo, init, start_flag, navigating, started, flag_unlock, toMnld,
                 nmea, mnld, avars, evars, ivars, bvars>>

\* An event of the NMEA device.  What the reader makes of it is GpsNmea's.
OnNmea ==
  /\ hal = "loop" /\ nmea
  /\ nmea' = FALSE
  /\ IF flag_unlock THEN UNCHANGED <<cond, flag_unlock>>
     ELSE ReleaseCondition("M_START") /\ flag_unlock' = TRUE
  /\ UNCHANGED <<fw, hal, todo, init, start_flag, control, navigating, started,
                 toMnld, fromMnld, mnld, avars, evars, ivars, bvars>>

(* mnld_to_gps_handler: the script of each message *)

DieScript == ReportScript("end") \o ReportScript("off")
             \o <<<<"stop", "signal">>, <<"wake", "release">>, <<"flag", "down">>>>

NiScript == <<<<"call", "ni">>>>
AgpsScript == <<<<"call", "agps">>>>
RilScript == <<<<"call", "ril">>>>
MeasurementScript == IF "measurement" \in open THEN <<<<"call", "measurement">>>> ELSE <<>>
NavigationScript == IF "navigation" \in open THEN <<<<"call", "navigation">>>> ELSE <<>>

BM_IconScript(m) == IF m = "iconOn" THEN ReportScript("on") \o ReportScript("begin")
                    ELSE ReportScript("off") \o ReportScript("end")

\* Only while this HAL has not started the engine itself.
IconScript(m) == IF started THEN <<>>
                 ELSE IF m = "iconOn" THEN ReportScript("on") \o ReportScript("begin")
                 ELSE ReportScript("off") \o ReportScript("end")

\* Both callbacks are stored by init.
LocationScript == <<<<"call", "base">>>>
TimeScript == <<<<"call", "base">>>>

Script(m) ==
  CASE m = "die" -> DieScript
    [] m = "ni" -> NiScript
    [] m = "agps" -> AgpsScript
    [] m = "ril" -> RilScript
    [] m = "measurement" -> MeasurementScript
    [] m = "navigation" -> NavigationScript
    [] m \in {"iconOn", "iconOff"} -> IconScript(m)
    [] m = "location" -> LocationScript
    [] m = "time" -> TimeScript
    [] OTHER -> <<>>   \* a place is sent to MNLD; the EPO file is GpsEpo's

\* Ghost: the icon's reports may mix with those of a start that this thread does
\* not know of yet.
Mixes(m) == /\ m \in {"iconOn", "iconOff"} /\ IconScript(m) # <<>>
            /\ todo["fw"] # <<>> \/ Contains(control, "START")

OnMessage ==
  /\ hal = "loop" /\ fromMnld # <<>>
  /\ LET m == Head(fromMnld) IN
       /\ todo' = [todo EXCEPT !["hal"] = Script(m)]
       /\ flag_unlock' = (flag_unlock /\ m # "die")
       /\ icon' = IF m \in {"iconOn", "iconOff"} /\ ~started THEN m = "iconOn" ELSE icon
       /\ mixed' = (mixed \/ Mixes(m))
  /\ hal' = "script"
  /\ fromMnld' = Tail(fromMnld)
  /\ UNCHANGED <<fw, init, start_flag, cond, control, navigating, started, toMnld,
                 nmea, mnld, sta, seen, wakelocks, evars, ivars, bvars>>

-----------------------------------------------------------------------------
(* The steps of a script *)

\* Thread t takes the next step of its script.
Step(t, op, arg) ==
  /\ todo[t] # <<>> /\ Head(todo[t]) = <<op, arg>>
  /\ todo' = [todo EXCEPT ![t] = Tail(@)]

SetStatus(t) ==
  /\ \E s \in Statuses : Step(t, "status", s) /\ sta' = s
  /\ UNCHANGED <<fw, init, start_flag, cond, control, navigating, hvars, mvars, seen,
                 wakelocks, icon, mixed, evars, ivars, bvars>>

\* status_cb(&sta): whatever sta holds now.
Report(t) ==
  /\ Step(t, "report", "sta")
  /\ seen' = sta
  /\ UNCHANGED <<fw, init, start_flag, cond, control, navigating, hvars, mvars, sta,
                 wakelocks, icon, mixed, evars, ivars, bvars>>

WakeLock(t) ==
  /\ \/ Step(t, "wake", "acquire") /\ wakelocks' = wakelocks + 1
     \/ Step(t, "wake", "release") /\ wakelocks' = wakelocks - 1
  /\ UNCHANGED <<fw, init, start_flag, cond, control, navigating, hvars, mvars, sta, seen,
                 icon, mixed, evars, ivars, bvars>>

Latch(t) ==
  /\ \/ Step(t, "stop", "clear") /\ cond' = [cond EXCEPT !["M_STOP"] = FALSE]
     \/ Step(t, "stop", "signal") /\ ReleaseCondition("M_STOP")
  /\ UNCHANGED <<fw, init, start_flag, control, navigating, hvars, mvars, avars, evars,
                 ivars, bvars>>

SetFlag(t) ==
  /\ \/ Step(t, "flag", "up") /\ start_flag' = 1
     \/ Step(t, "flag", "down") /\ start_flag' = 0
  /\ UNCHANGED <<fw, init, cond, control, navigating, hvars, mvars, avars, evars, ivars, bvars>>

Interface(t) ==
  /\ \E k \in Gated \cup Ungated \cup {"base"} :
       \/ Step(t, "set", k) /\ set' = set \cup {k} /\ UNCHANGED open
       \/ Step(t, "open", k) /\ open' = open \cup {k} /\ UNCHANGED set
       \/ Step(t, "call", k) /\ UNCHANGED ivars
  /\ UNCHANGED <<fw, init, start_flag, cond, control, navigating, hvars, mvars, avars,
                 evars, bvars>>

ScriptEnds(t) ==
  /\ todo[t] = <<>>
  /\ \/ t = "fw" /\ fw = "script" /\ fw' = "idle" /\ UNCHANGED hal
     \/ t = "hal" /\ hal = "script" /\ hal' = "loop" /\ UNCHANGED fw
  /\ UNCHANGED <<todo, init, start_flag, cond, control, navigating, started, flag_unlock,
                 mvars, avars, evars, ivars, bvars>>

RunScript(t) == \/ SetStatus(t) \/ Report(t) \/ WakeLock(t) \/ Latch(t)
                \/ SetFlag(t) \/ Interface(t) \/ ScriptEnds(t)

-----------------------------------------------------------------------------
(* MNLD, as the HAL expects it: it runs from a start to a stop, sends NMEA  *)
(* sentences meanwhile and a message when it died.  It asks for an ungated  *)
(* callback only once the framework has stored it.                          *)

\* Nobody hears it when the thread has closed its socket.
Says(m) == fromMnld' = IF hal = "none" THEN fromMnld ELSE Append(fromMnld, m)

MnldCommand ==
  /\ toMnld # <<>> /\ Len(fromMnld) < MaxUnderWay
  /\ toMnld' = Tail(toMnld)
  /\ LET cmd == Head(toMnld) IN
       \/ cmd = "start" /\ mnld' = "on" /\ UNCHANGED fromMnld
       \/ /\ cmd \in {"stop", "cleanup"} /\ mnld' = "off"
          /\ IF mnld = "on" THEN Says("die") ELSE UNCHANGED fromMnld
  /\ UNCHANGED <<fw, todo, init, start_flag, cond, control, navigating, hvars, nmea, avars,
                 evars, ivars, bvars>>

MnldDies ==
  /\ mnld = "on" /\ Len(fromMnld) < MaxUnderWay
  /\ "early" \in Faults \/ ("die" \in Faults /\ start_flag = 1 /\ todo["fw"] = <<>>)
  /\ mnld' = "off" /\ Says("die")
  /\ faulted' = TRUE
  /\ UNCHANGED <<fw, todo, init, start_flag, cond, control, navigating, hvars, toMnld, nmea,
                 avars, evars, ivars, inits, starts, msgs>>

MnldNmea ==
  /\ mnld = "on" /\ ~nmea
  /\ nmea' = TRUE
  /\ UNCHANGED <<fw, todo, init, start_flag, cond, control, navigating, hvars, toMnld,
                 fromMnld, mnld, avars, evars, ivars, bvars>>

MnldAsks ==
  /\ hal # "none" /\ msgs < MaxMsgs /\ Len(fromMnld) < MaxUnderWay
  /\ \E m \in Kinds : /\ m \in Ungated => m \in set \/ "early" \in Faults
                      /\ Says(m)
  /\ msgs' = msgs + 1
  /\ UNCHANGED <<fw, todo, init, start_flag, cond, control, navigating, hvars, toMnld, nmea,
                 mnld, avars, evars, ivars, inits, starts, faulted>>

-----------------------------------------------------------------------------
Call == \/ InitThread \/ InitFails \/ StartCall \/ StopCall \/ CleanupCall
        \/ \E k \in Gated : OpenInterface(k) \/ CloseInterface(k)

Framework == \/ InitReady \/ XtraThread \/ XtraFlag \/ StartSend \/ StartRun
             \/ StopSend \/ StopCmd \/ CleanupTest \/ CleanupStopped \/ CleanupClear
             \/ CleanupQuit \/ CleanupDone \/ CleanupEpo \/ CleanupReturn

Thread == Boot \/ BootFails \/ OnStart \/ OnStop \/ OnQuit \/ OnNmea \/ OnMessage

Mnld == MnldCommand \/ MnldDies \/ MnldNmea \/ MnldAsks

Next == \/ Call \/ Framework \/ Thread \/ EpoExits \/ Mnld
        \/ \E t \in Threads : RunScript(t)

\* Every thread runs, MNLD serves its commands and sends its sentences.  epoll_wait
\* is asked for fewer events than there are descriptors, but it hands out the ready
\* ones in turn, so no kind of event waits for ever behind another.
Fairness ==
  /\ WF_vars(Framework \/ RunScript("fw")) /\ WF_vars(Boot \/ RunScript("hal"))
  /\ WF_vars(EpoExits) /\ WF_vars(MnldCommand) /\ WF_vars(MnldNmea)
  /\ WF_vars(OnStart \/ OnStop \/ OnQuit) /\ WF_vars(OnNmea) /\ WF_vars(OnMessage)

Spec == Init /\ [][Next]_vars /\ Fairness

-----------------------------------------------------------------------------
(* Properties *)

Quiet == fw = "idle" /\ hal \in {"none", "loop"} /\ todo = [t \in Threads |-> <<>>]

\* The wake lock that keeps the CPU from sleeping is taken once and given back
\* once, and while neither thread is at work it is held exactly while the session is up.
WakeLockBalanced == wakelocks \in {0, 1} /\ (Quiet => wakelocks = start_flag)

\* What the framework was told last is true when neither thread is at work: a
\* session that is up ended with SESSION_BEGIN, one that is down did not, unless
\* MNLD showed the icon for somebody else.
LastReportIsTrue ==
  Quiet /\ ~mixed => /\ start_flag = 1 /\ started => seen = "begin"
                     /\ start_flag = 0 /\ ~icon => seen \notin {"on", "begin"}

\* MNLD shows the icon for somebody else, or the HAL is just taking it away: no
\* other script ends with a report.
IconShown == icon \/ (todo["hal"] # <<>> /\ Last(todo["hal"]) = <<"report", "sta">>)

\* cleanup goes on to quit the thread only when the end of the session has been
\* reported, "make sure gps_stop has set state to GPS_STATUS_ENGINE_OFF", and once
\* it returned there is no thread, no wake lock and no latch by which the next init
\* or cleanup would go ahead too early.
CleanupInOrder ==
  /\ fw \in {"cleanClear", "cleanQuit", "cleanDone"} /\ ~IconShown =>
       seen \in {"none", "off", "end"}
  /\ fw = "idle" /\ ~init =>
       /\ hal = "none" /\ epo = "none" /\ start_flag = 0 /\ wakelocks = 0
       /\ \A c \in Conditions \ {"M_START"} : ~cond[c]

\* No callback is made through a structure that was never filled in.
CallbacksStored ==
  \A k \in Gated \cup Ungated :
    todo["hal"] # <<>> /\ Head(todo["hal"]) = <<"call", k>> => k \in set

\* The thread's started is a static variable that outlives the thread, and decides
\* about the icon and the EPO download: once it has read its commands it is what the
\* framework asked for last, whichever thread and session read them.
StartedAgrees == Quiet /\ control = <<>> /\ ~faulted => started = navigating

\* Every call of the framework returns, if no fault happened.
CallsReturn == fw # "idle" ~> fw = "idle" \/ faulted

\* stop returns even if MNLD has died: its message is there to "let stop done".
StopReturns == fw = "stopSpin" ~> fw # "stopSpin"
=============================================================================
