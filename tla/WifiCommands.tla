---------------------------- MODULE WifiCommands ----------------------------
(***************************************************************************)
(* The commands of the Wifi HAL from start to deletion. A command (scan,   *)
(* hotlist, significant change, ANQPO, RTT) is an object with a reference  *)
(* count. The API thread enters it in the command table, sends its         *)
(* requests to the driver and registers it for events; it looks it up by   *)
(* its id to cancel and release it. The event loop, another thread, finds  *)
(* the first handler of an event, holds the command while its handleEvent  *)
(* runs, and ends an RTT command itself when its results are complete.     *)
(*                                                                         *)
(* cb_lock makes each change of the handlers one step. The command table   *)
(* has no lock: its changes are taken apart. The driver may answer or      *)
(* refuse each request and report any event at any time.                   *)
(***************************************************************************)
EXTENDS Integers, Sequences, FiniteSets, SequencesExt

CONSTANTS
  Cmds,            \* addresses of command objects; an address is used again
                   \* only when nothing refers to it
  None,            \* no command
  Kinds,           \* the kinds of commands the framework starts
  CmdMax,          \* alloc_cmd
  EventCbMax,      \* alloc_event_cb
  MayRefuse,       \* kinds whose last request, the one that enables what
                   \* has been set up, the driver may refuse
  Overlap          \* may two threads be inside the command table at once?

ASSUME WifiAssumption ==
  /\ None \notin Cmds
  /\ Kinds \subseteq {"scan", "hotlist", "change", "anqpo", "rtt"}
  /\ MayRefuse \subseteq Kinds
  /\ CmdMax \in Nat \ {0} /\ EventCbMax \in Nat \ {0}
  /\ Overlap \in BOOLEAN

VARIABLES
  event_cb,        \* the handlers [sub, cmd], in the order of registration
  slots, num_cmd,  \* the command table: the array, and how much is in use
  kind,            \* the class of each command object
  refs,            \* mRefs of each object; 0: deleted or never made
  lost,            \* objects register_cmd found no room for: never released
  current,         \* the framework's id of the command of each kind
  api,             \* the API thread
  loop             \* the event loop

cbVars == event_cb
tableVars == <<slots, num_cmd>>
objVars == <<kind, refs, lost>>
vars == <<event_cb, slots, num_cmd, kind, refs, lost, current, api, loop>>

-----------------------------------------------------------------------------
(* What start() and cancel() of each class do, in order. "ask": a request  *)
(* is made and the driver's answer awaited; what follows a failure is      *)
(* "return", "go on", or the steps that undo a registration.               *)

Ask     == [op |-> "ask", sub |-> "none", fail |-> "return"]
Try     == [op |-> "ask", sub |-> "none", fail |-> "go on"]
Enable  == [op |-> "ask", sub |-> "none", fail |-> "undo"]
Reg(s)  == [op |-> "register", sub |-> s, fail |-> "none"]
Unreg(s) == [op |-> "unregister", sub |-> s, fail |-> "none"]

ScanSetup == <<Ask>>           \* createSetupRequest, requestResponse
ScanConfig == <<Ask>>          \* createScanConfigRequest, requestResponse
CreateFeature == <<Ask>>       \* createFeatureRequest; sent by Enable

StartScan ==
  ScanSetup \o ScanConfig \o CreateFeature \o
  <<Reg("SCAN_RESULTS_AVAILABLE"), Reg("COMPLETE_SCAN"),
    Reg("FULL_SCAN_RESULTS"), Enable>>
UndoScan ==
  <<Reg("COMPLETE_SCAN"), Unreg("SCAN_RESULTS_AVAILABLE"),
    Unreg("FULL_SCAN_RESULTS")>>
CancelScan ==
  <<Try, Unreg("COMPLETE_SCAN"), Unreg("SCAN_RESULTS_AVAILABLE"),
    Unreg("FULL_SCAN_RESULTS")>>

HotlistSetup == <<Ask>>
HotlistTeardown == <<Ask>>
BM_UndoHotlist == <<Unreg("HOTLIST_FOUND")>>
UndoHotlist == <<Unreg("HOTLIST_FOUND"), Unreg("HOTLIST_LOST")>>
StartHotlist ==
  HotlistSetup \o CreateFeature \o
  <<Reg("HOTLIST_FOUND"), Reg("HOTLIST_LOST"), Enable>>
CancelHotlist ==
  <<Unreg("HOTLIST_FOUND"), Unreg("HOTLIST_LOST")>> \o HotlistTeardown

ChangeSetup == <<Ask>>
ChangeTeardown == <<Ask>>
StartChange ==
  ChangeSetup \o CreateFeature \o <<Reg("SIGNIFICANT_CHANGE"), Enable>>
CancelChange == <<Unreg("SIGNIFICANT_CHANGE")>> \o ChangeTeardown

AnqpoRequest == <<Ask>>        \* createRequest; sent by Enable
StartAnqpo == AnqpoRequest \o <<Reg("ANQPO_MATCH"), Enable>>
CancelAnqpo == <<Try, Unreg("ANQPO_MATCH")>>

RttSetup == <<Ask>>
StartRtt == RttSetup \o <<Reg("RTT_COMPLETE")>>
CancelRtt == <<Try, Unreg("RTT_COMPLETE")>>

Start(k) ==
  [scan |-> StartScan, hotlist |-> StartHotlist, change |-> StartChange,
   anqpo |-> StartAnqpo, rtt |-> StartRtt][k]
Undo(k) ==
  [scan |-> UndoScan, hotlist |-> UndoHotlist,
   change |-> <<Unreg("SIGNIFICANT_CHANGE")>>,
   anqpo |-> <<Unreg("ANQPO_MATCH")>>, rtt |-> <<>>][k]
Cancel(k) ==
  [scan |-> CancelScan, hotlist |-> CancelHotlist, change |-> CancelChange,
   anqpo |-> CancelAnqpo, rtt |-> CancelRtt][k]

Subs == {"SCAN_RESULTS_AVAILABLE", "COMPLETE_SCAN", "FULL_SCAN_RESULTS",
         "HOTLIST_FOUND", "HOTLIST_LOST", "SIGNIFICANT_CHANGE",
         "ANQPO_MATCH", "RTT_COMPLETE"}

-----------------------------------------------------------------------------
(* The registries.                                                         *)

(* wifi_register_vendor_handler; its result is not looked at.              *)
Registered(s, c) ==
  IF Len(event_cb) < EventCbMax
  THEN Append(event_cb, [sub |-> s, cmd |-> c])
  ELSE event_cb

(* Index of the first handler of an event, or 0.                           *)
HandlerOf(s) == SelectInSeq(event_cb, LAMBDA h : h.sub = s)

(* wifi_unregister_vendor_handler: whoever's handler is the first one.     *)
Unregistered(s) ==
  IF HandlerOf(s) = 0 THEN event_cb ELSE RemoveAt(event_cb, HandlerOf(s))

InTable(c) == \E i \in 1 .. num_cmd : slots[i] = c

(* Index of a command in the table, or 0.                                  *)
SlotOf(c) ==
  IF InTable(c)
  THEN CHOOSE i \in 1 .. num_cmd :
         slots[i] = c /\ \A j \in 1 .. i - 1 : slots[j] # c
  ELSE 0

(* memmove over slot i.                                                    *)
Moved(i) ==
  [j \in DOMAIN slots |->
     IF j >= i /\ j < num_cmd THEN slots[j + 1] ELSE slots[j]]

(* releaseRef; at zero the object is deleted and its class forgotten.      *)
ReleaseRef(c) ==
  /\ refs' = [refs EXCEPT ![c] = @ - 1]
  /\ kind' = IF refs[c] = 1 THEN [kind EXCEPT ![c] = "none"] ELSE kind
AddRef(c) == refs' = [refs EXCEPT ![c] = @ + 1]

-----------------------------------------------------------------------------
ApiIdle == [pc |-> "idle", cmd |-> None, kind |-> "none", todo |-> <<>>,
            slot |-> 0, ok |-> TRUE]
LoopIdle == [pc |-> "poll", cmd |-> None, slot |-> 0]

Init ==
  /\ event_cb = <<>>
  /\ slots = [i \in 1 .. CmdMax |-> None] /\ num_cmd = 0
  /\ kind = [c \in Cmds |-> "none"] /\ refs = [c \in Cmds |-> 0] /\ lost = {}
  /\ current = [k \in Kinds |-> None]
  /\ api = ApiIdle /\ loop = LoopIdle

ApiInTable == api.pc \in {"count up", "move", "count down"}
LoopInTable == loop.pc \in {"move", "count down"}

(* Nothing refers to the address: the heap may hand it out.                *)
FreeAddress(c) ==
  /\ refs[c] = 0 /\ ~InTable(c) /\ loop.cmd # c
  /\ \A i \in DOMAIN event_cb : event_cb[i].cmd # c
  /\ \A k \in Kinds : current[k] # c

Create(c, k) ==
  /\ FreeAddress(c)
  /\ refs' = [refs EXCEPT ![c] = 1] /\ kind' = [kind EXCEPT ![c] = k]

(* wifi_start_gscan, wifi_set_bssid_hotlist, wifi_set_passpoint_list,      *)
(* wifi_set_significant_change_handler, wifi_rtt_range_request             *)
CallStart(k) ==
  /\ api.pc = "idle" /\ current[k] = None
  /\ \E c \in Cmds :
       /\ Create(c, k)
       /\ api' = [ApiIdle EXCEPT !.pc = "write slot", !.cmd = c, !.kind = k,
                                 !.todo = Start(k)]
  /\ UNCHANGED <<cbVars, tableVars, lost, current, loop>>

(* wifi_register_cmd with room: the slot, then the count.                  *)
RegisterWrite ==
  /\ api.pc = "write slot" /\ num_cmd < CmdMax
  /\ Overlap \/ ~LoopInTable
  /\ slots' = [slots EXCEPT ![num_cmd + 1] = api.cmd]
  /\ api' = [api EXCEPT !.pc = "count up"]
  /\ UNCHANGED <<cbVars, num_cmd, objVars, current, loop>>

RegisterCount ==
  /\ api.pc = "count up"
  /\ num_cmd' = num_cmd + 1
  /\ api' = [api EXCEPT !.pc = "run"]
  /\ UNCHANGED <<cbVars, slots, objVars, current, loop>>

(* No room: the call fails and the object is never released;               *)
(* wifi_rtt_range_request does not look at the result and goes on.         *)
RegisterFull ==
  /\ api.pc = "write slot" /\ num_cmd >= CmdMax
  /\ lost' = lost \cup {api.cmd}
  /\ api' = IF api.kind = "rtt" THEN [api EXCEPT !.pc = "run"] ELSE ApiIdle
  /\ UNCHANGED <<cbVars, tableVars, kind, refs, current, loop>>

(* wifi_stop_gscan with the id of a scan, wifi_reset_bssid_hotlist,        *)
(* wifi_cancel_cmd, wifi_rtt_range_cancel: the framework gives up the id.  *)
CallStop(k) ==
  /\ api.pc = "idle" /\ current[k] # None
  /\ api' = [ApiIdle EXCEPT !.pc = "find", !.cmd = current[k], !.kind = k,
                            !.todo = Cancel(k)]
  /\ current' = [current EXCEPT ![k] = None]
  /\ UNCHANGED <<cbVars, tableVars, objVars, loop>>

(* wifi_unregister_cmd: the loop that looks for the id                     *)
ApiFind ==
  /\ api.pc = "find"
  /\ Overlap \/ ~LoopInTable
  /\ api' = IF SlotOf(api.cmd) # 0
            THEN [api EXCEPT !.pc = "move", !.slot = SlotOf(api.cmd)]
            ELSE ApiIdle
  /\ UNCHANGED <<cbVars, tableVars, objVars, current, loop>>

ApiMove ==
  /\ api.pc = "move"
  /\ slots' = Moved(api.slot)
  /\ api' = [api EXCEPT !.pc = "count down", !.slot = 0]
  /\ UNCHANGED <<cbVars, num_cmd, objVars, current, loop>>

ApiCountDown ==
  /\ api.pc = "count down"
  /\ num_cmd' = num_cmd - 1
  /\ api' = [api EXCEPT !.pc = "cancel"]
  /\ UNCHANGED <<cbVars, slots, objVars, current, loop>>

(* wifi_stop_gscan(-1): a command object of its own only to cancel.        *)
CallStopAll ==
  /\ api.pc = "idle" /\ "scan" \in Kinds
  /\ \E c \in Cmds :
       /\ Create(c, "scan")
       /\ api' = [ApiIdle EXCEPT !.pc = "cancel", !.cmd = c,
                                 !.kind = "scan", !.todo = CancelScan]
  /\ UNCHANGED <<cbVars, tableVars, lost, current, loop>>

Running == api.pc \in {"run", "cancel"} /\ api.todo # <<>>
Done(a) == [a EXCEPT !.todo = Tail(@)]

(* registerVendorHandler, unregisterVendorHandler                          *)
ApiRegister ==
  /\ Running /\ Head(api.todo).op = "register"
  /\ event_cb' = Registered(Head(api.todo).sub, api.cmd)
  /\ api' = Done(api)
  /\ UNCHANGED <<tableVars, objVars, current, loop>>

ApiUnregister ==
  /\ Running /\ Head(api.todo).op = "unregister"
  /\ event_cb' = Unregistered(Head(api.todo).sub)
  /\ api' = Done(api)
  /\ UNCHANGED <<tableVars, objVars, current, loop>>

(* requestResponse: acknowledged or finished                               *)
Answered ==
  /\ Running /\ Head(api.todo).op = "ask"
  /\ api' = Done(api)
  /\ UNCHANGED <<cbVars, tableVars, objVars, current, loop>>

(* The request cannot be built or sent, or the driver answers with an      *)
(* error.                                                                  *)
Refused ==
  /\ Running /\ Head(api.todo).op = "ask"
  /\ Head(api.todo).fail = "undo" => api.kind \in MayRefuse
  /\ api' = CASE Head(api.todo).fail = "return" ->
                   [api EXCEPT !.todo = <<>>, !.ok = FALSE]
              [] Head(api.todo).fail = "undo" ->
                   [api EXCEPT !.todo = Undo(api.kind), !.ok = FALSE]
              [] OTHER -> Done(api)
  /\ UNCHANGED <<cbVars, tableVars, objVars, current, loop>>

(* start() returns: the framework keeps the id only if it succeeded.       *)
StartReturns ==
  /\ api.pc = "run" /\ api.todo = <<>>
  /\ current' = IF api.ok
                THEN [current EXCEPT ![api.kind] = api.cmd] ELSE current
  /\ api' = ApiIdle
  /\ UNCHANGED <<cbVars, tableVars, objVars, loop>>

(* cancel() has returned, whatever it achieved: releaseRef.                *)
CancelReturns ==
  /\ api.pc = "cancel" /\ api.todo = <<>>
  /\ ReleaseRef(api.cmd)
  /\ api' = ApiIdle
  /\ UNCHANGED <<cbVars, tableVars, lost, current, loop>>

Api ==
  \/ RegisterWrite \/ RegisterCount \/ RegisterFull
  \/ ApiFind \/ ApiMove \/ ApiCountDown
  \/ ApiRegister \/ ApiUnregister \/ Answered \/ Refused
  \/ StartReturns \/ CancelReturns

-----------------------------------------------------------------------------
BM_Dispatch(s) ==
  /\ loop.pc = "poll" /\ HandlerOf(s) # 0
  /\ loop' = [LoopIdle EXCEPT !.pc = "handle",
                              !.cmd = event_cb[HandlerOf(s)].cmd]
  /\ UNCHANGED <<cbVars, tableVars, objVars, current, api>>
(* internal_valid_message_handler: under cb_lock, the first handler of the *)
(* event is found and its command held.                                    *)
Dispatch(s) ==
  /\ loop.pc = "poll" /\ HandlerOf(s) # 0
  /\ LET c == event_cb[HandlerOf(s)].cmd IN
       /\ AddRef(c)
       /\ loop' = [LoopIdle EXCEPT !.pc = "handle", !.cmd = c]
  /\ UNCHANGED <<cbVars, tableVars, kind, lost, current, api>>

(* handleEvent of the commands that only convert the data and report to    *)
(* the framework, or find the data bad                                     *)
HandleReport ==
  /\ loop.pc = "handle" /\ kind[loop.cmd] # "rtt"
  /\ loop' = [loop EXCEPT !.pc = "release"]
  /\ UNCHANGED <<cbVars, tableVars, objVars, current, api>>

(* handleEvent of RttCommand, results not complete                         *)
HandleRttPart ==
  /\ loop.pc = "handle" /\ kind[loop.cmd] = "rtt"
  /\ loop' = [loop EXCEPT !.pc = "release"]
  /\ UNCHANGED <<cbVars, tableVars, objVars, current, api>>

(* The results are complete: the handler goes first, ...                   *)
HandleRttComplete ==
  /\ loop.pc = "handle" /\ kind[loop.cmd] = "rtt"
  /\ event_cb' = Unregistered("RTT_COMPLETE")
  /\ loop' = [loop EXCEPT !.pc = "results"]
  /\ UNCHANGED <<tableVars, objVars, current, api>>

(* ... on_rtt_results: the framework has no more use for the id, ...       *)
RttResults ==
  /\ loop.pc = "results"
  /\ current' = [k \in Kinds |-> IF current[k] = loop.cmd THEN None
                                 ELSE current[k]]
  /\ loop' = [loop EXCEPT !.pc = "find"]
  /\ UNCHANGED <<cbVars, tableVars, objVars, api>>

BM_LoopFind ==
  /\ loop.pc = "find"
  /\ Overlap \/ ~ApiInTable
  /\ loop' = IF SlotOf(loop.cmd) # 0
             THEN [loop EXCEPT !.pc = "move", !.slot = SlotOf(loop.cmd)]
             ELSE [loop EXCEPT !.pc = "drop"]
  /\ UNCHANGED <<cbVars, tableVars, objVars, current, api>>
(* ... wifi_unregister_cmd, unless the API thread has been there first, ...*)
LoopFind ==
  /\ loop.pc = "find"
  /\ Overlap \/ ~ApiInTable
  /\ loop' = IF SlotOf(loop.cmd) # 0
             THEN [loop EXCEPT !.pc = "move", !.slot = SlotOf(loop.cmd)]
             ELSE [loop EXCEPT !.pc = "release"]
  /\ UNCHANGED <<cbVars, tableVars, objVars, current, api>>

LoopMove ==
  /\ loop.pc = "move"
  /\ slots' = Moved(loop.slot)
  /\ loop' = [loop EXCEPT !.pc = "count down", !.slot = 0]
  /\ UNCHANGED <<cbVars, num_cmd, objVars, current, api>>

LoopCountDown ==
  /\ loop.pc = "count down"
  /\ num_cmd' = num_cmd - 1
  /\ loop' = [loop EXCEPT !.pc = "drop"]
  /\ UNCHANGED <<cbVars, slots, objVars, current, api>>

(* ... and the reference of the table is given up.                         *)
LoopDrop ==
  /\ loop.pc = "drop"
  /\ ReleaseRef(loop.cmd)
  /\ loop' = [loop EXCEPT !.pc = "release"]
  /\ UNCHANGED <<cbVars, tableVars, lost, current, api>>

(* event_handler signals the condition of the command; then releaseRef.    *)
LoopRelease ==
  /\ loop.pc = "release"
  /\ ReleaseRef(loop.cmd)
  /\ loop' = LoopIdle
  /\ UNCHANGED <<cbVars, tableVars, lost, current, api>>

EventLoop ==
  \/ HandleReport \/ HandleRttPart \/ HandleRttComplete \/ RttResults
  \/ LoopFind \/ LoopMove \/ LoopCountDown \/ LoopDrop \/ LoopRelease

Next ==
  \/ \E k \in Kinds : CallStart(k) \/ CallStop(k)
  \/ CallStopAll \/ Api
  \/ \E s \in Subs : Dispatch(s)
  \/ EventLoop

Spec == Init /\ [][Next]_vars

-----------------------------------------------------------------------------
(* An RTT measurement was started although the command table had no room:  *)
(* nobody can cancel it, its handler stays, and from then on handlers are  *)
(* removed for the wrong command.                                          *)
RttLost == \E c \in lost : kind[c] = "rtt"

(* An event never reaches a command that has been deleted: whoever is      *)
(* deleted has no handler left, whichever request of its start or cancel   *)
(* failed and however full the handler array was.                          *)
HandlersAreLive ==
  RttLost \/ \A i \in DOMAIN event_cb : refs[event_cb[i].cmd] > 0

(* The object a thread works on is not deleted by the other one: not by a  *)
(* cancel while its event is handled without cb_lock, not by the end of    *)
(* an RTT measurement while its start or cancel is under way.              *)
WorkedOnIsLive ==
  /\ api.pc \in {"write slot", "count up", "cancel"} => refs[api.cmd] > 0
  /\ api.pc = "run" /\ api.todo # <<>> => refs[api.cmd] > 0
  /\ loop.pc # "poll" => refs[loop.cmd] > 0

(* The API thread owns the object: before it is in the table, and after it *)
(* was taken out.                                                          *)
ApiOwns == {c \in Cmds : c = api.cmd /\ api.pc \in {"write slot", "cancel"}}

One(b) == IF b THEN 1 ELSE 0

(* The reference count says how many use the object: its owner (the table, *)
(* or the thread that took it out) and the event loop that handles its     *)
(* event; nothing is released twice, and nothing is left over except what  *)
(* the full table lost: a cancelled command whose event is not being       *)
(* handled is deleted, also when its teardown was refused.                 *)
RefsCountUsers ==
  ~ApiInTable /\ ~LoopInTable =>
    \A c \in Cmds :
      refs[c] = One(InTable(c)) + One(c \in ApiOwns) + One(c \in lost)
                + One(loop.pc # "poll" /\ loop.cmd = c)
                + One(loop.pc = "drop" /\ loop.cmd = c)
=============================================================================
