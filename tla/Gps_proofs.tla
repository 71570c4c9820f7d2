------------------------------ MODULE Gps_proofs ------------------------------
(***************************************************************************)
(* What is proved of the GPS HAL, for every value of the constants: of its *)
(* sessions (GpsSession), of the EPO download (GpsEpo), of the AT test     *)
(* (GpsAt) and of the NMEA reader (GpsNmea), which share no state here.    *)
(*                                                                         *)
(* Sessions: the invariant IInv says where the two threads are in their    *)
(* scripts (f, i: the framework's thread is before step i of script f; h,  *)
(* j: gps_state_thread) and what holds there.  It needs to know what is    *)
(* under way as well: a session that is up, or on its way, is in exactly   *)
(* one of MNL_CMD_START's datagram, MNLD, the datagram that it died and    *)
(* the script of that datagram, so nobody ends a session twice.            *)
(*                                                                         *)
(* EPO: the pieces of EPOHAL.DAT follow each other from the first one on,  *)
(* and between two attempts there are as many as the counter says.         *)
(*                                                                         *)
(* AT test: a start makes room before it sets anything, and a stop that    *)
(* frees it forgets the test in the same breath.                           *)
(*                                                                         *)
(* NMEA reader: each loop over characters or satellites keeps the entries  *)
(* of the reader, and the last character of a read ends in the callbacks,  *)
(* in the middle of a line, or in a line that is lost.                     *)
(***************************************************************************)
EXTENDS GpsSession, GpsEpo, GpsAt, GpsNmea, SequenceTheorems, WellFoundedInduction, TLAPS

-----------------------------------------------------------------------------
(* Sessions.  MNLD may fail in every way of Faults but one: it does not die *)
(* before start is through and does not ask before init is.                *)
Orderly == "early" \notin Faults

-----------------------------------------------------------------------------
(* Where the threads are in their scripts: what is left of script s when   *)
(* the steps before the i-th are done.                                     *)
Rest(s, i) == SubSeq(s, i, Len(s))

Calls == Gated \cup Ungated \cup {"base"}

Args == Statuses \cup Calls \cup {"sta", "acquire", "release", "clear", "signal", "up", "down"}
Steps == {"status", "report", "wake", "stop", "flag", "set", "open", "call"} \X Args

IconOn == ReportScript("on") \o ReportScript("begin")
IconOff == ReportScript("off") \o ReportScript("end")

FwScripts == {"start"} \cup Gated
FwScript(f) == IF f = "start" THEN StartScript ELSE OpenScript(f)

HalScripts == {"die", "iconOn", "iconOff"} \cup Calls
HalScript(h) == CASE h = "die" -> DieScript
                  [] h = "iconOn" -> IconOn
                  [] h = "iconOff" -> IconOff
                  [] OTHER -> <<<<"call", h>>>>

FwRest(f, i) == IF f = "none" THEN <<>> ELSE Rest(FwScript(f), i)
HalRest(h, j) == IF h = "none" THEN <<>> ELSE Rest(HalScript(h), j)

At(todos, f, i, h, j) ==
  /\ f # "none" => i <= Len(FwScript(f))
  /\ h # "none" => j <= Len(HalScript(h))
  /\ todos \in [Threads -> Seq(Steps)]
  /\ todos["fw"] = FwRest(f, i) /\ todos["hal"] = HalRest(h, j)

-----------------------------------------------------------------------------
(* The life of a session, from init to the return of cleanup.              *)
FwUp == {"xtra", "xtraFlag", "startSpin", "startWait", "script", "stopSpin", "stopCmd",
         "cleanTest", "cleanStop", "cleanClear", "cleanQuit", "cleanDone"}
FwDown == {"initWait", "failWait", "cleanEpo", "cleanEpoWait"}

Types ==
  /\ init \in BOOLEAN /\ start_flag \in {0, 1} /\ cond \in [Conditions -> BOOLEAN]
  /\ started \in BOOLEAN /\ navigating \in BOOLEAN /\ faulted \in BOOLEAN
  /\ icon \in BOOLEAN /\ mixed \in BOOLEAN
  /\ fw \in FwUp \cup FwDown \cup {"idle"} /\ hal \in {"none", "boot", "loop", "script"}
  /\ control \in Seq({"START", "STOP", "QUIT"})
  /\ toMnld \in Seq({"start", "stop", "cleanup"}) /\ fromMnld \in Seq(Kinds \cup {"die"})
  /\ mnld \in {"on", "off"} /\ epo \in {"none", "run"}

Life ==
  /\ fw \in FwUp => init
  /\ fw \in FwDown => ~init
  /\ init /\ fw # "cleanDone" => hal \in {"loop", "script"}
  /\ ~init /\ fw # "initWait" => hal = "none"
  /\ hal = "boot" => fw = "initWait" /\ ~cond["M_INIT"]
  /\ cond["M_INIT"] => fw = "initWait" /\ hal \in {"loop", "script"}
  /\ cond["M_CLEANUP"] <=> fw = "cleanDone" /\ hal = "none"

(* The commands of start and stop in the socket pair.  QUIT is the last of *)
(* a session: it follows them from gps_state_done to the thread's end.     *)
Quits == fw = "cleanDone" /\ hal # "none"
Commands == IF Quits THEN Front(control) ELSE control

Quitting ==
  /\ Commands \in Seq({"START", "STOP"})
  /\ control = IF Quits THEN Append(Commands, "QUIT") ELSE Commands
  /\ ~init \/ (fw = "cleanDone" /\ hal = "none") => Commands = <<>>
  /\ navigating => init /\ fw \in {"startWait", "script", "idle"}
  /\ fw = "startWait" => navigating

(* The EPO thread runs, or its end is latched.                             *)
EpoEnds ==
  IF fw \in {"cleanEpo", "cleanEpoWait"} \/ (init /\ fw # "xtra")
  THEN epo = "none" <=> cond["M_THREAD_EXIT"]
  ELSE epo = "none" /\ ~cond["M_THREAD_EXIT"]

(* A start is under way, from MNL_CMD_START to start_flag.                 *)
Sent == Contains(toMnld, "start")
DieSent == Contains(fromMnld, "die")

Once(s, x) == \A m, n \in 1 .. Len(s) : s[m] = x /\ s[n] = x => m = n

(* A session that is up, or on its way, is in one place: MNLD's command,   *)
(* MNLD, the message that it died, or the script of that message.          *)
Starting(f) == fw = "startWait" \/ f = "start"

Session(f, h) ==
  /\ Once(toMnld, "start") /\ Once(fromMnld, "die")
  /\ Sent => mnld = "off"
  /\ Sent \/ mnld = "on" => ~DieSent
  /\ Sent \/ mnld = "on" \/ DieSent => h # "die"
  /\ Sent \/ mnld = "on" \/ DieSent \/ h = "die" <=> Starting(f) \/ start_flag = 1
  /\ Starting(f) => /\ start_flag = 0 /\ ~DieSent /\ h # "die"
                    /\ mnld = "on" => toMnld = <<>>
                    /\ Sent => Last(toMnld) = "start"

(* M_STOP is latched while a session is up only by the script that ends it,*)
(* whose last two steps follow.                                            *)
Stopping(f, i, h, j) ==
  /\ f # "none" => fw = "script"
  /\ h # "none" => hal = "script"
  /\ cond["M_STOP"] => start_flag = 0 \/ (h = "die" /\ j >= 6)
  /\ f = "start" /\ i = 7 => ~cond["M_STOP"]
  /\ fw \in {"cleanClear", "cleanQuit", "cleanDone"} => start_flag = 0 \/ (h = "die" /\ j >= 6)
  /\ ~init => start_flag = 0
  /\ fw \in {"cleanQuit", "cleanDone"} \/ ~init => ~cond["M_STOP"]

Core(f, i, h, j) ==
  /\ At(todo, f, i, h, j) /\ Types /\ Life /\ Quitting /\ EpoEnds
  /\ Session(f, h) /\ Stopping(f, i, h, j)

-----------------------------------------------------------------------------
(* The wake lock is taken by the fifth step of a start's script and given  *)
(* back by the sixth of the script of MNLD's end.                          *)
Wake(f, i, h, j) ==
  wakelocks = IF \/ f = "start" /\ i >= 6
                 \/ start_flag = 1 /\ ~(h = "die" /\ j = 7)
              THEN 1 ELSE 0

(* What was reported.  While MNLD's end is handled nobody else reports;    *)
(* the icon's reports are true when no start runs beside them.             *)
Good == {"none", "off", "end"}
Icons == {"iconOn", "iconOff"}

Told(f, i, h, j) ==
  /\ h = "die" => /\ j \in {2, 3} => sta = "end"
                  /\ j = 4 => sta = "off"
                  /\ j >= 5 => seen = "off"
  /\ h = "iconOn" => icon
  /\ start_flag = 0 /\ f # "start" => /\ ~icon /\ h # "iconOff" => seen \in Good
                                      /\ h = "iconOff" /\ j >= 2 => sta \in Good
  /\ ~mixed /\ f = "start" => /\ h \notin Icons
                              /\ i = 2 => sta = "on"
                              /\ i >= 4 => sta = "begin"
                              /\ i >= 5 => seen = "begin"
  /\ ~mixed /\ start_flag = 1 /\ h # "die" /\ (started \/ Contains(Commands, "START")) =>
       seen = "begin" /\ h \notin Icons

(* Without a fault the commands in the socket pair end with the last call. *)
Heading == IF Commands = <<>> THEN started ELSE Last(Commands) = "START"

Agreed ==
  ~faulted => /\ hal \in {"none", "boot"} => ~started
              /\ Heading <=> (navigating /\ fw # "startWait") \/ fw \in {"stopSpin", "stopCmd"}

(* What is called, or will be, was stored.                                 *)
Stored(f, i, h, j) ==
  /\ open \subseteq set
  /\ f \in Gated /\ i = 2 => f \in set
  /\ \A m \in Ungated : Contains(fromMnld, m) => m \in set
  /\ h \in Gated \cup Ungated => h \in set

Inv(f, i, h, j) ==
  Core(f, i, h, j) /\ Wake(f, i, h, j) /\ Told(f, i, h, j) /\ Agreed /\ Stored(f, i, h, j)

Fs == FwScripts \cup {"none"}
Hs == HalScripts \cup {"none"}

IInv == \E f \in Fs, i \in 1 .. 7, h \in Hs, j \in 1 .. 7 : Inv(f, i, h, j)

-----------------------------------------------------------------------------
(* Queues: what stays in one, and where.                                   *)

(* Sequences with the same elements are the same.                          *)
LEMMA SameElements ==
  ASSUME NEW S, NEW a \in Seq(S), NEW b \in Seq(S), Len(a) = Len(b),
         \A k \in 1 .. Len(a) : a[k] = b[k]
  PROVE  a = b
OBVIOUS

(* What is in a queue after a send ...                                     *)
LEMMA ContainsAppend ==
  ASSUME NEW S, NEW s \in Seq(S), NEW y \in S, NEW x
  PROVE  Contains(Append(s, y), x) <=> Contains(s, x) \/ y = x
<1> DEFINE a == Append(s, y)
<1>1. /\ Len(s) \in Nat /\ Len(a) = Len(s) + 1 /\ a[Len(s) + 1] = y
      /\ \A n \in 1 .. Len(s) : a[n] = s[n]
  OBVIOUS
<1> HIDE DEF a
<1>2. ASSUME Contains(a, x) PROVE Contains(s, x) \/ y = x
  <2>1. PICK n \in 1 .. Len(a) : a[n] = x
    BY <1>2 DEF Contains
  <2>2. CASE n = Len(s) + 1
    BY <1>1, <2>1, <2>2
  <2>3. CASE n \in 1 .. Len(s)
    BY <1>1, <2>1, <2>3 DEF Contains
  <2> QED BY <1>1, <2>1, <2>2, <2>3
<1>3. ASSUME Contains(s, x) PROVE Contains(a, x)
  <2>1. PICK n \in 1 .. Len(s) : s[n] = x
    BY <1>3 DEF Contains
  <2>2. n \in 1 .. Len(a) /\ a[n] = x
    BY <1>1, <2>1
  <2> QED BY <2>2 DEF Contains
<1>4. ASSUME y = x PROVE Contains(a, x)
  <2>1. Len(s) + 1 \in 1 .. Len(a) /\ a[Len(s) + 1] = x
    BY <1>1, <1>4
  <2> QED BY <2>1 DEF Contains
<1>5. Contains(a, x) <=> Contains(s, x) \/ y = x
  BY <1>2, <1>3, <1>4
<1> QED BY <1>5 DEF a

(* ... and that nothing is in it twice, if it was not in it before.        *)
LEMMA OnceAppend ==
  ASSUME NEW S, NEW s \in Seq(S), NEW y \in S, NEW x, Once(s, x), y = x => ~Contains(s, x)
  PROVE  Once(Append(s, y), x)
<1> DEFINE a == Append(s, y)
<1>1. /\ Len(s) \in Nat /\ Len(a) = Len(s) + 1 /\ a[Len(s) + 1] = y
      /\ \A n \in 1 .. Len(s) : a[n] = s[n]
  OBVIOUS
<1> HIDE DEF a
<1>2. ASSUME NEW m \in 1 .. Len(a), NEW n \in 1 .. Len(a), a[m] = x, a[n] = x
      PROVE  m = n
  <2>1. CASE m \in 1 .. Len(s) /\ n \in 1 .. Len(s)
    BY <1>1, <1>2, <2>1 DEF Once
  <2>2. CASE m \in 1 .. Len(s) /\ n = Len(s) + 1
    <3>1. y = x /\ s[m] = x
      BY <1>1, <1>2, <2>2
    <3> QED BY <2>2, <3>1 DEF Contains
  <2>3. CASE n \in 1 .. Len(s) /\ m = Len(s) + 1
    <3>1. y = x /\ s[n] = x
      BY <1>1, <1>2, <2>3
    <3> QED BY <2>3, <3>1 DEF Contains
  <2>4. CASE n = Len(s) + 1 /\ m = Len(s) + 1
    BY <2>4
  <2> QED BY <1>1, <1>2, <2>1, <2>2, <2>3, <2>4
<1>3. Once(a, x)
  BY <1>2 DEF Once
<1> QED BY <1>3 DEF a

(* What is in a queue after its head was read ...                          *)
LEMMA ContainsTail ==
  ASSUME NEW S, NEW s \in Seq(S), s # <<>>, NEW x
  PROVE  /\ Tail(s) \in Seq(S)
         /\ Contains(s, x) <=> Head(s) = x \/ Contains(Tail(s), x)
<1> DEFINE u == Tail(s)
<1>1. /\ Len(s) \in Nat /\ Len(s) > 0 /\ u \in Seq(S) /\ Len(u) = Len(s) - 1 /\ Head(s) = s[1]
      /\ \A n \in 1 .. Len(u) : u[n] = s[n + 1]
  OBVIOUS
<1> HIDE DEF u
<1>2. ASSUME Contains(s, x) PROVE Head(s) = x \/ Contains(u, x)
  <2>1. PICK n \in 1 .. Len(s) : s[n] = x
    BY <1>2 DEF Contains
  <2>2. CASE n = 1
    BY <1>1, <2>1, <2>2
  <2>3. CASE n # 1
    <3>1. n - 1 \in 1 .. Len(u) /\ u[n - 1] = s[n - 1 + 1] /\ n - 1 + 1 = n
      BY <1>1, <2>1, <2>3
    <3>2. u[n - 1] = x
      BY <2>1, <3>1
    <3> QED BY <3>1, <3>2 DEF Contains
  <2> QED BY <2>2, <2>3
<1>3. ASSUME Contains(u, x) PROVE Contains(s, x)
  <2>1. PICK n \in 1 .. Len(u) : u[n] = x
    BY <1>3 DEF Contains
  <2>2. n + 1 \in 1 .. Len(s) /\ s[n + 1] = x
    BY <1>1, <2>1
  <2> QED BY <2>2 DEF Contains
<1>4. ASSUME Head(s) = x PROVE Contains(s, x)
  <2>1. 1 \in 1 .. Len(s) /\ s[1] = x
    BY <1>1, <1>4
  <2> QED BY <2>1 DEF Contains
<1>5. u \in Seq(S) /\ (Contains(s, x) <=> Head(s) = x \/ Contains(u, x))
  BY <1>1, <1>2, <1>3, <1>4
<1> QED BY <1>5 DEF u

(* ... and that nothing is in it twice, nor is its head any more.          *)
LEMMA OnceTail ==
  ASSUME NEW S, NEW s \in Seq(S), s # <<>>, NEW x, Once(s, x)
  PROVE  Once(Tail(s), x) /\ (Head(s) = x => ~Contains(Tail(s), x))
<1> DEFINE u == Tail(s)
<1>1. /\ Len(s) \in Nat /\ Len(s) > 0 /\ u \in Seq(S) /\ Len(u) = Len(s) - 1 /\ Head(s) = s[1]
      /\ \A n \in 1 .. Len(u) : u[n] = s[n + 1]
  OBVIOUS
<1> HIDE DEF u
<1>2. ASSUME NEW m \in 1 .. Len(u), NEW n \in 1 .. Len(u), u[m] = x, u[n] = x
      PROVE  m = n
  <2>1. m + 1 \in 1 .. Len(s) /\ n + 1 \in 1 .. Len(s) /\ s[m + 1] = x /\ s[n + 1] = x
    BY <1>1, <1>2
  <2>2. m + 1 = n + 1
    BY <2>1 DEF Once
  <2> QED BY <2>2
<1>3. ASSUME Head(s) = x, Contains(u, x) PROVE FALSE
  <2>1. PICK n \in 1 .. Len(u) : u[n] = x
    BY <1>3 DEF Contains
  <2>2. n + 1 \in 1 .. Len(s) /\ 1 \in 1 .. Len(s) /\ s[n + 1] = x /\ s[1] = x /\ n + 1 # 1
    BY <1>1, <1>3, <2>1
  <2> QED BY <2>2 DEF Once
<1>4. Once(u, x) /\ (Head(s) = x => ~Contains(u, x))
  BY <1>2, <1>3 DEF Once
<1> QED BY <1>4 DEF u

(* The last element of a queue that is read from the other end.            *)
LEMMA LastAndFront ==
  ASSUME NEW S, NEW s \in Seq(S), NEW y \in S
  PROVE  /\ Append(s, y) \in Seq(S) /\ Append(s, y) # <<>>
         /\ Last(Append(s, y)) = y /\ Front(Append(s, y)) = s
         /\ Head(Append(s, y)) = IF s = <<>> THEN y ELSE Head(s)
         /\ Tail(Append(s, y)) = IF s = <<>> THEN <<>> ELSE Append(Tail(s), y)
<1> DEFINE a == Append(s, y)
<1>1. /\ Len(s) \in Nat /\ a \in Seq(S) /\ Len(a) = Len(s) + 1 /\ a[Len(s) + 1] = y
      /\ \A n \in 1 .. Len(s) : a[n] = s[n]
  OBVIOUS
<1> HIDE DEF a
<1>2. a # <<>> /\ Last(a) = y
  BY <1>1 DEF Last
<1>3. Front(a) = s
  <2>1. /\ Front(a) \in Seq(S) /\ Len(Front(a)) = Len(s)
        /\ \A n \in 1 .. Len(s) : Front(a)[n] = a[n]
    BY <1>1 DEF Front
  <2>2. \A n \in 1 .. Len(Front(a)) : Front(a)[n] = s[n]
    BY <1>1, <2>1
  <2> DEFINE b == Front(a)
  <2> HIDE DEF b
  <2>3. b = s
    BY <2>1, <2>2, SameElements DEF b
  <2> QED BY <2>3 DEF b
<1>4. Head(a) = IF s = <<>> THEN y ELSE Head(s)
  BY HeadTailAppend DEF a
<1>5. Tail(a) = IF s = <<>> THEN <<>> ELSE Append(Tail(s), y)
  BY HeadTailAppend DEF a
<1> QED BY <1>1, <1>2, <1>3, <1>4, <1>5 DEF a

(* The end of a queue stays when its head is read.                         *)
LEMMA LastOfTail ==
  ASSUME NEW S, NEW s \in Seq(S), s # <<>>
  PROVE  IF Tail(s) = <<>> THEN Last(s) = Head(s) ELSE Last(s) = Last(Tail(s))
<1> DEFINE u == Tail(s)
<1>1. /\ Len(s) \in Nat /\ Len(s) > 0 /\ u \in Seq(S) /\ Len(u) = Len(s) - 1 /\ Head(s) = s[1]
      /\ \A n \in 1 .. Len(u) : u[n] = s[n + 1]
  OBVIOUS
<1> HIDE DEF u
<1>2. CASE u = <<>>
  <2>1. Len(s) = 1
    BY <1>1, <1>2
  <2> QED BY <1>1, <1>2, <2>1 DEF Last, u
<1>3. CASE u # <<>>
  <2>1. Len(u) > 0
    BY <1>1, <1>3
  <2>2. u[Len(u)] = s[Len(s)]
    BY <1>1, <2>1
  <2> QED BY <1>3, <2>2 DEF Last, u
<1> QED BY <1>2, <1>3

-----------------------------------------------------------------------------
(* The scripts, step by step.                                              *)

(* What is left of a script: the next step, the steps after it and the     *)
(* last one.                                                               *)
LEMMA RestFacts ==
  ASSUME NEW S, NEW s \in Seq(S), NEW i \in 1 .. Len(s)
  PROVE  /\ Rest(s, i) # <<>> /\ Head(Rest(s, i)) = s[i]
         /\ Tail(Rest(s, i)) = IF i < Len(s) THEN Rest(s, i + 1) ELSE <<>>
         /\ Last(Rest(s, i)) = s[Len(s)]
<1>1. Len(s) \in Nat
  OBVIOUS
<1>2. /\ Rest(s, i) \in Seq(S) /\ Len(Rest(s, i)) = Len(s) - i + 1
      /\ \A k \in 1 .. Len(s) - i + 1 : Rest(s, i)[k] = s[i + k - 1]
  BY <1>1 DEF Rest
<1>3. Rest(s, i) # <<>> /\ Head(Rest(s, i)) = s[i]
  BY <1>1, <1>2
<1>4. Last(Rest(s, i)) = s[Len(s)]
  BY <1>1, <1>2 DEF Last
<1>5. /\ Len(Tail(Rest(s, i))) = Len(s) - i /\ Tail(Rest(s, i)) \in Seq(S)
      /\ \A k \in 1 .. Len(s) - i : Tail(Rest(s, i))[k] = s[i + k]
  BY <1>1, <1>2, <1>3
<1>6. CASE i < Len(s)
  <2>1. /\ Rest(s, i + 1) \in Seq(S) /\ Len(Rest(s, i + 1)) = Len(s) - i
        /\ \A k \in 1 .. Len(s) - i : Rest(s, i + 1)[k] = s[i + k]
    BY <1>1, <1>6 DEF Rest
  <2>2. Tail(Rest(s, i)) = Rest(s, i + 1)
    <3> DEFINE a == Tail(Rest(s, i))
               b == Rest(s, i + 1)
    <3>1. a \in Seq(S) /\ b \in Seq(S) /\ Len(a) = Len(b) /\ \A k \in 1 .. Len(a) : a[k] = b[k]
      BY <1>5, <2>1
    <3> HIDE DEF a, b
    <3>2. a = b
      BY <3>1, SameElements
    <3> QED BY <3>2 DEF a, b
  <2> QED BY <1>3, <1>4, <1>6, <2>2
<1>7. CASE i = Len(s)
  <2>1. Tail(Rest(s, i)) = <<>>
    <3> DEFINE a == Tail(Rest(s, i))
    <3>1. a \in Seq(S) /\ Len(a) = 0
      BY <1>1, <1>5, <1>7
    <3> HIDE DEF a
    <3>2. a = <<>>
      BY <3>1
    <3> QED BY <3>2 DEF a
  <2> QED BY <1>3, <1>4, <1>7, <2>1
<1> QED BY <1>1, <1>6, <1>7

(* The steps of the scripts of start and of the end of MNLD.               *)
LEMMA StatusSteps ==
  /\ \A s \in Statuses : <<"status", s>> \in Steps
  /\ <<"report", "sta">> \in Steps
  /\ <<"wake", "acquire">> \in Steps /\ <<"wake", "release">> \in Steps
  /\ <<"stop", "clear">> \in Steps /\ <<"stop", "signal">> \in Steps
  /\ <<"flag", "up">> \in Steps /\ <<"flag", "down">> \in Steps
BY DEF Steps, Args

(* The steps of the scripts about an interface.                            *)
LEMMA CallSteps ==
  \A k \in Calls : <<"set", k>> \in Steps /\ <<"open", k>> \in Steps /\ <<"call", k>> \in Steps
BY DEF Steps, Args

(* A script of two steps.                                                  *)
LEMMA TwoSteps ==
  ASSUME NEW a \in Steps, NEW b \in Steps
  PROVE  /\ <<a, b>> \in Seq(Steps) /\ Len(<<a, b>>) = 2
         /\ <<a, b>>[1] = a /\ <<a, b>>[2] = b
OBVIOUS

(* A report: sta is stored, then handed to status_cb.                      *)
LEMMA ReportFacts ==
  ASSUME NEW s \in Statuses
  PROVE  /\ ReportScript(s) \in Seq(Steps) /\ Len(ReportScript(s)) = 2
         /\ ReportScript(s)[1] = <<"status", s>> /\ ReportScript(s)[2] = <<"report", "sta">>
<1>1. PICK a \in Steps : a = <<"status", s>>
  BY StatusSteps
<1>2. PICK b \in Steps : b = <<"report", "sta">>
  BY StatusSteps
<1>3. ReportScript(s) = <<a, b>>
  BY <1>1, <1>2 DEF ReportScript
<1> QED BY <1>1, <1>2, <1>3, TwoSteps

(* Two reports, one after the other.                                       *)
LEMMA TwoReports ==
  ASSUME NEW a \in Statuses, NEW b \in Statuses
  PROVE  LET s == ReportScript(a) \o ReportScript(b)
         IN  /\ s \in Seq(Steps) /\ Len(s) = 4
             /\ s[1] = <<"status", a>> /\ s[2] = <<"report", "sta">>
             /\ s[3] = <<"status", b>> /\ s[4] = <<"report", "sta">>
<1> DEFINE x == ReportScript(a)
           y == ReportScript(b)
<1>1. /\ x \in Seq(Steps) /\ Len(x) = 2
      /\ x[1] = <<"status", a>> /\ x[2] = <<"report", "sta">>
      /\ y \in Seq(Steps) /\ Len(y) = 2
      /\ y[1] = <<"status", b>> /\ y[2] = <<"report", "sta">>
  BY ReportFacts
<1> HIDE DEF x, y
<1>2. /\ x \o y \in Seq(Steps) /\ Len(x \o y) = 4
      /\ (x \o y)[1] = x[1] /\ (x \o y)[2] = x[2] /\ (x \o y)[3] = y[1] /\ (x \o y)[4] = y[2]
  <2>1. /\ x \o y \in Seq(Steps) /\ Len(x \o y) = 4
        /\ \A k \in 1 .. 4 : (x \o y)[k] = IF k <= 2 THEN x[k] ELSE y[k - 2]
    <3>1. /\ x \o y \in Seq(Steps) /\ Len(x \o y) = Len(x) + Len(y)
          /\ \A k \in 1 .. Len(x) + Len(y) :
               (x \o y)[k] = IF k <= Len(x) THEN x[k] ELSE y[k - Len(x)]
      BY <1>1, ConcatProperties
    <3>2. Len(x) = 2 /\ Len(x) + Len(y) = 4
      BY <1>1
    <3> QED BY <3>1, <3>2
  <2> QED BY <2>1
<1>3. /\ x \o y \in Seq(Steps) /\ Len(x \o y) = 4
      /\ (x \o y)[1] = <<"status", a>> /\ (x \o y)[2] = <<"report", "sta">>
      /\ (x \o y)[3] = <<"status", b>> /\ (x \o y)[4] = <<"report", "sta">>
  BY <1>1, <1>2
<1> QED BY <1>3 DEF x, y

(* Four steps and three more.                                              *)
LEMMA ThreeMore ==
  ASSUME NEW S, NEW s \in Seq(S), Len(s) = 4, NEW a \in S, NEW b \in S, NEW c \in S
  PROVE  LET r == s \o <<a, b, c>>
         IN  /\ r \in Seq(S) /\ Len(r) = 7 /\ r[1] = s[1] /\ r[2] = s[2] /\ r[3] = s[3]
             /\ r[4] = s[4] /\ r[5] = a /\ r[6] = b /\ r[7] = c
<1> DEFINE u == <<a, b, c>>
<1>1. u \in Seq(S) /\ Len(u) = 3 /\ u[1] = a /\ u[2] = b /\ u[3] = c
  OBVIOUS
<1> HIDE DEF u
<1>2. /\ s \o u \in Seq(S) /\ Len(s \o u) = 7
      /\ (s \o u)[1] = s[1] /\ (s \o u)[2] = s[2] /\ (s \o u)[3] = s[3] /\ (s \o u)[4] = s[4]
      /\ (s \o u)[5] = u[1] /\ (s \o u)[6] = u[2] /\ (s \o u)[7] = u[3]
  <2>1. /\ s \o u \in Seq(S) /\ Len(s \o u) = 7
        /\ \A k \in 1 .. 7 : (s \o u)[k] = IF k <= 4 THEN s[k] ELSE u[k - 4]
    <3>1. /\ s \o u \in Seq(S) /\ Len(s \o u) = Len(s) + Len(u)
          /\ \A k \in 1 .. Len(s) + Len(u) :
               (s \o u)[k] = IF k <= Len(s) THEN s[k] ELSE u[k - Len(s)]
      BY <1>1, ConcatProperties
    <3>2. Len(s) = 4 /\ Len(s) + Len(u) = 7
      BY <1>1
    <3> QED BY <3>1, <3>2
  <2> QED BY <2>1
<1> QED BY <1>1, <1>2 DEF u

(* The seven steps of start.                                               *)
LEMMA StartFacts ==
  /\ StartScript \in Seq(Steps) /\ Len(StartScript) = 7
  /\ StartScript[1] = <<"status", "on">> /\ StartScript[2] = <<"report", "sta">>
  /\ StartScript[3] = <<"status", "begin">> /\ StartScript[4] = <<"report", "sta">>
  /\ StartScript[5] = <<"wake", "acquire">> /\ StartScript[6] = <<"stop", "clear">>
  /\ StartScript[7] = <<"flag", "up">>
<1> DEFINE s == ReportScript("on") \o ReportScript("begin")
<1>1. /\ s \in Seq(Steps) /\ Len(s) = 4
      /\ s[1] = <<"status", "on">> /\ s[2] = <<"report", "sta">>
      /\ s[3] = <<"status", "begin">> /\ s[4] = <<"report", "sta">>
  BY TwoReports DEF Statuses
<1>2. StartScript = s \o <<<<"wake", "acquire">>, <<"stop", "clear">>, <<"flag", "up">>>>
  BY DEF StartScript
<1> HIDE DEF s
<1>3. PICK a \in Steps, b \in Steps, c \in Steps :
        a = <<"wake", "acquire">> /\ b = <<"stop", "clear">> /\ c = <<"flag", "up">>
  BY StatusSteps
<1>4. StartScript = s \o <<a, b, c>>
  BY <1>2, <1>3
<1>5. /\ StartScript \in Seq(Steps) /\ Len(StartScript) = 7
      /\ StartScript[1] = s[1] /\ StartScript[2] = s[2] /\ StartScript[3] = s[3]
      /\ StartScript[4] = s[4] /\ StartScript[5] = a /\ StartScript[6] = b
      /\ StartScript[7] = c
  BY <1>1, <1>4, ThreeMore
<1> QED BY <1>1, <1>3, <1>5

(* The seven steps of the handler of HAL_CMD_MNL_DIE.                      *)
LEMMA DieFacts ==
  /\ DieScript \in Seq(Steps) /\ Len(DieScript) = 7
  /\ DieScript[1] = <<"status", "end">> /\ DieScript[2] = <<"report", "sta">>
  /\ DieScript[3] = <<"status", "off">> /\ DieScript[4] = <<"report", "sta">>
  /\ DieScript[5] = <<"stop", "signal">> /\ DieScript[6] = <<"wake", "release">>
  /\ DieScript[7] = <<"flag", "down">>
<1> DEFINE s == ReportScript("end") \o ReportScript("off")
<1>1. /\ s \in Seq(Steps) /\ Len(s) = 4
      /\ s[1] = <<"status", "end">> /\ s[2] = <<"report", "sta">>
      /\ s[3] = <<"status", "off">> /\ s[4] = <<"report", "sta">>
  BY TwoReports DEF Statuses
<1>2. DieScript = s \o <<<<"stop", "signal">>, <<"wake", "release">>, <<"flag", "down">>>>
  BY DEF DieScript
<1> HIDE DEF s
<1>3. PICK a \in Steps, b \in Steps, c \in Steps :
        a = <<"stop", "signal">> /\ b = <<"wake", "release">> /\ c = <<"flag", "down">>
  BY StatusSteps
<1>4. DieScript = s \o <<a, b, c>>
  BY <1>2, <1>3
<1>5. /\ DieScript \in Seq(Steps) /\ Len(DieScript) = 7
      /\ DieScript[1] = s[1] /\ DieScript[2] = s[2] /\ DieScript[3] = s[3]
      /\ DieScript[4] = s[4] /\ DieScript[5] = a /\ DieScript[6] = b
      /\ DieScript[7] = c
  BY <1>1, <1>4, ThreeMore
<1> QED BY <1>1, <1>3, <1>5

(* The two steps of the init of an interface.                              *)
LEMMA OpenFacts ==
  ASSUME NEW k \in Calls
  PROVE  /\ OpenScript(k) \in Seq(Steps) /\ Len(OpenScript(k)) = 2
         /\ OpenScript(k)[1] = <<"set", k>> /\ OpenScript(k)[2] = <<"open", k>>
<1>1. PICK a \in Steps : a = <<"set", k>>
  BY CallSteps
<1>2. PICK b \in Steps : b = <<"open", k>>
  BY CallSteps
<1>3. OpenScript(k) = <<a, b>>
  BY <1>1, <1>2 DEF OpenScript
<1> QED BY <1>1, <1>2, <1>3, TwoSteps

(* What a step of the framework's script can be ...                        *)
LEMMA FwSteps ==
  ASSUME NEW f \in FwScripts
  PROVE  /\ FwScript(f) \in Seq(Steps)
         /\ Len(FwScript(f)) = IF f = "start" THEN 7 ELSE 2
         /\ f = "start" =>
              /\ FwScript(f)[1] = <<"status", "on">> /\ FwScript(f)[2] = <<"report", "sta">>
              /\ FwScript(f)[3] = <<"status", "begin">> /\ FwScript(f)[4] = <<"report", "sta">>
              /\ FwScript(f)[5] = <<"wake", "acquire">> /\ FwScript(f)[6] = <<"stop", "clear">>
              /\ FwScript(f)[7] = <<"flag", "up">>
         /\ f # "start" => FwScript(f)[1] = <<"set", f>> /\ FwScript(f)[2] = <<"open", f>>
<1>1. CASE f = "start"
  <2>1. FwScript(f) = StartScript
    BY <1>1 DEF FwScript
  <2> QED BY <1>1, <2>1, StartFacts
<1>2. CASE f # "start"
  <2>1. f \in Calls /\ FwScript(f) = OpenScript(f)
    BY <1>2 DEF FwScripts, Gated, FwScript, Calls
  <2> QED BY <1>2, <2>1, OpenFacts
<1> QED BY <1>1, <1>2

(* ... and one of the HAL thread's.                                        *)
LEMMA HalSteps ==
  ASSUME NEW h \in HalScripts
  PROVE  /\ HalScript(h) \in Seq(Steps)
         /\ Len(HalScript(h)) = IF h = "die" THEN 7 ELSE IF h \in Icons THEN 4 ELSE 1
         /\ h = "die" =>
              /\ HalScript(h)[1] = <<"status", "end">> /\ HalScript(h)[2] = <<"report", "sta">>
              /\ HalScript(h)[3] = <<"status", "off">> /\ HalScript(h)[4] = <<"report", "sta">>
              /\ HalScript(h)[5] = <<"stop", "signal">> /\ HalScript(h)[6] = <<"wake", "release">>
              /\ HalScript(h)[7] = <<"flag", "down">>
         /\ h \in Icons => HalScript(h)[2] = <<"report", "sta">> /\ HalScript(h)[4] = <<"report", "sta">>
         /\ h = "iconOn" => HalScript(h)[1] = <<"status", "on">> /\ HalScript(h)[3] = <<"status", "begin">>
         /\ h = "iconOff" => HalScript(h)[1] = <<"status", "off">> /\ HalScript(h)[3] = <<"status", "end">>
         /\ h \notin Icons \cup {"die"} => HalScript(h)[1] = <<"call", h>>
<1>1. CASE h = "die"
  <2>1. HalScript(h) = DieScript /\ h \notin Icons
    BY <1>1 DEF HalScript, Icons
  <2> QED BY <1>1, <2>1, DieFacts
<1>2. CASE h = "iconOn"
  <2>1. HalScript(h) = ReportScript("on") \o ReportScript("begin") /\ h \in Icons
    BY <1>2 DEF HalScript, IconOn, Icons
  <2> DEFINE s == ReportScript("on") \o ReportScript("begin")
  <2>2. /\ s \in Seq(Steps) /\ Len(s) = 4
        /\ s[1] = <<"status", "on">> /\ s[2] = <<"report", "sta">>
        /\ s[3] = <<"status", "begin">> /\ s[4] = <<"report", "sta">>
    BY TwoReports DEF Statuses
  <2> HIDE DEF s
  <2>3. HalScript(h) = s
    BY <2>1 DEF s
  <2> QED BY <1>2, <2>1, <2>2, <2>3
<1>3. CASE h = "iconOff"
  <2>1. HalScript(h) = ReportScript("off") \o ReportScript("end") /\ h \in Icons
    BY <1>3 DEF HalScript, IconOff, Icons
  <2> DEFINE s == ReportScript("off") \o ReportScript("end")
  <2>2. /\ s \in Seq(Steps) /\ Len(s) = 4
        /\ s[1] = <<"status", "off">> /\ s[2] = <<"report", "sta">>
        /\ s[3] = <<"status", "end">> /\ s[4] = <<"report", "sta">>
    BY TwoReports DEF Statuses
  <2> HIDE DEF s
  <2>3. HalScript(h) = s
    BY <2>1 DEF s
  <2> QED BY <1>3, <2>1, <2>2, <2>3
<1>4. CASE h \notin {"die", "iconOn", "iconOff"}
  <2>1. HalScript(h) = <<<<"call", h>>>> /\ h \notin Icons
    BY <1>4 DEF HalScript, Icons
  <2>3. PICK a \in Steps : a = <<"call", h>>
    BY <1>4, CallSteps DEF HalScripts
  <2>4. HalScript(h) = <<a>> /\ <<a>> \in Seq(Steps) /\ Len(<<a>>) = 1 /\ <<a>>[1] = a
    BY <2>1, <2>3
  <2> QED BY <1>4, <2>1, <2>3, <2>4
<1> QED BY <1>1, <1>2, <1>3, <1>4

(* The thread that takes a step is in a script, and comes to its next step *)
(* or to its end: of the framework's script ...                            *)
LEMMA FwTakes ==
  ASSUME NEW f \in Fs, NEW i \in 1 .. 7, NEW h \in Hs, NEW j \in 1 .. 7,
         At(todo, f, i, h, j), NEW op, NEW arg, Step("fw", op, arg)
  PROVE  /\ f \in FwScripts /\ FwScript(f)[i] = <<op, arg>>
         /\ IF i < Len(FwScript(f)) THEN At(todo, f, i + 1, h, j)' /\ i + 1 \in 1 .. 7
            ELSE At(todo, "none", i, h, j)'
<1>1. f \in FwScripts
  BY DEF Step, At, FwRest, Fs
<1>2. /\ FwScript(f) \in Seq(Steps) /\ i \in 1 .. Len(FwScript(f))
      /\ Len(FwScript(f)) \in {2, 7}
  BY <1>1, FwSteps DEF At, FwScripts, Gated
<1>3. todo["fw"] = Rest(FwScript(f), i)
  BY <1>1 DEF At, FwRest, FwScripts, Gated
<1>4. /\ Head(todo["fw"]) = FwScript(f)[i]
      /\ Tail(todo["fw"]) = IF i < Len(FwScript(f)) THEN Rest(FwScript(f), i + 1) ELSE <<>>
      /\ todo["fw"] # <<>>
  BY <1>2, <1>3, RestFacts
<1>5. /\ todo' = [todo EXCEPT !["fw"] = Tail(todo["fw"])] /\ todo \in [Threads -> Seq(Steps)]
      /\ Head(todo["fw"]) = <<op, arg>>
  BY DEF Step, At
<1>6. todo["fw"] \in Seq(Steps) /\ "fw" \in Threads /\ "hal" \in Threads
  BY <1>5 DEF Threads
<1>7. Tail(todo["fw"]) \in Seq(Steps)
  BY <1>4, <1>6
<1>8. todo' \in [Threads -> Seq(Steps)] /\ todo'["fw"] = Tail(todo["fw"]) /\ todo'["hal"] = todo["hal"]
  BY <1>5, <1>6, <1>7
<1>9. todo["hal"] = HalRest(h, j) /\ (h # "none" => j <= Len(HalScript(h)))
  BY DEF At
<1>10. CASE i < Len(FwScript(f))
  <2> DEFINE n == Len(FwScript(f))
  <2>0. n \in {2, 7} /\ i < n
    BY <1>2, <1>10
  <2> HIDE DEF n
  <2>1. i + 1 \in 1 .. 7 /\ i + 1 <= Len(FwScript(f))
    <3>1. i + 1 \in 1 .. 7 /\ i + 1 <= n
      BY <2>0, i \in 1 .. 7
    <3> QED BY <3>1 DEF n
  <2>2. todo'["fw"] = FwRest(f, i + 1)
    BY <1>1, <1>4, <1>8, <1>10 DEF FwRest, FwScripts, Gated
  <2> QED BY <1>1, <1>4, <1>5, <1>8, <1>9, <1>10, <2>1, <2>2 DEF At
<1>11. CASE ~(i < Len(FwScript(f)))
  <2>1. todo'["fw"] = FwRest("none", i)
    BY <1>4, <1>8, <1>11 DEF FwRest
  <2> QED BY <1>1, <1>4, <1>5, <1>8, <1>9, <1>11, <2>1 DEF At
<1> QED BY <1>10, <1>11

(* ... and of the HAL thread's.                                            *)
LEMMA HalTakes ==
  ASSUME NEW f \in Fs, NEW i \in 1 .. 7, NEW h \in Hs, NEW j \in 1 .. 7,
         At(todo, f, i, h, j), NEW op, NEW arg, Step("hal", op, arg)
  PROVE  /\ h \in HalScripts /\ HalScript(h)[j] = <<op, arg>>
         /\ IF j < Len(HalScript(h)) THEN At(todo, f, i, h, j + 1)' /\ j + 1 \in 1 .. 7
            ELSE At(todo, f, i, "none", j)'
<1>1. h \in HalScripts
  BY DEF Step, At, HalRest, Hs
<1>2. /\ HalScript(h) \in Seq(Steps) /\ j \in 1 .. Len(HalScript(h))
      /\ Len(HalScript(h)) \in {1, 4, 7}
  <2>1. Len(HalScript(h)) = IF h = "die" THEN 7 ELSE IF h \in Icons THEN 4 ELSE 1
    BY <1>1, HalSteps
  <2>2. h # "none"
    BY <1>1 DEF HalScripts, Calls, Gated, Ungated
  <2>3. HalScript(h) \in Seq(Steps) /\ Len(HalScript(h)) \in {1, 4, 7} /\ j <= Len(HalScript(h))
    BY <1>1, <2>1, <2>2, HalSteps DEF At
  <2> QED BY <2>3
<1>3. todo["hal"] = Rest(HalScript(h), j)
  BY <1>1 DEF At, HalRest, HalScripts, Calls, Gated, Ungated
<1>4. /\ Head(todo["hal"]) = HalScript(h)[j]
      /\ Tail(todo["hal"]) = IF j < Len(HalScript(h)) THEN Rest(HalScript(h), j + 1) ELSE <<>>
      /\ todo["hal"] # <<>>
  BY <1>2, <1>3, RestFacts
<1>5. /\ todo' = [todo EXCEPT !["hal"] = Tail(todo["hal"])] /\ todo \in [Threads -> Seq(Steps)]
      /\ Head(todo["hal"]) = <<op, arg>>
  BY DEF Step, At
<1>6. todo["hal"] \in Seq(Steps) /\ "fw" \in Threads /\ "hal" \in Threads
  BY <1>5 DEF Threads
<1>7. Tail(todo["hal"]) \in Seq(Steps)
  BY <1>4, <1>6
<1>8. todo' \in [Threads -> Seq(Steps)] /\ todo'["hal"] = Tail(todo["hal"]) /\ todo'["fw"] = todo["fw"]
  BY <1>5, <1>6, <1>7
<1>9. todo["fw"] = FwRest(f, i) /\ (f # "none" => i <= Len(FwScript(f)))
  BY DEF At
<1>10. CASE j < Len(HalScript(h))
  <2> DEFINE n == Len(HalScript(h))
  <2>0. n \in {1, 4, 7} /\ j < n
    BY <1>2, <1>10
  <2> HIDE DEF n
  <2>1. j + 1 \in 1 .. 7 /\ j + 1 <= Len(HalScript(h))
    <3>1. j + 1 \in 1 .. 7 /\ j + 1 <= n
      BY <2>0, j \in 1 .. 7
    <3> QED BY <3>1 DEF n
  <2>2. todo'["hal"] = HalRest(h, j + 1)
    BY <1>1, <1>4, <1>8, <1>10 DEF HalRest, HalScripts, Calls, Gated, Ungated
  <2> QED BY <1>1, <1>4, <1>5, <1>8, <1>9, <1>10, <2>1, <2>2 DEF At
<1>11. CASE ~(j < Len(HalScript(h)))
  <2>1. todo'["hal"] = HalRest("none", j)
    BY <1>4, <1>8, <1>11 DEF HalRest
  <2> QED BY <1>1, <1>4, <1>5, <1>8, <1>9, <1>11, <2>1 DEF At
<1> QED BY <1>10, <1>11

(* Which step it is tells where the thread was.                            *)
LEMMA FwMeans ==
  ASSUME NEW f \in FwScripts, NEW i \in 1 .. Len(FwScript(f)), NEW op, NEW arg,
         FwScript(f)[i] = <<op, arg>>
  PROVE  /\ op = "status" => f = "start" /\ ((i = 1 /\ arg = "on") \/ (i = 3 /\ arg = "begin"))
         /\ op = "report" => f = "start" /\ i \in {2, 4}
         /\ op = "wake" => f = "start" /\ i = 5 /\ arg = "acquire"
         /\ op = "stop" => f = "start" /\ i = 6 /\ arg = "clear"
         /\ op = "flag" => f = "start" /\ i = 7 /\ arg = "up"
         /\ op = "set" => f \in Gated /\ i = 1 /\ arg = f
         /\ op = "open" => f \in Gated /\ i = 2 /\ arg = f
         /\ op # "call"
<1>1. CASE f = "start"
  <2>1. i \in 1 .. 7
    BY <1>1, FwSteps
  <2>2. i \in {1, 2, 3, 4, 5, 6, 7}
    BY <2>1
  <2>3. /\ i = 1 => <<op, arg>> = <<"status", "on">>
        /\ i = 2 => <<op, arg>> = <<"report", "sta">>
        /\ i = 3 => <<op, arg>> = <<"status", "begin">>
        /\ i = 4 => <<op, arg>> = <<"report", "sta">>
        /\ i = 5 => <<op, arg>> = <<"wake", "acquire">>
        /\ i = 6 => <<op, arg>> = <<"stop", "clear">>
        /\ i = 7 => <<op, arg>> = <<"flag", "up">>
    BY <1>1, <2>1, FwSteps
  <2>4. /\ i = 1 => op = "status" /\ arg = "on"
        /\ i = 2 => op = "report" /\ arg = "sta"
        /\ i = 3 => op = "status" /\ arg = "begin"
        /\ i = 4 => op = "report" /\ arg = "sta"
        /\ i = 5 => op = "wake" /\ arg = "acquire"
        /\ i = 6 => op = "stop" /\ arg = "clear"
        /\ i = 7 => op = "flag" /\ arg = "up"
    BY <2>3
  <2>5. /\ op = "status" => i = 1 \/ i = 3
        /\ op = "report" => i = 2 \/ i = 4
        /\ op = "wake" => i = 5
        /\ op = "stop" => i = 6
        /\ op = "flag" => i = 7
        /\ op \notin {"set", "open", "call"}
    BY <2>2, <2>4
  <2> QED BY <1>1, <2>4, <2>5
<1>2. CASE f # "start"
  <2>1. i \in 1 .. 2 /\ f \in Gated
    BY <1>2, FwSteps DEF FwScripts
  <2>2. <<op, arg>> = IF i = 1 THEN <<"set", f>> ELSE <<"open", f>>
    BY <1>2, FwSteps
  <2> QED BY <1>2, <2>1, <2>2
<1> QED BY <1>1, <1>2

(* The same for the script of gps_state_thread.                            *)
LEMMA HalMeans ==
  ASSUME NEW h \in HalScripts, NEW j \in 1 .. Len(HalScript(h)), NEW op, NEW arg,
         HalScript(h)[j] = <<op, arg>>
  PROVE  /\ op = "status" =>
              \/ h = "die" /\ ((j = 1 /\ arg = "end") \/ (j = 3 /\ arg = "off"))
              \/ h = "iconOn" /\ j \in {1, 3}
              \/ h = "iconOff" /\ ((j = 1 /\ arg = "off") \/ (j = 3 /\ arg = "end"))
         /\ op = "report" => h \in {"die", "iconOn", "iconOff"} /\ j \in {2, 4}
         /\ op = "wake" => h = "die" /\ j = 6 /\ arg = "release"
         /\ op = "stop" => h = "die" /\ j = 5 /\ arg = "signal"
         /\ op = "flag" => h = "die" /\ j = 7 /\ arg = "down"
         /\ op = "call" => h \in Calls /\ j = 1 /\ arg = h
         /\ op \notin {"set", "open"}
<1>1. CASE h = "die"
  <2>1. j \in 1 .. 7
    BY <1>1, HalSteps
  <2>2. j \in {1, 2, 3, 4, 5, 6, 7}
    BY <2>1
  <2>3. /\ j = 1 => <<op, arg>> = <<"status", "end">>
        /\ j = 2 => <<op, arg>> = <<"report", "sta">>
        /\ j = 3 => <<op, arg>> = <<"status", "off">>
        /\ j = 4 => <<op, arg>> = <<"report", "sta">>
        /\ j = 5 => <<op, arg>> = <<"stop", "signal">>
        /\ j = 6 => <<op, arg>> = <<"wake", "release">>
        /\ j = 7 => <<op, arg>> = <<"flag", "down">>
    BY <1>1, <2>1, HalSteps
  <2>4. /\ j = 1 => op = "status" /\ arg = "end"
        /\ j = 2 => op = "report" /\ arg = "sta"
        /\ j = 3 => op = "status" /\ arg = "off"
        /\ j = 4 => op = "report" /\ arg = "sta"
        /\ j = 5 => op = "stop" /\ arg = "signal"
        /\ j = 6 => op = "wake" /\ arg = "release"
        /\ j = 7 => op = "flag" /\ arg = "down"
    BY <2>3
  <2>5. /\ op = "status" => j = 1 \/ j = 3
        /\ op = "report" => j = 2 \/ j = 4
        /\ op = "wake" => j = 6
        /\ op = "stop" => j = 5
        /\ op = "flag" => j = 7
        /\ op \notin {"set", "open", "call"}
    BY <2>2, <2>4
  <2> QED BY <1>1, <2>4, <2>5
<1>2. CASE h \in Icons
  <2>1. j \in 1 .. 4 /\ h \in {"iconOn", "iconOff"} /\ h # "die"
    BY <1>2, HalSteps DEF Icons
  <2>2. j \in {1, 2, 3, 4}
    BY <2>1
  <2>3. /\ j \in {2, 4} => <<op, arg>> = <<"report", "sta">>
        /\ j = 1 => <<op, arg>> = <<"status", IF h = "iconOn" THEN "on" ELSE "off">>
        /\ j = 3 => <<op, arg>> = <<"status", IF h = "iconOn" THEN "begin" ELSE "end">>
    BY <1>2, <2>1, <2>2, HalSteps
  <2>4. /\ j \in {2, 4} => op = "report"
        /\ j \in {1, 3} => op = "status"
        /\ j = 1 => arg = IF h = "iconOn" THEN "on" ELSE "off"
        /\ j = 3 => arg = IF h = "iconOn" THEN "begin" ELSE "end"
    BY <2>3
  <2>5. /\ op = "status" => j = 1 \/ j = 3
        /\ op = "report" => j = 2 \/ j = 4
        /\ op \in {"status", "report"}
    BY <2>2, <2>4
  <2> QED BY <2>1, <2>4, <2>5
<1>3. CASE h \notin {"die", "iconOn", "iconOff"}
  <2>1. j \in 1 .. 1 /\ h \in Calls
    BY <1>3, HalSteps DEF Icons, HalScripts
  <2>2. <<op, arg>> = <<"call", h>>
    BY <1>3, <2>1, HalSteps DEF Icons
  <2> QED BY <1>3, <2>1, <2>2
<1> QED BY <1>1, <1>2, <1>3 DEF Icons

(* A step of the framework's thread: where it was and where it comes to.   *)
LEMMA FwAt ==
  ASSUME NEW f \in Fs, NEW i \in 1 .. 7, NEW h \in Hs, NEW j \in 1 .. 7,
         At(todo, f, i, h, j), NEW op, NEW arg, Step("fw", op, arg)
  PROVE  /\ op = "status" => /\ f = "start" /\ ((i = 1 /\ arg = "on") \/ (i = 3 /\ arg = "begin"))
                             /\ At(todo, f, i + 1, h, j)' /\ i + 1 \in 1 .. 7
         /\ op = "report" => /\ f = "start" /\ i \in {2, 4}
                             /\ At(todo, f, i + 1, h, j)' /\ i + 1 \in 1 .. 7
         /\ op = "wake" => /\ f = "start" /\ i = 5 /\ arg = "acquire"
                           /\ At(todo, f, 6, h, j)'
         /\ op = "stop" => /\ f = "start" /\ i = 6 /\ arg = "clear"
                           /\ At(todo, f, 7, h, j)'
         /\ op = "flag" => /\ f = "start" /\ i = 7 /\ arg = "up"
                           /\ At(todo, "none", i, h, j)'
         /\ op = "set" => /\ f \in Gated /\ i = 1 /\ arg = f
                          /\ At(todo, f, 2, h, j)'
         /\ op = "open" => /\ f \in Gated /\ i = 2 /\ arg = f
                           /\ At(todo, "none", i, h, j)'
         /\ op # "call"
<1>1. /\ f \in FwScripts /\ FwScript(f)[i] = <<op, arg>>
      /\ IF i < Len(FwScript(f)) THEN At(todo, f, i + 1, h, j)' /\ i + 1 \in 1 .. 7
         ELSE At(todo, "none", i, h, j)'
  BY FwTakes
<1>2. Len(FwScript(f)) = IF f = "start" THEN 7 ELSE 2
  BY <1>1, FwSteps
<1>3. i \in 1 .. Len(FwScript(f))
  BY <1>1, <1>2 DEF At, FwScripts, Gated
<1>4. \/ f = "start" /\ Len(FwScript(f)) = 7
      \/ f \in Gated /\ Len(FwScript(f)) = 2
  BY <1>1, <1>2 DEF FwScripts, Gated
<1>5. /\ op = "status" => f = "start" /\ ((i = 1 /\ arg = "on") \/ (i = 3 /\ arg = "begin"))
      /\ op = "report" => f = "start" /\ i \in {2, 4}
      /\ op = "wake" => f = "start" /\ i = 5 /\ arg = "acquire"
      /\ op = "stop" => f = "start" /\ i = 6 /\ arg = "clear"
      /\ op = "flag" => f = "start" /\ i = 7 /\ arg = "up"
      /\ op = "set" => f \in Gated /\ i = 1 /\ arg = f
      /\ op = "open" => f \in Gated /\ i = 2 /\ arg = f
      /\ op # "call"
  BY <1>1, <1>3, FwMeans
<1>6. /\ f = "start" /\ i <= 6 => At(todo, f, i + 1, h, j)' /\ i + 1 \in 1 .. 7
      /\ f = "start" /\ i = 7 => At(todo, "none", i, h, j)'
      /\ f \in Gated /\ i = 1 => At(todo, f, 2, h, j)'
      /\ f \in Gated /\ i = 2 => At(todo, "none", i, h, j)'
  <2> DEFINE n == Len(FwScript(f))
             P == At(todo, f, i + 1, h, j)'
             Q == At(todo, "none", i, h, j)'
  <2>1. IF i < n THEN P /\ i + 1 \in 1 .. 7 ELSE Q
    BY <1>1
  <2>2. (f = "start" => n = 7) /\ (f \in Gated => n = 2)
    BY <1>4 DEF Gated
  <2>3. i = 1 => (P <=> At(todo, f, 2, h, j)')
    OBVIOUS
  <2> HIDE DEF n, P, Q
  <2>4. /\ f = "start" /\ i <= 6 => P /\ i + 1 \in 1 .. 7
        /\ f = "start" /\ i = 7 => Q
        /\ f \in Gated /\ i = 1 => P
        /\ f \in Gated /\ i = 2 => Q
    BY <2>1, <2>2
  <2> QED BY <2>3, <2>4 DEF P, Q
<1>7. (i = 5 => i + 1 = 6) /\ (i = 6 => i + 1 = 7)
  OBVIOUS
<1> QED BY <1>5, <1>6, <1>7

(* A step of gps_state_thread: where it was and where it comes to.         *)
LEMMA HalAt ==
  ASSUME NEW f \in Fs, NEW i \in 1 .. 7, NEW h \in Hs, NEW j \in 1 .. 7,
         At(todo, f, i, h, j), NEW op, NEW arg, Step("hal", op, arg)
  PROVE  /\ op = "status" =>
              /\ \/ h = "die" /\ ((j = 1 /\ arg = "end") \/ (j = 3 /\ arg = "off"))
                 \/ h = "iconOn" /\ j \in {1, 3}
                 \/ h = "iconOff" /\ ((j = 1 /\ arg = "off") \/ (j = 3 /\ arg = "end"))
              /\ At(todo, f, i, h, j + 1)' /\ j + 1 \in 1 .. 7
         /\ op = "report" =>
              \/ h = "die" /\ j \in {2, 4} /\ At(todo, f, i, h, j + 1)' /\ j + 1 \in 1 .. 7
              \/ h \in Icons /\ j = 2 /\ At(todo, f, i, h, 3)'
              \/ h \in Icons /\ j = 4 /\ At(todo, f, i, "none", j)'
         /\ op = "wake" => h = "die" /\ j = 6 /\ arg = "release" /\ At(todo, f, i, h, 7)'
         /\ op = "stop" => h = "die" /\ j = 5 /\ arg = "signal" /\ At(todo, f, i, h, 6)'
         /\ op = "flag" => h = "die" /\ j = 7 /\ arg = "down" /\ At(todo, f, i, "none", j)'
         /\ op = "call" => h \in Calls /\ arg = h /\ At(todo, f, i, "none", j)'
         /\ op \notin {"set", "open"}
<1>1. /\ h \in HalScripts /\ HalScript(h)[j] = <<op, arg>>
      /\ IF j < Len(HalScript(h)) THEN At(todo, f, i, h, j + 1)' /\ j + 1 \in 1 .. 7
         ELSE At(todo, f, i, "none", j)'
  BY HalTakes
<1>2. Len(HalScript(h)) = IF h = "die" THEN 7 ELSE IF h \in Icons THEN 4 ELSE 1
  BY <1>1, HalSteps
<1>3. j \in 1 .. Len(HalScript(h))
  BY <1>1, <1>2 DEF At, HalScripts, Calls, Gated, Ungated
<1>4. \/ h = "die" /\ Len(HalScript(h)) = 7
      \/ h \in Icons /\ Len(HalScript(h)) = 4
      \/ h \in Calls /\ Len(HalScript(h)) = 1
  BY <1>1, <1>2 DEF HalScripts, Calls, Icons, Gated, Ungated
<1>5. /\ h \in Calls => h \notin Icons /\ h # "die"
      /\ h \in Icons <=> h \in {"iconOn", "iconOff"}
  BY DEF Calls, Icons, Gated, Ungated
<1>6. /\ op = "status" =>
              \/ h = "die" /\ ((j = 1 /\ arg = "end") \/ (j = 3 /\ arg = "off"))
              \/ h = "iconOn" /\ j \in {1, 3}
              \/ h = "iconOff" /\ ((j = 1 /\ arg = "off") \/ (j = 3 /\ arg = "end"))
      /\ op = "report" => h \in {"die", "iconOn", "iconOff"} /\ j \in {2, 4}
      /\ op = "wake" => h = "die" /\ j = 6 /\ arg = "release"
      /\ op = "stop" => h = "die" /\ j = 5 /\ arg = "signal"
      /\ op = "flag" => h = "die" /\ j = 7 /\ arg = "down"
      /\ op = "call" => h \in Calls /\ j = 1 /\ arg = h
      /\ op \notin {"set", "open"}
  BY <1>1, <1>3, HalMeans
<1>7. /\ h = "die" /\ j <= 6 => At(todo, f, i, h, j + 1)' /\ j + 1 \in 1 .. 7
      /\ h = "die" /\ j = 7 => At(todo, f, i, "none", j)'
      /\ h \in Icons /\ j <= 3 => At(todo, f, i, h, j + 1)' /\ j + 1 \in 1 .. 7
      /\ h \in Icons /\ j = 4 => At(todo, f, i, "none", j)'
      /\ h \in Calls /\ j = 1 => At(todo, f, i, "none", j)'
  <2> DEFINE n == Len(HalScript(h))
             P == At(todo, f, i, h, j + 1)'
             Q == At(todo, f, i, "none", j)'
  <2>1. IF j < n THEN P /\ j + 1 \in 1 .. 7 ELSE Q
    BY <1>1
  <2>2. (h = "die" => n = 7) /\ (h \in Icons => n = 4) /\ (h \in Calls => n = 1)
    BY <1>4, <1>5
  <2> HIDE DEF n, P, Q
  <2>4. /\ h = "die" /\ j <= 6 => P /\ j + 1 \in 1 .. 7
        /\ h = "die" /\ j = 7 => Q
        /\ h \in Icons /\ j <= 3 => P /\ j + 1 \in 1 .. 7
        /\ h \in Icons /\ j = 4 => Q
        /\ h \in Calls /\ j = 1 => Q
    BY <2>1, <2>2
  <2> QED BY <2>4 DEF P, Q
<1>8. (j = 5 => j + 1 = 6) /\ (j = 6 => j + 1 = 7) /\ (j = 2 => j + 1 = 3)
  OBVIOUS
<1> QED BY <1>5, <1>6, <1>7, <1>8

(* The commands in the socket pair, with and without a QUIT behind them.   *)
LEMMA CommandFacts ==
  ASSUME NEW c \in Seq({"START", "STOP"})
  PROVE  /\ Front(Append(c, "QUIT")) = c
         /\ Append(c, "QUIT") # <<>>
         /\ Head(Append(c, "QUIT")) = IF c = <<>> THEN "QUIT" ELSE Head(c)
         /\ Tail(Append(c, "QUIT")) = IF c = <<>> THEN <<>> ELSE Append(Tail(c), "QUIT")
         /\ c # <<>> => /\ Head(c) \in {"START", "STOP"} /\ Tail(c) \in Seq({"START", "STOP"})
                        /\ Contains(c, "START") <=> Head(c) = "START" \/ Contains(Tail(c), "START")
                        /\ IF Tail(c) = <<>> THEN Last(c) = Head(c) ELSE Last(c) = Last(Tail(c))
<1> DEFINE S == {"START", "STOP", "QUIT"}
<1>1. c \in Seq(S) /\ "QUIT" \in S
  OBVIOUS
<1> HIDE DEF S
<1>2. /\ Front(Append(c, "QUIT")) = c
      /\ Append(c, "QUIT") # <<>>
      /\ Head(Append(c, "QUIT")) = IF c = <<>> THEN "QUIT" ELSE Head(c)
      /\ Tail(Append(c, "QUIT")) = IF c = <<>> THEN <<>> ELSE Append(Tail(c), "QUIT")
  BY <1>1, LastAndFront
<1>3. ASSUME c # <<>>
      PROVE  /\ Head(c) \in {"START", "STOP"} /\ Tail(c) \in Seq({"START", "STOP"})
             /\ Contains(c, "START") <=> Head(c) = "START" \/ Contains(Tail(c), "START")
             /\ IF Tail(c) = <<>> THEN Last(c) = Head(c) ELSE Last(c) = Last(Tail(c))
  <2>1. Head(c) \in {"START", "STOP"} /\ Tail(c) \in Seq({"START", "STOP"})
    BY <1>3
  <2>2. Contains(c, "START") <=> Head(c) = "START" \/ Contains(Tail(c), "START")
    BY <1>3, ContainsTail
  <2>3. IF Tail(c) = <<>> THEN Last(c) = Head(c) ELSE Last(c) = Last(Tail(c))
    BY <1>3, LastOfTail
  <2> QED BY <2>1, <2>2, <2>3
<1> QED BY <1>2, <1>3

(* A command of start or stop is sent ...                                  *)
LEMMA CommandPut ==
  ASSUME NEW c \in Seq({"START", "STOP"}), NEW x \in {"START", "STOP"}
  PROVE  /\ Append(c, x) \in Seq({"START", "STOP"}) /\ Append(c, x) # <<>>
         /\ Last(Append(c, x)) = x
         /\ Contains(Append(c, x), "START") <=> Contains(c, "START") \/ x = "START"
<1>1. /\ Append(c, x) \in Seq({"START", "STOP"}) /\ Append(c, x) # <<>>
      /\ Last(Append(c, x)) = x
  BY LastAndFront
<1>2. Contains(Append(c, x), "START") <=> Contains(c, "START") \/ x = "START"
  BY ContainsAppend
<1> QED BY <1>1, <1>2

(* ... and one is read: QUIT only after all the others.                    *)
LEMMA CommandTaken ==
  ASSUME Quitting, control # <<>>
  PROVE  /\ Head(control) \in {"START", "STOP"} =>
              /\ Commands # <<>> /\ Head(Commands) = Head(control)
              /\ Tail(control) = IF Quits THEN Append(Tail(Commands), "QUIT") ELSE Tail(Commands)
         /\ Head(control) = "QUIT" => Quits /\ Commands = <<>> /\ Tail(control) = <<>>
<1> DEFINE c == Commands
<1>1. c \in Seq({"START", "STOP"}) /\ control = IF Quits THEN Append(c, "QUIT") ELSE c
  BY DEF Quitting
<1> HIDE DEF c
<1>2. CASE Quits
  BY <1>1, <1>2, CommandFacts DEF c
<1>3. CASE ~Quits
  BY <1>1, <1>3, CommandFacts DEF c
<1> QED BY <1>2, <1>3

(* A script that begins has all its steps before it.                       *)
LEMMA WholeRest ==
  ASSUME NEW S, NEW s \in Seq(S), Len(s) > 0
  PROVE  Rest(s, 1) = s
<1> DEFINE r == Rest(s, 1)
<1>1. Len(s) \in Nat
  OBVIOUS
<1>2. r \in Seq(S) /\ Len(r) = Len(s) /\ \A k \in 1 .. Len(s) : r[k] = s[k]
  BY <1>1 DEF Rest
<1> HIDE DEF r
<1>3. r = s
  BY <1>2, SameElements
<1> QED BY <1>3 DEF r

(* A script begins with its first step: the framework's ...                *)
LEMMA FwBegins ==
  ASSUME NEW f \in FwScripts, NEW i \in 1 .. 7, NEW h \in Hs, NEW j \in 1 .. 7,
         At(todo, "none", i, h, j), todo' = [todo EXCEPT !["fw"] = FwScript(f)]
  PROVE  At(todo, f, 1, h, j)'
<1>1. FwScript(f) \in Seq(Steps) /\ Len(FwScript(f)) \in {2, 7}
  BY FwSteps
<1>2. Rest(FwScript(f), 1) = FwScript(f) /\ 1 <= Len(FwScript(f))
  <2> DEFINE n == Len(FwScript(f))
  <2>0. n \in {2, 7}
    BY <1>1
  <2> HIDE DEF n
  <2>1. n > 0 /\ 1 <= n
    BY <2>0
  <2>2. Len(FwScript(f)) > 0 /\ 1 <= Len(FwScript(f))
    BY <2>1 DEF n
  <2> QED BY <1>1, <2>2, WholeRest
<1>3. todo \in [Threads -> Seq(Steps)] /\ "fw" \in Threads /\ "hal" \in Threads
  BY DEF At, Threads
<1>4. todo' \in [Threads -> Seq(Steps)] /\ todo'["fw"] = FwScript(f) /\ todo'["hal"] = todo["hal"]
  BY <1>1, <1>3
<1>5. f # "none"
  BY DEF FwScripts, Gated
<1>6. FwRest(f, 1) = FwScript(f)
  BY <1>2, <1>5 DEF FwRest
<1> QED BY <1>2, <1>4, <1>6 DEF At

(* ... and that of gps_state_thread.                                       *)
LEMMA HalBegins ==
  ASSUME NEW f \in Fs, NEW i \in 1 .. 7, NEW h \in HalScripts, NEW j \in 1 .. 7,
         At(todo, f, i, "none", j), todo' = [todo EXCEPT !["hal"] = HalScript(h)]
  PROVE  At(todo, f, i, h, 1)'
<1>1. HalScript(h) \in Seq(Steps) /\ Len(HalScript(h)) \in {1, 4, 7}
  BY HalSteps
<1>2. Rest(HalScript(h), 1) = HalScript(h) /\ 1 <= Len(HalScript(h))
  <2> DEFINE n == Len(HalScript(h))
  <2>0. n \in {1, 4, 7}
    BY <1>1
  <2> HIDE DEF n
  <2>1. n > 0 /\ 1 <= n
    BY <2>0
  <2>2. Len(HalScript(h)) > 0 /\ 1 <= Len(HalScript(h))
    BY <2>1 DEF n
  <2> QED BY <1>1, <2>2, WholeRest
<1>3. todo \in [Threads -> Seq(Steps)] /\ "fw" \in Threads /\ "hal" \in Threads
  BY DEF At, Threads
<1>4. todo' \in [Threads -> Seq(Steps)] /\ todo'["hal"] = HalScript(h) /\ todo'["fw"] = todo["fw"]
  BY <1>1, <1>3
<1>5. h # "none"
  BY DEF HalScripts, Calls, Gated, Ungated
<1>6. HalRest(h, 1) = HalScript(h)
  BY <1>2, <1>5 DEF HalRest
<1> QED BY <1>2, <1>4, <1>6 DEF At

(* The script of start is one of the framework's.                          *)
LEMMA StartBegins == "start" \in FwScripts /\ FwScript("start") = StartScript
BY DEF FwScripts, FwScript

(* Who is in a script has steps to take.                                   *)
LEMMA AtWork ==
  ASSUME NEW f \in Fs, NEW i \in 1 .. 7, NEW h \in Hs, NEW j \in 1 .. 7, At(todo, f, i, h, j)
  PROVE  (f # "none" <=> todo["fw"] # <<>>) /\ (h # "none" <=> todo["hal"] # <<>>)
<1>1. todo["fw"] = FwRest(f, i) /\ todo["hal"] = HalRest(h, j)
  BY DEF At
<1>2. ASSUME f # "none" PROVE FwRest(f, i) # <<>>
  <2>1. f \in FwScripts
    BY <1>2 DEF Fs
  <2>2. FwScript(f) \in Seq(Steps) /\ Len(FwScript(f)) \in Nat /\ i <= Len(FwScript(f))
    BY <1>2, <2>1, FwSteps DEF At
  <2>3. i \in 1 .. Len(FwScript(f))
    BY <2>2
  <2>4. Rest(FwScript(f), i) # <<>>
    BY <2>2, <2>3, RestFacts
  <2> QED BY <1>2, <2>4 DEF FwRest
<1>3. ASSUME h # "none" PROVE HalRest(h, j) # <<>>
  <2>1. h \in HalScripts
    BY <1>3 DEF Hs
  <2>2. HalScript(h) \in Seq(Steps) /\ Len(HalScript(h)) \in Nat /\ j <= Len(HalScript(h))
    BY <1>3, <2>1, HalSteps DEF At
  <2>3. j \in 1 .. Len(HalScript(h))
    BY <2>2
  <2>4. Rest(HalScript(h), j) # <<>>
    BY <2>2, <2>3, RestFacts
  <2> QED BY <1>3, <2>4 DEF HalRest
<1>4. (f = "none" => FwRest(f, i) = <<>>) /\ (h = "none" => HalRest(h, j) = <<>>)
  BY DEF FwRest, HalRest
<1> QED BY <1>1, <1>2, <1>3, <1>4

(* What is under way to MNLD and from it.                                  *)
LEMMA CommandSent ==
  ASSUME toMnld \in Seq({"start", "stop", "cleanup"}), NEW cmd \in {"start", "stop", "cleanup"},
         toMnld' = Append(toMnld, cmd)
  PROVE  /\ toMnld' \in Seq({"start", "stop", "cleanup"}) /\ toMnld' # <<>> /\ Last(toMnld') = cmd
         /\ Sent' <=> Sent \/ cmd = "start"
         /\ Once(toMnld, "start") /\ (cmd = "start" => ~Sent) => Once(toMnld, "start")'
<1> DEFINE S == {"start", "stop", "cleanup"}
           a == Append(toMnld, cmd)
<1>1. toMnld \in Seq(S) /\ cmd \in S
  OBVIOUS
<1> HIDE DEF S
<1>2. a \in Seq(S) /\ a # <<>> /\ Last(a) = cmd
  BY <1>1, LastAndFront
<1>3. Contains(a, "start") <=> Contains(toMnld, "start") \/ cmd = "start"
  BY <1>1, ContainsAppend
<1>4. Once(toMnld, "start") /\ (cmd = "start" => ~Contains(toMnld, "start")) => Once(a, "start")
  BY <1>1, OnceAppend
<1>5. toMnld' = a
  OBVIOUS
<1> HIDE DEF a
<1>6. Once(toMnld, "start")' <=> Once(a, "start")
  BY <1>5 DEF Once
<1>7. (Sent' <=> Contains(a, "start")) /\ (Sent <=> Contains(toMnld, "start"))
  BY <1>5 DEF Sent
<1> QED BY <1>2, <1>3, <1>4, <1>5, <1>6, <1>7 DEF S

(* MNLD reads a command.                                                   *)
LEMMA CommandRead ==
  ASSUME toMnld \in Seq({"start", "stop", "cleanup"}), toMnld # <<>>, toMnld' = Tail(toMnld)
  PROVE  /\ toMnld' \in Seq({"start", "stop", "cleanup"})
         /\ Head(toMnld) \in {"start", "stop", "cleanup"}
         /\ Sent <=> Head(toMnld) = "start" \/ Sent'
         /\ Once(toMnld, "start") =>
              Once(toMnld, "start")' /\ (Head(toMnld) = "start" => ~Sent')
         /\ toMnld' = <<>> => Last(toMnld) = Head(toMnld) /\ ~Sent'
         /\ toMnld' # <<>> => Last(toMnld) = Last(toMnld') /\ (Last(toMnld') = "start" => Sent')
<1> DEFINE S == {"start", "stop", "cleanup"}
           u == Tail(toMnld)
<1>1. toMnld \in Seq(S)
  OBVIOUS
<1>2. Head(toMnld) \in S
  OBVIOUS
<1> HIDE DEF S
<1>3. u \in Seq(S) /\ (Contains(toMnld, "start") <=> Head(toMnld) = "start" \/ Contains(u, "start"))
  BY <1>1, ContainsTail
<1>4. Once(toMnld, "start") => Once(u, "start") /\ (Head(toMnld) = "start" => ~Contains(u, "start"))
  BY <1>1, OnceTail
<1>5. IF u = <<>> THEN Last(toMnld) = Head(toMnld) ELSE Last(toMnld) = Last(u)
  BY <1>1, LastOfTail
<1>6. toMnld' = u
  OBVIOUS
<1> HIDE DEF u
<1>7. u = <<>> => ~Contains(u, "start")
  BY DEF Contains
<1>8. ASSUME u # <<>>, Last(u) = "start" PROVE Contains(u, "start")
  <2>1. Len(u) \in 1 .. Len(u) /\ u[Len(u)] = "start"
    BY <1>3, <1>8 DEF Last
  <2> QED BY <2>1 DEF Contains
<1>9. Once(toMnld, "start")' <=> Once(u, "start")
  BY <1>6 DEF Once
<1>10. (Sent' <=> Contains(u, "start")) /\ (Sent <=> Contains(toMnld, "start"))
  BY <1>6 DEF Sent
<1>11. toMnld' \in Seq(S) /\ Head(toMnld) \in S
  BY <1>2, <1>3, <1>6
<1> QED BY <1>3, <1>4, <1>5, <1>6, <1>7, <1>8, <1>9, <1>10, <1>11 DEF S

(* MNLD sends a message ...                                                *)
LEMMA MessageSent ==
  ASSUME fromMnld \in Seq(Kinds \cup {"die"}), NEW m \in Kinds \cup {"die"},
         fromMnld' = Append(fromMnld, m)
  PROVE  /\ fromMnld' \in Seq(Kinds \cup {"die"})
         /\ DieSent' <=> DieSent \/ m = "die"
         /\ \A k : Contains(fromMnld', k) <=> Contains(fromMnld, k) \/ m = k
         /\ Once(fromMnld, "die") /\ (m = "die" => ~DieSent) => Once(fromMnld, "die")'
<1> DEFINE S == Kinds \cup {"die"}
           a == Append(fromMnld, m)
<1>1. fromMnld \in Seq(S) /\ m \in S
  OBVIOUS
<1> HIDE DEF S
<1>2. a \in Seq(S)
  BY <1>1, LastAndFront
<1>3. \A k : Contains(a, k) <=> Contains(fromMnld, k) \/ m = k
  BY <1>1, ContainsAppend
<1>4. Once(fromMnld, "die") /\ (m = "die" => ~Contains(fromMnld, "die")) => Once(a, "die")
  BY <1>1, OnceAppend
<1>5. fromMnld' = a
  OBVIOUS
<1> HIDE DEF a
<1>6. Once(fromMnld, "die")' <=> Once(a, "die")
  BY <1>5 DEF Once
<1>7. (DieSent' <=> Contains(a, "die")) /\ (DieSent <=> Contains(fromMnld, "die"))
  BY <1>5 DEF DieSent
<1> QED BY <1>2, <1>3, <1>4, <1>5, <1>6, <1>7 DEF S

(* ... and gps_state_thread reads one.                                     *)
LEMMA MessageRead ==
  ASSUME fromMnld \in Seq(Kinds \cup {"die"}), fromMnld # <<>>, fromMnld' = Tail(fromMnld)
  PROVE  /\ fromMnld' \in Seq(Kinds \cup {"die"}) /\ Head(fromMnld) \in Kinds \cup {"die"}
         /\ DieSent <=> Head(fromMnld) = "die" \/ DieSent'
         /\ \A k : Contains(fromMnld, k) <=> Head(fromMnld) = k \/ Contains(fromMnld', k)
         /\ Once(fromMnld, "die") =>
              Once(fromMnld, "die")' /\ (Head(fromMnld) = "die" => ~DieSent')
<1> DEFINE S == Kinds \cup {"die"}
           u == Tail(fromMnld)
<1>1. fromMnld \in Seq(S)
  OBVIOUS
<1> HIDE DEF S
<1>2. Head(fromMnld) \in S
  BY <1>1
<1>3. u \in Seq(S) /\ \A k : Contains(fromMnld, k) <=> Head(fromMnld) = k \/ Contains(u, k)
  BY <1>1, ContainsTail
<1>4. Once(fromMnld, "die") => Once(u, "die") /\ (Head(fromMnld) = "die" => ~Contains(u, "die"))
  BY <1>1, OnceTail
<1>5. fromMnld' = u
  OBVIOUS
<1> HIDE DEF u
<1>6. Once(fromMnld, "die")' <=> Once(u, "die")
  BY <1>5 DEF Once
<1>7. (DieSent' <=> Contains(u, "die")) /\ (DieSent <=> Contains(fromMnld, "die"))
  BY <1>5 DEF DieSent
<1> QED BY <1>2, <1>3, <1>4, <1>5, <1>6, <1>7 DEF S

-----------------------------------------------------------------------------
(* Every action keeps the invariant. *)

(* mtk_gps_init creates the thread ...                                     *)
LEMMA InitThreadInv ==
  ASSUME NEW f \in Fs, NEW i \in 1 .. 7, NEW h \in Hs, NEW j \in 1 .. 7,
         Inv(f, i, h, j), InitThread
  PROVE  Inv(f, i, h, j)'
<1>1. /\ At(todo, f, i, h, j) /\ Types /\ Life /\ Quitting /\ EpoEnds /\ Session(f, h)
      /\ Stopping(f, i, h, j) /\ Wake(f, i, h, j) /\ Told(f, i, h, j) /\ Agreed /\ Stored(f, i, h, j)
  BY DEF Inv, Core
<1>2. Commands' = Commands
  BY <1>1 DEF InitThread, hvars, mvars, avars, evars, ivars, bvars, Commands, Quits
<1>3. At(todo, f, i, h, j)'
  BY <1>1 DEF InitThread, hvars, mvars, avars, evars, ivars, bvars, At
<1>4. Types'
  BY <1>1 DEF InitThread, hvars, mvars, avars, evars, ivars, bvars, Types, FwUp, FwDown
<1>5. Life'
  BY <1>1 DEF InitThread, hvars, mvars, avars, evars, ivars, bvars, Life, FwUp, FwDown, Types
<1>6. Quitting'
  BY <1>1 DEF InitThread, hvars, mvars, avars, evars, ivars, bvars, Quitting, Commands, Quits
<1>7. EpoEnds'
  BY <1>1 DEF InitThread, hvars, mvars, avars, evars, ivars, bvars, EpoEnds, Types, Life,
     FwUp, FwDown
<1>8. Session(f, h)'
  BY <1>1 DEF InitThread, hvars, mvars, avars, evars, ivars, bvars, Session, Starting, Sent,
     DieSent
<1>9. Stopping(f, i, h, j)'
  BY <1>1 DEF InitThread, hvars, mvars, avars, evars, ivars, bvars, Stopping, Types, Life,
     FwUp, FwDown, Session, Starting
<1>10. Wake(f, i, h, j)'
  BY <1>1 DEF InitThread, hvars, mvars, avars, evars, ivars, bvars, Wake
<1>11. Told(f, i, h, j)'
  BY <1>1, <1>2 DEF InitThread, hvars, mvars, avars, evars, ivars, bvars, Told
<1>12. Agreed'
  BY <1>1, <1>2 DEF InitThread, hvars, mvars, avars, evars, ivars, bvars, Agreed, Heading, Life
<1>13. Stored(f, i, h, j)'
  BY <1>1 DEF InitThread, hvars, mvars, avars, evars, ivars, bvars, Stored
<1> QED BY <1>3, <1>4, <1>5, <1>6, <1>7, <1>8, <1>9, <1>10, <1>11, <1>12, <1>13 DEF Inv, Core

(* ... or fails,                                                           *)
LEMMA InitFailsInv ==
  ASSUME NEW f \in Fs, NEW i \in 1 .. 7, NEW h \in Hs, NEW j \in 1 .. 7,
         Inv(f, i, h, j), InitFails
  PROVE  Inv(f, i, h, j)'
<1>1. /\ At(todo, f, i, h, j) /\ Types /\ Life /\ Quitting /\ EpoEnds /\ Session(f, h)
      /\ Stopping(f, i, h, j) /\ Wake(f, i, h, j) /\ Told(f, i, h, j) /\ Agreed /\ Stored(f, i, h, j)
  BY DEF Inv, Core
<1>2. Commands' = Commands
  BY <1>1 DEF InitFails, hvars, mvars, avars, evars, ivars, bvars, Commands, Quits
<1>3. At(todo, f, i, h, j)'
  BY <1>1 DEF InitFails, hvars, mvars, avars, evars, ivars, bvars, At
<1>4. Types'
  BY <1>1 DEF InitFails, hvars, mvars, avars, evars, ivars, bvars, Types, FwUp, FwDown
<1>5. Life'
  BY <1>1 DEF InitFails, hvars, mvars, avars, evars, ivars, bvars, Life, FwUp, FwDown, Types
<1>6. Quitting'
  BY <1>1 DEF InitFails, hvars, mvars, avars, evars, ivars, bvars, Quitting, Commands, Quits
<1>7. EpoEnds'
  BY <1>1 DEF InitFails, hvars, mvars, avars, evars, ivars, bvars, EpoEnds, Types, Life, FwUp,
     FwDown
<1>8. Session(f, h)'
  BY <1>1 DEF InitFails, hvars, mvars, avars, evars, ivars, bvars, Session, Starting, Sent,
     DieSent
<1>9. Stopping(f, i, h, j)'
  BY <1>1 DEF InitFails, hvars, mvars, avars, evars, ivars, bvars, Stopping, Types, Life,
     FwUp, FwDown, Session, Starting
<1>10. Wake(f, i, h, j)'
  BY <1>1 DEF InitFails, hvars, mvars, avars, evars, ivars, bvars, Wake
<1>11. Told(f, i, h, j)'
  BY <1>1, <1>2 DEF InitFails, hvars, mvars, avars, evars, ivars, bvars, Told
<1>12. Agreed'
  BY <1>1, <1>2 DEF InitFails, hvars, mvars, avars, evars, ivars, bvars, Agreed, Heading
<1>13. Stored(f, i, h, j)'
  BY <1>1 DEF InitFails, hvars, mvars, avars, evars, ivars, bvars, Stored
<1> QED BY <1>3, <1>4, <1>5, <1>6, <1>7, <1>8, <1>9, <1>10, <1>11, <1>12, <1>13 DEF Inv, Core

(* ... creates the EPO thread                                              *)
LEMMA XtraThreadInv ==
  ASSUME NEW f \in Fs, NEW i \in 1 .. 7, NEW h \in Hs, NEW j \in 1 .. 7,
         Inv(f, i, h, j), XtraThread
  PROVE  Inv(f, i, h, j)'
<1>1. /\ At(todo, f, i, h, j) /\ Types /\ Life /\ Quitting /\ EpoEnds /\ Session(f, h)
      /\ Stopping(f, i, h, j) /\ Wake(f, i, h, j) /\ Told(f, i, h, j) /\ Agreed /\ Stored(f, i, h, j)
  BY DEF Inv, Core
<1>2. Commands' = Commands
  BY <1>1 DEF XtraThread, hvars, mvars, avars, evars, ivars, bvars, Commands, Quits
<1>3. At(todo, f, i, h, j)'
  BY <1>1 DEF XtraThread, hvars, mvars, avars, evars, ivars, bvars, At
<1>4. Types'
  BY <1>1 DEF XtraThread, hvars, mvars, avars, evars, ivars, bvars, Types, FwUp, FwDown
<1>5. Life'
  BY <1>1 DEF XtraThread, hvars, mvars, avars, evars, ivars, bvars, Life, FwUp, FwDown, Types
<1>6. Quitting'
  BY <1>1 DEF XtraThread, hvars, mvars, avars, evars, ivars, bvars, Quitting, Commands, Quits
<1>7. EpoEnds'
  BY <1>1 DEF XtraThread, hvars, mvars, avars, evars, ivars, bvars, EpoEnds, Types, Life,
     FwUp, FwDown
<1>8. Session(f, h)'
  BY <1>1 DEF XtraThread, hvars, mvars, avars, evars, ivars, bvars, Session, Starting, Sent,
     DieSent
<1>9. Stopping(f, i, h, j)'
  BY <1>1 DEF XtraThread, hvars, mvars, avars, evars, ivars, bvars, Stopping, Types, Life,
     FwUp, FwDown, Session, Starting
<1>10. Wake(f, i, h, j)'
  BY <1>1 DEF XtraThread, hvars, mvars, avars, evars, ivars, bvars, Wake
<1>11. Told(f, i, h, j)'
  BY <1>1, <1>2 DEF XtraThread, hvars, mvars, avars, evars, ivars, bvars, Told
<1>12. Agreed'
  BY <1>1, <1>2 DEF XtraThread, hvars, mvars, avars, evars, ivars, bvars, Agreed, Heading
<1>13. Stored(f, i, h, j)'
  BY <1>1 DEF XtraThread, hvars, mvars, avars, evars, ivars, bvars, Stored
<1> QED BY <1>3, <1>4, <1>5, <1>6, <1>7, <1>8, <1>9, <1>10, <1>11, <1>12, <1>13 DEF Inv, Core

(* ... and clears the flag that ends it.                                   *)
LEMMA XtraFlagInv ==
  ASSUME NEW f \in Fs, NEW i \in 1 .. 7, NEW h \in Hs, NEW j \in 1 .. 7,
         Inv(f, i, h, j), XtraFlag
  PROVE  Inv(f, i, h, j)'
<1>1. /\ At(todo, f, i, h, j) /\ Types /\ Life /\ Quitting /\ EpoEnds /\ Session(f, h)
      /\ Stopping(f, i, h, j) /\ Wake(f, i, h, j) /\ Told(f, i, h, j) /\ Agreed /\ Stored(f, i, h, j)
  BY DEF Inv, Core
<1>2. Commands' = Commands
  BY <1>1 DEF XtraFlag, hvars, mvars, avars, evars, ivars, bvars, Commands, Quits
<1>3. At(todo, f, i, h, j)'
  BY <1>1 DEF XtraFlag, hvars, mvars, avars, evars, ivars, bvars, At
<1>4. Types'
  BY <1>1 DEF XtraFlag, hvars, mvars, avars, evars, ivars, bvars, Types, FwUp, FwDown
<1>5. Life'
  BY <1>1 DEF XtraFlag, hvars, mvars, avars, evars, ivars, bvars, Life, FwUp, FwDown, Types
<1>6. Quitting'
  BY <1>1 DEF XtraFlag, hvars, mvars, avars, evars, ivars, bvars, Quitting, Commands, Quits
<1>7. EpoEnds'
  BY <1>1 DEF XtraFlag, hvars, mvars, avars, evars, ivars, bvars, EpoEnds, Types, Life, FwUp,
     FwDown
<1>8. Session(f, h)'
  BY <1>1 DEF XtraFlag, hvars, mvars, avars, evars, ivars, bvars, Session, Starting, Sent,
     DieSent
<1>9. Stopping(f, i, h, j)'
  BY <1>1 DEF XtraFlag, hvars, mvars, avars, evars, ivars, bvars, Stopping, Types, Life, FwUp,
     FwDown, Session, Starting
<1>10. Wake(f, i, h, j)'
  BY <1>1 DEF XtraFlag, hvars, mvars, avars, evars, ivars, bvars, Wake
<1>11. Told(f, i, h, j)'
  BY <1>1, <1>2 DEF XtraFlag, hvars, mvars, avars, evars, ivars, bvars, Told
<1>12. Agreed'
  BY <1>1, <1>2 DEF XtraFlag, hvars, mvars, avars, evars, ivars, bvars, Agreed, Heading
<1>13. Stored(f, i, h, j)'
  BY <1>1 DEF XtraFlag, hvars, mvars, avars, evars, ivars, bvars, Stored
<1> QED BY <1>3, <1>4, <1>5, <1>6, <1>7, <1>8, <1>9, <1>10, <1>11, <1>12, <1>13 DEF Inv, Core

(* start is called ...                                                     *)
LEMMA StartCallInv ==
  ASSUME NEW f \in Fs, NEW i \in 1 .. 7, NEW h \in Hs, NEW j \in 1 .. 7,
         Inv(f, i, h, j), StartCall
  PROVE  Inv(f, i, h, j)'
<1>1. /\ At(todo, f, i, h, j) /\ Types /\ Life /\ Quitting /\ EpoEnds /\ Session(f, h)
      /\ Stopping(f, i, h, j) /\ Wake(f, i, h, j) /\ Told(f, i, h, j) /\ Agreed /\ Stored(f, i, h, j)
  BY DEF Inv, Core
<1>2. Commands' = Commands
  BY <1>1 DEF StartCall, hvars, mvars, avars, evars, ivars, bvars, Commands, Quits
<1>3. At(todo, f, i, h, j)'
  BY <1>1 DEF StartCall, hvars, mvars, avars, evars, ivars, bvars, At
<1>4. Types'
  BY <1>1 DEF StartCall, hvars, mvars, avars, evars, ivars, bvars, Types, FwUp, FwDown
<1>5. Life'
  BY <1>1 DEF StartCall, hvars, mvars, avars, evars, ivars, bvars, Life, FwUp, FwDown, Types
<1>6. Quitting'
  BY <1>1 DEF StartCall, hvars, mvars, avars, evars, ivars, bvars, Quitting, Commands, Quits
<1>7. EpoEnds'
  BY <1>1 DEF StartCall, hvars, mvars, avars, evars, ivars, bvars, EpoEnds, Types, Life, FwUp,
     FwDown
<1>8. Session(f, h)'
  BY <1>1 DEF StartCall, hvars, mvars, avars, evars, ivars, bvars, Session, Starting, Sent,
     DieSent
<1>9. Stopping(f, i, h, j)'
  BY <1>1 DEF StartCall, hvars, mvars, avars, evars, ivars, bvars, Stopping, Types, Life,
     FwUp, FwDown, Session, Starting
<1>10. Wake(f, i, h, j)'
  BY <1>1 DEF StartCall, hvars, mvars, avars, evars, ivars, bvars, Wake
<1>11. Told(f, i, h, j)'
  BY <1>1, <1>2 DEF StartCall, hvars, mvars, avars, evars, ivars, bvars, Told
<1>12. Agreed'
  BY <1>1, <1>2 DEF StartCall, hvars, mvars, avars, evars, ivars, bvars, Agreed, Heading
<1>13. Stored(f, i, h, j)'
  BY <1>1 DEF StartCall, hvars, mvars, avars, evars, ivars, bvars, Stored
<1> QED BY <1>3, <1>4, <1>5, <1>6, <1>7, <1>8, <1>9, <1>10, <1>11, <1>12, <1>13 DEF Inv, Core

(* ... and stop,                                                           *)
LEMMA StopCallInv ==
  ASSUME NEW f \in Fs, NEW i \in 1 .. 7, NEW h \in Hs, NEW j \in 1 .. 7,
         Inv(f, i, h, j), StopCall
  PROVE  Inv(f, i, h, j)'
<1>1. /\ At(todo, f, i, h, j) /\ Types /\ Life /\ Quitting /\ EpoEnds /\ Session(f, h)
      /\ Stopping(f, i, h, j) /\ Wake(f, i, h, j) /\ Told(f, i, h, j) /\ Agreed /\ Stored(f, i, h, j)
  BY DEF Inv, Core
<1>2. Commands' = Commands
  BY <1>1 DEF StopCall, hvars, mvars, avars, evars, ivars, bvars, Commands, Quits
<1>3. At(todo, f, i, h, j)'
  BY <1>1 DEF StopCall, hvars, mvars, avars, evars, ivars, bvars, At
<1>4. Types'
  BY <1>1 DEF StopCall, hvars, mvars, avars, evars, ivars, bvars, Types, FwUp, FwDown
<1>5. Life'
  BY <1>1 DEF StopCall, hvars, mvars, avars, evars, ivars, bvars, Life, FwUp, FwDown, Types
<1>6. Quitting'
  BY <1>1 DEF StopCall, hvars, mvars, avars, evars, ivars, bvars, Quitting, Commands, Quits
<1>7. EpoEnds'
  BY <1>1 DEF StopCall, hvars, mvars, avars, evars, ivars, bvars, EpoEnds, Types, Life, FwUp,
     FwDown
<1>8. Session(f, h)'
  BY <1>1 DEF StopCall, hvars, mvars, avars, evars, ivars, bvars, Session, Starting, Sent,
     DieSent
<1>9. Stopping(f, i, h, j)'
  BY <1>1 DEF StopCall, hvars, mvars, avars, evars, ivars, bvars, Stopping, Types, Life, FwUp,
     FwDown, Session, Starting
<1>10. Wake(f, i, h, j)'
  BY <1>1 DEF StopCall, hvars, mvars, avars, evars, ivars, bvars, Wake
<1>11. Told(f, i, h, j)'
  BY <1>1, <1>2 DEF StopCall, hvars, mvars, avars, evars, ivars, bvars, Told
<1>12. Agreed'
  BY <1>1, <1>2 DEF StopCall, hvars, mvars, avars, evars, ivars, bvars, Agreed, Heading
<1>13. Stored(f, i, h, j)'
  BY <1>1 DEF StopCall, hvars, mvars, avars, evars, ivars, bvars, Stored
<1> QED BY <1>3, <1>4, <1>5, <1>6, <1>7, <1>8, <1>9, <1>10, <1>11, <1>12, <1>13 DEF Inv, Core

(* cleanup looks at start_flag,                                            *)
LEMMA CleanupTestInv ==
  ASSUME NEW f \in Fs, NEW i \in 1 .. 7, NEW h \in Hs, NEW j \in 1 .. 7,
         Inv(f, i, h, j), CleanupTest
  PROVE  Inv(f, i, h, j)'
<1>1. /\ At(todo, f, i, h, j) /\ Types /\ Life /\ Quitting /\ EpoEnds /\ Session(f, h)
      /\ Stopping(f, i, h, j) /\ Wake(f, i, h, j) /\ Told(f, i, h, j) /\ Agreed /\ Stored(f, i, h, j)
  BY DEF Inv, Core
<1>2. Commands' = Commands
  BY <1>1 DEF CleanupTest, hvars, mvars, avars, evars, ivars, bvars, Commands, Quits
<1>3. At(todo, f, i, h, j)'
  BY <1>1 DEF CleanupTest, hvars, mvars, avars, evars, ivars, bvars, At
<1>4. Types'
  BY <1>1 DEF CleanupTest, hvars, mvars, avars, evars, ivars, bvars, Types, FwUp, FwDown
<1>5. Life'
  BY <1>1 DEF CleanupTest, hvars, mvars, avars, evars, ivars, bvars, Life, FwUp, FwDown, Types
<1>6. Quitting'
  BY <1>1 DEF CleanupTest, hvars, mvars, avars, evars, ivars, bvars, Quitting, Commands, Quits
<1>7. EpoEnds'
  BY <1>1 DEF CleanupTest, hvars, mvars, avars, evars, ivars, bvars, EpoEnds, Types, Life,
     FwUp, FwDown
<1>8. Session(f, h)'
  BY <1>1 DEF CleanupTest, hvars, mvars, avars, evars, ivars, bvars, Session, Starting, Sent,
     DieSent
<1>9. Stopping(f, i, h, j)'
  BY <1>1 DEF CleanupTest, hvars, mvars, avars, evars, ivars, bvars, Stopping, Types, Life,
     FwUp, FwDown, Session, Starting
<1>10. Wake(f, i, h, j)'
  BY <1>1 DEF CleanupTest, hvars, mvars, avars, evars, ivars, bvars, Wake
<1>11. Told(f, i, h, j)'
  BY <1>1, <1>2 DEF CleanupTest, hvars, mvars, avars, evars, ivars, bvars, Told
<1>12. Agreed'
  BY <1>1, <1>2 DEF CleanupTest, hvars, mvars, avars, evars, ivars, bvars, Agreed, Heading
<1>13. Stored(f, i, h, j)'
  BY <1>1 DEF CleanupTest, hvars, mvars, avars, evars, ivars, bvars, Stored
<1> QED BY <1>3, <1>4, <1>5, <1>6, <1>7, <1>8, <1>9, <1>10, <1>11, <1>12, <1>13 DEF Inv, Core

(* ... asks the EPO thread to end,                                         *)
LEMMA CleanupEpoInv ==
  ASSUME NEW f \in Fs, NEW i \in 1 .. 7, NEW h \in Hs, NEW j \in 1 .. 7,
         Inv(f, i, h, j), CleanupEpo
  PROVE  Inv(f, i, h, j)'
<1>1. /\ At(todo, f, i, h, j) /\ Types /\ Life /\ Quitting /\ EpoEnds /\ Session(f, h)
      /\ Stopping(f, i, h, j) /\ Wake(f, i, h, j) /\ Told(f, i, h, j) /\ Agreed /\ Stored(f, i, h, j)
  BY DEF Inv, Core
<1>2. Commands' = Commands
  BY <1>1 DEF CleanupEpo, hvars, mvars, avars, evars, ivars, bvars, Commands, Quits
<1>3. At(todo, f, i, h, j)'
  BY <1>1 DEF CleanupEpo, hvars, mvars, avars, evars, ivars, bvars, At
<1>4. Types'
  BY <1>1 DEF CleanupEpo, hvars, mvars, avars, evars, ivars, bvars, Types, FwUp, FwDown
<1>5. Life'
  BY <1>1 DEF CleanupEpo, hvars, mvars, avars, evars, ivars, bvars, Life, FwUp, FwDown, Types
<1>6. Quitting'
  BY <1>1 DEF CleanupEpo, hvars, mvars, avars, evars, ivars, bvars, Quitting, Commands, Quits
<1>7. EpoEnds'
  BY <1>1 DEF CleanupEpo, hvars, mvars, avars, evars, ivars, bvars, EpoEnds, Types, Life,
     FwUp, FwDown
<1>8. Session(f, h)'
  BY <1>1 DEF CleanupEpo, hvars, mvars, avars, evars, ivars, bvars, Session, Starting, Sent,
     DieSent
<1>9. Stopping(f, i, h, j)'
  BY <1>1 DEF CleanupEpo, hvars, mvars, avars, evars, ivars, bvars, Stopping, Types, Life,
     FwUp, FwDown, Session, Starting
<1>10. Wake(f, i, h, j)'
  BY <1>1 DEF CleanupEpo, hvars, mvars, avars, evars, ivars, bvars, Wake
<1>11. Told(f, i, h, j)'
  BY <1>1, <1>2 DEF CleanupEpo, hvars, mvars, avars, evars, ivars, bvars, Told
<1>12. Agreed'
  BY <1>1, <1>2 DEF CleanupEpo, hvars, mvars, avars, evars, ivars, bvars, Agreed, Heading
<1>13. Stored(f, i, h, j)'
  BY <1>1 DEF CleanupEpo, hvars, mvars, avars, evars, ivars, bvars, Stored
<1> QED BY <1>3, <1>4, <1>5, <1>6, <1>7, <1>8, <1>9, <1>10, <1>11, <1>12, <1>13 DEF Inv, Core

(* A sentence of MNLD comes: nothing here depends on it.                   *)
LEMMA MnldNmeaInv ==
  ASSUME NEW f \in Fs, NEW i \in 1 .. 7, NEW h \in Hs, NEW j \in 1 .. 7,
         Inv(f, i, h, j), MnldNmea
  PROVE  Inv(f, i, h, j)'
<1>1. /\ At(todo, f, i, h, j) /\ Types /\ Life /\ Quitting /\ EpoEnds /\ Session(f, h)
      /\ Stopping(f, i, h, j) /\ Wake(f, i, h, j) /\ Told(f, i, h, j) /\ Agreed /\ Stored(f, i, h, j)
  BY DEF Inv, Core
<1>2. Commands' = Commands
  BY <1>1 DEF MnldNmea, hvars, mvars, avars, evars, ivars, bvars, Commands, Quits
<1>3. At(todo, f, i, h, j)'
  BY <1>1 DEF MnldNmea, hvars, mvars, avars, evars, ivars, bvars, At
<1>4. Types'
  BY <1>1 DEF MnldNmea, hvars, mvars, avars, evars, ivars, bvars, Types, FwUp, FwDown
<1>5. Life'
  BY <1>1 DEF MnldNmea, hvars, mvars, avars, evars, ivars, bvars, Life, FwUp, FwDown, Types
<1>6. Quitting'
  BY <1>1 DEF MnldNmea, hvars, mvars, avars, evars, ivars, bvars, Quitting, Commands, Quits
<1>7. EpoEnds'
  BY <1>1 DEF MnldNmea, hvars, mvars, avars, evars, ivars, bvars, EpoEnds, Types, Life, FwUp,
     FwDown
<1>8. Session(f, h)'
  BY <1>1 DEF MnldNmea, hvars, mvars, avars, evars, ivars, bvars, Session, Starting, Sent,
     DieSent
<1>9. Stopping(f, i, h, j)'
  BY <1>1 DEF MnldNmea, hvars, mvars, avars, evars, ivars, bvars, Stopping, Types, Life, FwUp,
     FwDown, Session, Starting
<1>10. Wake(f, i, h, j)'
  BY <1>1 DEF MnldNmea, hvars, mvars, avars, evars, ivars, bvars, Wake
<1>11. Told(f, i, h, j)'
  BY <1>1, <1>2 DEF MnldNmea, hvars, mvars, avars, evars, ivars, bvars, Told
<1>12. Agreed'
  BY <1>1, <1>2 DEF MnldNmea, hvars, mvars, avars, evars, ivars, bvars, Agreed, Heading
<1>13. Stored(f, i, h, j)'
  BY <1>1 DEF MnldNmea, hvars, mvars, avars, evars, ivars, bvars, Stored
<1> QED BY <1>3, <1>4, <1>5, <1>6, <1>7, <1>8, <1>9, <1>10, <1>11, <1>12, <1>13 DEF Inv, Core

(* Its wait for M_INIT is over.                                            *)
LEMMA InitReadyInv ==
  ASSUME NEW f \in Fs, NEW i \in 1 .. 7, NEW h \in Hs, NEW j \in 1 .. 7,
         Inv(f, i, h, j), InitReady
  PROVE  Inv(f, i, h, j)'
<1>1. /\ At(todo, f, i, h, j) /\ Types /\ Life /\ Quitting /\ EpoEnds /\ Session(f, h)
      /\ Stopping(f, i, h, j) /\ Wake(f, i, h, j) /\ Told(f, i, h, j) /\ Agreed /\ Stored(f, i, h, j)
  BY DEF Inv, Core
<1>2. cond' = [cond EXCEPT !["M_INIT"] = FALSE] /\ cond["M_INIT"]
  BY DEF InitReady, GetCondition
<1>3. /\ cond' \in [Conditions -> BOOLEAN] /\ ~cond'["M_INIT"]
      /\ cond'["M_START"] = cond["M_START"] /\ cond'["M_STOP"] = cond["M_STOP"]
      /\ cond'["M_CLEANUP"] = cond["M_CLEANUP"] /\ cond'["M_THREAD_EXIT"] = cond["M_THREAD_EXIT"]
  BY <1>1, <1>2 DEF Types, Conditions
<1>4. Commands' = Commands
  BY <1>1 DEF InitReady, hvars, mvars, avars, evars, ivars, bvars, Commands, Quits
<1>5. At(todo, f, i, h, j)'
  BY <1>1 DEF InitReady, hvars, mvars, avars, evars, ivars, bvars, At
<1>6. Types'
  BY <1>1, <1>3 DEF InitReady, hvars, mvars, avars, evars, ivars, bvars, Types, FwUp, FwDown
<1>7. Life'
  BY <1>1, <1>2, <1>3 DEF InitReady, hvars, mvars, avars, evars, ivars, bvars, Life, FwUp,
     FwDown, Types
<1>8. Quitting'
  BY <1>1 DEF InitReady, hvars, mvars, avars, evars, ivars, bvars, Quitting, Commands, Quits
<1>9. EpoEnds'
  BY <1>1, <1>2, <1>3 DEF InitReady, hvars, mvars, avars, evars, ivars, bvars, EpoEnds, Types,
     Life, FwUp, FwDown
<1>10. Session(f, h)'
  BY <1>1 DEF InitReady, hvars, mvars, avars, evars, ivars, bvars, Session, Starting, Sent,
     DieSent
<1>11. Stopping(f, i, h, j)'
  BY <1>1, <1>2, <1>3 DEF InitReady, hvars, mvars, avars, evars, ivars, bvars, Stopping,
     Types, Life, FwUp, FwDown, Session, Starting
<1>12. Wake(f, i, h, j)'
  BY <1>1 DEF InitReady, hvars, mvars, avars, evars, ivars, bvars, Wake
<1>13. Told(f, i, h, j)'
  BY <1>1, <1>4 DEF InitReady, hvars, mvars, avars, evars, ivars, bvars, Told
<1>14. Agreed'
  BY <1>1, <1>4 DEF InitReady, hvars, mvars, avars, evars, ivars, bvars, Agreed, Heading
<1>15. Stored(f, i, h, j)'
  BY <1>1 DEF InitReady, hvars, mvars, avars, evars, ivars, bvars, Stored
<1> QED BY <1>5, <1>6, <1>7, <1>8, <1>9, <1>10, <1>11, <1>12, <1>13, <1>14, <1>15 DEF Inv, Core

(* cleanup takes M_STOP,                                                   *)
LEMMA CleanupStoppedInv ==
  ASSUME NEW f \in Fs, NEW i \in 1 .. 7, NEW h \in Hs, NEW j \in 1 .. 7,
         Inv(f, i, h, j), CleanupStopped
  PROVE  Inv(f, i, h, j)'
<1>1. /\ At(todo, f, i, h, j) /\ Types /\ Life /\ Quitting /\ EpoEnds /\ Session(f, h)
      /\ Stopping(f, i, h, j) /\ Wake(f, i, h, j) /\ Told(f, i, h, j) /\ Agreed /\ Stored(f, i, h, j)
  BY DEF Inv, Core
<1>2. cond' = [cond EXCEPT !["M_STOP"] = FALSE] /\ cond["M_STOP"]
  BY DEF CleanupStopped, GetCondition
<1>3. /\ cond' \in [Conditions -> BOOLEAN] /\ ~cond'["M_STOP"]
      /\ cond'["M_START"] = cond["M_START"]
      /\ cond'["M_CLEANUP"] = cond["M_CLEANUP"] /\ cond'["M_INIT"] = cond["M_INIT"] /\ cond'["M_THREAD_EXIT"] = cond["M_THREAD_EXIT"]
  BY <1>1, <1>2 DEF Types, Conditions
<1>4. Commands' = Commands
  BY <1>1 DEF CleanupStopped, hvars, mvars, avars, evars, ivars, bvars, Commands, Quits
<1>5. At(todo, f, i, h, j)'
  BY <1>1 DEF CleanupStopped, hvars, mvars, avars, evars, ivars, bvars, At
<1>6. Types'
  BY <1>1, <1>3 DEF CleanupStopped, hvars, mvars, avars, evars, ivars, bvars, Types, FwUp,
     FwDown
<1>7. Life'
  BY <1>1, <1>2, <1>3 DEF CleanupStopped, hvars, mvars, avars, evars, ivars, bvars, Life,
     FwUp, FwDown, Types
<1>8. Quitting'
  BY <1>1 DEF CleanupStopped, hvars, mvars, avars, evars, ivars, bvars, Quitting, Commands,
     Quits
<1>9. EpoEnds'
  BY <1>1, <1>2, <1>3 DEF CleanupStopped, hvars, mvars, avars, evars, ivars, bvars, EpoEnds,
     Types, Life, FwUp, FwDown
<1>10. Session(f, h)'
  BY <1>1 DEF CleanupStopped, hvars, mvars, avars, evars, ivars, bvars, Session, Starting,
     Sent, DieSent
<1>11. Stopping(f, i, h, j)'
  BY <1>1, <1>2, <1>3 DEF CleanupStopped, hvars, mvars, avars, evars, ivars, bvars, Stopping,
     Types, Life, FwUp, FwDown, Session, Starting
<1>12. Wake(f, i, h, j)'
  BY <1>1 DEF CleanupStopped, hvars, mvars, avars, evars, ivars, bvars, Wake
<1>13. Told(f, i, h, j)'
  BY <1>1, <1>4 DEF CleanupStopped, hvars, mvars, avars, evars, ivars, bvars, Told
<1>14. Agreed'
  BY <1>1, <1>4 DEF CleanupStopped, hvars, mvars, avars, evars, ivars, bvars, Agreed, Heading
<1>15. Stored(f, i, h, j)'
  BY <1>1 DEF CleanupStopped, hvars, mvars, avars, evars, ivars, bvars, Stored
<1> QED BY <1>5, <1>6, <1>7, <1>8, <1>9, <1>10, <1>11, <1>12, <1>13, <1>14, <1>15 DEF Inv, Core

(* ... forgets a late one                                                  *)
LEMMA CleanupClearInv ==
  ASSUME NEW f \in Fs, NEW i \in 1 .. 7, NEW h \in Hs, NEW j \in 1 .. 7,
         Inv(f, i, h, j), CleanupClear
  PROVE  Inv(f, i, h, j)'
<1>1. /\ At(todo, f, i, h, j) /\ Types /\ Life /\ Quitting /\ EpoEnds /\ Session(f, h)
      /\ Stopping(f, i, h, j) /\ Wake(f, i, h, j) /\ Told(f, i, h, j) /\ Agreed /\ Stored(f, i, h, j)
  BY DEF Inv, Core
<1>2. cond' = [cond EXCEPT !["M_STOP"] = FALSE]
  BY DEF CleanupClear
<1>3. /\ cond' \in [Conditions -> BOOLEAN] /\ ~cond'["M_STOP"]
      /\ cond'["M_START"] = cond["M_START"]
      /\ cond'["M_CLEANUP"] = cond["M_CLEANUP"] /\ cond'["M_INIT"] = cond["M_INIT"] /\ cond'["M_THREAD_EXIT"] = cond["M_THREAD_EXIT"]
  BY <1>1, <1>2 DEF Types, Conditions
<1>4. Commands' = Commands
  BY <1>1 DEF CleanupClear, hvars, mvars, avars, evars, ivars, bvars, Commands, Quits
<1>5. At(todo, f, i, h, j)'
  BY <1>1 DEF CleanupClear, hvars, mvars, avars, evars, ivars, bvars, At
<1>6. Types'
  BY <1>1, <1>3 DEF CleanupClear, hvars, mvars, avars, evars, ivars, bvars, Types, FwUp, FwDown
<1>7. Life'
  BY <1>1, <1>2, <1>3 DEF CleanupClear, hvars, mvars, avars, evars, ivars, bvars, Life, FwUp,
     FwDown, Types
<1>8. Quitting'
  BY <1>1 DEF CleanupClear, hvars, mvars, avars, evars, ivars, bvars, Quitting, Commands, Quits
<1>9. EpoEnds'
  BY <1>1, <1>2, <1>3 DEF CleanupClear, hvars, mvars, avars, evars, ivars, bvars, EpoEnds,
     Types, Life, FwUp, FwDown
<1>10. Session(f, h)'
  BY <1>1 DEF CleanupClear, hvars, mvars, avars, evars, ivars, bvars, Session, Starting, Sent,
     DieSent
<1>11. Stopping(f, i, h, j)'
  BY <1>1, <1>2, <1>3 DEF CleanupClear, hvars, mvars, avars, evars, ivars, bvars, Stopping,
     Types, Life, FwUp, FwDown, Session, Starting
<1>12. Wake(f, i, h, j)'
  BY <1>1 DEF CleanupClear, hvars, mvars, avars, evars, ivars, bvars, Wake
<1>13. Told(f, i, h, j)'
  BY <1>1, <1>4 DEF CleanupClear, hvars, mvars, avars, evars, ivars, bvars, Told
<1>14. Agreed'
  BY <1>1, <1>4 DEF CleanupClear, hvars, mvars, avars, evars, ivars, bvars, Agreed, Heading
<1>15. Stored(f, i, h, j)'
  BY <1>1 DEF CleanupClear, hvars, mvars, avars, evars, ivars, bvars, Stored
<1> QED BY <1>5, <1>6, <1>7, <1>8, <1>9, <1>10, <1>11, <1>12, <1>13, <1>14, <1>15 DEF Inv, Core

(* ... and takes the end of the EPO thread, which is its last wait.        *)
LEMMA CleanupReturnInv ==
  ASSUME NEW f \in Fs, NEW i \in 1 .. 7, NEW h \in Hs, NEW j \in 1 .. 7,
         Inv(f, i, h, j), CleanupReturn
  PROVE  Inv(f, i, h, j)'
<1>1. /\ At(todo, f, i, h, j) /\ Types /\ Life /\ Quitting /\ EpoEnds /\ Session(f, h)
      /\ Stopping(f, i, h, j) /\ Wake(f, i, h, j) /\ Told(f, i, h, j) /\ Agreed /\ Stored(f, i, h, j)
  BY DEF Inv, Core
<1>2. cond' = [cond EXCEPT !["M_THREAD_EXIT"] = FALSE] /\ cond["M_THREAD_EXIT"]
  BY DEF CleanupReturn, GetCondition
<1>3. /\ cond' \in [Conditions -> BOOLEAN] /\ ~cond'["M_THREAD_EXIT"]
      /\ cond'["M_START"] = cond["M_START"] /\ cond'["M_STOP"] = cond["M_STOP"]
      /\ cond'["M_CLEANUP"] = cond["M_CLEANUP"] /\ cond'["M_INIT"] = cond["M_INIT"]
  BY <1>1, <1>2 DEF Types, Conditions
<1>4. Commands' = Commands
  BY <1>1 DEF CleanupReturn, hvars, mvars, avars, evars, ivars, bvars, Commands, Quits
<1>5. At(todo, f, i, h, j)'
  BY <1>1 DEF CleanupReturn, hvars, mvars, avars, evars, ivars, bvars, At
<1>6. Types'
  BY <1>1, <1>3 DEF CleanupReturn, hvars, mvars, avars, evars, ivars, bvars, Types, FwUp, FwDown
<1>7. Life'
  BY <1>1, <1>2, <1>3 DEF CleanupReturn, hvars, mvars, avars, evars, ivars, bvars, Life, FwUp,
     FwDown, Types
<1>8. Quitting'
  BY <1>1 DEF CleanupReturn, hvars, mvars, avars, evars, ivars, bvars, Quitting, Commands, Quits
<1>9. EpoEnds'
  BY <1>1, <1>2, <1>3 DEF CleanupReturn, hvars, mvars, avars, evars, ivars, bvars, EpoEnds,
     Types, Life, FwUp, FwDown
<1>10. Session(f, h)'
  BY <1>1 DEF CleanupReturn, hvars, mvars, avars, evars, ivars, bvars, Session, Starting,
     Sent, DieSent
<1>11. Stopping(f, i, h, j)'
  BY <1>1, <1>2, <1>3 DEF CleanupReturn, hvars, mvars, avars, evars, ivars, bvars, Stopping,
     Types, Life, FwUp, FwDown, Session, Starting
<1>12. Wake(f, i, h, j)'
  BY <1>1 DEF CleanupReturn, hvars, mvars, avars, evars, ivars, bvars, Wake
<1>13. Told(f, i, h, j)'
  BY <1>1, <1>4 DEF CleanupReturn, hvars, mvars, avars, evars, ivars, bvars, Told
<1>14. Agreed'
  BY <1>1, <1>4 DEF CleanupReturn, hvars, mvars, avars, evars, ivars, bvars, Agreed, Heading
<1>15. Stored(f, i, h, j)'
  BY <1>1 DEF CleanupReturn, hvars, mvars, avars, evars, ivars, bvars, Stored
<1> QED BY <1>5, <1>6, <1>7, <1>8, <1>9, <1>10, <1>11, <1>12, <1>13, <1>14, <1>15 DEF Inv, Core

(* The EPO thread ends.                                                    *)
LEMMA EpoExitsInv ==
  ASSUME NEW f \in Fs, NEW i \in 1 .. 7, NEW h \in Hs, NEW j \in 1 .. 7,
         Inv(f, i, h, j), EpoExits
  PROVE  Inv(f, i, h, j)'
<1>1. /\ At(todo, f, i, h, j) /\ Types /\ Life /\ Quitting /\ EpoEnds /\ Session(f, h)
      /\ Stopping(f, i, h, j) /\ Wake(f, i, h, j) /\ Told(f, i, h, j) /\ Agreed /\ Stored(f, i, h, j)
  BY DEF Inv, Core
<1>2. cond' = [cond EXCEPT !["M_THREAD_EXIT"] = TRUE]
  BY DEF EpoExits, ReleaseCondition
<1>3. /\ cond' \in [Conditions -> BOOLEAN] /\ cond'["M_THREAD_EXIT"]
      /\ cond'["M_START"] = cond["M_START"] /\ cond'["M_STOP"] = cond["M_STOP"]
      /\ cond'["M_CLEANUP"] = cond["M_CLEANUP"] /\ cond'["M_INIT"] = cond["M_INIT"]
  BY <1>1, <1>2 DEF Types, Conditions
<1>4. Commands' = Commands
  BY <1>1 DEF EpoExits, hvars, mvars, avars, evars, ivars, bvars, Commands, Quits
<1>5. At(todo, f, i, h, j)'
  BY <1>1 DEF EpoExits, hvars, mvars, avars, evars, ivars, bvars, At
<1>6. Types'
  BY <1>1, <1>3 DEF EpoExits, hvars, mvars, avars, evars, ivars, bvars, Types, FwUp, FwDown
<1>7. Life'
  BY <1>1, <1>2, <1>3 DEF EpoExits, hvars, mvars, avars, evars, ivars, bvars, Life, FwUp,
     FwDown, Types
<1>8. Quitting'
  BY <1>1 DEF EpoExits, hvars, mvars, avars, evars, ivars, bvars, Quitting, Commands, Quits
<1>9. EpoEnds'
  BY <1>1, <1>2, <1>3 DEF EpoExits, hvars, mvars, avars, evars, ivars, bvars, EpoEnds, Types,
     Life, FwUp, FwDown
<1>10. Session(f, h)'
  BY <1>1 DEF EpoExits, hvars, mvars, avars, evars, ivars, bvars, Session, Starting, Sent,
     DieSent
<1>11. Stopping(f, i, h, j)'
  BY <1>1, <1>2, <1>3 DEF EpoExits, hvars, mvars, avars, evars, ivars, bvars, Stopping, Types,
     Life, FwUp, FwDown, Session, Starting
<1>12. Wake(f, i, h, j)'
  BY <1>1 DEF EpoExits, hvars, mvars, avars, evars, ivars, bvars, Wake
<1>13. Told(f, i, h, j)'
  BY <1>1, <1>4 DEF EpoExits, hvars, mvars, avars, evars, ivars, bvars, Told
<1>14. Agreed'
  BY <1>1, <1>4 DEF EpoExits, hvars, mvars, avars, evars, ivars, bvars, Agreed, Heading
<1>15. Stored(f, i, h, j)'
  BY <1>1 DEF EpoExits, hvars, mvars, avars, evars, ivars, bvars, Stored
<1> QED BY <1>5, <1>6, <1>7, <1>8, <1>9, <1>10, <1>11, <1>12, <1>13, <1>14, <1>15 DEF Inv, Core

(* gps_state_thread is ready ...                                           *)
LEMMA BootInv ==
  ASSUME NEW f \in Fs, NEW i \in 1 .. 7, NEW h \in Hs, NEW j \in 1 .. 7,
         Inv(f, i, h, j), Boot
  PROVE  Inv(f, i, h, j)'
<1>1. /\ At(todo, f, i, h, j) /\ Types /\ Life /\ Quitting /\ EpoEnds /\ Session(f, h)
      /\ Stopping(f, i, h, j) /\ Wake(f, i, h, j) /\ Told(f, i, h, j) /\ Agreed /\ Stored(f, i, h, j)
  BY DEF Inv, Core
<1>2. cond' = [cond EXCEPT !["M_INIT"] = TRUE]
  BY DEF Boot, ReleaseCondition
<1>3. /\ cond' \in [Conditions -> BOOLEAN] /\ cond'["M_INIT"]
      /\ cond'["M_START"] = cond["M_START"] /\ cond'["M_STOP"] = cond["M_STOP"]
      /\ cond'["M_CLEANUP"] = cond["M_CLEANUP"] /\ cond'["M_THREAD_EXIT"] = cond["M_THREAD_EXIT"]
  BY <1>1, <1>2 DEF Types, Conditions
<1>4. Commands' = Commands
  BY <1>1 DEF Boot, hvars, mvars, avars, evars, ivars, bvars, Commands, Quits
<1>5. At(todo, f, i, h, j)'
  BY <1>1 DEF Boot, hvars, mvars, avars, evars, ivars, bvars, At
<1>6. Types'
  <2>1. UNCHANGED <<fw, init, start_flag, control, navigating, started, faulted, icon, mixed, epo>>
    BY DEF Boot, avars, evars, bvars
  <2>2. UNCHANGED <<toMnld, fromMnld, mnld>> /\ hal' = "loop"
    BY DEF Boot, mvars
  <2>3. /\ init' \in BOOLEAN /\ start_flag' \in {0, 1} /\ cond' \in [Conditions -> BOOLEAN]
        /\ started' \in BOOLEAN /\ navigating' \in BOOLEAN
        /\ faulted' \in BOOLEAN /\ icon' \in BOOLEAN /\ mixed' \in BOOLEAN
    BY <1>1, <1>3, <2>1, <2>2 DEF Types
  <2>4. /\ fw' \in FwUp \cup FwDown \cup {"idle"}
        /\ hal' \in {"none", "boot", "loop", "script"}
        /\ control' \in Seq({"START", "STOP", "QUIT"})
        /\ toMnld' \in Seq({"start", "stop", "cleanup"})
        /\ fromMnld' \in Seq(Kinds \cup {"die"})
        /\ mnld' \in {"on", "off"} /\ epo' \in {"none", "run"}
    BY <1>1, <2>1, <2>2 DEF Types
  <2> QED BY <2>3, <2>4, Zenon DEF Types
<1>7. Life'
  BY <1>1, <1>2, <1>3 DEF Boot, hvars, mvars, avars, evars, ivars, bvars, Life, FwUp, FwDown,
     Types
<1>8. Quitting'
  BY <1>1 DEF Boot, hvars, mvars, avars, evars, ivars, bvars, Quitting, Commands, Quits
<1>9. EpoEnds'
  BY <1>1, <1>2, <1>3 DEF Boot, hvars, mvars, avars, evars, ivars, bvars, EpoEnds, Types,
     Life, FwUp, FwDown
<1>10. Session(f, h)'
  BY <1>1 DEF Boot, hvars, mvars, avars, evars, ivars, bvars, Session, Starting, Sent, DieSent
<1>11. Stopping(f, i, h, j)'
  BY <1>1, <1>2, <1>3 DEF Boot, hvars, mvars, avars, evars, ivars, bvars, Stopping, Types,
     Life, FwUp, FwDown, Session, Starting
<1>12. Wake(f, i, h, j)'
  BY <1>1 DEF Boot, hvars, mvars, avars, evars, ivars, bvars, Wake
<1>13. Told(f, i, h, j)'
  BY <1>1, <1>4 DEF Boot, hvars, mvars, avars, evars, ivars, bvars, Told
<1>14. Agreed'
  BY <1>1, <1>4 DEF Boot, hvars, mvars, avars, evars, ivars, bvars, Agreed, Heading
<1>15. Stored(f, i, h, j)'
  BY <1>1 DEF Boot, hvars, mvars, avars, evars, ivars, bvars, Stored
<1> QED BY <1>5, <1>6, <1>7, <1>8, <1>9, <1>10, <1>11, <1>12, <1>13, <1>14, <1>15 DEF Inv, Core

(* ... or cannot open its sockets.                                         *)
LEMMA BootFailsInv ==
  ASSUME NEW f \in Fs, NEW i \in 1 .. 7, NEW h \in Hs, NEW j \in 1 .. 7,
         Inv(f, i, h, j), BootFails
  PROVE  Inv(f, i, h, j)'
<1>1. /\ At(todo, f, i, h, j) /\ Types /\ Life /\ Quitting /\ EpoEnds /\ Session(f, h)
      /\ Stopping(f, i, h, j) /\ Wake(f, i, h, j) /\ Told(f, i, h, j) /\ Agreed /\ Stored(f, i, h, j)
  BY DEF Inv, Core
<1>2. Commands' = Commands
  BY <1>1 DEF BootFails, hvars, mvars, avars, evars, ivars, bvars, Commands, Quits, Life
<1>3. At(todo, f, i, h, j)'
  BY <1>1 DEF BootFails, hvars, mvars, avars, evars, ivars, bvars, At
<1>4. Types'
  BY <1>1 DEF BootFails, hvars, mvars, avars, evars, ivars, bvars, Types, FwUp, FwDown
<1>5. Life'
  BY <1>1 DEF BootFails, hvars, mvars, avars, evars, ivars, bvars, Life, FwUp, FwDown, Types
<1>6. Quitting'
  BY <1>1 DEF BootFails, hvars, mvars, avars, evars, ivars, bvars, Quitting, Commands, Quits,
     Life
<1>7. EpoEnds'
  BY <1>1 DEF BootFails, hvars, mvars, avars, evars, ivars, bvars, EpoEnds, Types, Life, FwUp,
     FwDown
<1>8. Session(f, h)'
  BY <1>1 DEF BootFails, hvars, mvars, avars, evars, ivars, bvars, Session, Starting, Sent,
     DieSent
<1>9. Stopping(f, i, h, j)'
  BY <1>1 DEF BootFails, hvars, mvars, avars, evars, ivars, bvars, Stopping, Types, Life,
     FwUp, FwDown, Session, Starting
<1>10. Wake(f, i, h, j)'
  BY <1>1 DEF BootFails, hvars, mvars, avars, evars, ivars, bvars, Wake
<1>11. Told(f, i, h, j)'
  BY <1>1, <1>2 DEF BootFails, hvars, mvars, avars, evars, ivars, bvars, Told
<1>12. Agreed'
  BY <1>1, <1>2 DEF BootFails, hvars, mvars, avars, evars, ivars, bvars, Agreed, Heading
<1>13. Stored(f, i, h, j)'
  BY <1>1 DEF BootFails, hvars, mvars, avars, evars, ivars, bvars, Stored
<1> QED BY <1>3, <1>4, <1>5, <1>6, <1>7, <1>8, <1>9, <1>10, <1>11, <1>12, <1>13 DEF Inv, Core

(* M_START is taken: the script of start begins.                           *)
LEMMA StartRunInv ==
  ASSUME NEW f \in Fs, NEW i \in 1 .. 7, NEW h \in Hs, NEW j \in 1 .. 7,
         Inv(f, i, h, j), StartRun
  PROVE  Inv("start", 1, h, j)'
<1>1. /\ At(todo, f, i, h, j) /\ Types /\ Life /\ Quitting /\ EpoEnds /\ Session(f, h)
      /\ Stopping(f, i, h, j) /\ Wake(f, i, h, j) /\ Told(f, i, h, j) /\ Agreed /\ Stored(f, i, h, j)
  BY DEF Inv, Core
<1>2. /\ fw = "startWait" /\ fw' = "script"
      /\ todo' = [todo EXCEPT !["fw"] = StartScript]
      /\ cond' = [cond EXCEPT !["M_START"] = FALSE]
      /\ control' = Append(control, "START")
      /\ mixed' = (mixed \/ todo["hal"] # <<>>)
      /\ UNCHANGED <<hal, init, start_flag, started, sta, epo, set, open,
                     toMnld, fromMnld, mnld, seen, wakelocks, icon, navigating,
                     faulted>>
  BY DEF StartRun, hvars, mvars, avars, evars, ivars, bvars, GetCondition
<1>3. (Sent' <=> Sent) /\ (Once(toMnld, "start")' <=> Once(toMnld, "start"))
  BY <1>2 DEF Sent, Once
<1>4. (DieSent' <=> DieSent) /\ (Once(fromMnld, "die")' <=> Once(fromMnld, "die"))
  BY <1>2 DEF DieSent, Once
<1>5. Commands' = Append(Commands, "START")
  BY <1>1, <1>2 DEF Commands, Quits
<1>6. /\ cond' \in [Conditions -> BOOLEAN] /\ cond'["M_STOP"] = cond["M_STOP"]
      /\ cond'["M_CLEANUP"] = cond["M_CLEANUP"] /\ cond'["M_INIT"] = cond["M_INIT"]
      /\ cond'["M_THREAD_EXIT"] = cond["M_THREAD_EXIT"]
  BY <1>1, <1>2 DEF Types, Conditions
<1>7. /\ Commands' \in Seq({"START", "STOP"}) /\ Commands' # <<>> /\ Last(Commands') = "START"
      /\ control' = Commands' /\ Contains(Commands', "START")
  BY <1>1, <1>2, <1>5, CommandPut DEF Quitting, Commands, Quits
<1>8. "start" \in Fs /\ f = "none"
  BY <1>1, <1>2 DEF Stopping, Fs, FwScripts
<1>9. h \in Icons => todo["hal"] # <<>>
  BY <1>1, AtWork DEF Icons
<1>10. init /\ navigating /\ start_flag = 0
  BY <1>1, <1>2 DEF Life, FwUp, Quitting, Session, Starting
<1>11. ~mixed' => ~mixed /\ todo["hal"] = <<>>
  BY <1>1, <1>2 DEF Types
<1>12. At(todo, "start", 1, h, j)'
  BY <1>1, <1>2, <1>8, StartBegins, FwBegins
<1>13. Types'
  BY <1>1, <1>2, <1>6, <1>7 DEF Types, FwUp, FwDown
<1>14. Life'
  BY <1>1, <1>2, <1>6 DEF Life, FwUp, FwDown, Types
<1>15. Quitting'
  BY <1>1, <1>2, <1>5, <1>7, <1>10 DEF Quitting, Quits
<1>16. EpoEnds'
  BY <1>1, <1>2, <1>6 DEF EpoEnds, Types, Life, FwUp, FwDown
<1>17. Session("start", h)'
  BY <1>1, <1>2, <1>3, <1>4, <1>8 DEF Session, Starting
<1>18. Stopping("start", 1, h, j)'
  BY <1>1, <1>2, <1>6, <1>8 DEF Stopping, Types, Life, FwUp, FwDown, Session, Starting
<1>19. Wake("start", 1, h, j)'
  BY <1>1, <1>2, <1>8 DEF Wake
<1>20. Told("start", 1, h, j)'
  BY <1>1, <1>2, <1>5, <1>7, <1>8, <1>9, <1>10, <1>11 DEF Told
<1>21. Agreed'
  BY <1>1, <1>2, <1>5, <1>7, <1>10 DEF Agreed, Heading
<1>22. Stored("start", 1, h, j)'
  BY <1>1, <1>2, <1>8 DEF Stored
<1> QED BY <1>12, <1>13, <1>14, <1>15, <1>16, <1>17, <1>18, <1>19, <1>20, <1>21, <1>22 DEF
         Inv, Core

(* stop puts its command in the socket pair,                               *)
LEMMA StopCmdInv ==
  ASSUME NEW f \in Fs, NEW i \in 1 .. 7, NEW h \in Hs, NEW j \in 1 .. 7,
         Inv(f, i, h, j), StopCmd
  PROVE  Inv(f, i, h, j)'
<1>1. /\ At(todo, f, i, h, j) /\ Types /\ Life /\ Quitting /\ EpoEnds /\ Session(f, h)
      /\ Stopping(f, i, h, j) /\ Wake(f, i, h, j) /\ Told(f, i, h, j) /\ Agreed /\ Stored(f, i, h, j)
  BY DEF Inv, Core
<1>2. /\ fw = "stopCmd" /\ fw' = "idle"
      /\ control' = Append(control, "STOP")
      /\ UNCHANGED <<hal, todo, init, start_flag, started, cond, sta,
                     epo, set, open, toMnld, fromMnld, mnld, seen, wakelocks,
                     icon, mixed, navigating, faulted>>
  BY DEF StopCmd, hvars, mvars, avars, evars, ivars, bvars
<1>3. (Sent' <=> Sent) /\ (Once(toMnld, "start")' <=> Once(toMnld, "start"))
  BY <1>2 DEF Sent, Once
<1>4. (DieSent' <=> DieSent) /\ (Once(fromMnld, "die")' <=> Once(fromMnld, "die"))
  BY <1>2 DEF DieSent, Once
<1>5. Commands' = Append(Commands, "STOP")
  BY <1>1, <1>2 DEF Commands, Quits
<1>6. /\ Commands' \in Seq({"START", "STOP"}) /\ Commands' # <<>> /\ Last(Commands') = "STOP"
      /\ control' = Commands' /\ (Contains(Commands', "START") <=> Contains(Commands, "START"))
  BY <1>1, <1>2, <1>5, CommandPut DEF Quitting, Commands, Quits
<1>7. init /\ ~navigating
  BY <1>1, <1>2 DEF Life, FwUp, Quitting
<1>8. At(todo, f, i, h, j)'
  BY <1>1, <1>2 DEF At
<1>9. Types'
  BY <1>1, <1>2, <1>6 DEF Types, FwUp, FwDown
<1>10. Life'
  BY <1>1, <1>2 DEF Life, FwUp, FwDown, Types
<1>11. Quitting'
  BY <1>1, <1>2, <1>5, <1>6, <1>7 DEF Quitting, Quits
<1>12. EpoEnds'
  BY <1>1, <1>2 DEF EpoEnds, Types, Life, FwUp, FwDown
<1>13. Session(f, h)'
  BY <1>1, <1>2, <1>3, <1>4 DEF Session, Starting
<1>14. Stopping(f, i, h, j)'
  BY <1>1, <1>2 DEF Stopping, Types, Life, FwUp, FwDown, Session, Starting
<1>15. Wake(f, i, h, j)'
  BY <1>1, <1>2 DEF Wake
<1>16. Told(f, i, h, j)'
  BY <1>1, <1>2, <1>5, <1>6 DEF Told
<1>17. Agreed'
  BY <1>1, <1>2, <1>5, <1>6, <1>7 DEF Agreed, Heading
<1>18. Stored(f, i, h, j)'
  BY <1>1, <1>2 DEF Stored
<1> QED BY <1>8, <1>9, <1>10, <1>11, <1>12, <1>13, <1>14, <1>15, <1>16, <1>17, <1>18 DEF Inv,
         Core

(* ... cleanup its QUIT behind it                                          *)
LEMMA CleanupQuitInv ==
  ASSUME NEW f \in Fs, NEW i \in 1 .. 7, NEW h \in Hs, NEW j \in 1 .. 7,
         Inv(f, i, h, j), CleanupQuit
  PROVE  Inv(f, i, h, j)'
<1>1. /\ At(todo, f, i, h, j) /\ Types /\ Life /\ Quitting /\ EpoEnds /\ Session(f, h)
      /\ Stopping(f, i, h, j) /\ Wake(f, i, h, j) /\ Told(f, i, h, j) /\ Agreed /\ Stored(f, i, h, j)
  BY DEF Inv, Core
<1>2. /\ fw = "cleanQuit" /\ fw' = "cleanDone"
      /\ control' = Append(control, "QUIT")
      /\ UNCHANGED <<hal, todo, init, start_flag, started, cond, sta,
                     epo, set, open, toMnld, fromMnld, mnld, seen, wakelocks,
                     icon, mixed, navigating, faulted>>
  BY DEF CleanupQuit, hvars, mvars, avars, evars, ivars, bvars
<1>3. (Sent' <=> Sent) /\ (Once(toMnld, "start")' <=> Once(toMnld, "start"))
  BY <1>2 DEF Sent, Once
<1>4. (DieSent' <=> DieSent) /\ (Once(fromMnld, "die")' <=> Once(fromMnld, "die"))
  BY <1>2 DEF DieSent, Once
<1>5. ~Quits /\ Quits' /\ hal \in {"loop", "script"}
  BY <1>1, <1>2 DEF Quits, Life, FwUp
<1>6. Commands \in Seq({"START", "STOP"}) /\ control = Commands
  BY <1>1, <1>5 DEF Quitting
<1>7. Commands' = Commands
  BY <1>2, <1>5, <1>6, CommandFacts DEF Commands
<1>8. control' \in Seq({"START", "STOP", "QUIT"})
  BY <1>1, <1>2 DEF Types
<1>9. At(todo, f, i, h, j)'
  BY <1>1, <1>2 DEF At
<1>10. Types'
  BY <1>1, <1>2, <1>8 DEF Types, FwUp, FwDown
<1>11. Life'
  BY <1>1, <1>2 DEF Life, FwUp, FwDown, Types
<1>12. Quitting'
  BY <1>1, <1>2, <1>7, <1>5, <1>6 DEF Quitting
<1>13. EpoEnds'
  BY <1>1, <1>2 DEF EpoEnds, Types, Life, FwUp, FwDown
<1>14. Session(f, h)'
  BY <1>1, <1>2, <1>3, <1>4 DEF Session, Starting
<1>15. Stopping(f, i, h, j)'
  BY <1>1, <1>2 DEF Stopping, Types, Life, FwUp, FwDown, Session, Starting
<1>16. Wake(f, i, h, j)'
  BY <1>1, <1>2 DEF Wake
<1>17. Told(f, i, h, j)'
  BY <1>1, <1>2, <1>7 DEF Told
<1>18. Agreed'
  BY <1>1, <1>2, <1>7 DEF Agreed, Heading
<1>19. Stored(f, i, h, j)'
  BY <1>1, <1>2 DEF Stored
<1> QED BY <1>9, <1>10, <1>11, <1>12, <1>13, <1>14, <1>15, <1>16, <1>17, <1>18, <1>19 DEF Inv,
         Core

(* ... and waits for the end of the thread.                                *)
LEMMA CleanupDoneInv ==
  ASSUME NEW f \in Fs, NEW i \in 1 .. 7, NEW h \in Hs, NEW j \in 1 .. 7,
         Inv(f, i, h, j), CleanupDone
  PROVE  Inv(f, i, h, j)'
<1>1. /\ At(todo, f, i, h, j) /\ Types /\ Life /\ Quitting /\ EpoEnds /\ Session(f, h)
      /\ Stopping(f, i, h, j) /\ Wake(f, i, h, j) /\ Told(f, i, h, j) /\ Agreed /\ Stored(f, i, h, j)
  BY DEF Inv, Core
<1>2. /\ fw = "cleanDone" /\ fw' = "cleanEpo"
      /\ control' = <<>>
      /\ init' = FALSE
      /\ cond["M_CLEANUP"] /\ cond' = [cond EXCEPT !["M_CLEANUP"] = FALSE]
      /\ UNCHANGED <<hal, todo, start_flag, started, sta, epo, set, open,
                     toMnld, fromMnld, mnld, seen, wakelocks, icon, mixed,
                     navigating, faulted>>
  BY DEF CleanupDone, hvars, mvars, avars, evars, ivars, bvars, GetCondition
<1>3. (Sent' <=> Sent) /\ (Once(toMnld, "start")' <=> Once(toMnld, "start"))
  BY <1>2 DEF Sent, Once
<1>4. (DieSent' <=> DieSent) /\ (Once(fromMnld, "die")' <=> Once(fromMnld, "die"))
  BY <1>2 DEF DieSent, Once
<1>5. /\ cond' \in [Conditions -> BOOLEAN] /\ ~cond'["M_CLEANUP"] /\ cond'["M_STOP"] = cond["M_STOP"]
      /\ cond'["M_INIT"] = cond["M_INIT"] /\ cond'["M_THREAD_EXIT"] = cond["M_THREAD_EXIT"]
  BY <1>1, <1>2 DEF Types, Conditions
<1>6. hal = "none" /\ Commands = <<>>
  BY <1>1, <1>2 DEF Life, Quitting
<1>7. Commands' = Commands
  BY <1>2, <1>6 DEF Commands, Quits
<1>8. h = "none" /\ f = "none"
  BY <1>1, <1>2, <1>6 DEF Stopping
<1>9. control' \in Seq({"START", "STOP", "QUIT"}) /\ start_flag = 0
  BY <1>1, <1>2, <1>8 DEF Stopping
<1>10. At(todo, f, i, h, j)'
  BY <1>1, <1>2 DEF At
<1>11. Types'
  BY <1>1, <1>2, <1>5, <1>9 DEF Types, FwUp, FwDown
<1>12. Life'
  BY <1>1, <1>2, <1>5, <1>6 DEF Life, FwUp, FwDown, Types
<1>13. Quitting'
  BY <1>1, <1>2, <1>7, <1>6 DEF Quitting, Quits
<1>14. EpoEnds'
  BY <1>1, <1>2, <1>5 DEF EpoEnds, Types, Life, FwUp, FwDown
<1>15. Session(f, h)'
  BY <1>1, <1>2, <1>3, <1>4, <1>8, <1>9 DEF Session, Starting
<1>16. Stopping(f, i, h, j)'
  BY <1>1, <1>2, <1>5, <1>8, <1>9 DEF Stopping, Types, Life, FwUp, FwDown, Session, Starting
<1>17. Wake(f, i, h, j)'
  BY <1>1, <1>2 DEF Wake
<1>18. Told(f, i, h, j)'
  BY <1>1, <1>2, <1>7 DEF Told
<1>19. Agreed'
  BY <1>1, <1>2, <1>7 DEF Agreed, Heading
<1>20. Stored(f, i, h, j)'
  BY <1>1, <1>2 DEF Stored
<1> QED BY <1>10, <1>11, <1>12, <1>13, <1>14, <1>15, <1>16, <1>17, <1>18, <1>19, <1>20 DEF
         Inv, Core

(* The thread takes a start ...                                            *)
LEMMA OnStartInv ==
  ASSUME NEW f \in Fs, NEW i \in 1 .. 7, NEW h \in Hs, NEW j \in 1 .. 7,
         Inv(f, i, h, j), OnStart
  PROVE  Inv(f, i, h, j)'
<1>1. /\ At(todo, f, i, h, j) /\ Types /\ Life /\ Quitting /\ EpoEnds /\ Session(f, h)
      /\ Stopping(f, i, h, j) /\ Wake(f, i, h, j) /\ Told(f, i, h, j) /\ Agreed /\ Stored(f, i, h, j)
  BY DEF Inv, Core
<1>2. /\ hal = "loop"
      /\ control # <<>> /\ Head(control) = "START" /\ control' = Tail(control)
      /\ started' = TRUE
      /\ UNCHANGED <<hal, fw, todo, init, start_flag, cond, sta, epo, set, open,
                     toMnld, fromMnld, mnld, seen, wakelocks, icon, mixed,
                     navigating, faulted>>
  BY DEF OnStart, hvars, mvars, avars, evars, ivars, bvars
<1>3. (Sent' <=> Sent) /\ (Once(toMnld, "start")' <=> Once(toMnld, "start"))
  BY <1>2 DEF Sent, Once
<1>4. (DieSent' <=> DieSent) /\ (Once(fromMnld, "die")' <=> Once(fromMnld, "die"))
  BY <1>2 DEF DieSent, Once
<1>5. /\ Commands # <<>> /\ Head(Commands) = "START"
      /\ control' = IF Quits THEN Append(Tail(Commands), "QUIT") ELSE Tail(Commands)
      /\ Commands \in Seq({"START", "STOP"}) /\ (Quits' <=> Quits)
  BY <1>1, <1>2, CommandTaken DEF Quitting, Quits
<1>6. /\ Tail(Commands) \in Seq({"START", "STOP"})
      /\ Contains(Commands, "START") <=> Head(Commands) = "START" \/ Contains(Tail(Commands), "START")
      /\ IF Tail(Commands) = <<>> THEN Last(Commands) = Head(Commands)
         ELSE Last(Commands) = Last(Tail(Commands))
  BY <1>5, CommandFacts
<1>7. Commands' = Tail(Commands)
  BY <1>5, <1>6, CommandFacts DEF Commands
<1>8. control' \in Seq({"START", "STOP", "QUIT"})
  BY <1>1, <1>2 DEF Types
<1>9. init \/ hal # "none"
  BY <1>2
<1>10. At(todo, f, i, h, j)'
  BY <1>1, <1>2 DEF At
<1>11. Types'
  BY <1>1, <1>2, <1>8 DEF Types, FwUp, FwDown
<1>12. Life'
  BY <1>1, <1>2 DEF Life, FwUp, FwDown, Types
<1>13. Quitting'
  BY <1>1, <1>2, <1>7, <1>5, <1>6 DEF Quitting, Quits
<1>14. EpoEnds'
  BY <1>1, <1>2 DEF EpoEnds, Types, Life, FwUp, FwDown
<1>15. Session(f, h)'
  BY <1>1, <1>2, <1>3, <1>4 DEF Session, Starting
<1>16. Stopping(f, i, h, j)'
  BY <1>1, <1>2 DEF Stopping, Types, Life, FwUp, FwDown, Session, Starting
<1>17. Wake(f, i, h, j)'
  BY <1>1, <1>2 DEF Wake
<1>18. Told(f, i, h, j)'
  BY <1>1, <1>2, <1>7, <1>5, <1>6 DEF Told
<1>19. Agreed'
  BY <1>1, <1>2, <1>7, <1>5, <1>6 DEF Agreed, Heading
<1>20. Stored(f, i, h, j)'
  BY <1>1, <1>2 DEF Stored
<1> QED BY <1>10, <1>11, <1>12, <1>13, <1>14, <1>15, <1>16, <1>17, <1>18, <1>19, <1>20 DEF
         Inv, Core

(* ... a stop                                                              *)
LEMMA OnStopInv ==
  ASSUME NEW f \in Fs, NEW i \in 1 .. 7, NEW h \in Hs, NEW j \in 1 .. 7,
         Inv(f, i, h, j), OnStop
  PROVE  Inv(f, i, h, j)'
<1>1. /\ At(todo, f, i, h, j) /\ Types /\ Life /\ Quitting /\ EpoEnds /\ Session(f, h)
      /\ Stopping(f, i, h, j) /\ Wake(f, i, h, j) /\ Told(f, i, h, j) /\ Agreed /\ Stored(f, i, h, j)
  BY DEF Inv, Core
<1>2. /\ hal = "loop"
      /\ control # <<>> /\ Head(control) = "STOP" /\ control' = Tail(control)
      /\ started' = FALSE
      /\ UNCHANGED <<hal, fw, todo, init, start_flag, cond, sta, epo, set, open,
                     toMnld, fromMnld, mnld, seen, wakelocks, icon, mixed,
                     navigating, faulted>>
  BY DEF OnStop, hvars, mvars, avars, evars, ivars, bvars
<1>3. (Sent' <=> Sent) /\ (Once(toMnld, "start")' <=> Once(toMnld, "start"))
  BY <1>2 DEF Sent, Once
<1>4. (DieSent' <=> DieSent) /\ (Once(fromMnld, "die")' <=> Once(fromMnld, "die"))
  BY <1>2 DEF DieSent, Once
<1>5. /\ Commands # <<>> /\ Head(Commands) = "STOP"
      /\ control' = IF Quits THEN Append(Tail(Commands), "QUIT") ELSE Tail(Commands)
      /\ Commands \in Seq({"START", "STOP"}) /\ (Quits' <=> Quits)
  BY <1>1, <1>2, CommandTaken DEF Quitting, Quits
<1>6. /\ Tail(Commands) \in Seq({"START", "STOP"})
      /\ Contains(Commands, "START") <=> Head(Commands) = "START" \/ Contains(Tail(Commands), "START")
      /\ IF Tail(Commands) = <<>> THEN Last(Commands) = Head(Commands)
         ELSE Last(Commands) = Last(Tail(Commands))
  BY <1>5, CommandFacts
<1>7. Commands' = Tail(Commands)
  BY <1>5, <1>6, CommandFacts DEF Commands
<1>8. control' \in Seq({"START", "STOP", "QUIT"})
  BY <1>1, <1>2 DEF Types
<1>9. init \/ hal # "none"
  BY <1>2
<1>10. At(todo, f, i, h, j)'
  BY <1>1, <1>2 DEF At
<1>11. Types'
  <2>1. started' \in BOOLEAN
    BY <1>2, Zenon
  <2>2. UNCHANGED <<hal, fw, init, start_flag, cond, epo, toMnld, fromMnld, mnld, icon,
                    mixed, navigating, faulted>>
    BY <1>2, Zenon
  <2> QED BY <1>1, <1>8, <2>1, <2>2 DEF Types
<1>12. Life'
  BY <1>1, <1>2 DEF Life, FwUp, FwDown, Types
<1>13. Quitting'
  BY <1>1, <1>2, <1>7, <1>5, <1>6 DEF Quitting, Quits
<1>14. EpoEnds'
  BY <1>1, <1>2 DEF EpoEnds, Types, Life, FwUp, FwDown
<1>15. Session(f, h)'
  BY <1>1, <1>2, <1>3, <1>4 DEF Session, Starting
<1>16. Stopping(f, i, h, j)'
  BY <1>1, <1>2 DEF Stopping, Types, Life, FwUp, FwDown, Session, Starting
<1>17. Wake(f, i, h, j)'
  BY <1>1, <1>2 DEF Wake
<1>18. Told(f, i, h, j)'
  BY <1>1, <1>2, <1>7, <1>5, <1>6 DEF Told
<1>19. Agreed'
  BY <1>1, <1>2, <1>7, <1>5, <1>6 DEF Agreed, Heading
<1>20. Stored(f, i, h, j)'
  BY <1>1, <1>2 DEF Stored
<1> QED BY <1>10, <1>11, <1>12, <1>13, <1>14, <1>15, <1>16, <1>17, <1>18, <1>19, <1>20 DEF
         Inv, Core

(* ... and the command that ends it.                                       *)
LEMMA OnQuitInv ==
  ASSUME NEW f \in Fs, NEW i \in 1 .. 7, NEW h \in Hs, NEW j \in 1 .. 7,
         Inv(f, i, h, j), OnQuit
  PROVE  Inv(f, i, h, j)'
<1>1. /\ At(todo, f, i, h, j) /\ Types /\ Life /\ Quitting /\ EpoEnds /\ Session(f, h)
      /\ Stopping(f, i, h, j) /\ Wake(f, i, h, j) /\ Told(f, i, h, j) /\ Agreed /\ Stored(f, i, h, j)
  BY DEF Inv, Core
<1>2. /\ hal = "loop" /\ hal' = "none"
      /\ control # <<>> /\ Head(control) = "QUIT" /\ control' = Tail(control)
      /\ fromMnld' = <<>>
      /\ cond' = [cond EXCEPT !["M_CLEANUP"] = TRUE]
      /\ UNCHANGED <<fw, todo, init, start_flag, started, sta, epo, set,
                     open, toMnld, mnld, seen, wakelocks, icon, mixed,
                     navigating, faulted>>
  BY DEF OnQuit, hvars, mvars, avars, evars, ivars, bvars, ReleaseCondition
<1>3. (Sent' <=> Sent) /\ (Once(toMnld, "start")' <=> Once(toMnld, "start"))
  BY <1>2 DEF Sent, Once
<1>4. /\ ~DieSent' /\ Once(fromMnld, "die")' /\ fromMnld' \in Seq(Kinds \cup {"die"})
      /\ \A m \in Ungated : ~Contains(fromMnld', m)
  BY <1>2 DEF DieSent, Once, Contains
<1>5. Quits /\ Commands = <<>> /\ control' = <<>> /\ ~Quits' /\ fw = "cleanDone"
  BY <1>1, <1>2, CommandTaken DEF Quits
<1>6. Commands' = Commands
  BY <1>5 DEF Commands
<1>7. /\ cond' \in [Conditions -> BOOLEAN] /\ cond'["M_CLEANUP"] /\ cond'["M_STOP"] = cond["M_STOP"]
      /\ cond'["M_INIT"] = cond["M_INIT"] /\ cond'["M_THREAD_EXIT"] = cond["M_THREAD_EXIT"]
  BY <1>1, <1>2 DEF Types, Conditions
<1>8. control' \in Seq({"START", "STOP", "QUIT"})
  BY <1>5
<1>9. h = "none"
  BY <1>1, <1>2 DEF Stopping
<1>10. ~navigating
  BY <1>1, <1>5 DEF Quitting
<1>11. At(todo, f, i, h, j)'
  BY <1>1, <1>2 DEF At
<1>12. Types'
  BY <1>1, <1>2, <1>4, <1>7, <1>8 DEF Types, FwUp, FwDown
<1>13. Life'
  BY <1>1, <1>2, <1>5, <1>7 DEF Life, FwUp, FwDown, Types
<1>14. Quitting'
  BY <1>1, <1>2, <1>6, <1>5, <1>10 DEF Quitting
<1>15. EpoEnds'
  BY <1>1, <1>2, <1>5, <1>7 DEF EpoEnds, Types, Life, FwUp, FwDown
<1>16. Session(f, h)'
  <2>1. start_flag = 0 /\ ~Starting(f)
    BY <1>1, <1>5, <1>9 DEF Stopping, Starting
  <2>2. ~Sent /\ mnld # "on" /\ ~DieSent
    BY <1>1, <2>1 DEF Session
  <2> QED BY <1>1, <1>2, <1>3, <1>4, <2>1, <2>2 DEF Session, Starting
<1>17. Stopping(f, i, h, j)'
  BY <1>1, <1>2, <1>5, <1>7, <1>9 DEF Stopping, Types, Life, FwUp, FwDown, Session, Starting
<1>18. Wake(f, i, h, j)'
  BY <1>1, <1>2 DEF Wake
<1>19. Told(f, i, h, j)'
  BY <1>1, <1>2, <1>6, <1>5 DEF Told
<1>20. Agreed'
  BY <1>1, <1>2, <1>6, <1>5, <1>10 DEF Agreed, Heading
<1>21. Stored(f, i, h, j)'
  BY <1>1, <1>2, <1>4 DEF Stored
<1> QED BY <1>11, <1>12, <1>13, <1>14, <1>15, <1>16, <1>17, <1>18, <1>19, <1>20, <1>21 DEF
         Inv, Core

(* The first sentence of a session latches M_START.                        *)
LEMMA OnNmeaInv ==
  ASSUME NEW f \in Fs, NEW i \in 1 .. 7, NEW h \in Hs, NEW j \in 1 .. 7,
         Inv(f, i, h, j), OnNmea
  PROVE  Inv(f, i, h, j)'
<1>1. /\ At(todo, f, i, h, j) /\ Types /\ Life /\ Quitting /\ EpoEnds /\ Session(f, h)
      /\ Stopping(f, i, h, j) /\ Wake(f, i, h, j) /\ Told(f, i, h, j) /\ Agreed /\ Stored(f, i, h, j)
  BY DEF Inv, Core
<1>2. /\ cond' = cond \/ cond' = [cond EXCEPT !["M_START"] = TRUE]
      /\ UNCHANGED <<fw, hal, todo, init, start_flag, started, control, sta, epo, set, open, toMnld, fromMnld, mnld, seen, wakelocks,
                     icon, mixed, navigating, faulted>>
  BY DEF OnNmea, hvars, mvars, avars, evars, ivars, bvars, ReleaseCondition
<1>3. (Sent' <=> Sent) /\ (Once(toMnld, "start")' <=> Once(toMnld, "start"))
  BY <1>2 DEF Sent, Once
<1>4. (DieSent' <=> DieSent) /\ (Once(fromMnld, "die")' <=> Once(fromMnld, "die"))
  BY <1>2 DEF DieSent, Once
<1>5. Commands' = Commands
  BY <1>1, <1>2 DEF Commands, Quits
<1>6. /\ cond' \in [Conditions -> BOOLEAN] /\ cond'["M_STOP"] = cond["M_STOP"]
      /\ cond'["M_CLEANUP"] = cond["M_CLEANUP"] /\ cond'["M_INIT"] = cond["M_INIT"]
      /\ cond'["M_THREAD_EXIT"] = cond["M_THREAD_EXIT"]
  BY <1>1, <1>2 DEF Types, Conditions
<1>7. At(todo, f, i, h, j)'
  BY <1>1, <1>2 DEF At
<1>8. Types'
  BY <1>1, <1>2, <1>6 DEF Types, FwUp, FwDown
<1>9. Life'
  BY <1>1, <1>2, <1>6 DEF Life, FwUp, FwDown, Types
<1>10. Quitting'
  BY <1>1, <1>2, <1>5 DEF Quitting, Quits
<1>11. EpoEnds'
  BY <1>1, <1>2, <1>6 DEF EpoEnds, Types, Life, FwUp, FwDown
<1>12. Session(f, h)'
  BY <1>1, <1>2, <1>3, <1>4 DEF Session, Starting
<1>13. Stopping(f, i, h, j)'
  BY <1>1, <1>2, <1>6 DEF Stopping, Types, Life, FwUp, FwDown, Session, Starting
<1>14. Wake(f, i, h, j)'
  BY <1>1, <1>2 DEF Wake
<1>15. Told(f, i, h, j)'
  BY <1>1, <1>2, <1>5 DEF Told
<1>16. Agreed'
  BY <1>1, <1>2, <1>5 DEF Agreed, Heading
<1>17. Stored(f, i, h, j)'
  BY <1>1, <1>2 DEF Stored
<1> QED BY <1>7, <1>8, <1>9, <1>10, <1>11, <1>12, <1>13, <1>14, <1>15, <1>16, <1>17 DEF Inv,
         Core

(* start sends MNLD its command: no session is up, or on its way.          *)
LEMMA StartSendInv ==
  ASSUME NEW f \in Fs, NEW i \in 1 .. 7, NEW h \in Hs, NEW j \in 1 .. 7,
         Inv(f, i, h, j), StartSend
  PROVE  Inv(f, i, h, j)'
<1>1. /\ At(todo, f, i, h, j) /\ Types /\ Life /\ Quitting /\ EpoEnds /\ Session(f, h)
      /\ Stopping(f, i, h, j) /\ Wake(f, i, h, j) /\ Told(f, i, h, j) /\ Agreed /\ Stored(f, i, h, j)
  BY DEF Inv, Core
<1>2. PICK ok \in BOOLEAN :
       /\ fw = "startSpin" /\ fw' = IF ok THEN "startWait" ELSE "idle"
       /\ start_flag = 0 /\ start_flag' = start_flag
       /\ navigating' = ok
       /\ toMnld' = IF ok THEN Append(toMnld, "start") ELSE toMnld
       /\ faulted' = (faulted \/ ~ok)
       /\ UNCHANGED <<hal, todo, init, started, cond, control, sta, epo,
                      set, open, fromMnld, mnld, seen, wakelocks, icon, mixed>>
  BY DEF StartSend, hvars, mvars, avars, evars, ivars, bvars, Send
<1>3. (DieSent' <=> DieSent) /\ (Once(fromMnld, "die")' <=> Once(fromMnld, "die"))
  BY <1>2 DEF DieSent, Once
<1>4. Commands' = Commands
  BY <1>1, <1>2 DEF Commands, Quits
<1>5. f = "none" /\ ~Sent /\ mnld = "off" /\ ~DieSent /\ h # "die" /\ ~navigating /\ init
  BY <1>1, <1>2 DEF Types, Session, Starting, Stopping, Quitting, Life, FwUp
<1>6. /\ toMnld' \in Seq({"start", "stop", "cleanup"})
      /\ Sent' <=> Sent \/ (ok /\ "start" = "start")
      /\ Once(toMnld, "start")'
      /\ ok => Last(toMnld') = "start"
  <2>1. CASE ok
    BY <1>1, <1>2, <1>5, <2>1, CommandSent DEF Types, Session
  <2>2. CASE ~ok
    BY <1>1, <1>2, <2>2 DEF Types, Session, Sent, Once
  <2> QED BY <2>1, <2>2
<1>7. ~faulted' => ok /\ ~faulted
  BY <1>1, <1>2 DEF Types
<1>8. faulted' \in BOOLEAN
  BY <1>2
<1>9. At(todo, f, i, h, j)'
  BY <1>1, <1>2 DEF At
<1>10. Types'
  BY <1>1, <1>2, <1>6, <1>8 DEF Types, FwUp, FwDown
<1>11. Life'
  BY <1>1, <1>2 DEF Life, FwUp, FwDown, Types
<1>12. Quitting'
  BY <1>1, <1>2, <1>4, <1>5 DEF Quitting, Quits
<1>13. EpoEnds'
  BY <1>1, <1>2 DEF EpoEnds, Types, Life, FwUp, FwDown
<1>14. Session(f, h)'
  BY <1>1, <1>2, <1>6, <1>3, <1>5 DEF Session, Starting
<1>15. Stopping(f, i, h, j)'
  BY <1>1, <1>2 DEF Stopping, Types, Life, FwUp, FwDown, Session, Starting
<1>16. Wake(f, i, h, j)'
  BY <1>1, <1>2 DEF Wake
<1>17. Told(f, i, h, j)'
  BY <1>1, <1>2, <1>4 DEF Told
<1>18. Agreed'
  BY <1>1, <1>2, <1>4, <1>5, <1>7 DEF Agreed, Heading
<1>19. Stored(f, i, h, j)'
  BY <1>1, <1>2 DEF Stored
<1> QED BY <1>9, <1>10, <1>11, <1>12, <1>13, <1>14, <1>15, <1>16, <1>17, <1>18, <1>19 DEF Inv,
         Core

(* stop sends MNLD its command: a session is up.                           *)
LEMMA StopSendInv ==
  ASSUME NEW f \in Fs, NEW i \in 1 .. 7, NEW h \in Hs, NEW j \in 1 .. 7,
         Inv(f, i, h, j), StopSend
  PROVE  Inv(f, i, h, j)'
<1>1. /\ At(todo, f, i, h, j) /\ Types /\ Life /\ Quitting /\ EpoEnds /\ Session(f, h)
      /\ Stopping(f, i, h, j) /\ Wake(f, i, h, j) /\ Told(f, i, h, j) /\ Agreed /\ Stored(f, i, h, j)
  BY DEF Inv, Core
<1>2. PICK ok \in BOOLEAN :
       /\ fw = "stopSpin" /\ fw' = IF ok THEN "stopCmd" ELSE "idle"
       /\ start_flag = 1 /\ start_flag' = start_flag
       /\ toMnld' = IF ok THEN Append(toMnld, "stop") ELSE toMnld
       /\ faulted' = (faulted \/ ~ok)
       /\ UNCHANGED <<hal, todo, init, started, cond, control, sta, epo,
                      set, open, fromMnld, mnld, seen, wakelocks, icon, mixed,
                      navigating>>
  BY DEF StopSend, hvars, mvars, avars, evars, ivars, bvars, Send
<1>3. (DieSent' <=> DieSent) /\ (Once(fromMnld, "die")' <=> Once(fromMnld, "die"))
  BY <1>2 DEF DieSent, Once
<1>4. Commands' = Commands
  BY <1>1, <1>2 DEF Commands, Quits
<1>5. f = "none" /\ ~navigating /\ init
  BY <1>1, <1>2 DEF Stopping, Quitting, Life, FwUp
<1>6. /\ toMnld' \in Seq({"start", "stop", "cleanup"})
      /\ Sent' <=> Sent \/ (ok /\ "stop" = "start")
      /\ Once(toMnld, "start")'
      /\ ok => Last(toMnld') = "stop"
  <2>1. CASE ok
    BY <1>1, <1>2, <2>1, CommandSent DEF Types, Session
  <2>2. CASE ~ok
    BY <1>1, <1>2, <2>2 DEF Types, Session, Sent, Once
  <2> QED BY <2>1, <2>2
<1>7. ~faulted' => ok /\ ~faulted
  BY <1>1, <1>2 DEF Types
<1>8. faulted' \in BOOLEAN
  BY <1>2
<1>9. At(todo, f, i, h, j)'
  BY <1>1, <1>2 DEF At
<1>10. Types'
  BY <1>1, <1>2, <1>6, <1>8 DEF Types, FwUp, FwDown
<1>11. Life'
  BY <1>1, <1>2 DEF Life, FwUp, FwDown, Types
<1>12. Quitting'
  BY <1>1, <1>2, <1>4, <1>5 DEF Quitting, Quits
<1>13. EpoEnds'
  BY <1>1, <1>2 DEF EpoEnds, Types, Life, FwUp, FwDown
<1>14. Session(f, h)'
  BY <1>1, <1>2, <1>6, <1>3, <1>5 DEF Session, Starting
<1>15. Stopping(f, i, h, j)'
  BY <1>1, <1>2 DEF Stopping, Types, Life, FwUp, FwDown, Session, Starting
<1>16. Wake(f, i, h, j)'
  BY <1>1, <1>2 DEF Wake
<1>17. Told(f, i, h, j)'
  BY <1>1, <1>2, <1>4 DEF Told
<1>18. Agreed'
  BY <1>1, <1>2, <1>4, <1>5, <1>7 DEF Agreed, Heading
<1>19. Stored(f, i, h, j)'
  BY <1>1, <1>2 DEF Stored
<1> QED BY <1>9, <1>10, <1>11, <1>12, <1>13, <1>14, <1>15, <1>16, <1>17, <1>18, <1>19 DEF Inv,
         Core

(* cleanup sends MNLD its command.                                         *)
LEMMA CleanupCallInv ==
  ASSUME NEW f \in Fs, NEW i \in 1 .. 7, NEW h \in Hs, NEW j \in 1 .. 7,
         Inv(f, i, h, j), CleanupCall
  PROVE  Inv(f, i, h, j)'
<1>1. /\ At(todo, f, i, h, j) /\ Types /\ Life /\ Quitting /\ EpoEnds /\ Session(f, h)
      /\ Stopping(f, i, h, j) /\ Wake(f, i, h, j) /\ Told(f, i, h, j) /\ Agreed /\ Stored(f, i, h, j)
  BY DEF Inv, Core
<1>2. PICK ok \in BOOLEAN :
       /\ fw = "idle" /\ init /\ ~navigating /\ fw' = "cleanTest"
       /\ toMnld' = IF ok THEN Append(toMnld, "cleanup") ELSE toMnld
       /\ faulted' = (faulted \/ ~ok)
       /\ UNCHANGED <<hal, todo, init, start_flag, started, cond, control, sta, epo, set, open, fromMnld, mnld, seen, wakelocks, icon,
                      mixed, navigating>>
  BY DEF CleanupCall, hvars, mvars, avars, evars, ivars, bvars, Send
<1>3. (DieSent' <=> DieSent) /\ (Once(fromMnld, "die")' <=> Once(fromMnld, "die"))
  BY <1>2 DEF DieSent, Once
<1>4. Commands' = Commands
  BY <1>1, <1>2 DEF Commands, Quits
<1>5. f = "none"
  BY <1>1, <1>2 DEF Stopping
<1>6. /\ toMnld' \in Seq({"start", "stop", "cleanup"})
      /\ Sent' <=> Sent \/ (ok /\ "cleanup" = "start")
      /\ Once(toMnld, "start")'
      /\ ok => Last(toMnld') = "cleanup"
  <2>1. CASE ok
    BY <1>1, <1>2, <2>1, CommandSent DEF Types, Session
  <2>2. CASE ~ok
    BY <1>1, <1>2, <2>2 DEF Types, Session, Sent, Once
  <2> QED BY <2>1, <2>2
<1>7. ~faulted' => ok /\ ~faulted
  BY <1>1, <1>2 DEF Types
<1>8. faulted' \in BOOLEAN
  BY <1>2
<1>9. At(todo, f, i, h, j)'
  BY <1>1, <1>2 DEF At
<1>10. Types'
  BY <1>1, <1>2, <1>6, <1>8 DEF Types, FwUp, FwDown
<1>11. Life'
  BY <1>1, <1>2 DEF Life, FwUp, FwDown, Types
<1>12. Quitting'
  BY <1>1, <1>2, <1>4, <1>5 DEF Quitting, Quits
<1>13. EpoEnds'
  BY <1>1, <1>2 DEF EpoEnds, Types, Life, FwUp, FwDown
<1>14. Session(f, h)'
  BY <1>1, <1>2, <1>6, <1>3, <1>5 DEF Session, Starting
<1>15. Stopping(f, i, h, j)'
  BY <1>1, <1>2 DEF Stopping, Types, Life, FwUp, FwDown, Session, Starting
<1>16. Wake(f, i, h, j)'
  BY <1>1, <1>2 DEF Wake
<1>17. Told(f, i, h, j)'
  BY <1>1, <1>2, <1>4 DEF Told
<1>18. Agreed'
  BY <1>1, <1>2, <1>4, <1>5, <1>7 DEF Agreed, Heading
<1>19. Stored(f, i, h, j)'
  BY <1>1, <1>2 DEF Stored
<1> QED BY <1>9, <1>10, <1>11, <1>12, <1>13, <1>14, <1>15, <1>16, <1>17, <1>18, <1>19 DEF Inv,
         Core

(* MNLD dies during a session: nobody else ends it, so there is one such   *)
(* message.                                                                *)
LEMMA MnldDiesInv ==
  ASSUME NEW f \in Fs, NEW i \in 1 .. 7, NEW h \in Hs, NEW j \in 1 .. 7,
         Inv(f, i, h, j), Orderly, MnldDies
  PROVE  Inv(f, i, h, j)'
<1>1. /\ At(todo, f, i, h, j) /\ Types /\ Life /\ Quitting /\ EpoEnds /\ Session(f, h)
      /\ Stopping(f, i, h, j) /\ Wake(f, i, h, j) /\ Told(f, i, h, j) /\ Agreed /\ Stored(f, i, h, j)
  BY DEF Inv, Core
<1>2. /\ mnld = "on" /\ mnld' = "off"
      /\ fromMnld' = Append(fromMnld, "die")
      /\ faulted' = TRUE
      /\ start_flag = 1 /\ start_flag' = start_flag
      /\ UNCHANGED <<fw, hal, todo, init, started, cond, control, sta,
                     epo, set, open, toMnld, seen, wakelocks, icon, mixed,
                     navigating>>
  <2>1. start_flag = 1
    BY DEF MnldDies, Orderly
  <2>2. hal # "none"
    BY <1>1, <2>1 DEF Stopping, Life
  <2> QED BY <2>1, <2>2 DEF MnldDies, Says, hvars, mvars, avars, evars, ivars, bvars
<1>3. (Sent' <=> Sent) /\ (Once(toMnld, "start")' <=> Once(toMnld, "start"))
  BY <1>2 DEF Sent, Once
<1>4. Commands' = Commands
  BY <1>1, <1>2 DEF Commands, Quits
<1>5. /\ fromMnld' \in Seq(Kinds \cup {"die"})
      /\ DieSent' <=> DieSent \/ "die" = "die"
      /\ \A k : Contains(fromMnld', k) <=> Contains(fromMnld, k) \/ "die" = k
      /\ Once(fromMnld, "die") /\ ("die" = "die" => ~DieSent) => Once(fromMnld, "die")'
  BY <1>1, <1>2, MessageSent DEF Types
<1>6. "die" \notin Ungated
  BY DEF Ungated
<1>7. At(todo, f, i, h, j)'
  BY <1>1, <1>2 DEF At
<1>8. Types'
  BY <1>1, <1>2, <1>5 DEF Types, FwUp, FwDown
<1>9. Life'
  BY <1>1, <1>2 DEF Life, FwUp, FwDown, Types
<1>10. Quitting'
  BY <1>1, <1>2, <1>4 DEF Quitting, Quits
<1>11. EpoEnds'
  BY <1>1, <1>2 DEF EpoEnds, Types, Life, FwUp, FwDown
<1>12. Session(f, h)'
  BY <1>1, <1>2, <1>3, <1>5 DEF Session, Starting
<1>13. Stopping(f, i, h, j)'
  BY <1>1, <1>2 DEF Stopping, Types, Life, FwUp, FwDown, Session, Starting
<1>14. Wake(f, i, h, j)'
  BY <1>1, <1>2 DEF Wake
<1>15. Told(f, i, h, j)'
  BY <1>1, <1>2, <1>4 DEF Told
<1>16. Agreed'
  BY <1>1, <1>2, <1>4 DEF Agreed, Heading
<1>17. Stored(f, i, h, j)'
  BY <1>1, <1>2, <1>5, <1>6 DEF Stored
<1> QED BY <1>7, <1>8, <1>9, <1>10, <1>11, <1>12, <1>13, <1>14, <1>15, <1>16, <1>17 DEF Inv,
         Core

(* MNLD asks for something else, for a callback only if it was stored.     *)
LEMMA MnldAsksInv ==
  ASSUME NEW f \in Fs, NEW i \in 1 .. 7, NEW h \in Hs, NEW j \in 1 .. 7,
         Inv(f, i, h, j), Orderly, MnldAsks
  PROVE  Inv(f, i, h, j)'
<1>1. /\ At(todo, f, i, h, j) /\ Types /\ Life /\ Quitting /\ EpoEnds /\ Session(f, h)
      /\ Stopping(f, i, h, j) /\ Wake(f, i, h, j) /\ Told(f, i, h, j) /\ Agreed /\ Stored(f, i, h, j)
  BY DEF Inv, Core
<1>2. PICK m \in Kinds :
       /\ fromMnld' = Append(fromMnld, m) /\ (m \in Ungated => m \in set)
       /\ UNCHANGED <<fw, hal, todo, init, start_flag, started, cond, control,
                      sta, epo, set, open, toMnld, mnld, seen, wakelocks,
                      icon, mixed, navigating, faulted>>
  BY DEF MnldAsks, Says, hvars, mvars, avars, evars, ivars, bvars, Orderly
<1>3. (Sent' <=> Sent) /\ (Once(toMnld, "start")' <=> Once(toMnld, "start"))
  BY <1>2 DEF Sent, Once
<1>4. Commands' = Commands
  BY <1>1, <1>2 DEF Commands, Quits
<1>5. /\ fromMnld' \in Seq(Kinds \cup {"die"})
      /\ DieSent' <=> DieSent \/ m = "die"
      /\ \A k : Contains(fromMnld', k) <=> Contains(fromMnld, k) \/ m = k
      /\ Once(fromMnld, "die") /\ (m = "die" => ~DieSent) => Once(fromMnld, "die")'
  BY <1>1, <1>2, MessageSent DEF Types
<1>6. m # "die"
  BY KindsAssumption DEF Gated, Ungated, Plain
<1>7. At(todo, f, i, h, j)'
  BY <1>1, <1>2 DEF At
<1>8. Types'
  BY <1>1, <1>2, <1>5 DEF Types, FwUp, FwDown
<1>9. Life'
  BY <1>1, <1>2 DEF Life, FwUp, FwDown, Types
<1>10. Quitting'
  BY <1>1, <1>2, <1>4 DEF Quitting, Quits
<1>11. EpoEnds'
  BY <1>1, <1>2 DEF EpoEnds, Types, Life, FwUp, FwDown
<1>12. Session(f, h)'
  BY <1>1, <1>2, <1>3, <1>5, <1>6 DEF Session, Starting
<1>13. Stopping(f, i, h, j)'
  BY <1>1, <1>2 DEF Stopping, Types, Life, FwUp, FwDown, Session, Starting
<1>14. Wake(f, i, h, j)'
  BY <1>1, <1>2 DEF Wake
<1>15. Told(f, i, h, j)'
  BY <1>1, <1>2, <1>4 DEF Told
<1>16. Agreed'
  BY <1>1, <1>2, <1>4 DEF Agreed, Heading
<1>17. Stored(f, i, h, j)'
  BY <1>1, <1>2, <1>5, <1>6 DEF Stored
<1> QED BY <1>7, <1>8, <1>9, <1>10, <1>11, <1>12, <1>13, <1>14, <1>15, <1>16, <1>17 DEF Inv,
         Core

(* MNLD obeys: it dies once, when it was on.                               *)
LEMMA MnldCommandInv ==
  ASSUME NEW f \in Fs, NEW i \in 1 .. 7, NEW h \in Hs, NEW j \in 1 .. 7,
         Inv(f, i, h, j), MnldCommand
  PROVE  Inv(f, i, h, j)'
<1>1. /\ At(todo, f, i, h, j) /\ Types /\ Life /\ Quitting /\ EpoEnds /\ Session(f, h)
      /\ Stopping(f, i, h, j) /\ Wake(f, i, h, j) /\ Told(f, i, h, j) /\ Agreed /\ Stored(f, i, h, j)
  BY DEF Inv, Core
<1>2. /\ toMnld # <<>> /\ toMnld' = Tail(toMnld)
      /\ mnld' = IF Head(toMnld) = "start" THEN "on" ELSE "off"
      /\ fromMnld' = IF mnld = "on" /\ Head(toMnld) # "start" THEN Append(fromMnld, "die") ELSE fromMnld
      /\ UNCHANGED <<fw, hal, todo, init, start_flag, started, cond, control,
                     sta, epo, set, open, seen, wakelocks, icon, mixed,
                     navigating, faulted>>
  <2>1. mnld = "on" => hal # "none"
    BY <1>1 DEF Session, Starting, Stopping, Life, FwUp
  <2> QED BY <2>1 DEF MnldCommand, Says, hvars, mvars, avars, evars, ivars, bvars
<1>3. Commands' = Commands
  BY <1>1, <1>2 DEF Commands, Quits
<1>4. /\ toMnld' \in Seq({"start", "stop", "cleanup"})
      /\ Head(toMnld) \in {"start", "stop", "cleanup"}
      /\ Sent <=> Head(toMnld) = "start" \/ Sent'
      /\ Once(toMnld, "start") =>
           Once(toMnld, "start")' /\ (Head(toMnld) = "start" => ~Sent')
      /\ toMnld' = <<>> => Last(toMnld) = Head(toMnld) /\ ~Sent'
      /\ toMnld' # <<>> => Last(toMnld) = Last(toMnld') /\ (Last(toMnld') = "start" => Sent')
  BY <1>1, <1>2, CommandRead DEF Types
<1>5. /\ Once(toMnld, "start")' /\ (Head(toMnld) = "start" => ~Sent')
      /\ Sent <=> Head(toMnld) = "start" \/ Sent'
      /\ toMnld' = <<>> => Last(toMnld) = Head(toMnld) /\ ~Sent'
      /\ toMnld' # <<>> => Last(toMnld) = Last(toMnld') /\ (Last(toMnld') = "start" => Sent')
  BY <1>1, <1>4 DEF Session
<1>6. /\ fromMnld' \in Seq(Kinds \cup {"die"}) /\ Once(fromMnld, "die")'
      /\ DieSent' <=> DieSent \/ (mnld = "on" /\ Head(toMnld) # "start")
      /\ \A k : Contains(fromMnld', k) => Contains(fromMnld, k) \/ "die" = k
  <2>1. CASE mnld = "on" /\ Head(toMnld) # "start"
    <3>1. ~DieSent /\ Once(fromMnld, "die")
      BY <1>1, <2>1 DEF Session
    <3>2. fromMnld' = Append(fromMnld, "die") /\ fromMnld \in Seq(Kinds \cup {"die"})
      BY <1>1, <1>2, <2>1 DEF Types
    <3> QED BY <2>1, <3>1, <3>2, MessageSent
  <2>2. CASE ~(mnld = "on" /\ Head(toMnld) # "start")
    BY <1>1, <1>2, <2>2 DEF Types, Session, DieSent, Once
  <2> QED BY <2>1, <2>2
<1>7. "die" \notin Ungated
  BY DEF Ungated
<1>8. At(todo, f, i, h, j)'
  BY <1>1, <1>2 DEF At
<1>9. Types'
  BY <1>1, <1>2, <1>4, <1>6 DEF Types, FwUp, FwDown
<1>10. Life'
  BY <1>1, <1>2 DEF Life, FwUp, FwDown, Types
<1>11. Quitting'
  BY <1>1, <1>2, <1>3 DEF Quitting, Quits
<1>12. EpoEnds'
  BY <1>1, <1>2 DEF EpoEnds, Types, Life, FwUp, FwDown
<1>13. Session(f, h)'
  BY <1>1, <1>2, <1>5, <1>6 DEF Session, Starting
<1>14. Stopping(f, i, h, j)'
  BY <1>1, <1>2 DEF Stopping, Types, Life, FwUp, FwDown, Session, Starting
<1>15. Wake(f, i, h, j)'
  BY <1>1, <1>2 DEF Wake
<1>16. Told(f, i, h, j)'
  BY <1>1, <1>2, <1>3 DEF Told
<1>17. Agreed'
  BY <1>1, <1>2, <1>3 DEF Agreed, Heading
<1>18. Stored(f, i, h, j)'
  BY <1>1, <1>2, <1>6, <1>7 DEF Stored
<1> QED BY <1>8, <1>9, <1>10, <1>11, <1>12, <1>13, <1>14, <1>15, <1>16, <1>17, <1>18 DEF Inv,
         Core

(* The measurement or navigation interface is opened ...                   *)
LEMMA OpenInterfaceInv ==
  ASSUME NEW f \in Fs, NEW i \in 1 .. 7, NEW h \in Hs, NEW j \in 1 .. 7,
         Inv(f, i, h, j), NEW k \in Gated, fw' = "script", OpenInterface(k)
  PROVE  Inv(k, 1, h, j)'
<1>1. /\ At(todo, f, i, h, j) /\ Types /\ Life /\ Quitting /\ EpoEnds /\ Session(f, h)
      /\ Stopping(f, i, h, j) /\ Wake(f, i, h, j) /\ Told(f, i, h, j) /\ Agreed /\ Stored(f, i, h, j)
  BY DEF Inv, Core
<1>2. faulted \in BOOLEAN
  BY <1>1 DEF Types
<1>3. /\ fw = "idle" /\ init /\ fw' = "script"
      /\ init' = init
      /\ todo' = [todo EXCEPT !["fw"] = OpenScript(k)]
      /\ faulted' \in BOOLEAN /\ (faulted => faulted')
      /\ UNCHANGED <<hal, start_flag, started, cond, control, sta, epo,
                     set, open, toMnld, fromMnld, mnld, seen, wakelocks, icon,
                     mixed, navigating>>
  BY <1>1, <1>2 DEF OpenInterface, hvars, mvars, avars, evars, ivars, bvars, Tell
<1>4. (Sent' <=> Sent) /\ (Once(toMnld, "start")' <=> Once(toMnld, "start"))
  BY <1>3 DEF Sent, Once
<1>5. (DieSent' <=> DieSent) /\ (Once(fromMnld, "die")' <=> Once(fromMnld, "die"))
  BY <1>3 DEF DieSent, Once
<1>6. Commands' = Commands
  BY <1>1, <1>3 DEF Commands, Quits
<1>7. f = "none" /\ "none" # k /\ k # "start" /\ k \in Fs /\ k \in FwScripts /\ FwScript(k) = OpenScript(k)
  BY <1>1, <1>3 DEF Stopping, Gated, Fs, FwScripts, FwScript
<1>8. At(todo, k, 1, h, j)'
  BY <1>1, <1>3, <1>7, FwBegins
<1>9. Types'
  BY <1>1, <1>3 DEF Types, FwUp, FwDown
<1>10. Life'
  BY <1>1, <1>3 DEF Life, FwUp, FwDown, Types
<1>11. Quitting'
  BY <1>1, <1>3, <1>6 DEF Quitting, Quits
<1>12. EpoEnds'
  BY <1>1, <1>3 DEF EpoEnds, Types, Life, FwUp, FwDown
<1>13. Session(k, h)'
  BY <1>1, <1>3, <1>4, <1>5, <1>7 DEF Session, Starting
<1>14. Stopping(k, 1, h, j)'
  BY <1>1, <1>3, <1>7 DEF Stopping, Types, Life, FwUp, FwDown, Session, Starting
<1>15. Wake(k, 1, h, j)'
  BY <1>1, <1>3, <1>7 DEF Wake
<1>16. Told(k, 1, h, j)'
  BY <1>1, <1>3, <1>6, <1>7 DEF Told
<1>17. Agreed'
  BY <1>1, <1>3, <1>6 DEF Agreed, Heading
<1>18. Stored(k, 1, h, j)'
  BY <1>1, <1>3, <1>7 DEF Stored
<1> QED BY <1>8, <1>9, <1>10, <1>11, <1>12, <1>13, <1>14, <1>15, <1>16, <1>17, <1>18 DEF Inv,
         Core

(* ... or cannot be, as MNLD is not reached                                *)
LEMMA OpenFailsInv ==
  ASSUME NEW f \in Fs, NEW i \in 1 .. 7, NEW h \in Hs, NEW j \in 1 .. 7,
         Inv(f, i, h, j), NEW k \in Gated, fw' # "script", OpenInterface(k)
  PROVE  Inv("none", i, h, j)'
<1>1. /\ At(todo, f, i, h, j) /\ Types /\ Life /\ Quitting /\ EpoEnds /\ Session(f, h)
      /\ Stopping(f, i, h, j) /\ Wake(f, i, h, j) /\ Told(f, i, h, j) /\ Agreed /\ Stored(f, i, h, j)
  BY DEF Inv, Core
<1>2. faulted \in BOOLEAN
  BY <1>1 DEF Types
<1>3. /\ fw = "idle" /\ init /\ fw' = "idle"
      /\ init' = init
      /\ todo' = [todo EXCEPT !["fw"] = <<>>]
      /\ faulted' \in BOOLEAN /\ (faulted => faulted')
      /\ UNCHANGED <<hal, start_flag, started, cond, control, sta, epo,
                     set, open, toMnld, fromMnld, mnld, seen, wakelocks, icon,
                     mixed, navigating>>
  BY <1>1, <1>2 DEF OpenInterface, hvars, mvars, avars, evars, ivars, bvars, Tell
<1>4. (Sent' <=> Sent) /\ (Once(toMnld, "start")' <=> Once(toMnld, "start"))
  BY <1>3 DEF Sent, Once
<1>5. (DieSent' <=> DieSent) /\ (Once(fromMnld, "die")' <=> Once(fromMnld, "die"))
  BY <1>3 DEF DieSent, Once
<1>6. Commands' = Commands
  BY <1>1, <1>3 DEF Commands, Quits
<1>7. f = "none" /\ "none" \in Fs /\ "none" # "start" /\ "none" \notin Gated
  BY <1>1, <1>3 DEF Stopping, Gated, Fs
<1>8. /\ todo' \in [Threads -> Seq(Steps)] /\ todo'["fw"] = <<>> /\ todo'["hal"] = todo["hal"]
  BY <1>1, <1>3 DEF At, Threads
<1>9. At(todo, "none", i, h, j)'
  BY <1>1, <1>7, <1>8 DEF At, FwRest
<1>10. Types'
  BY <1>1, <1>3 DEF Types, FwUp, FwDown
<1>11. Life'
  BY <1>1, <1>3 DEF Life, FwUp, FwDown, Types
<1>12. Quitting'
  BY <1>1, <1>3, <1>6 DEF Quitting, Quits
<1>13. EpoEnds'
  BY <1>1, <1>3 DEF EpoEnds, Types, Life, FwUp, FwDown
<1>14. Session("none", h)'
  BY <1>1, <1>3, <1>4, <1>5, <1>7 DEF Session, Starting
<1>15. Stopping("none", i, h, j)'
  BY <1>1, <1>3, <1>7 DEF Stopping, Types, Life, FwUp, FwDown, Session, Starting
<1>16. Wake("none", i, h, j)'
  BY <1>1, <1>3, <1>7 DEF Wake
<1>17. Told("none", i, h, j)'
  BY <1>1, <1>3, <1>6, <1>7 DEF Told
<1>18. Agreed'
  BY <1>1, <1>3, <1>6 DEF Agreed, Heading
<1>19. Stored("none", i, h, j)'
  BY <1>1, <1>3, <1>7 DEF Stored
<1> QED BY <1>9, <1>10, <1>11, <1>12, <1>13, <1>14, <1>15, <1>16, <1>17, <1>18, <1>19 DEF Inv,
         Core

(* ... and is closed.                                                      *)
LEMMA CloseInterfaceInv ==
  ASSUME NEW f \in Fs, NEW i \in 1 .. 7, NEW h \in Hs, NEW j \in 1 .. 7,
         Inv(f, i, h, j), NEW k \in Gated, CloseInterface(k)
  PROVE  Inv(f, i, h, j)'
<1>1. /\ At(todo, f, i, h, j) /\ Types /\ Life /\ Quitting /\ EpoEnds /\ Session(f, h)
      /\ Stopping(f, i, h, j) /\ Wake(f, i, h, j) /\ Told(f, i, h, j) /\ Agreed /\ Stored(f, i, h, j)
  BY DEF Inv, Core
<1>2. faulted \in BOOLEAN
  BY <1>1 DEF Types
<1>3. /\ open' = open \ {k}
      /\ faulted' \in BOOLEAN /\ (faulted => faulted')
      /\ UNCHANGED <<fw, hal, todo, init, start_flag, started, cond, control,
                     sta, epo, set, toMnld, fromMnld, mnld, seen,
                     wakelocks, icon, mixed, navigating>>
  BY <1>1, <1>2 DEF CloseInterface, hvars, mvars, avars, evars, ivars, bvars, Tell
<1>4. (Sent' <=> Sent) /\ (Once(toMnld, "start")' <=> Once(toMnld, "start"))
  BY <1>3 DEF Sent, Once
<1>5. (DieSent' <=> DieSent) /\ (Once(fromMnld, "die")' <=> Once(fromMnld, "die"))
  BY <1>3 DEF DieSent, Once
<1>6. Commands' = Commands
  BY <1>1, <1>3 DEF Commands, Quits
<1>7. At(todo, f, i, h, j)'
  BY <1>1, <1>3 DEF At
<1>8. Types'
  BY <1>1, <1>3 DEF Types, FwUp, FwDown
<1>9. Life'
  BY <1>1, <1>3 DEF Life, FwUp, FwDown, Types
<1>10. Quitting'
  BY <1>1, <1>3, <1>6 DEF Quitting, Quits
<1>11. EpoEnds'
  BY <1>1, <1>3 DEF EpoEnds, Types, Life, FwUp, FwDown
<1>12. Session(f, h)'
  BY <1>1, <1>3, <1>4, <1>5 DEF Session, Starting
<1>13. Stopping(f, i, h, j)'
  BY <1>1, <1>3 DEF Stopping, Types, Life, FwUp, FwDown, Session, Starting
<1>14. Wake(f, i, h, j)'
  BY <1>1, <1>3 DEF Wake
<1>15. Told(f, i, h, j)'
  BY <1>1, <1>3, <1>6 DEF Told
<1>16. Agreed'
  BY <1>1, <1>3, <1>6 DEF Agreed, Heading
<1>17. Stored(f, i, h, j)'
  BY <1>1, <1>3 DEF Stored
<1> QED BY <1>7, <1>8, <1>9, <1>10, <1>11, <1>12, <1>13, <1>14, <1>15, <1>16, <1>17 DEF Inv,
         Core

(* Whose script a message starts: "none" when nothing is to be done.       *)
Who(m) == IF m \in {"location", "time"} THEN "base"
          ELSE IF \/ m \in Gated /\ m \notin open
                  \/ m \in Icons /\ started
                  \/ m \in {"inject", "epo"} THEN "none"
          ELSE m

(* The script of a message.                                                *)
LEMMA ScriptOf ==
  ASSUME NEW m \in Kinds \cup {"die"}
  PROVE  /\ Who(m) \in Hs
         /\ Script(m) = IF Who(m) = "none" THEN <<>> ELSE HalScript(Who(m))
<1>1. m \in Gated \cup Ungated \cup Plain \cup {"iconOn", "iconOff", "die"}
  BY KindsAssumption
<1>2. CASE m = "die"
  BY <1>2 DEF Who, Script, HalScript, Icons, Gated, Hs, HalScripts
<1>3. CASE m \in Ungated
  BY <1>3 DEF Who, Script, HalScript, Icons, Gated, Hs, HalScripts, Calls, Ungated,
              NiScript, AgpsScript, RilScript
<1>4. CASE m \in Gated
  BY <1>4 DEF Who, Script, HalScript, Icons, Gated, Hs, HalScripts, Calls,
              MeasurementScript, NavigationScript
<1>5. CASE m \in Icons
  BY <1>5 DEF Who, Script, HalScript, Icons, Gated, Hs, HalScripts, IconScript, IconOn, IconOff
<1>6. CASE m \in Plain
  BY <1>6 DEF Who, Script, HalScript, Icons, Gated, Hs, HalScripts, Calls, Plain,
              LocationScript, TimeScript
<1> QED BY <1>1, <1>2, <1>3, <1>4, <1>5, <1>6 DEF Icons

(* The icon is shown or taken away with reports.                           *)
LEMMA IconHasSteps ==
  ASSUME NEW m \in Icons, ~started PROVE IconScript(m) # <<>>
<1>1. m \in HalScripts /\ m # "die" /\ IconScript(m) = HalScript(m)
  BY DEF Icons, HalScripts, IconScript, HalScript, IconOn, IconOff
<1>2. HalScript(m) \in Seq(Steps) /\ Len(HalScript(m)) = 4
  BY <1>1, HalSteps
<1> QED BY <1>1, <1>2

(* A message of MNLD is read and its script begins.                        *)
LEMMA OnMessageInv ==
  ASSUME NEW f \in Fs, NEW i \in 1 .. 7, NEW h \in Hs, NEW j \in 1 .. 7,
         Inv(f, i, h, j), NEW m \in Kinds \cup {"die"}, m = Head(fromMnld), NEW q \in Hs, q = Who(m),
         OnMessage
  PROVE  Inv(f, i, q, 1)'
<1>1. /\ At(todo, f, i, h, j) /\ Types /\ Life /\ Quitting /\ EpoEnds /\ Session(f, h)
      /\ Stopping(f, i, h, j) /\ Wake(f, i, h, j) /\ Told(f, i, h, j) /\ Agreed /\ Stored(f, i, h, j)
  BY DEF Inv, Core
<1>2. /\ hal = "loop" /\ hal' = "script"
      /\ todo' = [todo EXCEPT !["hal"] = Script(m)]
      /\ fromMnld # <<>> /\ fromMnld' = Tail(fromMnld)
      /\ icon' = IF m \in Icons /\ ~started THEN m = "iconOn" ELSE icon
      /\ mixed' = (mixed \/ Mixes(m))
      /\ UNCHANGED <<fw, init, start_flag, started, cond, control, sta,
                     epo, set, open, toMnld, mnld, seen, wakelocks, navigating,
                     faulted>>
  BY DEF OnMessage, hvars, mvars, avars, evars, ivars, bvars, Icons
<1>3. (Sent' <=> Sent) /\ (Once(toMnld, "start")' <=> Once(toMnld, "start"))
  BY <1>2 DEF Sent, Once
<1>4. Commands' = Commands
  BY <1>1, <1>2 DEF Commands, Quits
<1>5. /\ fromMnld' \in Seq(Kinds \cup {"die"})
      /\ DieSent <=> m = "die" \/ DieSent'
      /\ \A k : Contains(fromMnld, k) <=> m = k \/ Contains(fromMnld', k)
      /\ Once(fromMnld, "die") =>
           Once(fromMnld, "die")' /\ (m = "die" => ~DieSent')
  BY <1>1, <1>2, MessageRead DEF Types
<1>6. h = "none" /\ (q = "die" <=> m = "die")
  BY <1>1, <1>2 DEF Stopping, Who, Icons, Gated
<1>7. /\ icon' \in BOOLEAN /\ mixed' \in BOOLEAN
      /\ q \in Icons => q = m /\ ~started /\ (icon' <=> q = "iconOn")
      /\ q \notin Icons => icon' = icon
      /\ mixed => mixed'
  <2>1. /\ q \in Icons => q = m /\ ~started
        /\ q \notin Icons => ~(m \in Icons /\ ~started)
    BY DEF Who, Icons, Gated
  <2>2. mixed' \in BOOLEAN /\ (mixed => mixed')
    BY <1>1, <1>2 DEF Types
  <2>3. CASE q \in Icons
    <3>1. icon' = (m = "iconOn")
      BY <1>2, <2>1, <2>3
    <3> QED BY <2>1, <2>2, <2>3, <3>1
  <2>4. CASE q \notin Icons
    <3>1. icon' = icon /\ icon \in BOOLEAN
      BY <1>1, <1>2, <2>1, <2>4 DEF Types
    <3> QED BY <2>1, <2>2, <2>4, <3>1
  <2> QED BY <2>3, <2>4
<1>8. q \in Icons /\ (f = "start" \/ Contains(Commands, "START")) => mixed'
  <2> SUFFICES ASSUME q \in Icons, f = "start" \/ Contains(Commands, "START")
               PROVE  Mixes(m)
    BY <1>2
  <2>1. m \in {"iconOn", "iconOff"} /\ IconScript(m) # <<>>
    BY <1>7, IconHasSteps DEF Icons
  <2>2. ASSUME Contains(Commands, "START") PROVE Contains(control, "START")
    <3>1. Commands \in Seq({"START", "STOP", "QUIT"}) /\ "QUIT" \in {"START", "STOP", "QUIT"}
      BY <1>1 DEF Quitting
    <3>2. Contains(Append(Commands, "QUIT"), "START")
      BY <2>2, <3>1, ContainsAppend
    <3> QED BY <1>1, <2>2, <3>2 DEF Quitting
  <2>3. f = "start" => todo["fw"] # <<>>
    BY <1>1, AtWork
  <2> QED BY <2>1, <2>2, <2>3 DEF Mixes
<1>9. q \in Gated \cup Ungated => q \in open \/ q = m
  BY DEF Who, Gated, Ungated
<1>10. q \in Gated \cup Ungated => q \in set
  <2>1. CASE q \in Gated
    BY <1>1, <2>1 DEF Who, Stored, Gated
  <2>2. CASE q \in Ungated
    BY <1>1, <1>5, <2>2 DEF Who, Stored, Gated, Ungated, Icons
  <2> QED BY <2>1, <2>2
<1>11. At(todo, f, i, q, 1)'
  <2>1. CASE q = "none"
    <3>1. todo' \in [Threads -> Seq(Steps)] /\ todo'["hal"] = <<>> /\ todo'["fw"] = todo["fw"]
      <4>1. Script(m) = <<>>
        BY <2>1, ScriptOf
      <4>2. todo' = [todo EXCEPT !["hal"] = <<>>] 
        BY <1>2, <4>1
      <4>3. <<>> \in Seq(Steps)
        OBVIOUS
      <4> QED BY <1>1, <4>2, <4>3 DEF At, Threads
    <3> QED BY <1>1, <2>1, <3>1 DEF At, HalRest
  <2>2. CASE q # "none"
    <3>1. q \in HalScripts /\ todo' = [todo EXCEPT !["hal"] = HalScript(q)]
      BY <1>2, <2>2, ScriptOf DEF Hs
    <3> QED BY <1>1, <1>6, <3>1, HalBegins
  <2> QED BY <2>1, <2>2
<1>12. Types'
  BY <1>1, <1>2, <1>5, <1>7 DEF Types
<1>13. Life'
  BY <1>1, <1>2 DEF Life, FwUp, FwDown, Types
<1>14. Quitting'
  BY <1>1, <1>2, <1>4 DEF Quitting, Quits
<1>15. EpoEnds'
  BY <1>1, <1>2 DEF EpoEnds, Types, Life, FwUp, FwDown
<1>16. Session(f, q)'
  BY <1>1, <1>2, <1>3, <1>5, <1>6 DEF Session, Starting
<1>17. Stopping(f, i, q, 1)'
  BY <1>1, <1>2, <1>6 DEF Stopping, Types, Life, FwUp, FwDown, Session, Starting
<1>18. Wake(f, i, q, 1)'
  BY <1>1, <1>2, <1>6 DEF Wake
<1>19. Told(f, i, q, 1)'
  BY <1>1, <1>2, <1>4, <1>6, <1>7, <1>8 DEF Told, Icons
<1>20. Agreed'
  BY <1>1, <1>2, <1>4 DEF Agreed, Heading
<1>21. Stored(f, i, q, 1)'
  BY <1>1, <1>2, <1>5, <1>10 DEF Stored
<1> QED BY <1>11, <1>12, <1>13, <1>14, <1>15, <1>16, <1>17, <1>18, <1>19, <1>20, <1>21 DEF
         Inv, Core

(* start stores a status ...                                               *)
LEMMA FwSetsStatus ==
  ASSUME NEW f \in Fs, NEW i \in 1 .. 7, NEW h \in Hs, NEW j \in 1 .. 7,
         Inv(f, i, h, j), NEW n \in 1 .. 7, n = i + 1,
         SetStatus("fw")
  PROVE  Inv(f, n, h, j)'
<1>1. /\ At(todo, f, i, h, j) /\ Types /\ Life /\ Quitting /\ EpoEnds /\ Session(f, h)
      /\ Stopping(f, i, h, j) /\ Wake(f, i, h, j) /\ Told(f, i, h, j) /\ Agreed /\ Stored(f, i, h, j)
  BY DEF Inv, Core
<1>2. PICK s \in Statuses :
       /\ Step("fw", "status", s)
       /\ sta' = s
       /\ UNCHANGED <<fw, hal, init, start_flag, started, cond, control, epo, set, open, toMnld, fromMnld, mnld, seen, wakelocks,
                      icon, mixed, navigating, faulted>>
  BY DEF SetStatus, hvars, mvars, avars, evars, ivars, bvars
<1>3. (Sent' <=> Sent) /\ (Once(toMnld, "start")' <=> Once(toMnld, "start"))
  BY <1>2 DEF Sent, Once
<1>4. (DieSent' <=> DieSent) /\ (Once(fromMnld, "die")' <=> Once(fromMnld, "die"))
  BY <1>2 DEF DieSent, Once
<1>5. Commands' = Commands
  BY <1>1, <1>2 DEF Commands, Quits
<1>6. /\ f = "start" /\ ((i = 1 /\ s = "on") \/ (i = 3 /\ s = "begin"))
      /\ At(todo, f, n, h, j)'
  BY <1>1, <1>2, FwAt
<1>7. (n = 2 /\ sta' = "on") \/ (n = 4 /\ sta' = "begin")
  BY <1>2, <1>6
<1>8. start_flag = 0 /\ h # "die" /\ f \notin Gated /\ (i = 7 <=> n = 7)
  BY <1>1, <1>6, <1>7 DEF Session, Starting, Gated
<1>9. At(todo, f, n, h, j)'
  BY <1>6
<1>10. Types'
  BY <1>1, <1>2 DEF Types, FwUp, FwDown
<1>11. Life'
  BY <1>1, <1>2 DEF Life, FwUp, FwDown, Types
<1>12. Quitting'
  BY <1>1, <1>2, <1>5 DEF Quitting, Quits
<1>13. EpoEnds'
  BY <1>1, <1>2 DEF EpoEnds, Types, Life, FwUp, FwDown
<1>14. Session(f, h)'
  BY <1>1, <1>2, <1>3, <1>4, <1>6 DEF Session, Starting
<1>15. Stopping(f, n, h, j)'
  BY <1>1, <1>2, <1>6, <1>7 DEF Stopping, Types, Life, FwUp, FwDown, Session, Starting
<1>16. Wake(f, n, h, j)'
  BY <1>1, <1>2, <1>6, <1>8, <1>7 DEF Wake
<1>17. Told(f, n, h, j)'
  BY <1>1, <1>2, <1>5, <1>6, <1>6, <1>7, <1>8 DEF Told
<1>18. Agreed'
  BY <1>1, <1>2, <1>5 DEF Agreed, Heading
<1>19. Stored(f, n, h, j)'
  BY <1>1, <1>2, <1>6, <1>8 DEF Stored
<1> QED BY <1>9, <1>10, <1>11, <1>12, <1>13, <1>14, <1>15, <1>16, <1>17, <1>18, <1>19 DEF Inv,
         Core

(* ... and reports it. Nobody else stores one, but for the icon (mixed).   *)
LEMMA FwReports ==
  ASSUME NEW f \in Fs, NEW i \in 1 .. 7, NEW h \in Hs, NEW j \in 1 .. 7,
         Inv(f, i, h, j), NEW n \in 1 .. 7, n = i + 1,
         Report("fw")
  PROVE  Inv(f, n, h, j)'
<1>1. /\ At(todo, f, i, h, j) /\ Types /\ Life /\ Quitting /\ EpoEnds /\ Session(f, h)
      /\ Stopping(f, i, h, j) /\ Wake(f, i, h, j) /\ Told(f, i, h, j) /\ Agreed /\ Stored(f, i, h, j)
  BY DEF Inv, Core
<1>2. /\ Step("fw", "report", "sta")
      /\ seen' = sta
      /\ UNCHANGED <<fw, hal, init, start_flag, started, cond, control, sta, epo, set, open, toMnld, fromMnld, mnld, wakelocks, icon,
                     mixed, navigating, faulted>>
  BY DEF Report, hvars, mvars, avars, evars, ivars, bvars
<1>3. (Sent' <=> Sent) /\ (Once(toMnld, "start")' <=> Once(toMnld, "start"))
  BY <1>2 DEF Sent, Once
<1>4. (DieSent' <=> DieSent) /\ (Once(fromMnld, "die")' <=> Once(fromMnld, "die"))
  BY <1>2 DEF DieSent, Once
<1>5. Commands' = Commands
  BY <1>1, <1>2 DEF Commands, Quits
<1>6. /\ f = "start" /\ i \in {2, 4}
      /\ At(todo, f, n, h, j)'
  BY <1>1, <1>2, FwAt
<1>7. (i = 2 /\ n = 3) \/ (i = 4 /\ n = 5)
  BY <1>6
<1>8. start_flag = 0 /\ h # "die" /\ f \notin Gated
  BY <1>1, <1>6 DEF Session, Starting, Gated
<1>9. At(todo, f, n, h, j)'
  BY <1>6
<1>10. Types'
  BY <1>1, <1>2 DEF Types, FwUp, FwDown
<1>11. Life'
  BY <1>1, <1>2 DEF Life, FwUp, FwDown, Types
<1>12. Quitting'
  BY <1>1, <1>2, <1>5 DEF Quitting, Quits
<1>13. EpoEnds'
  BY <1>1, <1>2 DEF EpoEnds, Types, Life, FwUp, FwDown
<1>14. Session(f, h)'
  BY <1>1, <1>2, <1>3, <1>4, <1>6 DEF Session, Starting
<1>15. Stopping(f, n, h, j)'
  BY <1>1, <1>2, <1>6, <1>7 DEF Stopping, Types, Life, FwUp, FwDown, Session, Starting
<1>16. Wake(f, n, h, j)'
  BY <1>1, <1>2, <1>6, <1>7 DEF Wake
<1>17. Told(f, n, h, j)'
  BY <1>1, <1>2, <1>5, <1>6, <1>6, <1>7, <1>8 DEF Told
<1>18. Agreed'
  BY <1>1, <1>2, <1>5 DEF Agreed, Heading
<1>19. Stored(f, n, h, j)'
  BY <1>1, <1>2, <1>6, <1>8 DEF Stored
<1> QED BY <1>9, <1>10, <1>11, <1>12, <1>13, <1>14, <1>15, <1>16, <1>17, <1>18, <1>19 DEF Inv,
         Core

(* start takes the wake lock,                                              *)
LEMMA FwTakesLock ==
  ASSUME NEW f \in Fs, NEW i \in 1 .. 7, NEW h \in Hs, NEW j \in 1 .. 7,
         Inv(f, i, h, j), WakeLock("fw")
  PROVE  Inv(f, 6, h, j)'
<1>1. /\ At(todo, f, i, h, j) /\ Types /\ Life /\ Quitting /\ EpoEnds /\ Session(f, h)
      /\ Stopping(f, i, h, j) /\ Wake(f, i, h, j) /\ Told(f, i, h, j) /\ Agreed /\ Stored(f, i, h, j)
  BY DEF Inv, Core
<1>2. /\ (Step("fw", "wake", "acquire") /\ wakelocks' = wakelocks + 1) \/ Step("fw", "wake", "release")
      /\ UNCHANGED <<fw, hal, init, start_flag, started, cond, control, sta, epo, set, open, toMnld, fromMnld, mnld, seen, icon,
                     mixed, navigating, faulted>>
  BY DEF WakeLock, hvars, mvars, avars, evars, ivars, bvars
<1>3. (Sent' <=> Sent) /\ (Once(toMnld, "start")' <=> Once(toMnld, "start"))
  BY <1>2 DEF Sent, Once
<1>4. (DieSent' <=> DieSent) /\ (Once(fromMnld, "die")' <=> Once(fromMnld, "die"))
  BY <1>2 DEF DieSent, Once
<1>5. Commands' = Commands
  BY <1>1, <1>2 DEF Commands, Quits
<1>6. /\ f = "start" /\ i = 5 /\ wakelocks' = wakelocks + 1
      /\ At(todo, f, 6, h, j)'
  BY <1>1, <1>2, FwAt
<1>7. start_flag = 0
  BY <1>1, <1>6 DEF Session, Starting
<1>8. At(todo, f, 6, h, j)'
  BY <1>6
<1>9. Types'
  BY <1>1, <1>2 DEF Types, FwUp, FwDown
<1>10. Life'
  BY <1>1, <1>2 DEF Life, FwUp, FwDown, Types
<1>11. Quitting'
  BY <1>1, <1>2, <1>5 DEF Quitting, Quits
<1>12. EpoEnds'
  BY <1>1, <1>2 DEF EpoEnds, Types, Life, FwUp, FwDown
<1>13. Session(f, h)'
  BY <1>1, <1>2, <1>3, <1>4, <1>6 DEF Session, Starting
<1>14. Stopping(f, 6, h, j)'
  BY <1>1, <1>2, <1>6 DEF Stopping, Types, Life, FwUp, FwDown, Session, Starting
<1>15. Wake(f, 6, h, j)'
  BY <1>1, <1>2, <1>6, <1>7 DEF Wake
<1>16. Told(f, 6, h, j)'
  BY <1>1, <1>2, <1>5, <1>6 DEF Told
<1>17. Agreed'
  BY <1>1, <1>2, <1>5 DEF Agreed, Heading
<1>18. Stored(f, 6, h, j)'
  BY <1>1, <1>2, <1>6 DEF Stored
<1> QED BY <1>8, <1>9, <1>10, <1>11, <1>12, <1>13, <1>14, <1>15, <1>16, <1>17, <1>18 DEF Inv,
         Core

(* ... forgets a late M_STOP                                               *)
LEMMA FwClears ==
  ASSUME NEW f \in Fs, NEW i \in 1 .. 7, NEW h \in Hs, NEW j \in 1 .. 7,
         Inv(f, i, h, j), Latch("fw")
  PROVE  Inv(f, 7, h, j)'
<1>1. /\ At(todo, f, i, h, j) /\ Types /\ Life /\ Quitting /\ EpoEnds /\ Session(f, h)
      /\ Stopping(f, i, h, j) /\ Wake(f, i, h, j) /\ Told(f, i, h, j) /\ Agreed /\ Stored(f, i, h, j)
  BY DEF Inv, Core
<1>2. /\ (Step("fw", "stop", "clear") /\ cond' = [cond EXCEPT !["M_STOP"] = FALSE]) \/ Step("fw", "stop", "signal")
      /\ UNCHANGED <<fw, hal, init, start_flag, started, control, sta,
                     epo, set, open, toMnld, fromMnld, mnld, seen, wakelocks,
                     icon, mixed, navigating, faulted>>
  BY DEF Latch, hvars, mvars, avars, evars, ivars, bvars
<1>3. (Sent' <=> Sent) /\ (Once(toMnld, "start")' <=> Once(toMnld, "start"))
  BY <1>2 DEF Sent, Once
<1>4. (DieSent' <=> DieSent) /\ (Once(fromMnld, "die")' <=> Once(fromMnld, "die"))
  BY <1>2 DEF DieSent, Once
<1>5. Commands' = Commands
  BY <1>1, <1>2 DEF Commands, Quits
<1>6. /\ f = "start" /\ i = 6 /\ cond' = [cond EXCEPT !["M_STOP"] = FALSE]
      /\ At(todo, f, 7, h, j)'
  BY <1>1, <1>2, FwAt
<1>7. /\ cond' \in [Conditions -> BOOLEAN] /\ ~cond'["M_STOP"] /\ cond'["M_INIT"] = cond["M_INIT"]
      /\ cond'["M_CLEANUP"] = cond["M_CLEANUP"] /\ cond'["M_THREAD_EXIT"] = cond["M_THREAD_EXIT"]
  BY <1>1, <1>6 DEF Types, Conditions
<1>8. At(todo, f, 7, h, j)'
  BY <1>6
<1>9. Types'
  BY <1>1, <1>2, <1>7 DEF Types
<1>10. Life'
  BY <1>1, <1>2, <1>7 DEF Life
<1>11. Quitting'
  BY <1>1, <1>2, <1>5 DEF Quitting, Quits
<1>12. EpoEnds'
  BY <1>1, <1>2, <1>7 DEF EpoEnds
<1>13. Session(f, h)'
  BY <1>1, <1>2, <1>3, <1>4, <1>6 DEF Session, Starting
<1>14. Stopping(f, 7, h, j)'
  BY <1>1, <1>2, <1>6, <1>7 DEF Stopping, Types, Life, FwUp, FwDown, Session, Starting
<1>15. Wake(f, 7, h, j)'
  BY <1>1, <1>2, <1>6 DEF Wake
<1>16. Told(f, 7, h, j)'
  BY <1>1, <1>2, <1>5, <1>6 DEF Told
<1>17. Agreed'
  BY <1>1, <1>2, <1>5 DEF Agreed, Heading
<1>18. Stored(f, 7, h, j)'
  BY <1>1, <1>2, <1>6 DEF Stored
<1> QED BY <1>8, <1>9, <1>10, <1>11, <1>12, <1>13, <1>14, <1>15, <1>16, <1>17, <1>18 DEF Inv,
         Core

(* ... and raises start_flag: the session is up.                           *)
LEMMA FwRaisesFlag ==
  ASSUME NEW f \in Fs, NEW i \in 1 .. 7, NEW h \in Hs, NEW j \in 1 .. 7,
         Inv(f, i, h, j), SetFlag("fw")
  PROVE  Inv("none", i, h, j)'
<1>1. /\ At(todo, f, i, h, j) /\ Types /\ Life /\ Quitting /\ EpoEnds /\ Session(f, h)
      /\ Stopping(f, i, h, j) /\ Wake(f, i, h, j) /\ Told(f, i, h, j) /\ Agreed /\ Stored(f, i, h, j)
  BY DEF Inv, Core
<1>2. /\ (Step("fw", "flag", "up") /\ start_flag' = 1) \/ Step("fw", "flag", "down")
      /\ UNCHANGED <<fw, hal, init, started, cond, control, sta, epo,
                     set, open, toMnld, fromMnld, mnld, seen, wakelocks, icon,
                     mixed, navigating, faulted>>
  BY DEF SetFlag, hvars, mvars, avars, evars, ivars, bvars
<1>3. (Sent' <=> Sent) /\ (Once(toMnld, "start")' <=> Once(toMnld, "start"))
  BY <1>2 DEF Sent, Once
<1>4. (DieSent' <=> DieSent) /\ (Once(fromMnld, "die")' <=> Once(fromMnld, "die"))
  BY <1>2 DEF DieSent, Once
<1>5. Commands' = Commands
  BY <1>1, <1>2 DEF Commands, Quits
<1>6. /\ f = "start" /\ i = 7 /\ start_flag' = 1
      /\ At(todo, "none", i, h, j)'
  BY <1>1, <1>2, FwAt
<1>7. fw = "script" /\ init /\ start_flag = 0 /\ h # "die" /\ "none" \notin Gated
  BY <1>1, <1>6 DEF Session, Starting, Stopping, Life, FwUp, Gated
<1>8. ~cond["M_STOP"]
  BY <1>1, <1>6 DEF Stopping
<1>9. At(todo, "none", i, h, j)'
  BY <1>6
<1>10. Types'
  BY <1>1, <1>2, <1>6 DEF Types
<1>11. Life'
  BY <1>1, <1>2 DEF Life, FwUp, FwDown, Types
<1>12. Quitting'
  BY <1>1, <1>2, <1>5 DEF Quitting, Quits
<1>13. EpoEnds'
  BY <1>1, <1>2 DEF EpoEnds, Types, Life, FwUp, FwDown
<1>14. Session("none", h)'
  BY <1>1, <1>2, <1>3, <1>4, <1>6, <1>7 DEF Session, Starting
<1>15. Stopping("none", i, h, j)'
  BY <1>1, <1>2, <1>6, <1>7, <1>8 DEF Stopping, Types, Life, FwUp, FwDown, Session, Starting
<1>16. Wake("none", i, h, j)'
  BY <1>1, <1>2, <1>6, <1>7 DEF Wake
<1>17. Told("none", i, h, j)'
  BY <1>1, <1>2, <1>5, <1>6, <1>7 DEF Told
<1>18. Agreed'
  BY <1>1, <1>2, <1>5 DEF Agreed, Heading
<1>19. Stored("none", i, h, j)'
  BY <1>1, <1>2, <1>6, <1>7 DEF Stored
<1> QED BY <1>9, <1>10, <1>11, <1>12, <1>13, <1>14, <1>15, <1>16, <1>17, <1>18, <1>19 DEF Inv,
         Core

(* The callbacks of an interface are stored ...                            *)
LEMMA FwStores ==
  ASSUME NEW f \in Fs, NEW i \in 1 .. 7, NEW h \in Hs, NEW j \in 1 .. 7,
         Inv(f, i, h, j), i = 1, Interface("fw")
  PROVE  Inv(f, 2, h, j)'
<1>1. /\ At(todo, f, i, h, j) /\ Types /\ Life /\ Quitting /\ EpoEnds /\ Session(f, h)
      /\ Stopping(f, i, h, j) /\ Wake(f, i, h, j) /\ Told(f, i, h, j) /\ Agreed /\ Stored(f, i, h, j)
  BY DEF Inv, Core
<1>2. PICK k \in Gated \cup Ungated \cup {"base"} :
       /\ \/ Step("fw", "set", k) /\ set' = set \cup {k} /\ open' = open
          \/ Step("fw", "open", k) /\ open' = open \cup {k} /\ set' = set
          \/ Step("fw", "call", k)
       /\ UNCHANGED <<fw, hal, init, start_flag, started, cond, control, sta, epo, toMnld, fromMnld, mnld, seen, wakelocks, icon,
                      mixed, navigating, faulted>>
  BY DEF Interface, hvars, mvars, avars, evars, ivars, bvars
<1>3. (Sent' <=> Sent) /\ (Once(toMnld, "start")' <=> Once(toMnld, "start"))
  BY <1>2 DEF Sent, Once
<1>4. (DieSent' <=> DieSent) /\ (Once(fromMnld, "die")' <=> Once(fromMnld, "die"))
  BY <1>2 DEF DieSent, Once
<1>5. Commands' = Commands
  BY <1>1, <1>2 DEF Commands, Quits
<1>6. /\ f = k /\ f \in Gated /\ f # "start" /\ set' = set \cup {k} /\ open' = open
      /\ At(todo, f, 2, h, j)'
  BY <1>1, <1>2, FwAt DEF Gated
<1>7. At(todo, f, 2, h, j)'
  BY <1>6
<1>8. Types'
  BY <1>1, <1>2 DEF Types, FwUp, FwDown
<1>9. Life'
  BY <1>1, <1>2 DEF Life, FwUp, FwDown, Types
<1>10. Quitting'
  BY <1>1, <1>2, <1>5 DEF Quitting, Quits
<1>11. EpoEnds'
  BY <1>1, <1>2 DEF EpoEnds, Types, Life, FwUp, FwDown
<1>12. Session(f, h)'
  BY <1>1, <1>2, <1>3, <1>4, <1>6 DEF Session, Starting
<1>13. Stopping(f, 2, h, j)'
  BY <1>1, <1>2, <1>6 DEF Stopping, Types, Life, FwUp, FwDown, Session, Starting
<1>14. Wake(f, 2, h, j)'
  BY <1>1, <1>2, <1>6 DEF Wake
<1>15. Told(f, 2, h, j)'
  BY <1>1, <1>2, <1>5, <1>6 DEF Told
<1>16. Agreed'
  BY <1>1, <1>2, <1>5 DEF Agreed, Heading
<1>17. Stored(f, 2, h, j)'
  BY <1>1, <1>2, <1>6 DEF Stored
<1> QED BY <1>7, <1>8, <1>9, <1>10, <1>11, <1>12, <1>13, <1>14, <1>15, <1>16, <1>17 DEF Inv,
         Core

(* ... before its flag is 1.                                               *)
LEMMA FwOpens ==
  ASSUME NEW f \in Fs, NEW i \in 1 .. 7, NEW h \in Hs, NEW j \in 1 .. 7,
         Inv(f, i, h, j), i # 1, Interface("fw")
  PROVE  Inv("none", i, h, j)'
<1>1. /\ At(todo, f, i, h, j) /\ Types /\ Life /\ Quitting /\ EpoEnds /\ Session(f, h)
      /\ Stopping(f, i, h, j) /\ Wake(f, i, h, j) /\ Told(f, i, h, j) /\ Agreed /\ Stored(f, i, h, j)
  BY DEF Inv, Core
<1>2. PICK k \in Gated \cup Ungated \cup {"base"} :
       /\ \/ Step("fw", "set", k) /\ set' = set \cup {k} /\ open' = open
          \/ Step("fw", "open", k) /\ open' = open \cup {k} /\ set' = set
          \/ Step("fw", "call", k)
       /\ UNCHANGED <<fw, hal, init, start_flag, started, cond, control, sta, epo, toMnld, fromMnld, mnld, seen, wakelocks, icon,
                      mixed, navigating, faulted>>
  BY DEF Interface, hvars, mvars, avars, evars, ivars, bvars
<1>3. (Sent' <=> Sent) /\ (Once(toMnld, "start")' <=> Once(toMnld, "start"))
  BY <1>2 DEF Sent, Once
<1>4. (DieSent' <=> DieSent) /\ (Once(fromMnld, "die")' <=> Once(fromMnld, "die"))
  BY <1>2 DEF DieSent, Once
<1>5. Commands' = Commands
  BY <1>1, <1>2 DEF Commands, Quits
<1>6. /\ f = k /\ f \in Gated /\ f # "start" /\ i = 2 /\ set' = set /\ open' = open \cup {k}
      /\ At(todo, "none", i, h, j)'
  BY <1>1, <1>2, FwAt DEF Gated
<1>7. "none" \notin Gated /\ k \in set
  BY <1>1, <1>6 DEF Gated, Stored
<1>8. At(todo, "none", i, h, j)'
  BY <1>6
<1>9. Types'
  BY <1>1, <1>2 DEF Types, FwUp, FwDown
<1>10. Life'
  BY <1>1, <1>2 DEF Life, FwUp, FwDown, Types
<1>11. Quitting'
  BY <1>1, <1>2, <1>5 DEF Quitting, Quits
<1>12. EpoEnds'
  BY <1>1, <1>2 DEF EpoEnds, Types, Life, FwUp, FwDown
<1>13. Session("none", h)'
  BY <1>1, <1>2, <1>3, <1>4, <1>6 DEF Session, Starting
<1>14. Stopping("none", i, h, j)'
  BY <1>1, <1>2, <1>6 DEF Stopping, Types, Life, FwUp, FwDown, Session, Starting
<1>15. Wake("none", i, h, j)'
  BY <1>1, <1>2, <1>6 DEF Wake
<1>16. Told("none", i, h, j)'
  BY <1>1, <1>2, <1>5, <1>6 DEF Told
<1>17. Agreed'
  BY <1>1, <1>2, <1>5 DEF Agreed, Heading
<1>18. Stored("none", i, h, j)'
  BY <1>1, <1>2, <1>6, <1>7 DEF Stored
<1> QED BY <1>8, <1>9, <1>10, <1>11, <1>12, <1>13, <1>14, <1>15, <1>16, <1>17, <1>18 DEF Inv,
         Core

(* gps_state_thread stores a status ...                                    *)
LEMMA HalSetsStatus ==
  ASSUME NEW f \in Fs, NEW i \in 1 .. 7, NEW h \in Hs, NEW j \in 1 .. 7,
         Inv(f, i, h, j), NEW n \in 1 .. 7, n = j + 1,
         SetStatus("hal")
  PROVE  Inv(f, i, h, n)'
<1>1. /\ At(todo, f, i, h, j) /\ Types /\ Life /\ Quitting /\ EpoEnds /\ Session(f, h)
      /\ Stopping(f, i, h, j) /\ Wake(f, i, h, j) /\ Told(f, i, h, j) /\ Agreed /\ Stored(f, i, h, j)
  BY DEF Inv, Core
<1>2. PICK s \in Statuses :
       /\ Step("hal", "status", s)
       /\ sta' = s
       /\ UNCHANGED <<fw, hal, init, start_flag, started, cond, control, epo, set, open, toMnld, fromMnld, mnld, seen, wakelocks,
                      icon, mixed, navigating, faulted>>
  BY DEF SetStatus, hvars, mvars, avars, evars, ivars, bvars
<1>3. (Sent' <=> Sent) /\ (Once(toMnld, "start")' <=> Once(toMnld, "start"))
  BY <1>2 DEF Sent, Once
<1>4. (DieSent' <=> DieSent) /\ (Once(fromMnld, "die")' <=> Once(fromMnld, "die"))
  BY <1>2 DEF DieSent, Once
<1>5. Commands' = Commands
  BY <1>1, <1>2 DEF Commands, Quits
<1>6. /\ \/ h = "die" /\ ((j = 1 /\ s = "end") \/ (j = 3 /\ s = "off"))
         \/ h = "iconOn" /\ j \in {1, 3}
         \/ h = "iconOff" /\ ((j = 1 /\ s = "off") \/ (j = 3 /\ s = "end"))
      /\ At(todo, f, i, h, n)'
  BY <1>1, <1>2, HalAt
<1>7. (j = 1 /\ n = 2) \/ (j = 3 /\ n = 4)
  BY <1>6
<1>8. h = "die" => start_flag = 1 /\ f # "start"
  BY <1>1 DEF Session, Starting, Types
<1>9. /\ h = "die" => (n = 2 /\ sta' = "end") \/ (n = 4 /\ sta' = "off")
      /\ h \in Icons /\ h # "iconOn" => h = "iconOff" /\ sta' \in {"off", "end"}
      /\ h = "die" \/ h \in Icons
  BY <1>2, <1>6, <1>7 DEF Icons
<1>10. h \notin Gated \cup Ungated
  BY <1>6 DEF Gated, Ungated
<1>11. At(todo, f, i, h, n)'
  BY <1>6
<1>12. Types'
  BY <1>1, <1>2 DEF Types, FwUp, FwDown
<1>13. Life'
  BY <1>1, <1>2 DEF Life, FwUp, FwDown, Types
<1>14. Quitting'
  BY <1>1, <1>2, <1>5 DEF Quitting, Quits
<1>15. EpoEnds'
  BY <1>1, <1>2 DEF EpoEnds, Types, Life, FwUp, FwDown
<1>16. Session(f, h)'
  BY <1>1, <1>2, <1>3, <1>4, <1>6 DEF Session, Starting
<1>17. Stopping(f, i, h, n)'
  BY <1>1, <1>2, <1>6, <1>7 DEF Stopping, Types, Life, FwUp, FwDown, Session, Starting
<1>18. Wake(f, i, h, n)'
  BY <1>1, <1>2, <1>6, <1>7 DEF Wake
<1>19. Told(f, i, h, n)'
  BY <1>1, <1>2, <1>5, <1>6, <1>7, <1>8, <1>9 DEF Told, Icons, Good
<1>20. Agreed'
  BY <1>1, <1>2, <1>5 DEF Agreed, Heading
<1>21. Stored(f, i, h, n)'
  BY <1>1, <1>2, <1>6, <1>10 DEF Stored
<1> QED BY <1>11, <1>12, <1>13, <1>14, <1>15, <1>16, <1>17, <1>18, <1>19, <1>20, <1>21 DEF
         Inv, Core

(* ... and reports it, at the end of a session or for the icon             *)
LEMMA HalReports ==
  ASSUME NEW f \in Fs, NEW i \in 1 .. 7, NEW h \in Hs, NEW j \in 1 .. 7,
         Inv(f, i, h, j), NEW n \in 1 .. 7, n = j + 1, ~(h \in Icons /\ j = 4),
         Report("hal")
  PROVE  Inv(f, i, h, n)'
<1>1. /\ At(todo, f, i, h, j) /\ Types /\ Life /\ Quitting /\ EpoEnds /\ Session(f, h)
      /\ Stopping(f, i, h, j) /\ Wake(f, i, h, j) /\ Told(f, i, h, j) /\ Agreed /\ Stored(f, i, h, j)
  BY DEF Inv, Core
<1>2. /\ Step("hal", "report", "sta")
      /\ seen' = sta
      /\ UNCHANGED <<fw, hal, init, start_flag, started, cond, control, sta, epo, set, open, toMnld, fromMnld, mnld, wakelocks, icon,
                     mixed, navigating, faulted>>
  BY DEF Report, hvars, mvars, avars, evars, ivars, bvars
<1>3. (Sent' <=> Sent) /\ (Once(toMnld, "start")' <=> Once(toMnld, "start"))
  BY <1>2 DEF Sent, Once
<1>4. (DieSent' <=> DieSent) /\ (Once(fromMnld, "die")' <=> Once(fromMnld, "die"))
  BY <1>2 DEF DieSent, Once
<1>5. Commands' = Commands
  BY <1>1, <1>2 DEF Commands, Quits
<1>6. /\ \/ h = "die" /\ j \in {2, 4} /\ At(todo, f, i, h, j + 1)'
         \/ h \in Icons /\ j = 2 /\ At(todo, f, i, h, 3)'
         \/ h \in Icons /\ j = 4 /\ At(todo, f, i, "none", j)'
  BY <1>1, <1>2, HalAt
<1>7. (j = 2 /\ n = 3) \/ (j = 4 /\ n = 5)
  BY <1>6
<1>8. h = "die" => start_flag = 1 /\ f # "start"
  BY <1>1 DEF Session, Starting, Types
<1>9. h \notin Gated \cup Ungated /\ (h = "die" \/ h \in Icons) /\ (h \in Icons => n = 3)
  BY <1>6, <1>7 DEF Gated, Ungated, Icons
<1>10. h \in Icons => h = "iconOn" \/ h = "iconOff"
  BY DEF Icons
<1>11. At(todo, f, i, h, n)'
  BY <1>6, <1>7
<1>12. Types'
  BY <1>1, <1>2 DEF Types, FwUp, FwDown
<1>13. Life'
  BY <1>1, <1>2 DEF Life, FwUp, FwDown, Types
<1>14. Quitting'
  BY <1>1, <1>2, <1>5 DEF Quitting, Quits
<1>15. EpoEnds'
  BY <1>1, <1>2 DEF EpoEnds, Types, Life, FwUp, FwDown
<1>16. Session(f, h)'
  BY <1>1, <1>2, <1>3, <1>4, <1>6 DEF Session, Starting
<1>17. Stopping(f, i, h, n)'
  BY <1>1, <1>2, <1>6, <1>7 DEF Stopping, Types, Life, FwUp, FwDown, Session, Starting
<1>18. Wake(f, i, h, n)'
  BY <1>1, <1>2, <1>6, <1>7 DEF Wake
<1>19. Told(f, i, h, n)'
  BY <1>1, <1>2, <1>5, <1>6, <1>7, <1>8, <1>9, <1>10 DEF Told, Good
<1>20. Agreed'
  BY <1>1, <1>2, <1>5 DEF Agreed, Heading
<1>21. Stored(f, i, h, n)'
  BY <1>1, <1>2, <1>6, <1>9 DEF Stored
<1> QED BY <1>11, <1>12, <1>13, <1>14, <1>15, <1>16, <1>17, <1>18, <1>19, <1>20, <1>21 DEF
         Inv, Core

(* ... whose second report is its last step.                               *)
LEMMA HalIconDone ==
  ASSUME NEW f \in Fs, NEW i \in 1 .. 7, NEW h \in Hs, NEW j \in 1 .. 7,
         Inv(f, i, h, j), h \in Icons, j = 4,
         Report("hal")
  PROVE  Inv(f, i, "none", j)'
<1>1. /\ At(todo, f, i, h, j) /\ Types /\ Life /\ Quitting /\ EpoEnds /\ Session(f, h)
      /\ Stopping(f, i, h, j) /\ Wake(f, i, h, j) /\ Told(f, i, h, j) /\ Agreed /\ Stored(f, i, h, j)
  BY DEF Inv, Core
<1>2. /\ Step("hal", "report", "sta")
      /\ seen' = sta
      /\ UNCHANGED <<fw, hal, init, start_flag, started, cond, control, sta, epo, set, open, toMnld, fromMnld, mnld, wakelocks, icon,
                     mixed, navigating, faulted>>
  BY DEF Report, hvars, mvars, avars, evars, ivars, bvars
<1>3. (Sent' <=> Sent) /\ (Once(toMnld, "start")' <=> Once(toMnld, "start"))
  BY <1>2 DEF Sent, Once
<1>4. (DieSent' <=> DieSent) /\ (Once(fromMnld, "die")' <=> Once(fromMnld, "die"))
  BY <1>2 DEF DieSent, Once
<1>5. Commands' = Commands
  BY <1>1, <1>2 DEF Commands, Quits
<1>6. /\ \/ h = "die" /\ j \in {2, 4} /\ At(todo, f, i, h, j + 1)'
         \/ h \in Icons /\ j = 2 /\ At(todo, f, i, h, 3)'
         \/ h \in Icons /\ j = 4 /\ At(todo, f, i, "none", j)'
  BY <1>1, <1>2, HalAt
<1>7. h # "die" /\ (h = "iconOn" \/ h = "iconOff")
  BY DEF Icons
<1>8. "none" \notin Gated \cup Ungated \cup Icons
  BY DEF Gated, Ungated, Icons
<1>9. At(todo, f, i, "none", j)'
  BY <1>6, <1>7
<1>10. Types'
  BY <1>1, <1>2 DEF Types, FwUp, FwDown
<1>11. Life'
  BY <1>1, <1>2 DEF Life, FwUp, FwDown, Types
<1>12. Quitting'
  BY <1>1, <1>2, <1>5 DEF Quitting, Quits
<1>13. EpoEnds'
  BY <1>1, <1>2 DEF EpoEnds, Types, Life, FwUp, FwDown
<1>14. Session(f, "none")'
  BY <1>1, <1>2, <1>3, <1>4, <1>6, <1>7 DEF Session, Starting
<1>15. Stopping(f, i, "none", j)'
  BY <1>1, <1>2, <1>6, <1>7 DEF Stopping, Types, Life, FwUp, FwDown, Session, Starting
<1>16. Wake(f, i, "none", j)'
  BY <1>1, <1>2, <1>6, <1>7 DEF Wake
<1>17. Told(f, i, "none", j)'
  BY <1>1, <1>2, <1>5, <1>7, <1>8 DEF Told, Good
<1>18. Agreed'
  BY <1>1, <1>2, <1>5 DEF Agreed, Heading
<1>19. Stored(f, i, "none", j)'
  BY <1>1, <1>2, <1>6, <1>8 DEF Stored
<1> QED BY <1>9, <1>10, <1>11, <1>12, <1>13, <1>14, <1>15, <1>16, <1>17, <1>18, <1>19 DEF Inv,
         Core

(* The end of a session gives the wake lock back,                          *)
LEMMA HalReleasesLock ==
  ASSUME NEW f \in Fs, NEW i \in 1 .. 7, NEW h \in Hs, NEW j \in 1 .. 7,
         Inv(f, i, h, j), WakeLock("hal")
  PROVE  Inv(f, i, h, 7)'
<1>1. /\ At(todo, f, i, h, j) /\ Types /\ Life /\ Quitting /\ EpoEnds /\ Session(f, h)
      /\ Stopping(f, i, h, j) /\ Wake(f, i, h, j) /\ Told(f, i, h, j) /\ Agreed /\ Stored(f, i, h, j)
  BY DEF Inv, Core
<1>2. /\ Step("hal", "wake", "acquire") \/ (Step("hal", "wake", "release") /\ wakelocks' = wakelocks - 1)
      /\ UNCHANGED <<fw, hal, init, start_flag, started, cond, control, sta, epo, set, open, toMnld, fromMnld, mnld, seen, icon,
                     mixed, navigating, faulted>>
  BY DEF WakeLock, hvars, mvars, avars, evars, ivars, bvars
<1>3. (Sent' <=> Sent) /\ (Once(toMnld, "start")' <=> Once(toMnld, "start"))
  BY <1>2 DEF Sent, Once
<1>4. (DieSent' <=> DieSent) /\ (Once(fromMnld, "die")' <=> Once(fromMnld, "die"))
  BY <1>2 DEF DieSent, Once
<1>5. Commands' = Commands
  BY <1>1, <1>2 DEF Commands, Quits
<1>6. /\ h = "die" /\ j = 6 /\ wakelocks' = wakelocks - 1
      /\ At(todo, f, i, h, 7)'
  BY <1>1, <1>2, HalAt
<1>7. start_flag = 1 /\ f # "start"
  BY <1>1, <1>6 DEF Session, Starting, Types
<1>8. At(todo, f, i, h, 7)'
  BY <1>6
<1>9. Types'
  BY <1>1, <1>2 DEF Types, FwUp, FwDown
<1>10. Life'
  BY <1>1, <1>2 DEF Life, FwUp, FwDown, Types
<1>11. Quitting'
  BY <1>1, <1>2, <1>5 DEF Quitting, Quits
<1>12. EpoEnds'
  BY <1>1, <1>2 DEF EpoEnds, Types, Life, FwUp, FwDown
<1>13. Session(f, h)'
  BY <1>1, <1>2, <1>3, <1>4, <1>6 DEF Session, Starting
<1>14. Stopping(f, i, h, 7)'
  BY <1>1, <1>2, <1>6 DEF Stopping, Types, Life, FwUp, FwDown, Session, Starting
<1>15. Wake(f, i, h, 7)'
  BY <1>1, <1>2, <1>6, <1>7 DEF Wake
<1>16. Told(f, i, h, 7)'
  BY <1>1, <1>2, <1>5, <1>6 DEF Told
<1>17. Agreed'
  BY <1>1, <1>2, <1>5 DEF Agreed, Heading
<1>18. Stored(f, i, h, 7)'
  BY <1>1, <1>2, <1>6 DEF Stored
<1> QED BY <1>8, <1>9, <1>10, <1>11, <1>12, <1>13, <1>14, <1>15, <1>16, <1>17, <1>18 DEF Inv,
         Core

(* ... latches M_STOP                                                      *)
LEMMA HalSignals ==
  ASSUME NEW f \in Fs, NEW i \in 1 .. 7, NEW h \in Hs, NEW j \in 1 .. 7,
         Inv(f, i, h, j), Latch("hal")
  PROVE  Inv(f, i, h, 6)'
<1>1. /\ At(todo, f, i, h, j) /\ Types /\ Life /\ Quitting /\ EpoEnds /\ Session(f, h)
      /\ Stopping(f, i, h, j) /\ Wake(f, i, h, j) /\ Told(f, i, h, j) /\ Agreed /\ Stored(f, i, h, j)
  BY DEF Inv, Core
<1>2. /\ Step("hal", "stop", "clear") \/ (Step("hal", "stop", "signal") /\ cond' = [cond EXCEPT !["M_STOP"] = TRUE])
      /\ UNCHANGED <<fw, hal, init, start_flag, started, control, sta,
                     epo, set, open, toMnld, fromMnld, mnld, seen, wakelocks,
                     icon, mixed, navigating, faulted>>
  BY DEF Latch, hvars, mvars, avars, evars, ivars, bvars, ReleaseCondition
<1>3. (Sent' <=> Sent) /\ (Once(toMnld, "start")' <=> Once(toMnld, "start"))
  BY <1>2 DEF Sent, Once
<1>4. (DieSent' <=> DieSent) /\ (Once(fromMnld, "die")' <=> Once(fromMnld, "die"))
  BY <1>2 DEF DieSent, Once
<1>5. Commands' = Commands
  BY <1>1, <1>2 DEF Commands, Quits
<1>6. /\ h = "die" /\ j = 5 /\ cond' = [cond EXCEPT !["M_STOP"] = TRUE]
      /\ At(todo, f, i, h, 6)'
  BY <1>1, <1>2, HalAt
<1>7. /\ cond' \in [Conditions -> BOOLEAN] /\ cond'["M_STOP"] /\ cond'["M_INIT"] = cond["M_INIT"]
      /\ cond'["M_CLEANUP"] = cond["M_CLEANUP"] /\ cond'["M_THREAD_EXIT"] = cond["M_THREAD_EXIT"]
  BY <1>1, <1>6 DEF Types, Conditions
<1>8. start_flag = 1 /\ f # "start"
  BY <1>1, <1>6 DEF Session, Starting, Types
<1>9. fw \notin {"cleanClear", "cleanQuit", "cleanDone"} /\ init
  BY <1>1, <1>6, <1>8 DEF Stopping, Types
<1>10. At(todo, f, i, h, 6)'
  BY <1>6
<1>11. Types'
  BY <1>1, <1>2, <1>7 DEF Types
<1>12. Life'
  BY <1>1, <1>2, <1>7 DEF Life
<1>13. Quitting'
  BY <1>1, <1>2, <1>5 DEF Quitting, Quits
<1>14. EpoEnds'
  BY <1>1, <1>2, <1>7 DEF EpoEnds
<1>15. Session(f, h)'
  BY <1>1, <1>2, <1>3, <1>4, <1>6 DEF Session, Starting
<1>16. Stopping(f, i, h, 6)'
  BY <1>1, <1>2, <1>6, <1>7, <1>8, <1>9 DEF Stopping, Types, Life, FwUp, FwDown, Session,
     Starting
<1>17. Wake(f, i, h, 6)'
  BY <1>1, <1>2, <1>6 DEF Wake
<1>18. Told(f, i, h, 6)'
  BY <1>1, <1>2, <1>5, <1>6 DEF Told
<1>19. Agreed'
  BY <1>1, <1>2, <1>5 DEF Agreed, Heading
<1>20. Stored(f, i, h, 6)'
  BY <1>1, <1>2, <1>6 DEF Stored
<1> QED BY <1>10, <1>11, <1>12, <1>13, <1>14, <1>15, <1>16, <1>17, <1>18, <1>19, <1>20 DEF
         Inv, Core

(* ... and lowers start_flag: the session is over.                         *)
LEMMA HalLowersFlag ==
  ASSUME NEW f \in Fs, NEW i \in 1 .. 7, NEW h \in Hs, NEW j \in 1 .. 7,
         Inv(f, i, h, j), SetFlag("hal")
  PROVE  Inv(f, i, "none", j)'
<1>1. /\ At(todo, f, i, h, j) /\ Types /\ Life /\ Quitting /\ EpoEnds /\ Session(f, h)
      /\ Stopping(f, i, h, j) /\ Wake(f, i, h, j) /\ Told(f, i, h, j) /\ Agreed /\ Stored(f, i, h, j)
  BY DEF Inv, Core
<1>2. /\ Step("hal", "flag", "up") \/ (Step("hal", "flag", "down") /\ start_flag' = 0)
      /\ UNCHANGED <<fw, hal, init, started, cond, control, sta, epo,
                     set, open, toMnld, fromMnld, mnld, seen, wakelocks, icon,
                     mixed, navigating, faulted>>
  BY DEF SetFlag, hvars, mvars, avars, evars, ivars, bvars
<1>3. (Sent' <=> Sent) /\ (Once(toMnld, "start")' <=> Once(toMnld, "start"))
  BY <1>2 DEF Sent, Once
<1>4. (DieSent' <=> DieSent) /\ (Once(fromMnld, "die")' <=> Once(fromMnld, "die"))
  BY <1>2 DEF DieSent, Once
<1>5. Commands' = Commands
  BY <1>1, <1>2 DEF Commands, Quits
<1>6. /\ h = "die" /\ j = 7 /\ start_flag' = 0
      /\ At(todo, f, i, "none", j)'
  BY <1>1, <1>2, HalAt
<1>7. /\ start_flag = 1 /\ f # "start" /\ ~Starting(f)
      /\ ~Sent /\ mnld # "on" /\ ~DieSent
  BY <1>1, <1>6 DEF Session, Starting, Types
<1>8. "none" \notin Gated \cup Ungated \cup Icons
  BY DEF Gated, Ungated, Icons
<1>9. seen \in Good
  BY <1>1, <1>6 DEF Told, Good
<1>10. At(todo, f, i, "none", j)'
  BY <1>6
<1>11. Types'
  BY <1>1, <1>2, <1>6 DEF Types
<1>12. Life'
  BY <1>1, <1>2 DEF Life, FwUp, FwDown, Types
<1>13. Quitting'
  BY <1>1, <1>2, <1>5 DEF Quitting, Quits
<1>14. EpoEnds'
  BY <1>1, <1>2 DEF EpoEnds, Types, Life, FwUp, FwDown
<1>15. Session(f, "none")'
  BY <1>1, <1>2, <1>3, <1>4, <1>6, <1>7 DEF Session, Starting
<1>16. Stopping(f, i, "none", j)'
  BY <1>1, <1>2, <1>6, <1>7 DEF Stopping, Types, Life, FwUp, FwDown, Session, Starting
<1>17. Wake(f, i, "none", j)'
  BY <1>1, <1>2, <1>6, <1>7 DEF Wake
<1>18. Told(f, i, "none", j)'
<2>1. start_flag' = 0 /\ seen' \in Good
  BY <1>2, <1>6, <1>9
<2>2. f # "start" /\ "none" # "die" /\ "none" # "iconOn" /\ "none" # "iconOff"
  BY <1>7
<2> QED BY <2>1, <2>2 DEF Told
<1>19. Agreed'
  BY <1>1, <1>2, <1>5 DEF Agreed, Heading
<1>20. Stored(f, i, "none", j)'
  BY <1>1, <1>2, <1>6, <1>8 DEF Stored
<1> QED BY <1>10, <1>11, <1>12, <1>13, <1>14, <1>15, <1>16, <1>17, <1>18, <1>19, <1>20 DEF
         Inv, Core

(* A callback is made: no status, no lock and no latch is touched.         *)
LEMMA HalCalls ==
  ASSUME NEW f \in Fs, NEW i \in 1 .. 7, NEW h \in Hs, NEW j \in 1 .. 7,
         Inv(f, i, h, j), Interface("hal")
  PROVE  Inv(f, i, "none", j)'
<1>1. /\ At(todo, f, i, h, j) /\ Types /\ Life /\ Quitting /\ EpoEnds /\ Session(f, h)
      /\ Stopping(f, i, h, j) /\ Wake(f, i, h, j) /\ Told(f, i, h, j) /\ Agreed /\ Stored(f, i, h, j)
  BY DEF Inv, Core
<1>2. PICK k \in Gated \cup Ungated \cup {"base"} :
       /\ \/ Step("hal", "set", k) /\ set' = set \cup {k} /\ open' = open
          \/ Step("hal", "open", k) /\ open' = open \cup {k} /\ set' = set
          \/ Step("hal", "call", k) /\ set' = set /\ open' = open
       /\ UNCHANGED <<fw, hal, init, start_flag, started, cond, control, sta, epo, toMnld, fromMnld, mnld, seen, wakelocks, icon,
                      mixed, navigating, faulted>>
  BY DEF Interface, hvars, mvars, avars, evars, ivars, bvars
<1>3. (Sent' <=> Sent) /\ (Once(toMnld, "start")' <=> Once(toMnld, "start"))
  BY <1>2 DEF Sent, Once
<1>4. (DieSent' <=> DieSent) /\ (Once(fromMnld, "die")' <=> Once(fromMnld, "die"))
  BY <1>2 DEF DieSent, Once
<1>5. Commands' = Commands
  BY <1>1, <1>2 DEF Commands, Quits
<1>6. /\ h \in Calls /\ h # "die" /\ At(todo, f, i, "none", j)'
  BY <1>1, <1>2, HalAt DEF Calls, Gated, Ungated
<1>7. "none" \notin Gated \cup Ungated \cup Icons
  BY DEF Gated, Ungated, Icons
<1>8. set' = set /\ open' = open
<2>1. ASSUME Step("hal", "set", k) PROVE FALSE
  <3>1. "set" \notin {"set", "open"}
    BY <1>1, <2>1, HalAt
  <3> QED BY <3>1
<2>2. ASSUME Step("hal", "open", k) PROVE FALSE
  <3>1. "open" \notin {"set", "open"}
    BY <1>1, <2>2, HalAt
  <3> QED BY <3>1
<2> QED BY <1>2, <2>1, <2>2
<1>9. h \notin Icons
  BY <1>6 DEF Calls, Icons, Gated, Ungated
<1>10. At(todo, f, i, "none", j)'
  BY <1>6
<1>11. Types'
  BY <1>1, <1>2 DEF Types, FwUp, FwDown
<1>12. Life'
  BY <1>1, <1>2 DEF Life, FwUp, FwDown, Types
<1>13. Quitting'
  BY <1>1, <1>2, <1>5 DEF Quitting, Quits
<1>14. EpoEnds'
  BY <1>1, <1>2 DEF EpoEnds, Types, Life, FwUp, FwDown
<1>15. Session(f, "none")'
  BY <1>1, <1>2, <1>3, <1>4, <1>6 DEF Session, Starting
<1>16. Stopping(f, i, "none", j)'
  BY <1>1, <1>2, <1>6 DEF Stopping, Types, Life, FwUp, FwDown, Session, Starting
<1>17. Wake(f, i, "none", j)'
  BY <1>1, <1>2, <1>6 DEF Wake
<1>18. Told(f, i, "none", j)'
  BY <1>1, <1>2, <1>5, <1>6, <1>7, <1>9 DEF Told, Icons
<1>19. Agreed'
  BY <1>1, <1>2, <1>5 DEF Agreed, Heading
<1>20. Stored(f, i, "none", j)'
  BY <1>1, <1>2, <1>6, <1>7, <1>8 DEF Stored
<1> QED BY <1>10, <1>11, <1>12, <1>13, <1>14, <1>15, <1>16, <1>17, <1>18, <1>19, <1>20 DEF
         Inv, Core

(* A call returns at the end of its script ...                             *)
LEMMA FwEnds ==
  ASSUME NEW f \in Fs, NEW i \in 1 .. 7, NEW h \in Hs, NEW j \in 1 .. 7,
         Inv(f, i, h, j), ScriptEnds("fw")
  PROVE  Inv(f, i, h, j)'
<1>1. /\ At(todo, f, i, h, j) /\ Types /\ Life /\ Quitting /\ EpoEnds /\ Session(f, h)
      /\ Stopping(f, i, h, j) /\ Wake(f, i, h, j) /\ Told(f, i, h, j) /\ Agreed /\ Stored(f, i, h, j)
  BY DEF Inv, Core
<1>2. /\ fw = "script" /\ fw' = "idle" /\ todo["fw"] = <<>>
      /\ UNCHANGED <<hal, todo, init, start_flag, started, cond, control, sta, epo, set, open, toMnld, fromMnld, mnld, seen, wakelocks,
                     icon, mixed, navigating, faulted>>
  BY DEF ScriptEnds, hvars, mvars, avars, evars, ivars, bvars
<1>3. (Sent' <=> Sent) /\ (Once(toMnld, "start")' <=> Once(toMnld, "start"))
  BY <1>2 DEF Sent, Once
<1>4. (DieSent' <=> DieSent) /\ (Once(fromMnld, "die")' <=> Once(fromMnld, "die"))
  BY <1>2 DEF DieSent, Once
<1>5. Commands' = Commands
  BY <1>1, <1>2 DEF Commands, Quits
<1>6. f = "none"
  BY <1>1, <1>2, AtWork
<1>7. At(todo, f, i, h, j)'
  BY <1>1, <1>2 DEF At
<1>8. Types'
  BY <1>1, <1>2 DEF Types, FwUp, FwDown
<1>9. Life'
  BY <1>1, <1>2 DEF Life, FwUp, FwDown, Types
<1>10. Quitting'
  BY <1>1, <1>2, <1>5 DEF Quitting, Quits
<1>11. EpoEnds'
  BY <1>1, <1>2 DEF EpoEnds, Types, Life, FwUp, FwDown
<1>12. Session(f, h)'
  BY <1>1, <1>2, <1>3, <1>4, <1>6 DEF Session, Starting
<1>13. Stopping(f, i, h, j)'
  BY <1>1, <1>2, <1>6 DEF Stopping, Types, Life, FwUp, FwDown, Session, Starting
<1>14. Wake(f, i, h, j)'
  BY <1>1, <1>2 DEF Wake
<1>15. Told(f, i, h, j)'
  BY <1>1, <1>2, <1>5 DEF Told
<1>16. Agreed'
  BY <1>1, <1>2, <1>5 DEF Agreed, Heading
<1>17. Stored(f, i, h, j)'
  BY <1>1, <1>2 DEF Stored
<1> QED BY <1>7, <1>8, <1>9, <1>10, <1>11, <1>12, <1>13, <1>14, <1>15, <1>16, <1>17 DEF Inv,
         Core

(* ... and gps_state_thread goes back to its loop.                         *)
LEMMA HalEnds ==
  ASSUME NEW f \in Fs, NEW i \in 1 .. 7, NEW h \in Hs, NEW j \in 1 .. 7,
         Inv(f, i, h, j), ScriptEnds("hal")
  PROVE  Inv(f, i, h, j)'
<1>1. /\ At(todo, f, i, h, j) /\ Types /\ Life /\ Quitting /\ EpoEnds /\ Session(f, h)
      /\ Stopping(f, i, h, j) /\ Wake(f, i, h, j) /\ Told(f, i, h, j) /\ Agreed /\ Stored(f, i, h, j)
  BY DEF Inv, Core
<1>2. /\ hal = "script" /\ hal' = "loop" /\ todo["hal"] = <<>>
      /\ UNCHANGED <<fw, todo, init, start_flag, started, cond, control, sta, epo, set, open, toMnld, fromMnld, mnld, seen, wakelocks,
                     icon, mixed, navigating, faulted>>
  BY DEF ScriptEnds, hvars, mvars, avars, evars, ivars, bvars
<1>3. (Sent' <=> Sent) /\ (Once(toMnld, "start")' <=> Once(toMnld, "start"))
  BY <1>2 DEF Sent, Once
<1>4. (DieSent' <=> DieSent) /\ (Once(fromMnld, "die")' <=> Once(fromMnld, "die"))
  BY <1>2 DEF DieSent, Once
<1>5. Commands' = Commands
  BY <1>1, <1>2 DEF Commands, Quits
<1>6. h = "none"
  BY <1>1, <1>2, AtWork
<1>7. At(todo, f, i, h, j)'
  BY <1>1, <1>2 DEF At
<1>8. Types'
  BY <1>1, <1>2 DEF Types, FwUp, FwDown
<1>9. Life'
  BY <1>1, <1>2 DEF Life, FwUp, FwDown, Types
<1>10. Quitting'
  BY <1>1, <1>2, <1>5 DEF Quitting, Quits
<1>11. EpoEnds'
  BY <1>1, <1>2 DEF EpoEnds, Types, Life, FwUp, FwDown
<1>12. Session(f, h)'
  BY <1>1, <1>2, <1>3, <1>4 DEF Session, Starting
<1>13. Stopping(f, i, h, j)'
  BY <1>1, <1>2, <1>6 DEF Stopping, Types, Life, FwUp, FwDown, Session, Starting
<1>14. Wake(f, i, h, j)'
  BY <1>1, <1>2 DEF Wake
<1>15. Told(f, i, h, j)'
  BY <1>1, <1>2, <1>5 DEF Told
<1>16. Agreed'
  BY <1>1, <1>2, <1>5 DEF Agreed, Heading
<1>17. Stored(f, i, h, j)'
  BY <1>1, <1>2 DEF Stored
<1> QED BY <1>7, <1>8, <1>9, <1>10, <1>11, <1>12, <1>13, <1>14, <1>15, <1>16, <1>17 DEF Inv,
         Core

-----------------------------------------------------------------------------
(* The invariant.                                                          *)

(* A step that leads to some places of the two threads.                    *)
LEMMA Holds ==
  ASSUME NEW f \in Fs, NEW i \in 1 .. 7, NEW h \in Hs, NEW j \in 1 .. 7, Inv(f, i, h, j)'
  PROVE  IInv'
BY DEF IInv

(* Places the lemmas above lead to.                                        *)
LEMMA Places == /\ "none" \in Fs /\ "start" \in Fs /\ Gated \subseteq Fs /\ "none" \in Hs
                /\ 1 \in 1 .. 7 /\ 2 \in 1 .. 7 /\ 6 \in 1 .. 7 /\ 7 \in 1 .. 7
BY DEF Fs, FwScripts, Hs

(* At the beginning nobody is at work.                                     *)
LEMMA InitIInv == Init => IInv
<1> SUFFICES ASSUME Init PROVE IInv
  OBVIOUS
<1>1. todo = [u \in Threads |-> <<>>] /\ <<>> \in Seq(Steps)
  BY DEF Init
<1>2. At(todo, "none", 1, "none", 1)
  BY <1>1 DEF At, FwRest, HalRest, Threads
<1>3. /\ control = <<>> /\ toMnld = <<>> /\ fromMnld = <<>> /\ fw = "idle" /\ hal = "none"
      /\ ~init /\ start_flag = 0 /\ ~started /\ mnld = "off" /\ epo = "none"
      /\ ~icon /\ ~mixed /\ ~navigating /\ ~faulted /\ wakelocks = 0 /\ seen = "none"
      /\ open = {} /\ set = {}
  BY DEF Init
<1>4. /\ cond \in [Conditions -> BOOLEAN]
      /\ ~cond["M_INIT"] /\ ~cond["M_CLEANUP"] /\ ~cond["M_THREAD_EXIT"] /\ ~cond["M_STOP"]
  BY DEF Init, Conditions
<1>5. Commands = <<>> /\ ~Sent /\ ~DieSent /\ (\A m \in Ungated : ~Contains(fromMnld, m))
  BY <1>3 DEF Commands, Quits, Sent, DieSent, Contains
<1>6. Once(toMnld, "start") /\ Once(fromMnld, "die")
  BY <1>3 DEF Once
<1>7. Types
  <2>1. <<>> \in Seq({"START", "STOP", "QUIT"}) /\ <<>> \in Seq({"start", "stop", "cleanup"})
    OBVIOUS
  <2>2. <<>> \in Seq(Kinds \cup {"die"})
    OBVIOUS
  <2>3. /\ init \in BOOLEAN /\ started \in BOOLEAN /\ navigating \in BOOLEAN
        /\ faulted \in BOOLEAN /\ icon \in BOOLEAN /\ mixed \in BOOLEAN
    BY DEF Init
  <2> QED BY <1>3, <1>4, <2>1, <2>2, <2>3 DEF Types
<1>8. Life /\ EpoEnds
  BY <1>3, <1>4 DEF Life, EpoEnds, FwUp, FwDown
<1>9. Quitting
  BY <1>3, <1>5 DEF Quitting, Quits
<1>10. Session("none", "none") /\ Stopping("none", 1, "none", 1)
  BY <1>3, <1>4, <1>5, <1>6 DEF Session, Starting, Stopping
<1>11. Wake("none", 1, "none", 1) /\ Agreed
  BY <1>3, <1>5 DEF Wake, Agreed, Heading
<1>12. Told("none", 1, "none", 1)
  BY <1>3, <1>5 DEF Told, Good, Icons
<1>13. Stored("none", 1, "none", 1)
  BY <1>3, <1>5 DEF Stored, Gated, Ungated
<1>14. Inv("none", 1, "none", 1)
  BY <1>2, <1>7, <1>8, <1>9, <1>10, <1>11, <1>12, <1>13 DEF Inv, Core
<1> QED BY <1>14, Places DEF IInv

(* A step that changes nothing.                                            *)
LEMMA StuttersInv ==
  ASSUME NEW f \in Fs, NEW i \in 1 .. 7, NEW h \in Hs, NEW j \in 1 .. 7,
         Inv(f, i, h, j), UNCHANGED vars
  PROVE  Inv(f, i, h, j)'
<1>1. /\ At(todo, f, i, h, j) /\ Types /\ Life /\ Quitting /\ EpoEnds /\ Session(f, h)
      /\ Stopping(f, i, h, j) /\ Wake(f, i, h, j) /\ Told(f, i, h, j) /\ Agreed /\ Stored(f, i, h, j)
  BY DEF Inv, Core
<1>2. /\ todo' = todo
      /\ UNCHANGED <<fw, hal, init, start_flag, started, cond, control, sta, epo, set, open, toMnld, fromMnld, mnld, seen, wakelocks,
                     icon, mixed, navigating, faulted>>
  BY DEF vars, hvars, mvars, avars, evars, ivars, bvars
<1>3. (Sent' <=> Sent) /\ (Once(toMnld, "start")' <=> Once(toMnld, "start"))
  BY <1>2 DEF Sent, Once
<1>4. (DieSent' <=> DieSent) /\ (Once(fromMnld, "die")' <=> Once(fromMnld, "die"))
  BY <1>2 DEF DieSent, Once
<1>5. Commands' = Commands
  BY <1>1, <1>2 DEF Commands, Quits
<1>6. At(todo, f, i, h, j)'
  BY <1>1, <1>2 DEF At
<1>7. Types'
  BY <1>1, <1>2 DEF Types, FwUp, FwDown
<1>8. Life'
  BY <1>1, <1>2 DEF Life, FwUp, FwDown, Types
<1>9. Quitting'
  BY <1>1, <1>2, <1>5 DEF Quitting, Quits
<1>10. EpoEnds'
  BY <1>1, <1>2 DEF EpoEnds, Types, Life, FwUp, FwDown
<1>11. Session(f, h)'
  BY <1>1, <1>2, <1>3, <1>4 DEF Session, Starting
<1>12. Stopping(f, i, h, j)'
  BY <1>1, <1>2 DEF Stopping, Types, Life, FwUp, FwDown, Session, Starting
<1>13. Wake(f, i, h, j)'
  BY <1>1, <1>2 DEF Wake
<1>14. Told(f, i, h, j)'
  BY <1>1, <1>2, <1>5 DEF Told
<1>15. Agreed'
  BY <1>1, <1>2, <1>5 DEF Agreed, Heading
<1>16. Stored(f, i, h, j)'
  BY <1>1, <1>2 DEF Stored
<1> QED BY <1>6, <1>7, <1>8, <1>9, <1>10, <1>11, <1>12, <1>13, <1>14, <1>15, <1>16 DEF Inv, Core

(* A step of the framework's thread, inside a call or at its beginning.    *)
LEMMA FrameworkInv ==
  ASSUME NEW f \in Fs, NEW i \in 1 .. 7, NEW h \in Hs, NEW j \in 1 .. 7, Inv(f, i, h, j),
         Call \/ Framework
  PROVE  IInv'
<1>1. CASE InitThread
  BY <1>1, InitThreadInv, Holds
<1>2. CASE InitFails
  BY <1>2, InitFailsInv, Holds
<1>3. CASE StartCall
  BY <1>3, StartCallInv, Holds
<1>4. CASE StopCall
  BY <1>4, StopCallInv, Holds
<1>5. CASE CleanupCall
  BY <1>5, CleanupCallInv, Holds
<1>6. ASSUME NEW k \in Gated, OpenInterface(k) PROVE IInv'
  <2>1. CASE fw' = "script"
    BY <1>6, <2>1, OpenInterfaceInv, Holds, Places
  <2>2. CASE fw' # "script"
    BY <1>6, <2>2, OpenFailsInv, Holds, Places
  <2> QED BY <2>1, <2>2
<1>7. ASSUME NEW k \in Gated, CloseInterface(k) PROVE IInv'
  BY <1>7, CloseInterfaceInv, Holds
<1>8. CASE InitReady
  BY <1>8, InitReadyInv, Holds
<1>9. CASE XtraThread
  BY <1>9, XtraThreadInv, Holds
<1>10. CASE XtraFlag
  BY <1>10, XtraFlagInv, Holds
<1>11. CASE StartSend
  BY <1>11, StartSendInv, Holds
<1>12. CASE StartRun
  BY <1>12, StartRunInv, Holds, Places
<1>13. CASE StopSend
  BY <1>13, StopSendInv, Holds
<1>14. CASE StopCmd
  BY <1>14, StopCmdInv, Holds
<1>15. CASE CleanupTest
  BY <1>15, CleanupTestInv, Holds
<1>16. CASE CleanupStopped
  BY <1>16, CleanupStoppedInv, Holds
<1>17. CASE CleanupClear
  BY <1>17, CleanupClearInv, Holds
<1>18. CASE CleanupQuit
  BY <1>18, CleanupQuitInv, Holds
<1>19. CASE CleanupDone
  BY <1>19, CleanupDoneInv, Holds
<1>20. CASE CleanupEpo
  BY <1>20, CleanupEpoInv, Holds
<1>21. CASE CleanupReturn
  BY <1>21, CleanupReturnInv, Holds
<1> QED BY <1>1, <1>2, <1>3, <1>4, <1>5, <1>6, <1>7, <1>8, <1>9, <1>10, <1>11,
        <1>12, <1>13, <1>14, <1>15, <1>16, <1>17, <1>18, <1>19, <1>20, <1>21
        DEF Call, Framework

(* A step of gps_state_thread between two scripts.                         *)
LEMMA ThreadInv ==
  ASSUME NEW f \in Fs, NEW i \in 1 .. 7, NEW h \in Hs, NEW j \in 1 .. 7, Inv(f, i, h, j), Thread
  PROVE  IInv'
<1>1. CASE Boot
  BY <1>1, BootInv, Holds
<1>2. CASE BootFails
  BY <1>2, BootFailsInv, Holds
<1>3. CASE OnStart
  BY <1>3, OnStartInv, Holds
<1>4. CASE OnStop
  BY <1>4, OnStopInv, Holds
<1>5. CASE OnQuit
  BY <1>5, OnQuitInv, Holds
<1>6. CASE OnNmea
  BY <1>6, OnNmeaInv, Holds
<1>7. CASE OnMessage
  <2>1. fromMnld \in Seq(Kinds \cup {"die"}) /\ fromMnld # <<>>
    BY <1>7 DEF Inv, Core, Types, OnMessage
  <2>2. PICK m \in Kinds \cup {"die"} : m = Head(fromMnld)
    BY <2>1
  <2>3. PICK q \in Hs : q = Who(m)
    BY ScriptOf
  <2>4. Inv(f, i, q, 1)'
    BY <1>7, <2>2, <2>3, OnMessageInv
  <2> QED BY <2>4, Holds, Places
<1> QED BY <1>1, <1>2, <1>3, <1>4, <1>5, <1>6, <1>7 DEF Thread

(* A step of the script of a thread.                                       *)
LEMMA FwScriptInv ==
  ASSUME NEW f \in Fs, NEW i \in 1 .. 7, NEW h \in Hs, NEW j \in 1 .. 7, Inv(f, i, h, j),
         RunScript("fw")
  PROVE  IInv'
<1>1. At(todo, f, i, h, j)
  BY DEF Inv, Core
<1>2. CASE SetStatus("fw")
  <2>1. i + 1 \in 1 .. 7
    BY <1>1, <1>2, FwAt DEF SetStatus
  <2> QED BY <1>2, <2>1, FwSetsStatus, Holds
<1>3. CASE Report("fw")
  <2>1. i + 1 \in 1 .. 7
    BY <1>1, <1>3, FwAt DEF Report
  <2> QED BY <1>3, <2>1, FwReports, Holds
<1>4. CASE WakeLock("fw")
  BY <1>4, FwTakesLock, Holds, Places
<1>5. CASE Latch("fw")
  BY <1>5, FwClears, Holds, Places
<1>6. CASE SetFlag("fw")
  BY <1>6, FwRaisesFlag, Holds, Places
<1>7. CASE Interface("fw")
  BY <1>7, FwStores, FwOpens, Holds, Places
<1>8. CASE ScriptEnds("fw")
  BY <1>8, FwEnds, Holds
<1> QED BY <1>2, <1>3, <1>4, <1>5, <1>6, <1>7, <1>8 DEF RunScript

(* ... and of gps_state_thread.                                            *)
LEMMA HalScriptInv ==
  ASSUME NEW f \in Fs, NEW i \in 1 .. 7, NEW h \in Hs, NEW j \in 1 .. 7, Inv(f, i, h, j),
         RunScript("hal")
  PROVE  IInv'
<1>1. At(todo, f, i, h, j)
  BY DEF Inv, Core
<1>2. CASE SetStatus("hal")
  <2>1. j + 1 \in 1 .. 7
    BY <1>1, <1>2, HalAt DEF SetStatus
  <2> QED BY <1>2, <2>1, HalSetsStatus, Holds
<1>3. CASE Report("hal")
  <2>1. CASE h \in Icons /\ j = 4
    BY <1>3, <2>1, HalIconDone, Holds, Places
  <2>2. CASE ~(h \in Icons /\ j = 4)
    <3>1. (h = "die" /\ j + 1 \in 1 .. 7) \/ j = 2
      BY <1>1, <1>3, <2>2, HalAt DEF Report
    <3>2. j + 1 \in 1 .. 7
      BY <3>1
    <3> QED BY <1>3, <2>2, <3>2, HalReports, Holds
  <2> QED BY <2>1, <2>2
<1>4. CASE WakeLock("hal")
  BY <1>4, HalReleasesLock, Holds, Places
<1>5. CASE Latch("hal")
  BY <1>5, HalSignals, Holds, Places
<1>6. CASE SetFlag("hal")
  BY <1>6, HalLowersFlag, Holds, Places
<1>7. CASE Interface("hal")
  BY <1>7, HalCalls, Holds, Places
<1>8. CASE ScriptEnds("hal")
  BY <1>8, HalEnds, Holds
<1> QED BY <1>2, <1>3, <1>4, <1>5, <1>6, <1>7, <1>8 DEF RunScript

(* Every step.                                                             *)
LEMMA StepInv == Orderly /\ IInv /\ [Next]_vars => IInv'
<1> SUFFICES ASSUME Orderly, IInv, [Next]_vars PROVE IInv'
  OBVIOUS
<1>1. PICK f \in Fs, i \in 1 .. 7, h \in Hs, j \in 1 .. 7 : Inv(f, i, h, j)
  BY DEF IInv
<1>2. CASE Call \/ Framework
  BY <1>1, <1>2, FrameworkInv
<1>3. CASE Thread
  BY <1>1, <1>3, ThreadInv
<1>4. CASE EpoExits
  BY <1>1, <1>4, EpoExitsInv, Holds
<1>5. CASE Mnld
  <2>1. CASE MnldCommand
    BY <1>1, <2>1, MnldCommandInv, Holds
  <2>2. CASE MnldDies
    BY <1>1, <2>2, MnldDiesInv, Holds
  <2>3. CASE MnldNmea
    BY <1>1, <2>3, MnldNmeaInv, Holds
  <2>4. CASE MnldAsks
    BY <1>1, <2>4, MnldAsksInv, Holds
  <2> QED BY <1>5, <2>1, <2>2, <2>3, <2>4 DEF Mnld
<1>6. CASE RunScript("fw")
  BY <1>1, <1>6, FwScriptInv
<1>7. CASE RunScript("hal")
  BY <1>1, <1>7, HalScriptInv
<1>8. CASE UNCHANGED vars
  BY <1>1, <1>8, StuttersInv, Holds
<1> QED BY <1>2, <1>3, <1>4, <1>5, <1>6, <1>7, <1>8 DEF Next, Threads

(* The invariant holds for ever.                                           *)
LEMMA Invariance == ASSUME Orderly PROVE Spec => []IInv
<1>1. Init => IInv
  BY InitIInv
<1>2. IInv /\ [Next]_vars => IInv'
  BY StepInv
<1> QED BY <1>1, <1>2, PTL DEF Spec

-----------------------------------------------------------------------------
(* What it implies.                                                        *)

(* When neither thread is at work there is no script.                      *)
LEMMA AtRest ==
  ASSUME NEW f \in Fs, NEW i \in 1 .. 7, NEW h \in Hs, NEW j \in 1 .. 7, Inv(f, i, h, j), Quiet
  PROVE  f = "none" /\ h = "none"
<1>1. todo["fw"] = <<>> /\ todo["hal"] = <<>>
  BY DEF Quiet, Threads
<1>2. At(todo, f, i, h, j)
  BY DEF Inv, Core
<1> QED BY <1>1, <1>2, AtWork

(* The wake lock: once, and for the session.                               *)
LEMMA WakeLockHeld == IInv => WakeLockBalanced
<1> SUFFICES ASSUME IInv PROVE WakeLockBalanced
  OBVIOUS
<1>1. PICK f \in Fs, i \in 1 .. 7, h \in Hs, j \in 1 .. 7 : Inv(f, i, h, j)
  BY DEF IInv
<1>2. Wake(f, i, h, j) /\ start_flag \in {0, 1}
  BY <1>1 DEF Inv, Core, Types
<1>3. wakelocks \in {0, 1}
  BY <1>2 DEF Wake
<1>4. ASSUME Quiet PROVE wakelocks = start_flag
  <2>1. f = "none" /\ h = "none"
    BY <1>1, <1>4, AtRest
  <2> QED BY <1>2, <2>1 DEF Wake
<1> QED BY <1>3, <1>4 DEF WakeLockBalanced

(* The last report.                                                        *)
LEMMA LastReportTrue == IInv => LastReportIsTrue
<1> SUFFICES ASSUME IInv, Quiet, ~mixed
             PROVE  /\ start_flag = 1 /\ started => seen = "begin"
                    /\ start_flag = 0 /\ ~icon => seen \notin {"on", "begin"}
  BY DEF LastReportIsTrue
<1>1. PICK f \in Fs, i \in 1 .. 7, h \in Hs, j \in 1 .. 7 : Inv(f, i, h, j)
  BY DEF IInv
<1>2. f = "none" /\ h = "none"
  BY <1>1, AtRest
<1>3. Told("none", i, "none", j)
  BY <1>1, <1>2 DEF Inv
<1>4. start_flag = 0 /\ ~icon => seen \in Good
  BY <1>3 DEF Told
<1>5. start_flag = 1 /\ started => seen = "begin"
  BY <1>3 DEF Told
<1> QED BY <1>4, <1>5 DEF Good

(* The icon's script, when it takes the icon away, ends with a report.     *)
LEMMA IconOffShown ==
  ASSUME NEW f, NEW i, NEW j \in 1 .. 7, At(todo, f, i, "iconOff", j)
  PROVE  IconShown
<1>1. /\ HalScript("iconOff") \in Seq(Steps) /\ Len(HalScript("iconOff")) = 4
      /\ HalScript("iconOff")[4] = <<"report", "sta">>
  BY HalSteps DEF HalScripts, Icons
<1>2. todo["hal"] = Rest(HalScript("iconOff"), j) /\ j \in 1 .. Len(HalScript("iconOff"))
  BY <1>1 DEF At, HalRest
<1>3. todo["hal"] # <<>> /\ Last(todo["hal"]) = <<"report", "sta">>
  BY <1>1, <1>2, RestFacts
<1> QED BY <1>3 DEF IconShown

(* cleanup.                                                                *)
LEMMA CleanupOrdered == IInv => CleanupInOrder
<1> SUFFICES ASSUME IInv PROVE CleanupInOrder
  OBVIOUS
<1>1. PICK f \in Fs, i \in 1 .. 7, h \in Hs, j \in 1 .. 7 : Inv(f, i, h, j)
  BY DEF IInv
<1>2. /\ At(todo, f, i, h, j) /\ Types /\ Life /\ EpoEnds /\ Session(f, h)
      /\ Stopping(f, i, h, j) /\ Wake(f, i, h, j) /\ Told(f, i, h, j)
  BY <1>1 DEF Inv, Core
<1>3. ASSUME fw \in {"cleanClear", "cleanQuit", "cleanDone"}, ~IconShown
      PROVE  seen \in {"none", "off", "end"}
  <2>1. ~icon /\ h # "iconOff"
    BY <1>2, <1>3, IconOffShown DEF IconShown
  <2>2. start_flag = 0 \/ (h = "die" /\ j >= 6)
    BY <1>2, <1>3 DEF Stopping
  <2>3. f # "start"
    BY <1>2, <1>3 DEF Stopping
  <2>4. CASE start_flag = 0
    BY <1>2, <2>1, <2>3, <2>4 DEF Told, Good
  <2>5. CASE h = "die" /\ j >= 6
    <3>1. j >= 5
      BY <2>5
    <3> QED BY <1>2, <2>5, <3>1 DEF Told
  <2> QED BY <2>2, <2>4, <2>5
<1>4. ASSUME fw = "idle", ~init
      PROVE  /\ hal = "none" /\ epo = "none" /\ start_flag = 0 /\ wakelocks = 0
             /\ \A c \in Conditions \ {"M_START"} : ~cond[c]
  <2>1. hal = "none" /\ ~cond["M_INIT"] /\ ~cond["M_CLEANUP"]
    BY <1>2, <1>4 DEF Life
  <2>2. epo = "none" /\ ~cond["M_THREAD_EXIT"]
    BY <1>2, <1>4 DEF EpoEnds
  <2>3. start_flag = 0 /\ ~cond["M_STOP"] /\ f = "none"
    BY <1>2, <1>4 DEF Stopping
  <2>4. wakelocks = 0
    BY <1>2, <2>3 DEF Wake
  <2> QED BY <2>1, <2>2, <2>3, <2>4 DEF Conditions
<1> QED BY <1>3, <1>4 DEF CleanupInOrder

(* The callback of a script is its only step.                              *)
LEMMA CallsStored == IInv => CallbacksStored
<1> SUFFICES ASSUME IInv, NEW k \in Gated \cup Ungated,
                    todo["hal"] # <<>>, Head(todo["hal"]) = <<"call", k>>
             PROVE  k \in set
  BY DEF CallbacksStored
<1>1. PICK f \in Fs, i \in 1 .. 7, h \in Hs, j \in 1 .. 7 : Inv(f, i, h, j)
  BY DEF IInv
<1>2. At(todo, f, i, h, j) /\ Stored(f, i, h, j)
  BY <1>1 DEF Inv, Core
<1>3. h \in HalScripts
  BY <1>2, AtWork DEF Hs
<1>4. j \in 1 .. Len(HalScript(h)) /\ todo["hal"] = Rest(HalScript(h), j)
  <2>1. h # "none"
    BY <1>3 DEF HalScripts, Calls, Gated, Ungated
  <2>2. j <= Len(HalScript(h)) /\ todo["hal"] = Rest(HalScript(h), j)
    BY <1>2, <2>1, Zenon DEF At, HalRest
  <2>3. Len(HalScript(h)) \in Nat
    BY <1>3, HalSteps
  <2> QED BY <2>2, <2>3
<1>5. HalScript(h)[j] = <<"call", k>>
  BY <1>3, <1>4, HalSteps, RestFacts
<1>6. h = k
  BY <1>3, <1>4, <1>5, HalMeans
<1> QED BY <1>2, <1>6 DEF Stored

(* With no command in the socket pair, and no fault, started is what the   *)
(* framework asked for last.                                               *)
LEMMA StartedFollows == IInv => StartedAgrees
<1> SUFFICES ASSUME IInv, Quiet, control = <<>>, ~faulted
             PROVE  started = navigating
  BY DEF StartedAgrees
<1>1. PICK f \in Fs, i \in 1 .. 7, h \in Hs, j \in 1 .. 7 : Inv(f, i, h, j)
  BY DEF IInv
<1>2. Quitting /\ Agreed /\ Types
  BY <1>1 DEF Inv, Core
<1>3. fw = "idle"
  BY DEF Quiet
<1>4. Commands = <<>>
  BY <1>3 DEF Commands, Quits
<1>5. started <=> navigating
  BY <1>2, <1>3, <1>4 DEF Agreed, Heading
<1> QED BY <1>2, <1>5 DEF Types

-----------------------------------------------------------------------------
(* The wake lock of start and MNLD's end is never taken or given back twice, *)
(* and with both threads at rest it is held exactly while the session is up. *)
THEOREM WakeLockIsBalanced == ASSUME Orderly PROVE Spec => []WakeLockBalanced
BY Invariance, WakeLockHeld, PTL

(* What status_cb said last is true whenever neither thread is at work.    *)
THEOREM LastReportHolds == ASSUME Orderly PROVE Spec => []LastReportIsTrue
BY Invariance, LastReportTrue, PTL

(* cleanup quits the thread only after the end of the session was          *)
(* reported, and leaves no thread, no wake lock and no stale latch behind. *)
THEOREM CleanupKeepsOrder == ASSUME Orderly PROVE Spec => []CleanupInOrder
BY Invariance, CleanupOrdered, PTL

(* Without a fault the HAL thread's started, which outlives the thread and *)
(* decides about the icon and the EPO download, agrees with the framework  *)
(* whenever both are at rest, in the first session and in the later ones.  *)
THEOREM StartedIsTrue == ASSUME Orderly PROVE Spec => []StartedAgrees
BY Invariance, StartedFollows, PTL

(* gps_state_thread calls back only through structures that were filled in. *)
THEOREM OnlyStoredAreCalled == ASSUME Orderly PROVE Spec => []CallbacksStored
BY Invariance, CallsStored, PTL

-----------------------------------------------------------------------------
(* The EPO download *)

(* The framework's start, MNLD's answer and a restart do not fall between  *)
(* the fetch of a piece and its check, and a piece that arrives is whole.  *)
EpoOrderly == EpoAssumption /\ Overlap = FALSE /\ Truncated = FALSE

Pieces == [start : Nat, whole : BOOLEAN]

EpoTypes ==
  /\ count \in 0 .. PieceCount - 1 /\ cur \in PieceSet
  /\ base \in Nat /\ day \in Nat
  /\ hdat \in Seq(Pieces) /\ files \in [PieceSet -> Pieces]

(* The pieces of the download under way that the file holds: the one just  *)
(* fetched is not counted yet.                                             *)
Held == IF pc \in {"check", "advance"} THEN count + 1 ELSE count

(* The file ends with the pieces of the download, as they were stored, and *)
(* they are the pieces the count says.                                     *)
Resumed ==
  /\ pc \in {"fetch", "check", "advance"} => cur = count
  /\ Len(hdat) <= PieceCount
  /\ Held > 0 => Len(hdat) = Held /\ \A i \in 1 .. Held : hdat[i] = files[i - 1]

(* No piece starts later than the server's present data would have it, so  *)
(* that a piece that follows starts where the one before ended, or later;  *)
(* later is what the check finds out.                                      *)
Following ==
  /\ \A i \in 1 .. Len(hdat) : hdat[i].whole /\ hdat[i].start <= base + PieceDays * (i - 1)
  /\ \A i \in 1 .. Len(hdat) :
       (pc = "check" /\ i = Len(hdat)) \/ hdat[i].start = hdat[1].start + PieceDays * (i - 1)
  /\ pc = "check" /\ count > 0 => hdat[count + 1].start >= hdat[count].start + PieceDays

EpoInv == EpoTypes /\ Resumed /\ Following

-----------------------------------------------------------------------------
(* A download has at least one piece.                                      *)
LEMMA Count == EpoAssumption => PieceCount \in Nat /\ PieceCount >= 1 /\ 0 \in PieceSet
<1> SUFFICES ASSUME EpoAssumption PROVE PieceCount \in Nat /\ PieceCount >= 1 /\ 0 \in PieceSet
  OBVIOUS
<1>1. Days \div 3 \in Nat /\ Days % 3 \in Nat
  BY DEF EpoAssumption
<1>2. PieceCount \in Nat /\ PieceCount >= 1
  BY <1>1 DEF PieceCount
<1> QED BY <1>2 DEF PieceSet

(* A piece file that is not there.                                         *)
LEMMA NoneIsPiece == None \in Pieces
BY DEF None, Pieces

(* At the beginning the file is empty.                                     *)
LEMMA EpoInitInv == EpoOrderly /\ EpoInit => EpoInv
<1> SUFFICES ASSUME EpoOrderly, EpoInit PROVE EpoInv
  OBVIOUS
<1>1. EpoTypes
  BY Count, NoneIsPiece DEF EpoOrderly, EpoInit, EpoTypes
<1>2. hdat = <<>> /\ Len(hdat) = 0 /\ count = 0 /\ pc = "loop"
  BY DEF EpoInit
<1>3. Resumed
  BY <1>2, Count DEF EpoOrderly, Resumed, Held
<1>4. Following
  BY <1>2 DEF Following
<1> QED BY <1>1, <1>3, <1>4 DEF EpoInv

-----------------------------------------------------------------------------
(* A step that leaves the file, the pieces and the count alone.            *)
Kept ==
  /\ UNCHANGED <<hdat, count, files>>
  /\ cur' \in PieceSet /\ base' \in Nat /\ base' >= base /\ day' \in Nat
  /\ \/ pc' = pc /\ cur' = cur
     \/ /\ pc \notin {"check", "advance"} /\ pc' \notin {"check", "advance"}
        /\ pc' = "fetch" => cur' = count

(* A step that leaves the file alone, and the counter.                     *)
LEMMA KeptKeeps == EpoOrderly /\ EpoInv /\ Kept => EpoInv'
<1> SUFFICES ASSUME EpoOrderly, EpoInv, Kept PROVE EpoInv'
  OBVIOUS
<1>1. EpoTypes'
  BY DEF EpoInv, EpoTypes, Kept
<1>2. Held' = Held /\ Resumed'
  BY DEF EpoInv, Resumed, Kept, Held
<1>3. Following'
  <2>1. \A i \in 1 .. Len(hdat) : hdat'[i].start <= base' + PieceDays * (i - 1)
    <3> TAKE i \in 1 .. Len(hdat)
    <3>1. hdat[i] \in Pieces
      BY DEF EpoInv, EpoTypes
    <3>2. hdat[i].start \in Nat /\ hdat[i].start <= base + PieceDays * (i - 1)
      BY <3>1 DEF EpoInv, Following, Pieces
    <3>3. base \in Nat /\ base' \in Nat /\ base' >= base /\ hdat' = hdat /\ Len(hdat) \in Nat
      BY DEF Kept, EpoInv, EpoTypes
    <3> QED BY <3>2, <3>3 DEF PieceDays
  <2> QED BY <2>1 DEF EpoInv, Following, Kept
<1> QED BY <1>1, <1>2, <1>3 DEF EpoInv

(* A download starts over, or is over: nothing of it is counted.           *)
Emptied ==
  /\ pc # "check" /\ pc' \notin {"fetch", "check", "advance"}
  /\ count' = 0 /\ hdat' \in {hdat, <<>>} /\ UNCHANGED base /\ cur' \in PieceSet
  /\ day' \in Nat /\ files' \in [PieceSet -> Pieces]

(* A step that begins or ends a download.                                  *)
LEMMA EmptiedKeeps == EpoOrderly /\ EpoInv /\ Emptied => EpoInv'
<1> SUFFICES ASSUME EpoOrderly, EpoInv, Emptied PROVE EpoInv'
  OBVIOUS
<1>1. EpoTypes'
  <2>1. hdat' \in Seq(Pieces) /\ 0 \in Nat
    <3>1. hdat \in Seq(Pieces) /\ <<>> \in Seq(Pieces)
      BY DEF EpoInv, EpoTypes
    <3>2. hdat' = hdat \/ hdat' = <<>>
      BY DEF Emptied
    <3> QED BY <3>1, <3>2
  <2> QED BY <2>1, Count DEF EpoOrderly, EpoInv, EpoTypes, Emptied
<1>2. CASE hdat' = hdat
  <2>1. Resumed'
    BY <1>2 DEF EpoInv, Resumed, Emptied, Held
  <2>2. Following'
    BY <1>2 DEF EpoInv, Following, Emptied
  <2> QED BY <1>1, <2>1, <2>2 DEF EpoInv
<1>3. CASE hdat' = <<>>
  <2>1. Len(hdat') = 0
    BY <1>3
  <2>2. Resumed'
    BY <2>1, Count DEF EpoOrderly, Resumed, Emptied, Held
  <2>3. Following'
    BY <2>1 DEF Following, Emptied
  <2> QED BY <1>1, <2>2, <2>3 DEF EpoInv
<1> QED BY <1>2, <1>3 DEF Emptied

-----------------------------------------------------------------------------
(* The piece that is fetched starts where the file ends, or later.         *)
LEMMA FetchKeeps == EpoOrderly /\ EpoInv /\ FetchOK => EpoInv'
<1> SUFFICES ASSUME EpoOrderly, EpoInv, FetchOK PROVE EpoInv'
  OBVIOUS
<1> DEFINE p == [start |-> base + PieceDays * cur, whole |-> TRUE]
           old == IF count = 0 THEN <<>> ELSE hdat
<1>0. /\ count \in Nat /\ PieceCount \in Nat /\ count < PieceCount /\ base \in Nat
      /\ cur = count /\ pc = "fetch" /\ pc' = "check" /\ count \in PieceSet
      /\ hdat \in Seq(Pieces) /\ files \in [PieceSet -> Pieces]
      /\ UNCHANGED <<count, cur, base, day>>
  BY Count DEF EpoOrderly, FetchOK, Goto, EpoInv, EpoTypes, Resumed, tvars, wvars, PieceSet
<1>1. files' = [files EXCEPT ![count] = p] /\ hdat' = Append(old, p)
  <2>1. {TRUE} \cup {~Truncated} = {TRUE}
    BY DEF EpoOrderly
  <2>2. PICK whole \in {TRUE} :
          LET piece == [start |-> base + PieceDays * cur, whole |-> whole]
          IN  files' = [files EXCEPT ![cur] = piece]
              /\ hdat' = Append(IF count = 0 THEN <<>> ELSE hdat, piece)
    BY <2>1 DEF FetchOK
  <2> QED BY <1>0, <2>2
<1>2. p \in Pieces /\ p.start = base + PieceDays * count /\ p.whole
  BY <1>0 DEF Pieces, PieceDays
<1> HIDE DEF p
<1>3. old \in Seq(Pieces) /\ Len(old) = count /\ \A i \in 1 .. count : old[i] = hdat[i]
  BY <1>0 DEF EpoInv, Resumed, Held
<1>4. \A i \in 1 .. count : /\ old[i] = files[i - 1] /\ old[i].whole /\ old[i].start \in Nat
                            /\ old[i].start <= base + PieceDays * (i - 1)
                            /\ old[i].start = old[1].start + PieceDays * (i - 1)
  <2> TAKE i \in 1 .. count
  <2>1. Held = count /\ count > 0 /\ Len(hdat) = count
    BY <1>0 DEF Held, EpoInv, Resumed
  <2>2. old[i] \in Pieces /\ old[i] = hdat[i] /\ old[1] = hdat[1]
    BY <1>0, <1>3
  <2>3. old[i] = files[i - 1]
    BY <2>1, <2>2 DEF EpoInv, Resumed
  <2>4. /\ hdat[i].whole /\ hdat[i].start <= base + PieceDays * (i - 1)
        /\ hdat[i].start = hdat[1].start + PieceDays * (i - 1)
    BY <1>0, <2>1 DEF EpoInv, Following
  <2> QED BY <2>2, <2>3, <2>4 DEF Pieces
<1> HIDE DEF old
<1>5. /\ hdat' \in Seq(Pieces) /\ Len(hdat') = count + 1 /\ hdat'[count + 1] = p
      /\ \A i \in 1 .. count : hdat'[i] = old[i]
  BY <1>0, <1>1, <1>2, <1>3
<1>6. EpoTypes'
  BY <1>0, <1>1, <1>2, <1>5 DEF EpoInv, EpoTypes
<1>7. Resumed'
  <2>1. Held' = count + 1
    BY <1>0 DEF Held
  <2>2. files'[count] = p /\ \A i \in 1 .. count : files'[i - 1] = files[i - 1]
    BY <1>0, <1>1 DEF PieceSet
  <2>3. \A i \in 1 .. count + 1 : hdat'[i] = files'[i - 1]
    BY <1>0, <1>4, <1>5, <2>2
  <2> QED BY <1>0, <1>5, <2>1, <2>3 DEF Resumed
<1>8. Following'
  <2>1. \A i \in 1 .. count + 1 : hdat'[i].whole /\ hdat'[i].start <= base + PieceDays * (i - 1)
    <3> TAKE i \in 1 .. count + 1
    <3>1. CASE i = count + 1
      BY <1>0, <1>2, <1>5, <3>1 DEF PieceDays
    <3>2. CASE i # count + 1
      <4>1. i \in 1 .. count
        BY <1>0, <3>2
      <4> QED BY <1>4, <1>5, <4>1
    <3> QED BY <3>1, <3>2
  <2>2. \A i \in 1 .. count : hdat'[i].start = hdat'[1].start + PieceDays * (i - 1)
    BY <1>0, <1>4, <1>5
  <2>3. count > 0 => hdat'[count + 1].start >= hdat'[count].start + PieceDays
    <3> SUFFICES ASSUME count > 0 PROVE hdat'[count + 1].start >= hdat'[count].start + PieceDays
      OBVIOUS
    <3>1. count \in 1 .. count
      BY <1>0
    <3>2. hdat'[count] = old[count] /\ old[count].start \in Nat
          /\ old[count].start <= base + PieceDays * (count - 1)
      BY <1>4, <1>5, <3>1
    <3>3. hdat'[count + 1].start = base + 3 * count
      BY <1>2, <1>5 DEF PieceDays
    <3>4. hdat'[count].start <= base + 3 * (count - 1) /\ hdat'[count].start \in Nat
      BY <3>2 DEF PieceDays
    <3> DEFINE a == hdat'[count].start
               b == hdat'[count + 1].start
    <3>5. a \in Nat /\ b = base + 3 * count /\ a <= base + 3 * (count - 1) /\ base \in Nat /\ count \in Nat
      BY <1>0, <3>3, <3>4
    <3> HIDE DEF a, b
    <3>6. b >= a + 3
      BY <3>5
    <3> QED BY <3>6 DEF a, b, PieceDays
  <2>4. \A i \in 1 .. count + 1 : i = count + 1 \/ i \in 1 .. count
    BY <1>0
  <2> QED BY <1>0, <1>5, <2>1, <2>2, <2>3, <2>4 DEF Following
<1> QED BY <1>6, <1>7, <1>8 DEF EpoInv

(* The server's data has changed since the first piece: all is removed.    *)
LEMMA StartOverKeeps == EpoOrderly /\ EpoInv /\ StartOver => EpoInv'
<1> SUFFICES ASSUME EpoOrderly, EpoInv, StartOver PROVE EpoInv'
  OBVIOUS
<1>1. /\ hdat' = <<>> /\ Len(hdat') = 0 /\ count' = 0 /\ pc' = "after"
      /\ files' = [k \in PieceSet |-> IF k <= count THEN None ELSE files[k]]
      /\ UNCHANGED <<cur, base, day>>
  BY DEF StartOver, Goto, wvars
<1>2. EpoTypes'
  BY <1>1, Count, NoneIsPiece DEF EpoOrderly, EpoInv, EpoTypes
<1>3. Resumed' /\ Following'
  BY <1>1, Count DEF EpoOrderly, Resumed, Following, Held
<1> QED BY <1>2, <1>3 DEF EpoInv

(* A piece that does not start later than the one before ended starts      *)
(* exactly there.                                                          *)
LEMMA CheckedKeeps == EpoOrderly /\ EpoInv /\ Checked => EpoInv'
<1> SUFFICES ASSUME EpoOrderly, EpoInv, Checked PROVE EpoInv'
  OBVIOUS
<1>0. /\ pc = "check" /\ ~IsChanged /\ cur = count /\ count \in Nat /\ Len(hdat) = count + 1
      /\ Held = count + 1
      /\ UNCHANGED <<hdat, count, files, cur, base, day>>
  BY Count DEF EpoOrderly, Checked, wvars, EpoInv, EpoTypes, Resumed, Held
<1>1. /\ \A i \in 1 .. count + 1 : hdat[i] = files[i - 1]
      /\ hdat[count + 1] = files[count] /\ (count > 0 => hdat[count] = files[count - 1])
  <2>1. \A i \in 1 .. count + 1 : hdat[i] = files[i - 1]
    BY <1>0 DEF EpoInv, Resumed
  <2>2. count + 1 \in 1 .. count + 1 /\ (count > 0 => count \in 1 .. count + 1)
    BY <1>0
  <2> QED BY <1>0, <2>1, <2>2
<1>2. \A i \in 1 .. count + 1 : hdat[i].whole /\ hdat[i].start \in Nat
  <2>1. \A i \in 1 .. count + 1 : hdat[i] \in Pieces
    BY <1>0 DEF EpoInv, EpoTypes
  <2> QED BY <1>0, <2>1 DEF EpoInv, Following, Pieces
<1>3. files[count].whole /\ (count > 0 => files[count - 1].whole)
  BY <1>0, <1>1, <1>2
<1>4. pc' = "advance"
  BY <1>0, <1>3 DEF Checked, Short, Goto
<1>5. hdat[count + 1].start = hdat[1].start + PieceDays * count
  <2>1. CASE count = 0
    BY <1>0, <1>2, <2>1 DEF PieceDays
  <2>2. CASE count > 0
    <3>1. PieceStart(cur) = hdat[count + 1].start /\ LastEnd = hdat[count].start + PieceDays
      BY <1>0, <1>1, <1>3, <2>2 DEF PieceStart, LastEnd, PieceEnd
    <3>2. hdat[count + 1].start >= hdat[count].start + PieceDays
      BY <1>0, <2>2 DEF EpoInv, Following
    <3>3. hdat[count].start = hdat[1].start + PieceDays * (count - 1)
      BY <1>0, <2>2 DEF EpoInv, Following
    <3>4. hdat[count + 1].start \in Nat /\ hdat[count].start \in Nat /\ hdat[1].start \in Nat
      BY <1>0, <1>2, <2>2
    <3> QED BY <1>0, <3>1, <3>2, <3>3, <3>4 DEF IsChanged, PieceDays
  <2> QED BY <1>0, <2>1, <2>2
<1>6. EpoTypes' /\ Resumed'
  BY <1>0, <1>4 DEF EpoInv, EpoTypes, Resumed, Held
<1>7. Following'
  <2>1. \A i \in 1 .. count + 1 : hdat[i].start = hdat[1].start + PieceDays * (i - 1)
    <3> TAKE i \in 1 .. count + 1
    <3>1. CASE i = count + 1
      BY <1>0, <1>5, <3>1
    <3>2. CASE i # count + 1
      BY <1>0, <3>2 DEF EpoInv, Following
    <3> QED BY <3>1, <3>2
  <2> QED BY <1>0, <1>4, <2>1 DEF EpoInv, Following
<1> QED BY <1>6, <1>7 DEF EpoInv

(* The piece just fetched is counted.                                      *)
LEMMA AdvanceKeeps == EpoOrderly /\ EpoInv /\ Advance => EpoInv'
<1> SUFFICES ASSUME EpoOrderly, EpoInv, Advance PROVE EpoInv'
  OBVIOUS
<1>1. /\ pc = "advance" /\ pc' = "after" /\ count' = count + 1 /\ count + 1 < PieceCount
      /\ count \in Nat /\ PieceCount \in Nat
      /\ UNCHANGED <<hdat, files, cur, base, day>>
  BY Count DEF EpoOrderly, Advance, Goto, wvars, EpoInv, EpoTypes
<1>2. EpoTypes'
  BY <1>1 DEF EpoInv, EpoTypes
<1>3. Held' = Held
  BY <1>1 DEF Held
<1>4. Resumed'
  BY <1>1, <1>3 DEF EpoInv, Resumed
<1>5. Following'
  BY <1>1 DEF EpoInv, Following
<1> QED BY <1>2, <1>4, <1>5 DEF EpoInv

(* The piece that fails is none of those the file holds.                   *)
LEMMA FetchFailsKeeps == EpoOrderly /\ EpoInv /\ FetchFails => EpoInv'
<1> SUFFICES ASSUME EpoOrderly, EpoInv, FetchFails PROVE EpoInv'
  OBVIOUS
<1>1. /\ pc = "fetch" /\ pc' = "after" /\ cur = count /\ files' = [files EXCEPT ![cur] = None]
      /\ count \in Nat
      /\ UNCHANGED <<hdat, count, cur, base, day>>
  BY Count DEF EpoOrderly, FetchFails, Goto, wvars, EpoInv, EpoTypes, Resumed
<1>2. EpoTypes'
  BY <1>1, NoneIsPiece DEF EpoInv, EpoTypes
<1>3. \A i \in 1 .. count : files'[i - 1] = files[i - 1]
  BY <1>1 DEF EpoInv, EpoTypes
<1>4. Held' = count /\ Held = count
  BY <1>1 DEF Held
<1>5. Resumed'
  BY <1>1, <1>3, <1>4 DEF EpoInv, Resumed
<1>6. Following'
  BY <1>1 DEF EpoInv, Following
<1> QED BY <1>2, <1>5, <1>6 DEF EpoInv

(* Every step of the thread, the timer, the HAL and the world.             *)
LEMMA EpoStepInv == EpoOrderly /\ EpoInv /\ [EpoNext]_epovars => EpoInv'
<1> SUFFICES ASSUME EpoOrderly, EpoInv, [EpoNext]_epovars PROVE EpoInv'
  OBVIOUS
<1>0. /\ cur \in PieceSet /\ count \in PieceSet /\ 0 \in PieceSet /\ base \in Nat /\ day \in Nat
      /\ files \in [PieceSet -> Pieces] /\ hdat \in {hdat, <<>>}
  BY Count DEF EpoOrderly, EpoInv, EpoTypes, PieceSet
<1>1. CASE UNCHANGED epovars
  <2>1. Kept
    BY <1>0, <1>1 DEF epovars, tvars, wvars, Kept
  <2> QED BY <2>1, KeptKeeps
<1>2. CASE Begin \/ AfterFirst \/ AfterRetry \/ NoRetry \/ RetryPiece \/ Progress \/ WaitRetry
           \/ GiveUp \/ RoundEnds \/ Alarm
  <2>1. Kept
    BY <1>0, <1>2 DEF Begin, AfterFirst, AfterRetry, NoRetry, RetryPiece, Progress, WaitRetry, GiveUp,
       RoundEnds, Alarm, Goto, tvars, rvars, wvars, Kept
  <2> QED BY <2>1, KeptKeeps
<1>3. CASE FetchFails \/ FetchOK \/ StartOver \/ Checked \/ Advance
  BY <1>3, FetchFailsKeeps, FetchKeeps, StartOverKeeps, CheckedKeeps, AdvanceKeeps
<1>4. CASE Complete
  <2>1. [k \in PieceSet |-> None] \in [PieceSet -> Pieces]
    BY NoneIsPiece
  <2>2. Emptied
    BY <1>0, <1>4, <2>1 DEF Complete, Goto, wvars, Emptied
  <2> QED BY <2>2, EmptiedKeeps
<1>5. CASE RetryAll \/ WifiDownload \/ StartMissing \/ StartExpired \/ Restart
  <2>1. Emptied
    BY <1>0, <1>5 DEF RetryAll, WifiDownload, StartMissing, StartExpired, Restart, Request, Undisturbed,
       EpoOrderly, Goto, tvars, wvars, Emptied
  <2> QED BY <2>1, EmptiedKeeps
<1>6. CASE StartFresh \/ StartPlain \/ Stop \/ MnldTakes \/ Network \/ NextDay \/ ServerUpdates
  <2>1. day' \in Nat /\ base' \in Nat /\ base' >= base
    BY <1>0, <1>6 DEF StartFresh, StartPlain, Stop, MnldTakes, Network, NextDay, ServerUpdates, wvars
  <2>2. UNCHANGED <<pc, cur, hdat, count, files>>
    BY <1>6 DEF StartFresh, StartPlain, Stop, MnldTakes, Network, NextDay, ServerUpdates, tvars
  <2>3. Kept
    BY <1>0, <2>1, <2>2 DEF Kept
  <2> QED BY <2>3, KeptKeeps
<1>7. CASE UpdateDone
  <2>1. UNCHANGED <<pc, cur, count, files, base, day>> /\ pc \notin {"fetch", "check", "advance"}
    BY <1>7 DEF UpdateDone, Undisturbed, EpoOrderly, tvars, wvars
  <2>2. CASE hdat' = hdat
    <3>1. Kept
      BY <1>0, <2>1, <2>2 DEF Kept
    <3> QED BY <3>1, KeptKeeps
  <2>3. CASE hdat' # hdat
    <3>1. Emptied
      BY <1>0, <1>7, <2>1, <2>3 DEF UpdateDone, Emptied
    <3> QED BY <3>1, EmptiedKeeps
  <2> QED BY <2>2, <2>3
<1> QED BY <1>1, <1>2, <1>3, <1>4, <1>5, <1>6, <1>7 DEF EpoNext, EpoThread, Hal, World

(* But for the piece being checked, EPOHAL.DAT holds whole pieces one after*)
(* the other, for any number of pieces, failures, retries, restarts and    *)
(* changes of the server's data.                                           *)
THEOREM FileInOrder == ASSUME EpoOrderly PROVE EpoSpec => []PiecesInOrder
<1>1. EpoInv => PiecesInOrder
  BY DEF EpoInv, Following, PiecesInOrder
<1> QED BY EpoInitInv, EpoStepInv, <1>1, PTL DEF EpoSpec

(* A download goes on with the piece after those the file holds.           *)
THEOREM DownloadResumes == ASSUME EpoOrderly PROVE EpoSpec => []ResumesInPlace
<1>1. EpoInv => ResumesInPlace
  BY DEF EpoInv, EpoTypes, Resumed, Held, ResumesInPlace
<1> QED BY EpoInitInv, EpoStepInv, <1>1, PTL DEF EpoSpec

-----------------------------------------------------------------------------
(* The AT test *)

Test ==
  [flag : BOOLEAN, signal : BOOLEAN, begin : BOOLEAN,
   state : {"unknown", "inprogress", "done", "result"}, usb : BOOLEAN, num : Nat,
   room : {"none", "live", "freed"}, late : BOOLEAN, success : Nat, failure : Nat,
   prev : Nat, wait : Nat]

(* RoomIsLive, of a test s; a signal test that has begun is a signal test, *)
(* so that the reader ends no test that nobody made room for.              *)
InTest(s) == s.flag \/ s.signal \/ s.state # "unknown"
Live(s) == (InTest(s) => s.room = "live") /\ (s.begin => s.signal)

AtInv == t \in Test /\ Live(t)

(* A stop that gets through frees the room and forgets the test at once,   *)
(* any other changes neither.                                              *)
LEMMA StopKeeps ==
  ASSUME NEW s \in Test, Live(s), NEW end
  PROVE  TestStop(s, end) \in Test /\ Live(TestStop(s, end))
<1> DEFINE q == [s EXCEPT !.usb = FALSE]
           r == Freed(q.room)
           e == [q EXCEPT !.num = 0, !.flag = FALSE, !.signal = FALSE, !.begin = FALSE,
                          !.state = "unknown", !.success = 0, !.wait = 0, !.room = r]
<1>1. TestStop(s, end) = IF end # "told" THEN q ELSE e
  BY DEF TestStop
<1>2. q \in Test /\ Live(q)
  BY DEF Test, Live, InTest
<1>3. r \in {"none", "live", "freed"}
  BY DEF Freed
<1> HIDE DEF q, r
<1>4. e \in Test /\ Live(e)
  BY <1>2, <1>3 DEF Test, Live, InTest
<1> QED BY <1>1, <1>2, <1>4

(* A start makes new room before it sets a mode.                           *)
LEMMA StartKeeps ==
  ASSUME NEW s \in Test, Live(s), NEW num \in Nat, NEW signal \in BOOLEAN, NEW end, NEW sent
  PROVE  /\ TestStart(s, num, signal, end, sent) \in Test
         /\ Live(TestStart(s, num, signal, end, sent))
<1> DEFINE o == IF s.state # "unknown" /\ ~s.usb THEN TestStop(s, end) ELSE s
           q == [o EXCEPT !.num = num, !.room = "live", !.late = FALSE]
           p == IF signal THEN [q EXCEPT !.signal = TRUE] ELSE [q EXCEPT !.flag = TRUE]
           a == [p EXCEPT !.state = "inprogress"]
           b == [p EXCEPT !.state = "unknown", !.flag = FALSE]
<1>1. TestStart(s, num, signal, end, sent) \in {q, a, b, p}
  BY DEF TestStart, Prepared
<1>2. o \in Test /\ Live(o)
  BY StopKeeps
<1> HIDE DEF o
<1>3. q \in Test /\ q.room = "live" /\ (q.begin => q.signal)
  BY <1>2 DEF Test, Live, InTest
<1> HIDE DEF q
<1>4. p \in Test /\ p.room = "live" /\ (p.begin => p.signal)
  BY <1>3 DEF Test
<1> HIDE DEF p
<1>5. /\ a \in Test /\ a.room = "live" /\ (a.begin => a.signal)
      /\ b \in Test /\ b.room = "live" /\ (b.begin => b.signal)
  BY <1>4 DEF Test
<1> HIDE DEF a, b
<1> QED BY <1>1, <1>3, <1>4, <1>5 DEF Live

(* What an AT command does before all else.                                *)
LEMMA CommandKeeps ==
  ASSUME NEW s \in Test, Live(s)
  PROVE  /\ Usb(s) \in Test /\ Live(Usb(s))
         /\ Reset(s) \in Test /\ Live(Reset(s))
<1>1. Usb(s) \in Test /\ Live(Usb(s))
  BY DEF Usb, Test, Live, InTest
<1> DEFINE u == Usb(s)
<1> HIDE DEF u
<1>2. Reset(s) = [u EXCEPT !.success = 0] /\ u \in Test /\ Live(u)
  BY <1>1 DEF Reset, u
<1>3. [u EXCEPT !.success = 0] \in Test /\ Live([u EXCEPT !.success = 0])
  BY <1>2 DEF Test, Live, InTest
<1> QED BY <1>1, <1>2, <1>3

(* A GSV set is looked at only in a test, for which there is room.         *)
LEMMA ProcKeeps ==
  ASSUME NEW s \in Test, Live(s), NEW heard \in BOOLEAN
  PROVE  TestProc(s, heard) \in Test /\ Live(TestProc(s, heard))
<1> DEFINE q == IF s.signal THEN [s EXCEPT !.state = IF s.begin THEN "result" ELSE "inprogress"]
                ELSE s
           k == q.success + 1
           e == [q EXCEPT !.success = k]
<1>1. TestProc(s, heard) \in {s, q, e}
  BY DEF TestProc, Search
<1>2. q \in Test /\ Live(q)
  BY DEF Test, Live, InTest
<1> HIDE DEF q
<1>3. k \in Nat
  BY <1>2 DEF Test
<1> HIDE DEF k
<1>4. e \in Test /\ Live(e)
  BY <1>2, <1>3 DEF Test, Live, InTest
<1> HIDE DEF e
<1> QED BY <1>1, <1>2, <1>4

(* The end of a test: its stop, of a test that is on.                      *)
LEMMA EndedKeeps ==
  ASSUME NEW s \in Test, Live(s), InTest(s), NEW end
  PROVE  Ended(s, end) \in Test /\ Live(Ended(s, end))
<1> DEFINE q == [s EXCEPT !.wait = 0, !.state = "done"]
           p == TestStop(q, end)
           e == [p EXCEPT !.failure = 0, !.prev = 0]
<1>1. Ended(s, end) \in {q, e}
  BY DEF Ended
<1>2. q \in Test /\ Live(q)
  BY DEF Test, Live, InTest
<1> HIDE DEF q
<1>3. p \in Test /\ Live(p)
  BY <1>2, StopKeeps
<1> HIDE DEF p
<1>4. e \in Test /\ Live(e)
  BY <1>3 DEF Test, Live, InTest
<1> HIDE DEF e
<1> QED BY <1>1, <1>2, <1>4

(* The end of a read, in a test.                                           *)
LEMMA EvaluateKeeps ==
  ASSUME NEW s \in Test, Live(s), InTest(s), NEW end
  PROVE  Evaluate(s, end) \in Test /\ Live(Evaluate(s, end))
<1> DEFINE f == Failed(s)
           p == s.success
           w == s.wait + 1
           q == [s EXCEPT !.failure = f, !.prev = p]
           r == [s EXCEPT !.wait = w, !.prev = 0]
<1>1. Evaluate(s, end) \in {Ended(q, end), q, Ended(r, end), r}
  BY DEF Evaluate
<1>2. f \in Nat /\ p \in Nat /\ w \in Nat
  BY DEF Failed, Test
<1> HIDE DEF f, p, w
<1>3. q \in Test /\ Live(q) /\ InTest(q)
  BY <1>2 DEF Test, Live, InTest
<1>4. r \in Test /\ Live(r) /\ InTest(r)
  BY <1>2 DEF Test, Live, InTest
<1> HIDE DEF q, r
<1>5. /\ Ended(q, end) \in Test /\ Live(Ended(q, end))
      /\ Ended(r, end) \in Test /\ Live(Ended(r, end))
  BY <1>3, <1>4, EndedKeeps
<1> QED BY <1>1, <1>3, <1>4, <1>5

-----------------------------------------------------------------------------
(* The invariant *)

(* No test is on at the beginning.                                         *)
LEMMA AtInitInv == AtInit => AtInv
BY DEF AtInit, AtInv, Test, Live, InTest

(* Every step, one by one.                                                 *)
LEMMA AtStepInv == AtInv /\ [AtNext]_atvars => AtInv'
<1> SUFFICES ASSUME AtInv, [AtNext]_atvars PROVE t' \in Test /\ Live(t')
  BY DEF AtInv, Live, InTest
<1>0. t \in Test /\ Live(t)
  BY DEF AtInv
<1>1. /\ Usb(t) \in Test /\ Live(Usb(t)) /\ Reset(t) \in Test /\ Live(Reset(t))
      /\ Nums \subseteq Nat
  BY <1>0, CommandKeeps, AtAssumption DEF Nums
<1>2. CASE GpsNum
  <2>1. PICK num \in Nums, end \in Outcomes, sent \in Outcomes :
          t' \in {Usb(t), TestStart(Usb(t), num, FALSE, end, sent)}
    BY <1>2 DEF GpsNum
  <2> QED BY <1>1, <2>1, StartKeeps
<1>3. CASE GnssNum
  <2>1. PICK num \in Nums, end \in Outcomes, sent \in Outcomes :
          t' \in {Reset(t), TestStart(Reset(t), num, FALSE, end, sent)}
    BY <1>3 DEF GnssNum
  <2> QED BY <1>1, <2>1, StartKeeps
<1>4. CASE GnssSignalNum
  <2> DEFINE u == Reset(t)
             b == [u EXCEPT !.begin = TRUE, !.state = "inprogress", !.late = FALSE]
  <2>1. t' = b \/ \E end \in Outcomes : t' \in {u, TestStop(u, end)}
    BY <1>4 DEF GnssSignalNum
  <2>2. u \in Test /\ Live(u) /\ u.signal
    BY <1>0, <1>1, <1>4 DEF GnssSignalNum, Reset, Usb, Test
  <2> HIDE DEF u
  <2>3. b \in Test /\ Live(b)
    BY <2>2 DEF Test, Live, InTest
  <2> HIDE DEF b
  <2> QED BY <2>1, <2>2, <2>3, StopKeeps
<1>5. CASE GnssS
  <2> DEFINE u == Usb(t)
             g == [u EXCEPT !.signal = TRUE, !.flag = FALSE]
  <2>1. PICK end \in Outcomes, sent \in Outcomes :
          t' = IF t.flag THEN g ELSE TestStart(u, 0, TRUE, end, sent)
    BY <1>5 DEF GnssS
  <2>2. u \in Test /\ Live(u) /\ (t.flag => u.flag)
    BY <1>0, <1>1 DEF Usb, Test
  <2> HIDE DEF u
  <2>3. t.flag => g \in Test /\ Live(g)
    BY <2>2 DEF Test, Live, InTest
  <2> HIDE DEF g
  <2> QED BY <2>1, <2>2, <2>3, StartKeeps
<1>6. CASE GnssE
  <2>1. PICK end \in Outcomes : t' \in {Usb(t), TestStop(Usb(t), end)}
    BY <1>6 DEF GnssE
  <2> QED BY <1>1, <2>1, StopKeeps
<1>7. CASE Ask
  BY <1>1, <1>7 DEF Ask
<1>8. CASE ApiStart
  <2>1. PICK num \in Nums, signal \in BOOLEAN, end \in Outcomes, sent \in Outcomes :
          t' = TestStart(t, num, signal, end, sent)
    BY <1>8 DEF ApiStart
  <2> QED BY <1>0, <1>1, <2>1, StartKeeps
<1>9. CASE ApiStop
  <2>1. PICK end \in Outcomes : t' = TestStop(t, end)
    BY <1>9 DEF ApiStop
  <2> QED BY <1>0, <2>1, StopKeeps
<1>10. CASE GsvSet
  <2>1. PICK heard \in BOOLEAN : t' \in {t, TestProc(t, heard)}
    BY <1>10 DEF GsvSet
  <2> QED BY <1>0, <2>1, ProcKeeps
<1>11. CASE ReadEnds
  <2>1. PICK end \in Outcomes : t' = IF Testing(t) /\ t.late THEN Evaluate(t, end) ELSE t
    BY <1>11 DEF ReadEnds
  <2>2. Testing(t) => InTest(t)
    BY <1>0 DEF Testing, Live, InTest
  <2> QED BY <1>0, <2>1, <2>2, EvaluateKeeps
<1>12. CASE TwoSeconds
  BY <1>0, <1>12 DEF TwoSeconds, Test, Live, InTest
<1>13. CASE UNCHANGED atvars
  BY <1>0, <1>13 DEF atvars
<1> QED
  BY <1>2, <1>3, <1>4, <1>5, <1>6, <1>7, <1>8, <1>9, <1>10, <1>11, <1>12, <1>13
  DEF AtNext, Command

(* In whatever order tests are started, changed, refused and stopped, with *)
(* any number of samples in a read: Dev_CNr is live while a sample may be  *)
(* stored, and a stop that asks for a state other than unknown frees it    *)
(* once.                                                                   *)
THEOREM SamplesHaveRoom == AtSpec => []RoomIsLive
<1>1. AtInv => RoomIsLive
  BY DEF AtInv, Live, InTest, RoomIsLive
<1> QED BY AtInitInv, AtStepInv, <1>1, PTL DEF AtSpec

-----------------------------------------------------------------------------
(* NMEA reader.  What the device writes and what the reader consists of.   *)
Sentence ==
       [type : {"long", "ACCURACY"}]
  \cup [type : {"GGA", "RMC"}, fixed : BOOLEAN]
  \cup [type : {"GSA"}, fixed : BOOLEAN, ids : Seq(Nat)]
  \cup [type : {"GSV"}, num : Nat, seq : Nat, cnt : Nat, ids : Seq(Nat)]

Piece == Sentence \X Nat

Fields == {"in", "overflow", "fixed", "flags", "sv_count", "num_svs", "list", "used",
           "report", "lost", "mixed"}

IsReader(p) == DOMAIN p = Fields /\ p.in \in Seq(Piece)

NmeaInv ==
  /\ lines \in Seq(Sentence) /\ cut \in Nat
  /\ lines # <<>> => cut < Len(PiecesOf(Head(lines)))
  /\ lines = <<>> => cut = 0
  /\ fifo \in Seq(Piece)
  /\ IsReader(reader)
  /\ NothingHeldBack

(* A text that was read to its end and parsed leaves nothing behind.       *)
Settled(p) == p.in = <<>> /\ ~p.lost => p.num_svs = 0 /\ (p.fixed => p.flags = {})

-----------------------------------------------------------------------------
(* Induction over the natural numbers, for a set.                          *)
LEMMA SetInduction ==
  ASSUME NEW T, 0 \in T, \A n \in Nat : n \in T => n + 1 \in T
  PROVE  \A n \in Nat : n \in T
<1> SUFFICES ASSUME NEW m \in Nat, m \notin T PROVE FALSE
  OBVIOUS
<1> DEFINE B == {n \in Nat : n \notin T}
<1>1. B \subseteq Nat /\ B # {}
  OBVIOUS
<1>2. \E x \in B : \A y \in B : ~ (<<y, x>> \in OpToRel(<, Nat))
  <2> HIDE DEF B
  <2> QED BY <1>1, WFMin, NatLessThanWellFounded
<1>3. PICK x \in B : \A y \in B : ~ (<<y, x>> \in OpToRel(<, Nat))
  BY <1>2
<1>4. \A y \in B : ~ (y < x)
  BY <1>1, <1>3 DEF OpToRel
<1>5. x \in Nat /\ x \notin T /\ x # 0
  BY <1>3
<1>6. x - 1 \in Nat /\ x - 1 < x /\ x - 1 + 1 = x
  BY <1>5
<1>7. x - 1 \in T
  BY <1>4, <1>6
<1> QED BY <1>5, <1>6, <1>7

(* The loop over the satellites of a sentence: after idx of them.          *)
Updates(p, ids, n, f) ==
  f = [idx \in 0 .. n |-> IF idx = 0 THEN p ELSE UpdateSvStatus(f[idx - 1], ids[idx])]

(* It runs to any length ...                                               *)
LEMMA UpdatesExist ==
  ASSUME NEW p, NEW ids, NEW n \in Nat
  PROVE  \E f : Updates(p, ids, n, f)
<1> DEFINE T == {m \in Nat : \E f : Updates(p, ids, m, f)}
<1>1. 0 \in T
  <2>1. Updates(p, ids, 0, [idx \in 0 .. 0 |-> p])
    <3>1. \A idx \in 0 .. 0 : idx = 0
      OBVIOUS
    <3> QED BY <3>1 DEF Updates
  <2> QED BY <2>1
<1>2. ASSUME NEW m \in Nat, m \in T PROVE m + 1 \in T
  <2>1. PICK f : Updates(p, ids, m, f)
    BY <1>2
  <2> DEFINE last == UpdateSvStatus(f[m], ids[m + 1])
             g == [idx \in 0 .. m + 1 |-> IF idx = m + 1 THEN last ELSE f[idx]]
  <2>2. ASSUME NEW idx \in 0 .. m + 1
        PROVE  g[idx] = IF idx = 0 THEN p ELSE UpdateSvStatus(g[idx - 1], ids[idx])
    <3>1. CASE idx = m + 1
      <4>1. idx # 0 /\ idx - 1 = m /\ m \in 0 .. m + 1 /\ m # m + 1
        BY <3>1
      <4>2. g[idx - 1] = f[m]
        BY <4>1
      <4>3. g[idx] = last
        BY <3>1
      <4> QED BY <3>1, <4>1, <4>2, <4>3, Zenon
    <3>2. CASE idx # m + 1
      <4>1. idx \in 0 .. m /\ (idx # 0 => idx - 1 \in 0 .. m + 1 /\ idx - 1 # m + 1)
        BY <3>2
      <4>2. g[idx] = f[idx] /\ (idx # 0 => g[idx - 1] = f[idx - 1])
        BY <3>2, <4>1, Zenon
      <4>3. f[idx] = IF idx = 0 THEN p ELSE UpdateSvStatus(f[idx - 1], ids[idx])
        BY <2>1, <4>1, Zenon DEF Updates
      <4> HIDE DEF g
      <4> QED BY <4>2, <4>3, Zenon
    <3> QED BY <3>1, <3>2
  <2>3. Updates(p, ids, m + 1, g)
    <3>1. g = [idx \in 0 .. m + 1 |-> g[idx]]
      OBVIOUS
    <3> HIDE DEF g
    <3> QED BY <2>2, <3>1, Zenon DEF Updates
  <2> QED BY <2>3
<1>3. \A m \in Nat : m \in T
  <2> HIDE DEF T
  <2> QED BY <1>1, <1>2, SetInduction
<1> QED BY <1>3

(* ... and changes no more than the entries of the reader.                 *)
LEMMA AllUpdatedKeepsFields ==
  ASSUME NEW p, NEW ids, Len(ids) \in Nat
  PROVE  DOMAIN AllUpdated(p, ids) = DOMAIN p
<1> DEFINE n == Len(ids)
           c == CHOOSE f : Updates(p, ids, n, f)
<1>1. Updates(p, ids, n, c)
  BY UpdatesExist, Zenon
<1>2. AllUpdated(p, ids) = c[n]
  BY Zenon DEF AllUpdated, Updates
<1> HIDE DEF c
<1> DEFINE T == {i \in Nat : i <= n => DOMAIN c[i] = DOMAIN p}
<1>3. 0 \in T
  <2>1. c[0] = p
    BY <1>1 DEF Updates
  <2> QED BY <2>1
<1>4. ASSUME NEW i \in Nat, i \in T PROVE i + 1 \in T
  <2> SUFFICES ASSUME i + 1 <= n PROVE DOMAIN c[i + 1] = DOMAIN p
    OBVIOUS
  <2>1. i + 1 \in 0 .. n /\ i + 1 # 0 /\ i + 1 - 1 = i
    OBVIOUS
  <2>2. \A idx \in 0 .. n :
          c[idx] = IF idx = 0 THEN p ELSE UpdateSvStatus(c[idx - 1], ids[idx])
    BY <1>1, Zenon DEF Updates
  <2>3. DOMAIN c[i] = DOMAIN p
    BY <1>4
  <2>4. \A q, id : DOMAIN UpdateSvStatus(q, id) = DOMAIN q
    BY DEF UpdateSvStatus
  <2>5. c[i + 1] = UpdateSvStatus(c[i], ids[i + 1])
    BY <2>1, <2>2
  <2> QED BY <2>3, <2>4, <2>5
<1>5. \A i \in Nat : i \in T
  <2> HIDE DEF T
  <2> QED BY <1>3, <1>4, SetInduction
<1> QED BY <1>2, <1>5

(* The same of the characters of a read.                                   *)
Feeds(p, buff, n, f) ==
  f = [nn \in 0 .. n |->
         IF nn = 0 THEN p ELSE Addc(f[nn - 1], buff[nn], nn = Len(buff))]

LEMMA FeedsExist ==
  ASSUME NEW p, NEW buff, NEW n \in Nat
  PROVE  \E f : Feeds(p, buff, n, f)
<1> DEFINE T == {m \in Nat : \E f : Feeds(p, buff, m, f)}
<1>1. 0 \in T
  <2>1. Feeds(p, buff, 0, [nn \in 0 .. 0 |-> p])
    <3>1. \A nn \in 0 .. 0 : nn = 0
      OBVIOUS
    <3> QED BY <3>1 DEF Feeds
  <2> QED BY <2>1
<1>2. ASSUME NEW m \in Nat, m \in T PROVE m + 1 \in T
  <2>1. PICK f : Feeds(p, buff, m, f)
    BY <1>2
  <2> DEFINE last == Addc(f[m], buff[m + 1], m + 1 = Len(buff))
             g == [nn \in 0 .. m + 1 |-> IF nn = m + 1 THEN last ELSE f[nn]]
  <2>2. ASSUME NEW nn \in 0 .. m + 1
        PROVE  g[nn] = IF nn = 0 THEN p ELSE Addc(g[nn - 1], buff[nn], nn = Len(buff))
    <3>1. CASE nn = m + 1
      <4>1. nn # 0 /\ nn - 1 = m /\ m \in 0 .. m + 1 /\ m # m + 1
        BY <3>1
      <4>2. g[nn - 1] = f[m]
        BY <4>1
      <4>3. g[nn] = last
        BY <3>1
      <4> QED BY <3>1, <4>1, <4>2, <4>3, Zenon
    <3>2. CASE nn # m + 1
      <4>1. nn \in 0 .. m /\ (nn # 0 => nn - 1 \in 0 .. m + 1 /\ nn - 1 # m + 1)
        BY <3>2
      <4>2. g[nn] = f[nn] /\ (nn # 0 => g[nn - 1] = f[nn - 1])
        BY <3>2, <4>1, Zenon
      <4>3. f[nn] = IF nn = 0 THEN p ELSE Addc(f[nn - 1], buff[nn], nn = Len(buff))
        BY <2>1, <4>1, Zenon DEF Feeds
      <4> HIDE DEF g
      <4> QED BY <4>2, <4>3, Zenon
    <3> QED BY <3>1, <3>2
  <2>3. Feeds(p, buff, m + 1, g)
    <3>1. g = [nn \in 0 .. m + 1 |-> g[nn]]
      OBVIOUS
    <3> HIDE DEF g
    <3> QED BY <2>2, <3>1, Zenon DEF Feeds
  <2> QED BY <2>3
<1>3. \A m \in Nat : m \in T
  <2> HIDE DEF T
  <2> QED BY <1>1, <1>2, SetInduction
<1> QED BY <1>3

-----------------------------------------------------------------------------
(* A sentence leaves the entries of the reader as they are ...             *)
LEMMA GsvKeepsFields ==
  ASSUME NEW p, NEW line \in Sentence, line.type = "GSV"
  PROVE  DOMAIN ParseGsv(p, line) = DOMAIN p
<1>1. line.seq \in Nat /\ line.cnt \in Nat /\ line.ids \in Seq(Nat)
  BY DEF Sentence
<1>2. Len(GsvIds(line)) \in Nat
  <2> DEFINE svbase == (line.seq - 1) * PerLine
             svnum == IF line.cnt - svbase > PerLine THEN PerLine ELSE line.cnt - svbase
  <2>1. svbase \in Int /\ PerLine \in Nat
    BY <1>1, NmeaAssumption
  <2>2. svbase + 1 \in Int /\ svbase + svnum \in Int
    BY <1>1, <2>1
  <2>3. GsvIds(line) = SubSeq(line.ids, svbase + 1, svbase + svnum)
    BY DEF GsvIds
  <2> HIDE DEF svbase, svnum
  <2> QED BY <1>1, <2>2, <2>3
<1>3. \A q : DOMAIN GsvEnds(q, line) = DOMAIN q
  BY DEF GsvEnds
<1>4. DOMAIN (IF line.seq = 1 THEN [p EXCEPT !.sv_count = 0] ELSE p) = DOMAIN p
  OBVIOUS
<1> QED BY <1>2, <1>3, <1>4, AllUpdatedKeepsFields, Zenon DEF ParseGsv

(* ... whatever its type is.                                               *)
ParsedBy(p, line) ==
  CASE line.type = "GGA" -> ParseGga(p, line)
    [] line.type = "GSA" -> ParseGsa(p, line)
    [] line.type = "RMC" -> ParseRmc(p, line)
    [] line.type = "GSV" -> ParseGsv(p, line)
    [] line.type = "ACCURACY" -> ParseAccuracy(p)
    [] OTHER -> p

LEMMA ParsedKeepsFields ==
  ASSUME NEW p, NEW line \in Sentence
  PROVE  DOMAIN ParsedBy(p, line) = DOMAIN p
<1>1. CASE line.type = "GGA"
  BY <1>1 DEF ParsedBy, ParseGga, Flagged
<1>2. CASE line.type = "GSA"
  BY <1>2 DEF ParsedBy, ParseGsa
<1>3. CASE line.type = "RMC"
  BY <1>3 DEF ParsedBy, ParseRmc, Flagged
<1>4. CASE line.type = "GSV"
  BY <1>4, GsvKeepsFields DEF ParsedBy
<1>5. CASE line.type = "ACCURACY"
  BY <1>5 DEF ParsedBy, ParseAccuracy, Flagged
<1>6. CASE line.type \notin {"GGA", "GSA", "RMC", "GSV", "ACCURACY"}
  BY <1>6 DEF ParsedBy
<1> QED BY <1>1, <1>2, <1>3, <1>4, <1>5, <1>6

(* The last sentence of a read is followed by the callbacks, which empty   *)
(* what was collected.                                                     *)
LEMMA ParseSettles ==
  ASSUME NEW p, DOMAIN p = Fields, NEW line \in Sentence, NEW end \in BOOLEAN
  PROVE  LET q == Parse(p, line, end)
         IN  /\ DOMAIN q = Fields
             /\ end => q.num_svs = 0 /\ (q.fixed => q.flags = {})
<1> DEFINE q0 == ParsedBy(p, line)
           q1 == Located(q0, end)
           q2 == Reported(q1, line, end)
<1>1. DOMAIN q0 = Fields
  BY ParsedKeepsFields
<1>2. Parse(p, line, end) = [q2 EXCEPT !.lost = FALSE]
  BY DEF Parse, ParsedBy
<1> HIDE DEF q0
<1>3. DOMAIN q1 = Fields /\ (end => (q1.fixed => q1.flags = {}))
  BY <1>1 DEF Located, Fields
<1> HIDE DEF q1
<1>4. /\ DOMAIN q2 = Fields /\ q2.fixed = q1.fixed /\ q2.flags = q1.flags
      /\ end => q2.num_svs = 0
  BY <1>3 DEF Reported, Fields
<1> HIDE DEF q2
<1>5. [q2 EXCEPT !.lost = FALSE].num_svs = q2.num_svs
      /\ [q2 EXCEPT !.lost = FALSE].fixed = q2.fixed
      /\ [q2 EXCEPT !.lost = FALSE].flags = q2.flags
      /\ DOMAIN [q2 EXCEPT !.lost = FALSE] = Fields
  BY <1>4 DEF Fields
<1> QED BY <1>2, <1>3, <1>4, <1>5

(* One character.  If it is the last one of a read, either a line is begun *)
(* and not ended, or the last one was lost, or it was parsed.              *)
LEMMA AddcSettles ==
  ASSUME NEW p, IsReader(p), NEW c \in Piece, NEW end \in BOOLEAN
  PROVE  LET q == Addc(p, c, end)
         IN  IsReader(q) /\ (end => Settled(q))
<1> DEFINE newline == Last(PiecesOf(c[1])) = c
           all == Append(p.in, c)
<1>1. DOMAIN p = Fields /\ p.in \in Seq(Piece) /\ all \in Seq(Piece) /\ all # <<>>
      /\ <<>> \in Seq(Piece)
  BY DEF IsReader
<1> HIDE DEF newline, all
<1>2. CASE p.overflow
  <2>1. Addc(p, c, end) = [p EXCEPT !.overflow = ~newline, !.lost = TRUE]
    BY <1>2 DEF Addc, newline
  <2> QED BY <1>1, <2>1 DEF IsReader, Fields, Settled
<1>3. CASE ~p.overflow /\ Len(p.in) >= NmeaMax
  <2>1. Addc(p, c, end) = [p EXCEPT !.overflow = TRUE, !.in = <<>>, !.lost = TRUE]
    BY <1>3 DEF Addc
  <2> QED BY <1>1, <2>1 DEF IsReader, Fields, Settled
<1>4. CASE ~p.overflow /\ ~(Len(p.in) >= NmeaMax) /\ ~newline
  <2>1. Addc(p, c, end) = [p EXCEPT !.in = all]
    BY <1>4 DEF Addc, newline, all
  <2> QED BY <1>1, <2>1 DEF IsReader, Fields, Settled
<1>5. CASE ~p.overflow /\ ~(Len(p.in) >= NmeaMax) /\ newline /\ ~Whole(all)
  <2>1. Addc(p, c, end) = [p EXCEPT !.in = <<>>, !.lost = TRUE]
    BY <1>5 DEF Addc, newline, all
  <2> QED BY <1>1, <2>1 DEF IsReader, Fields, Settled
<1>6. CASE ~p.overflow /\ ~(Len(p.in) >= NmeaMax) /\ newline /\ Whole(all)
  <2> DEFINE q == Parse(p, Tokens(all), end)
  <2>1. Addc(p, c, end) = [q EXCEPT !.in = <<>>]
    BY <1>6 DEF Addc, newline, all
  <2>2. Tokens(all) \in Sentence
    <3>1. all[1] \in Piece
      BY <1>1, EmptySeq
    <3> QED BY <3>1 DEF Piece, Tokens
  <2>3. DOMAIN q = Fields /\ (end => q.num_svs = 0 /\ (q.fixed => q.flags = {}))
    BY <1>1, <2>2, ParseSettles
  <2> HIDE DEF q
  <2> QED BY <1>1, <2>1, <2>3 DEF IsReader, Fields, Settled
<1> QED BY <1>2, <1>3, <1>4, <1>5, <1>6

(* A read.                                                                 *)
LEMMA ReadSettles ==
  ASSUME NEW p, IsReader(p), NEW buff \in Seq(Piece), buff # <<>>
  PROVE  IsReader(Fed(p, buff)) /\ Settled(Fed(p, buff))
<1> DEFINE n == Len(buff)
           c == CHOOSE f : Feeds(p, buff, n, f)
<1>0. n \in Nat /\ n # 0
  BY EmptySeq
<1>1. Feeds(p, buff, n, c)
  BY <1>0, FeedsExist, Zenon
<1>2. Fed(p, buff) = c[n]
  BY Zenon DEF Fed, Feeds
<1>3. \A nn \in 0 .. n : c[nn] = IF nn = 0 THEN p ELSE Addc(c[nn - 1], buff[nn], nn = n)
  BY <1>1, Zenon DEF Feeds
<1> HIDE DEF c
<1> DEFINE T == {i \in Nat : i <= n => IsReader(c[i])}
<1>4. ASSUME NEW i \in Nat, i + 1 <= n, IsReader(c[i])
      PROVE  IsReader(c[i + 1]) /\ (i + 1 = n => Settled(c[i + 1]))
  <2>1. i + 1 \in 0 .. n /\ i + 1 # 0 /\ i + 1 - 1 = i /\ i + 1 \in 1 .. Len(buff)
    BY <1>0, <1>4
  <2>2. c[i + 1] = Addc(c[i], buff[i + 1], i + 1 = n)
    BY <1>3, <2>1
  <2>3. buff[i + 1] \in Piece
    BY <2>1, ElementOfSeq
  <2>4. (i + 1 = n) \in BOOLEAN
    OBVIOUS
  <2> QED BY <1>4, <2>2, <2>3, <2>4, AddcSettles, Zenon
<1>5. 0 \in T
  BY <1>0, <1>3
<1>6. ASSUME NEW i \in Nat, i \in T PROVE i + 1 \in T
  BY <1>0, <1>4, <1>6
<1>7. \A i \in Nat : i \in T
  <2> HIDE DEF T
  <2> QED BY <1>5, <1>6, SetInduction
<1>8. n - 1 \in Nat /\ n - 1 + 1 = n /\ n - 1 + 1 <= n /\ n - 1 <= n
  BY <1>0
<1>9. IsReader(c[n - 1])
  BY <1>7, <1>8
<1>10. IsReader(c[n - 1 + 1]) /\ Settled(c[n - 1 + 1])
  BY <1>4, <1>8, <1>9
<1> QED BY <1>2, <1>8, <1>10

-----------------------------------------------------------------------------
(* The device writes sentences.                                            *)
LEMMA SvSentencesType ==
  ASSUME NEW ids \in Seq(Nat) PROVE SvSentences(ids) \in Seq(Sentence)
<1>1. Len(ids) \in Nat /\ PerLine \in Nat /\ PerLine > 0
  BY NmeaAssumption
<1>2. (Len(ids) + PerLine - 1) \div PerLine \in Nat
  BY <1>1
<1>3. \A seq \in Nat : Gsv(seq, ids) \in Sentence /\ Gsv(seq, ids).num = Gsv(1, ids).num
  BY <1>1, <1>2 DEF Gsv, Sentence
<1>4. Gsv(1, ids).num \in Nat
  BY <1>2 DEF Gsv
<1> DEFINE num == Gsv(1, ids).num
<1>5. SvSentences(ids) = [seq \in 1 .. num |-> Gsv(seq, ids)]
  BY DEF SvSentences
<1>6. \A seq \in 1 .. num : Gsv(seq, ids) \in Sentence
  BY <1>3, <1>4
<1> HIDE DEF num
<1>7. num \in Nat
  BY <1>4 DEF num
<1> QED BY <1>5, <1>6, <1>7

LEMMA SentencesType ==
  ASSUME NEW noise \in BOOLEAN, NEW fixed \in BOOLEAN, NEW ids \in Seq(Nat),
         NEW v \in Seq(Nat) \X Seq(Nat)
  PROVE  Sentences(noise, fixed, ids, v) \in Seq(Sentence)
<1>1. /\ Line("long") \in Sentence /\ Line("ACCURACY") \in Sentence
      /\ Fix("GGA", fixed) \in Sentence /\ Fix("RMC", fixed) \in Sentence
      /\ Gsa(fixed, ids) \in Sentence
  BY DEF Line, Fix, Gsa, Sentence
<1>2. SvSentences(v[1]) \in Seq(Sentence) /\ SvSentences(v[2]) \in Seq(Sentence)
  BY SvSentencesType
<1> DEFINE first == IF noise THEN <<Line("long")>> ELSE <<>>
<1>3. first \in Seq(Sentence)
  BY <1>1
<1>4. /\ <<Fix("GGA", fixed), Gsa(fixed, ids)>> \in Seq(Sentence)
      /\ <<Fix("RMC", fixed), Line("ACCURACY")>> \in Seq(Sentence)
  BY <1>1
<1> HIDE DEF first
<1>5. first \o <<Fix("GGA", fixed), Gsa(fixed, ids)>> \in Seq(Sentence)
  BY <1>3, <1>4
<1>6. first \o <<Fix("GGA", fixed), Gsa(fixed, ids)>> \o SvSentences(v[1])
        \in Seq(Sentence)
  BY <1>2, <1>5
<1>7. first \o <<Fix("GGA", fixed), Gsa(fixed, ids)>> \o SvSentences(v[1])
        \o SvSentences(v[2]) \in Seq(Sentence)
  BY <1>2, <1>6
<1> QED BY <1>4, <1>7 DEF Sentences, first

(* A sentence has at least two pieces, and these are pieces of it.         *)
LEMMA PiecesType ==
  ASSUME NEW line \in Sentence
  PROVE  /\ Len(PiecesOf(line)) \in Nat \ {0}
         /\ PiecesOf(line) \in Seq(Piece)
<1> DEFINE len == IF line.type = "long" THEN NmeaMax + 2 ELSE 2
<1>1. len \in Nat \ {0}
  BY NmeaAssumption
<1>2. PiecesOf(line) = [n \in 1 .. len |-> <<line, n>>]
  BY DEF PiecesOf
<1> HIDE DEF len
<1>3. \A n \in 1 .. len : <<line, n>> \in Piece
  BY <1>1 DEF Piece
<1> QED BY <1>1, <1>2, <1>3

-----------------------------------------------------------------------------
(* The steps.                                                              *)
LEMMA NmeaInitInv == NmeaInit => NmeaInv
<1> SUFFICES ASSUME NmeaInit PROVE NmeaInv
  OBVIOUS
<1>1. IsReader(reader) /\ reader.num_svs = 0 /\ reader.flags = {}
  BY DEF NmeaInit, IsReader, Fields
<1>2. lines = <<>> /\ cut = 0 /\ fifo = <<>>
  BY DEF NmeaInit
<1> QED BY <1>1, <1>2 DEF NmeaInv, NothingHeldBack

LEMMA SecondInv == NmeaInv /\ Second => NmeaInv'
<1> SUFFICES ASSUME NmeaInv, Second PROVE NmeaInv'
  OBVIOUS
<1>1. PICK noise \in BOOLEAN, fixed \in BOOLEAN, v \in Views, n \in 0 .. 2 :
        /\ n <= Len(v[1])
        /\ lines' = Sentences(noise, fixed, SubSeq(v[1], 1, n), v)
  BY DEF Second
<1>2. v \in Seq(Nat) \X Seq(Nat)
  BY NmeaAssumption
<1>3. SubSeq(v[1], 1, n) \in Seq(Nat)
  BY <1>1, <1>2
<1>4. lines' \in Seq(Sentence)
  BY <1>1, <1>2, <1>3, SentencesType
<1>5. cut = 0 /\ UNCHANGED <<cut, fifo, reader>>
  BY DEF Second, NmeaInv
<1>6. lines' # <<>> => cut' < Len(PiecesOf(Head(lines')))
  <2> SUFFICES ASSUME lines' # <<>> PROVE 0 < Len(PiecesOf(Head(lines')))
    BY <1>5
  <2>1. Head(lines') \in Sentence
    BY <1>4
  <2> QED BY <2>1, PiecesType
<1> QED BY <1>4, <1>5, <1>6 DEF NmeaInv, NothingHeldBack, IsReader

LEMMA WriteInv == NmeaInv /\ Write => NmeaInv'
<1> SUFFICES ASSUME NmeaInv, Write PROVE NmeaInv'
  OBVIOUS
<1> DEFINE pieces == PiecesOf(Head(lines))
<1>1. /\ lines # <<>> /\ lines \in Seq(Sentence) /\ Head(lines) \in Sentence
      /\ cut \in Nat /\ cut < Len(pieces) /\ fifo \in Seq(Piece)
  BY DEF NmeaInv, Write
<1>2. pieces \in Seq(Piece) /\ Len(pieces) \in Nat
  BY <1>1, PiecesType
<1>3. /\ fifo' = Append(fifo, pieces[cut + 1]) /\ UNCHANGED reader
      /\ \/ cut + 1 < Len(pieces) /\ cut' = cut + 1 /\ UNCHANGED lines
         \/ cut + 1 = Len(pieces) /\ cut' = 0 /\ lines' = Tail(lines)
  BY DEF Write
<1>4. fifo' \in Seq(Piece) /\ fifo' # <<>>
  <2>1. pieces[cut + 1] \in Piece
    <3> HIDE DEF pieces
    <3>1. cut + 1 \in 1 .. Len(pieces)
      BY <1>1, <1>2
    <3> QED BY <1>2, <3>1, ElementOfSeq
  <2> HIDE DEF pieces
  <2> QED BY <1>1, <1>3, <2>1
<1>5. /\ lines' \in Seq(Sentence) /\ cut' \in Nat
      /\ lines' # <<>> => cut' < Len(PiecesOf(Head(lines')))
      /\ lines' = <<>> => cut' = 0
  <2>1. CASE cut + 1 < Len(pieces) /\ cut' = cut + 1 /\ UNCHANGED lines
    BY <1>1, <2>1
  <2>2. CASE cut + 1 = Len(pieces) /\ cut' = 0 /\ lines' = Tail(lines)
    <3>1. lines' \in Seq(Sentence)
      BY <1>1, <2>2
    <3>2. ASSUME lines' # <<>> PROVE 0 < Len(PiecesOf(Head(lines')))
      <4>1. Head(lines') \in Sentence
        BY <3>1, <3>2
      <4> QED BY <4>1, PiecesType
    <3> QED BY <2>2, <3>1, <3>2
  <2> QED BY <1>3, <2>1, <2>2
<1>6. IsReader(reader')
  BY <1>3 DEF NmeaInv
<1> QED BY <1>4, <1>5, <1>6 DEF NmeaInv, NothingHeldBack, IsReader

LEMMA EventInv == NmeaInv /\ Event => NmeaInv'
<1> SUFFICES ASSUME NmeaInv, Event PROVE NmeaInv'
  OBVIOUS
<1>1. UNCHANGED <<lines, cut>>
  BY DEF Event
<1>2. CASE Interval > skipped + 1
  <2>1. fifo' = <<>> /\ reader' = [reader EXCEPT !.lost = TRUE, !.mixed = TRUE]
    BY <1>2 DEF Event
  <2>2. IsReader(reader') /\ reader'.lost
    BY <2>1 DEF NmeaInv, IsReader, Fields
  <2> QED BY <1>1, <2>1, <2>2 DEF NmeaInv, NothingHeldBack, IsReader
<1>3. CASE ~(Interval > skipped + 1)
  BY <1>1, <1>3 DEF Event, NmeaInv, NothingHeldBack, IsReader
<1> QED BY <1>2, <1>3

LEMMA ReadInv == NmeaInv /\ Read => NmeaInv'
<1> SUFFICES ASSUME NmeaInv, Read PROVE NmeaInv'
  OBVIOUS
<1>1. /\ IsReader(reader) /\ fifo \in Seq(Piece) /\ fifo # <<>>
      /\ reader' = Fed(reader, fifo) /\ fifo' = <<>> /\ UNCHANGED <<lines, cut>>
  BY DEF NmeaInv, Read
<1>2. IsReader(reader') /\ Settled(reader')
  BY <1>1, ReadSettles
<1> QED BY <1>1, <1>2 DEF NmeaInv, NothingHeldBack, Settled, IsReader

LEMMA SetCallbackInv == NmeaInv /\ SetCallback => NmeaInv'
<1> SUFFICES ASSUME NmeaInv, SetCallback PROVE NmeaInv'
  OBVIOUS
<1>1. /\ UNCHANGED <<lines, cut, fifo>>
      /\ reader' = [reader EXCEPT !.flags = {}, !.sv_count = 0, !.num_svs = 0,
                                   !.mixed = TRUE]
  BY DEF SetCallback
<1>2. IsReader(reader') /\ reader'.num_svs = 0 /\ reader'.flags = {}
  BY <1>1 DEF NmeaInv, IsReader, Fields
<1> QED BY <1>1, <1>2 DEF NmeaInv, NothingHeldBack, IsReader

LEMMA CmdRestartInv == NmeaInv /\ CmdRestart => NmeaInv'
<1> SUFFICES ASSUME NmeaInv, CmdRestart PROVE NmeaInv'
  OBVIOUS
<1>1. UNCHANGED <<lines, cut, fifo>> /\ reader' = [reader EXCEPT !.fixed = FALSE]
  BY DEF CmdRestart
<1>2. /\ IsReader(reader') /\ ~reader'.fixed
      /\ reader'.in = reader.in /\ reader'.lost = reader.lost
      /\ reader'.num_svs = reader.num_svs
  BY <1>1 DEF NmeaInv, IsReader, Fields
<1> QED BY <1>1, <1>2 DEF NmeaInv, NothingHeldBack, IsReader

LEMMA NmeaStepInv == NmeaInv /\ [NmeaNext]_nmeavars => NmeaInv'
<1> SUFFICES ASSUME NmeaInv, [NmeaNext]_nmeavars PROVE NmeaInv'
  OBVIOUS
<1>1. CASE UNCHANGED <<lines, cut, fifo, reader>>
  BY <1>1 DEF NmeaInv, NothingHeldBack, IsReader
<1>2. WouldBlock \/ CmdStop \/ UNCHANGED nmeavars => UNCHANGED <<lines, cut, fifo, reader>>
  BY DEF WouldBlock, CmdStop, nmeavars
<1> QED BY <1>1, <1>2, SecondInv, WriteInv, EventInv, ReadInv, SetCallbackInv, CmdRestartInv
        DEF NmeaNext

(* When all that the device wrote was read and its last line was parsed,   *)
(* no satellites and no fields of a fix wait for the next second: the      *)
(* callbacks of nmea_reader_parse take what was collected, however the     *)
(* text was cut into reads.                                                *)
THEOREM NothingLeftBehind == NmeaSpec => []NothingHeldBack
<1>1. NmeaInv => NothingHeldBack
  BY DEF NmeaInv
<1> QED BY <1>1, NmeaInitInv, NmeaStepInv, PTL DEF NmeaSpec
=============================================================================
