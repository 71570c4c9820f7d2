------------------------- MODULE WifiCommands_proofs -------------------------
(***************************************************************************)
(* Theorems about the commands of the Wifi HAL, for any number of objects, *)
(* any size of the command table and of the handler array.                 *)
(*                                                                         *)
(* The argument has four layers, each an invariant that rests on the ones  *)
(* before it: CountInv, the account of the references; RunInv, what start()*)
(* and the event loop may rely on while they work without a lock; PlanInv, *)
(* what start() and cancel() have still to do and which ids the framework  *)
(* knows; Handlers, who each handler belongs to.                           *)
(*                                                                         *)
(* All of it is for ~Overlap: two threads inside the command table at once *)
(* break it, as TLC shows.                                                 *)
(***************************************************************************)
EXTENDS WifiCommands, SequenceTheorems, WellFoundedInduction, TLAPS

Entries == [sub : Subs, cmd : Cmds]

(* A set of numbers that is not empty has a smallest member.               *)
LEMMA SmallestExists ==
  ASSUME NEW I, I \subseteq Nat, I # {}
  PROVE  Min(I) \in I
<1>1. \E x \in I : \A y \in I : ~ (<<y, x>> \in OpToRel(<, Nat))
  BY WFMin, NatLessThanWellFounded
<1>2. PICK x \in I : \A y \in I : ~ (<<y, x>> \in OpToRel(<, Nat))
  BY <1>1
<1>3. \A y \in I : ~ (y < x)
  BY <1>2 DEF OpToRel
<1>4. \A y \in I : x <= y
  BY <1>3
<1> QED BY <1>4 DEF Min

(* The search for the handler of an event: the index it finds is that of a *)
(* handler of the event, and it finds none only if there is none.          *)
LEMMA FirstHandler ==
  ASSUME event_cb \in Seq(Entries), NEW s
  PROVE  /\ HandlerOf(s) \in 0 .. Len(event_cb)
         /\ HandlerOf(s) # 0 => event_cb[HandlerOf(s)].sub = s
         /\ HandlerOf(s) = 0 => \A i \in DOMAIN event_cb : event_cb[i].sub # s
<1> DEFINE I == {i \in 1 .. Len(event_cb) : event_cb[i].sub = s}
<1>1. HandlerOf(s) = IF I # {} THEN Min(I) ELSE 0
  BY DEF HandlerOf, SelectInSeq
<1>2. I \subseteq Nat /\ Len(event_cb) \in Nat /\ DOMAIN event_cb = 1 .. Len(event_cb)
  OBVIOUS
<1>3. I # {} => Min(I) \in I
  <2> HIDE DEF I
  <2> QED BY <1>2, SmallestExists
<1>4. CASE I # {}
  <2>1. HandlerOf(s) \in I
    BY <1>1, <1>3, <1>4
  <2> QED BY <1>2, <2>1
<1>5. CASE I = {}
  BY <1>1, <1>2, <1>5
<1> QED BY <1>4, <1>5

(* The elements of a concatenation.                                        *)
LEMMA Concatenated ==
  ASSUME NEW S, NEW u \in Seq(S), NEW v \in Seq(S)
  PROVE  /\ u \o v \in Seq(S) /\ Len(u \o v) = Len(u) + Len(v)
         /\ \A j \in 1 .. Len(u) + Len(v) :
              (u \o v)[j] = IF j <= Len(u) THEN u[j] ELSE v[j - Len(u)]
OBVIOUS

(* What is left when one element is removed.                               *)
LEMMA RemovedElements ==
  ASSUME NEW S, NEW q \in Seq(S), NEW n \in 1 .. Len(q)
  PROVE  /\ RemoveAt(q, n) \in Seq(S) /\ Len(RemoveAt(q, n)) = Len(q) - 1
         /\ \A j \in 1 .. Len(q) - 1 :
              RemoveAt(q, n)[j] = q[IF j < n THEN j ELSE j + 1]
<1> DEFINE u == SubSeq(q, 1, n - 1)
           v == SubSeq(q, n + 1, Len(q))
<1>1. Len(q) \in Nat /\ n \in Nat /\ 1 <= n /\ n <= Len(q)
  OBVIOUS
<1>2. /\ u \in Seq(S) /\ Len(u) = n - 1 /\ \A i \in 1 .. n - 1 : u[i] = q[i]
  BY <1>1
<1>3. /\ v \in Seq(S) /\ Len(v) = Len(q) - n /\ \A i \in 1 .. Len(q) - n : v[i] = q[n + i]
  BY <1>1
<1>4. RemoveAt(q, n) = u \o v
  BY DEF RemoveAt
<1> HIDE DEF u, v
<1>5. /\ u \o v \in Seq(S) /\ Len(u \o v) = Len(u) + Len(v)
      /\ \A j \in 1 .. Len(u) + Len(v) : (u \o v)[j] = IF j <= Len(u) THEN u[j] ELSE v[j - Len(u)]
  BY <1>2, <1>3, Concatenated
<1>6. ASSUME NEW j \in 1 .. Len(q) - 1
      PROVE  (u \o v)[j] = q[IF j < n THEN j ELSE j + 1]
  <2>1. j \in 1 .. Len(u) + Len(v)
    BY <1>1, <1>2, <1>3
  <2>2. CASE j < n
    BY <1>1, <1>2, <1>5, <2>1, <2>2
  <2>3. CASE ~(j < n)
    <3>1. (u \o v)[j] = v[j - Len(u)] /\ j - Len(u) \in 1 .. Len(q) - n
      BY <1>1, <1>2, <1>5, <2>1, <2>3
    <3>2. v[j - Len(u)] = q[n + (j - Len(u))] /\ n + (j - Len(u)) = j + 1
      BY <1>1, <1>2, <1>3, <3>1
    <3> QED BY <2>3, <3>1, <3>2
  <2> QED BY <2>2, <2>3
<1> QED BY <1>1, <1>2, <1>3, <1>4, <1>5, <1>6

DistinctSubs(h) == \A i, j \in DOMAIN h : h[i].sub = h[j].sub => i = j

(* wifi_unregister_vendor_handler removes nothing but the handler of the   *)
(* event; if each event has one handler at most, none is left for it.      *)
LEMMA UnregisteredHandlers ==
  ASSUME event_cb \in Seq(Entries), NEW s
  PROVE  /\ Unregistered(s) \in Seq(Entries)
         /\ \A j \in DOMAIN Unregistered(s) :
              \E i \in DOMAIN event_cb : Unregistered(s)[j] = event_cb[i]
         /\ DistinctSubs(event_cb) =>
              /\ DistinctSubs(Unregistered(s))
              /\ \A j \in DOMAIN Unregistered(s) : Unregistered(s)[j].sub # s
<1> DEFINE n == HandlerOf(s)
           t == Unregistered(s)
<1>1. /\ n \in 0 .. Len(event_cb) /\ Len(event_cb) \in Nat
      /\ n # 0 => event_cb[n].sub = s
      /\ n = 0 => \A i \in DOMAIN event_cb : event_cb[i].sub # s
      /\ DOMAIN event_cb = 1 .. Len(event_cb)
  BY FirstHandler
<1>2. t = IF n = 0 THEN event_cb ELSE RemoveAt(event_cb, n)
  BY DEF Unregistered
<1> HIDE DEF n, t
<1>3. CASE n = 0
  <2>1. t = event_cb
    BY <1>2, <1>3
  <2> QED BY <1>1, <1>3, <2>1 DEF t
<1>4. CASE n # 0
  <2> DEFINE at(j) == IF j < n THEN j ELSE j + 1
  <2>0. n \in 1 .. Len(event_cb)
    BY <1>1, <1>4
  <2>1. /\ t \in Seq(Entries) /\ Len(t) = Len(event_cb) - 1
        /\ \A j \in 1 .. Len(event_cb) - 1 : t[j] = event_cb[at(j)]
    BY <1>2, <1>4, <2>0, RemovedElements
  <2>2. DOMAIN t = 1 .. Len(event_cb) - 1
    BY <2>1
  <2>3. \A j \in 1 .. Len(event_cb) - 1 : at(j) \in 1 .. Len(event_cb) /\ at(j) # n
    BY <1>1, <2>0
  <2>4. \A i, j \in 1 .. Len(event_cb) - 1 : at(i) = at(j) => i = j
    BY <1>1, <2>0
  <2> HIDE DEF at
  <2>5. \A j \in DOMAIN t : \E i \in DOMAIN event_cb : t[j] = event_cb[i]
    BY <1>1, <2>1, <2>2, <2>3
  <2>6. DistinctSubs(event_cb) => DistinctSubs(t) /\ \A j \in DOMAIN t : t[j].sub # s
    <3> SUFFICES ASSUME DistinctSubs(event_cb)
                 PROVE  DistinctSubs(t) /\ \A j \in DOMAIN t : t[j].sub # s
      OBVIOUS
    <3>1. \A i, j \in 1 .. Len(event_cb) : event_cb[i].sub = event_cb[j].sub => i = j
      BY <1>1 DEF DistinctSubs
    <3>2. \A i, j \in DOMAIN t : t[i].sub = t[j].sub => i = j
      <4> SUFFICES ASSUME NEW i \in DOMAIN t, NEW j \in DOMAIN t, t[i].sub = t[j].sub PROVE i = j
        OBVIOUS
      <4>1. event_cb[at(i)].sub = event_cb[at(j)].sub
        BY <2>1, <2>2
      <4> QED BY <2>2, <2>3, <2>4, <3>1, <4>1
    <3>3. \A j \in DOMAIN t : t[j].sub # s
      <4> SUFFICES ASSUME NEW j \in DOMAIN t, t[j].sub = s PROVE FALSE
        OBVIOUS
      <4>1. event_cb[at(j)].sub = event_cb[n].sub
        BY <1>1, <1>4, <2>1, <2>2
      <4> QED BY <2>0, <2>2, <2>3, <3>1, <4>1
    <3> QED BY <3>2, <3>3 DEF DistinctSubs
  <2> QED BY <2>1, <2>5, <2>6 DEF t
<1> QED BY <1>3, <1>4

(* The requests and registrations that start(), cancel() and the undoing   *)
(* of a registration are made of.                                          *)
Steps ==
  {t \in [op : {"ask", "register", "unregister"}, sub : Subs \cup {"none"},
          fail : {"none", "return", "go on", "undo"}] :
     t.op # "ask" => t.sub \in Subs /\ t.fail = "none"}

KindOf(s) ==
  IF s \in {"SCAN_RESULTS_AVAILABLE", "COMPLETE_SCAN", "FULL_SCAN_RESULTS"} THEN "scan"
  ELSE IF s \in {"HOTLIST_FOUND", "HOTLIST_LOST"} THEN "hotlist"
  ELSE IF s = "SIGNIFICANT_CHANGE" THEN "change"
  ELSE IF s = "ANQPO_MATCH" THEN "anqpo" ELSE "rtt"

StartShape(t, k) ==
  /\ \A i \in DOMAIN t :
       /\ t[i].op \in {"ask", "register"}
       /\ t[i].op = "register" => t[i].sub \in Subs /\ KindOf(t[i].sub) = k
       /\ t[i].fail = "undo" => k # "rtt"
  /\ \A i, j \in DOMAIN t : i < j =>
       /\ t[i].op = "register" => t[j].fail # "return" /\ k # "rtt"
       /\ t[i].op = "register" /\ t[j].op = "register" => t[i].sub # t[j].sub
UndoShape(t) == \A i \in DOMAIN t : t[i].op = "unregister"
CancelShape(t) ==
  /\ \A i \in DOMAIN t : t[i].op # "register" /\ t[i].fail # "undo"
  /\ \A i, j \in DOMAIN t : i < j /\ t[i].fail = "return" => t[j].op # "unregister"

(* The steps that the programs are made of.                                *)
LEMMA StepTypes ==
  /\ Ask \in Steps /\ Try \in Steps /\ Enable \in Steps
  /\ \A s \in Subs : Reg(s) \in Steps /\ Unreg(s) \in Steps
BY DEF Steps, Ask, Try, Enable, Reg, Unreg

(* ScanCommand::start, step by step.                                       *)
LEMMA ScanPrograms ==
  /\ StartScan \in Seq(Steps) /\ Len(StartScan) = 7
  /\ StartScan[1] = Ask /\ StartScan[2] = Ask /\ StartScan[3] = Ask
  /\ StartScan[4] = Reg("SCAN_RESULTS_AVAILABLE") /\ StartScan[5] = Reg("COMPLETE_SCAN")
  /\ StartScan[6] = Reg("FULL_SCAN_RESULTS") /\ StartScan[7] = Enable
<1> DEFINE a == <<Ask>>
           b == <<Reg("SCAN_RESULTS_AVAILABLE"), Reg("COMPLETE_SCAN"),
                  Reg("FULL_SCAN_RESULTS"), Enable>>
           c == a \o a
           d == c \o a
           e == d \o b
<1>0. /\ Ask \in Steps /\ Enable \in Steps /\ Reg("SCAN_RESULTS_AVAILABLE") \in Steps
      /\ Reg("COMPLETE_SCAN") \in Steps /\ Reg("FULL_SCAN_RESULTS") \in Steps
  BY StepTypes DEF Subs
<1>1. a \in Seq(Steps) /\ Len(a) = 1 /\ a[1] = Ask
  BY <1>0
<1>2. /\ b \in Seq(Steps) /\ Len(b) = 4 /\ b[1] = Reg("SCAN_RESULTS_AVAILABLE")
      /\ b[2] = Reg("COMPLETE_SCAN") /\ b[3] = Reg("FULL_SCAN_RESULTS") /\ b[4] = Enable
  BY <1>0
<1> HIDE DEF a, b
<1>3. c \in Seq(Steps) /\ Len(c) = 2 /\ c[1] = Ask /\ c[2] = Ask
  <2>1. /\ c \in Seq(Steps) /\ Len(c) = Len(a) + Len(a)
        /\ \A j \in 1 .. Len(a) + Len(a) :
             c[j] = IF j <= Len(a) THEN a[j] ELSE a[j - Len(a)]
    BY <1>1, Concatenated, Zenon
  <2> HIDE DEF c
  <2> QED BY <1>1, <2>1
<1> HIDE DEF c
<1>4. d \in Seq(Steps) /\ Len(d) = 3 /\ d[1] = Ask /\ d[2] = Ask /\ d[3] = Ask
  <2>1. /\ d \in Seq(Steps) /\ Len(d) = Len(c) + Len(a)
        /\ \A j \in 1 .. Len(c) + Len(a) :
             d[j] = IF j <= Len(c) THEN c[j] ELSE a[j - Len(c)]
    BY <1>1, <1>3, Concatenated, Zenon
  <2> HIDE DEF d
  <2> QED BY <1>1, <1>3, <2>1
<1> HIDE DEF d
<1>5. e \in Seq(Steps) /\ Len(e) = 7 /\ e[1] = Ask /\ e[2] = Ask /\ e[3] = Ask
      /\ e[4] = b[1] /\ e[5] = b[2] /\ e[6] = b[3] /\ e[7] = b[4]
  <2>1. /\ e \in Seq(Steps) /\ Len(e) = Len(d) + Len(b)
        /\ \A j \in 1 .. Len(d) + Len(b) :
             e[j] = IF j <= Len(d) THEN d[j] ELSE b[j - Len(d)]
    BY <1>2, <1>4, Concatenated, Zenon
  <2> HIDE DEF e
  <2> QED BY <1>2, <1>4, <2>1
<1>6. StartScan = e
  BY DEF StartScan, ScanSetup, ScanConfig, CreateFeature, a, b, c, d, e
<1> HIDE DEF e
<1> QED BY <1>2, <1>5, <1>6

(* BssidHotlistCommand::start, step by step.                               *)
LEMMA StartHotlistSteps ==
  /\ StartHotlist \in Seq(Steps) /\ Len(StartHotlist) = 5
  /\ StartHotlist[1] = Ask
  /\ StartHotlist[2] = Ask
  /\ StartHotlist[3] = Reg("HOTLIST_FOUND")
  /\ StartHotlist[4] = Reg("HOTLIST_LOST")
  /\ StartHotlist[5] = Enable
<1> DEFINE a == <<Ask>>
           b == <<Ask>>
           c == <<Reg("HOTLIST_FOUND"), Reg("HOTLIST_LOST"), Enable>>
           d == a \o b
           e == d \o c
<1>0. /\ Ask \in Steps
      /\ Reg("HOTLIST_FOUND") \in Steps
      /\ Reg("HOTLIST_LOST") \in Steps
      /\ Enable \in Steps
  BY StepTypes DEF Subs
<1>1. /\ a \in Seq(Steps) /\ Len(a) = 1
      /\ a[1] = Ask
  BY <1>0
<1>2. /\ b \in Seq(Steps) /\ Len(b) = 1
      /\ b[1] = Ask
  BY <1>0
<1>3. /\ c \in Seq(Steps) /\ Len(c) = 3
      /\ c[1] = Reg("HOTLIST_FOUND")
      /\ c[2] = Reg("HOTLIST_LOST")
      /\ c[3] = Enable
  BY <1>0
<1> HIDE DEF a, b, c
<1>4. /\ d \in Seq(Steps) /\ Len(d) = 2
      /\ d[1] = Ask
      /\ d[2] = Ask
  <2>1. /\ d \in Seq(Steps) /\ Len(d) = Len(a) + Len(b)
        /\ \A j \in 1 .. Len(a) + Len(b) :
             d[j] = IF j <= Len(a) THEN a[j] ELSE b[j - Len(a)]
    BY <1>1, <1>2, Concatenated, Zenon
  <2> HIDE DEF d
  <2> QED BY <1>1, <1>2, <2>1
<1> HIDE DEF d
<1>5. /\ e \in Seq(Steps) /\ Len(e) = 5
      /\ e[1] = Ask
      /\ e[2] = Ask
      /\ e[3] = Reg("HOTLIST_FOUND")
      /\ e[4] = Reg("HOTLIST_LOST")
      /\ e[5] = Enable
  <2>1. /\ e \in Seq(Steps) /\ Len(e) = Len(d) + Len(c)
        /\ \A j \in 1 .. Len(d) + Len(c) :
             e[j] = IF j <= Len(d) THEN d[j] ELSE c[j - Len(d)]
    BY <1>4, <1>3, Concatenated, Zenon
  <2> HIDE DEF e
  <2> QED BY <1>4, <1>3, <2>1
<1> HIDE DEF e
<1>6. StartHotlist = e
  BY DEF StartHotlist, HotlistSetup, CreateFeature, a, b, c, d, e
<1> QED BY <1>5, <1>6

(* SignificantWifiChangeCommand::start, step by step.                      *)
LEMMA StartChangeSteps ==
  /\ StartChange \in Seq(Steps) /\ Len(StartChange) = 4
  /\ StartChange[1] = Ask
  /\ StartChange[2] = Ask
  /\ StartChange[3] = Reg("SIGNIFICANT_CHANGE")
  /\ StartChange[4] = Enable
<1> DEFINE a == <<Ask>>
           b == <<Ask>>
           c == <<Reg("SIGNIFICANT_CHANGE"), Enable>>
           d == a \o b
           e == d \o c
<1>0. /\ Ask \in Steps
      /\ Reg("SIGNIFICANT_CHANGE") \in Steps
      /\ Enable \in Steps
  BY StepTypes DEF Subs
<1>1. /\ a \in Seq(Steps) /\ Len(a) = 1
      /\ a[1] = Ask
  BY <1>0
<1>2. /\ b \in Seq(Steps) /\ Len(b) = 1
      /\ b[1] = Ask
  BY <1>0
<1>3. /\ c \in Seq(Steps) /\ Len(c) = 2
      /\ c[1] = Reg("SIGNIFICANT_CHANGE")
      /\ c[2] = Enable
  BY <1>0
<1> HIDE DEF a, b, c
<1>4. /\ d \in Seq(Steps) /\ Len(d) = 2
      /\ d[1] = Ask
      /\ d[2] = Ask
  <2>1. /\ d \in Seq(Steps) /\ Len(d) = Len(a) + Len(b)
        /\ \A j \in 1 .. Len(a) + Len(b) :
             d[j] = IF j <= Len(a) THEN a[j] ELSE b[j - Len(a)]
    BY <1>1, <1>2, Concatenated, Zenon
  <2> HIDE DEF d
  <2> QED BY <1>1, <1>2, <2>1
<1> HIDE DEF d
<1>5. /\ e \in Seq(Steps) /\ Len(e) = 4
      /\ e[1] = Ask
      /\ e[2] = Ask
      /\ e[3] = Reg("SIGNIFICANT_CHANGE")
      /\ e[4] = Enable
  <2>1. /\ e \in Seq(Steps) /\ Len(e) = Len(d) + Len(c)
        /\ \A j \in 1 .. Len(d) + Len(c) :
             e[j] = IF j <= Len(d) THEN d[j] ELSE c[j - Len(d)]
    BY <1>4, <1>3, Concatenated, Zenon
  <2> HIDE DEF e
  <2> QED BY <1>4, <1>3, <2>1
<1> HIDE DEF e
<1>6. StartChange = e
  BY DEF StartChange, ChangeSetup, CreateFeature, a, b, c, d, e
<1> QED BY <1>5, <1>6

(* AnqpoConfigureCommand::start, step by step.                             *)
LEMMA StartAnqpoSteps ==
  /\ StartAnqpo \in Seq(Steps) /\ Len(StartAnqpo) = 3
  /\ StartAnqpo[1] = Ask
  /\ StartAnqpo[2] = Reg("ANQPO_MATCH")
  /\ StartAnqpo[3] = Enable
<1> DEFINE a == <<Ask>>
           b == <<Reg("ANQPO_MATCH"), Enable>>
           d == a \o b
<1>0. /\ Ask \in Steps
      /\ Reg("ANQPO_MATCH") \in Steps
      /\ Enable \in Steps
  BY StepTypes DEF Subs
<1>1. /\ a \in Seq(Steps) /\ Len(a) = 1
      /\ a[1] = Ask
  BY <1>0
<1>2. /\ b \in Seq(Steps) /\ Len(b) = 2
      /\ b[1] = Reg("ANQPO_MATCH")
      /\ b[2] = Enable
  BY <1>0
<1> HIDE DEF a, b
<1>3. /\ d \in Seq(Steps) /\ Len(d) = 3
      /\ d[1] = Ask
      /\ d[2] = Reg("ANQPO_MATCH")
      /\ d[3] = Enable
  <2>1. /\ d \in Seq(Steps) /\ Len(d) = Len(a) + Len(b)
        /\ \A j \in 1 .. Len(a) + Len(b) :
             d[j] = IF j <= Len(a) THEN a[j] ELSE b[j - Len(a)]
    BY <1>1, <1>2, Concatenated, Zenon
  <2> HIDE DEF d
  <2> QED BY <1>1, <1>2, <2>1
<1> HIDE DEF d
<1>4. StartAnqpo = d
  BY DEF StartAnqpo, AnqpoRequest, a, b, d
<1> QED BY <1>3, <1>4

(* RttCommand::start, step by step.                                        *)
LEMMA StartRttSteps ==
  /\ StartRtt \in Seq(Steps) /\ Len(StartRtt) = 2
  /\ StartRtt[1] = Ask
  /\ StartRtt[2] = Reg("RTT_COMPLETE")
<1> DEFINE a == <<Ask>>
           b == <<Reg("RTT_COMPLETE")>>
           d == a \o b
<1>0. /\ Ask \in Steps
      /\ Reg("RTT_COMPLETE") \in Steps
  BY StepTypes DEF Subs
<1>1. /\ a \in Seq(Steps) /\ Len(a) = 1
      /\ a[1] = Ask
  BY <1>0
<1>2. /\ b \in Seq(Steps) /\ Len(b) = 1
      /\ b[1] = Reg("RTT_COMPLETE")
  BY <1>0
<1> HIDE DEF a, b
<1>3. /\ d \in Seq(Steps) /\ Len(d) = 2
      /\ d[1] = Ask
      /\ d[2] = Reg("RTT_COMPLETE")
  <2>1. /\ d \in Seq(Steps) /\ Len(d) = Len(a) + Len(b)
        /\ \A j \in 1 .. Len(a) + Len(b) :
             d[j] = IF j <= Len(a) THEN a[j] ELSE b[j - Len(a)]
    BY <1>1, <1>2, Concatenated, Zenon
  <2> HIDE DEF d
  <2> QED BY <1>1, <1>2, <2>1
<1> HIDE DEF d
<1>4. StartRtt = d
  BY DEF StartRtt, RttSetup, a, b, d
<1> QED BY <1>3, <1>4

(* BssidHotlistCommand::cancel, step by step.                              *)
LEMMA CancelHotlistSteps ==
  /\ CancelHotlist \in Seq(Steps) /\ Len(CancelHotlist) = 3
  /\ CancelHotlist[1] = Unreg("HOTLIST_FOUND")
  /\ CancelHotlist[2] = Unreg("HOTLIST_LOST")
  /\ CancelHotlist[3] = Ask
<1> DEFINE a == <<Unreg("HOTLIST_FOUND"), Unreg("HOTLIST_LOST")>>
           b == <<Ask>>
           d == a \o b
<1>0. /\ Unreg("HOTLIST_FOUND") \in Steps
      /\ Unreg("HOTLIST_LOST") \in Steps
      /\ Ask \in Steps
  BY StepTypes DEF Subs
<1>1. /\ a \in Seq(Steps) /\ Len(a) = 2
      /\ a[1] = Unreg("HOTLIST_FOUND")
      /\ a[2] = Unreg("HOTLIST_LOST")
  BY <1>0
<1>2. /\ b \in Seq(Steps) /\ Len(b) = 1
      /\ b[1] = Ask
  BY <1>0
<1> HIDE DEF a, b
<1>3. /\ d \in Seq(Steps) /\ Len(d) = 3
      /\ d[1] = Unreg("HOTLIST_FOUND")
      /\ d[2] = Unreg("HOTLIST_LOST")
      /\ d[3] = Ask
  <2>1. /\ d \in Seq(Steps) /\ Len(d) = Len(a) + Len(b)
        /\ \A j \in 1 .. Len(a) + Len(b) :
             d[j] = IF j <= Len(a) THEN a[j] ELSE b[j - Len(a)]
    BY <1>1, <1>2, Concatenated, Zenon
  <2> HIDE DEF d
  <2> QED BY <1>1, <1>2, <2>1
<1> HIDE DEF d
<1>4. CancelHotlist = d
  BY DEF CancelHotlist, HotlistTeardown, a, b, d
<1> QED BY <1>3, <1>4

(* SignificantWifiChangeCommand::cancel, step by step.                     *)
LEMMA CancelChangeSteps ==
  /\ CancelChange \in Seq(Steps) /\ Len(CancelChange) = 2
  /\ CancelChange[1] = Unreg("SIGNIFICANT_CHANGE")
  /\ CancelChange[2] = Ask
<1> DEFINE a == <<Unreg("SIGNIFICANT_CHANGE")>>
           b == <<Ask>>
           d == a \o b
<1>0. /\ Unreg("SIGNIFICANT_CHANGE") \in Steps
      /\ Ask \in Steps
  BY StepTypes DEF Subs
<1>1. /\ a \in Seq(Steps) /\ Len(a) = 1
      /\ a[1] = Unreg("SIGNIFICANT_CHANGE")
  BY <1>0
<1>2. /\ b \in Seq(Steps) /\ Len(b) = 1
      /\ b[1] = Ask
  BY <1>0
<1> HIDE DEF a, b
<1>3. /\ d \in Seq(Steps) /\ Len(d) = 2
      /\ d[1] = Unreg("SIGNIFICANT_CHANGE")
      /\ d[2] = Ask
  <2>1. /\ d \in Seq(Steps) /\ Len(d) = Len(a) + Len(b)
        /\ \A j \in 1 .. Len(a) + Len(b) :
             d[j] = IF j <= Len(a) THEN a[j] ELSE b[j - Len(a)]
    BY <1>1, <1>2, Concatenated, Zenon
  <2> HIDE DEF d
  <2> QED BY <1>1, <1>2, <2>1
<1> HIDE DEF d
<1>4. CancelChange = d
  BY DEF CancelChange, ChangeTeardown, a, b, d
<1> QED BY <1>3, <1>4

(* The fields of the steps.                                                *)
LEMMA StepFields ==
  /\ Ask.op = "ask" /\ Ask.fail = "return"
  /\ Try.op = "ask" /\ Try.fail = "go on"
  /\ Enable.op = "ask" /\ Enable.fail = "undo"
  /\ \A s \in Subs : /\ Reg(s).op = "register" /\ Reg(s).sub = s /\ Reg(s).fail = "none"
                     /\ Unreg(s).op = "unregister" /\ Unreg(s).sub = s /\ Unreg(s).fail = "none"
BY DEF Ask, Try, Enable, Reg, Unreg

(* The command each event belongs to.                                      *)
LEMMA SubKinds ==
  /\ \A s \in {"SCAN_RESULTS_AVAILABLE", "COMPLETE_SCAN", "FULL_SCAN_RESULTS"} :
       s \in Subs /\ KindOf(s) = "scan"
  /\ \A s \in {"HOTLIST_FOUND", "HOTLIST_LOST"} : s \in Subs /\ KindOf(s) = "hotlist"
  /\ "SIGNIFICANT_CHANGE" \in Subs /\ KindOf("SIGNIFICANT_CHANGE") = "change"
  /\ "ANQPO_MATCH" \in Subs /\ KindOf("ANQPO_MATCH") = "anqpo"
  /\ "RTT_COMPLETE" \in Subs /\ KindOf("RTT_COMPLETE") = "rtt"
BY DEF Subs, KindOf

AllKinds == {"scan", "hotlist", "change", "anqpo", "rtt"}

(* The todo list t ends the registration of every event of the kind k.     *)
Ends(t, k) ==
  \A s \in Subs : KindOf(s) = k =>
    \E i \in DOMAIN t : t[i].op = "unregister" /\ t[i].sub = s

(* Every start() asks first and registers afterwards: after the first      *)
(* registration no failure makes it return at once.                        *)
LEMMA StartFits ==
  ASSUME NEW k \in AllKinds
  PROVE  Start(k) \in Seq(Steps) /\ StartShape(Start(k), k)
<1>1. CASE k = "scan"
  <2> DEFINE t == StartScan
  <2>1. Start(k) = t
    BY <1>1 DEF Start
  <2>2. t \in Seq(Steps) /\ DOMAIN t = 1 .. 7
    BY ScanPrograms
  <2>3. \A i \in 1 .. 7 : i = 1 \/ i = 2 \/ i = 3 \/ i = 4 \/ i = 5 \/ i = 6 \/ i = 7
    OBVIOUS
  <2>4. /\ t[1].op = "ask" /\ t[1].fail = "return"
        /\ t[2].op = "ask" /\ t[2].fail = "return"
        /\ t[3].op = "ask" /\ t[3].fail = "return"
        /\ t[4].op = "register" /\ t[4].fail = "none" /\ t[4].sub = "SCAN_RESULTS_AVAILABLE"
        /\ t[4].sub \in Subs /\ KindOf(t[4].sub) = "scan"
        /\ t[5].op = "register" /\ t[5].fail = "none" /\ t[5].sub = "COMPLETE_SCAN"
        /\ t[5].sub \in Subs /\ KindOf(t[5].sub) = "scan"
        /\ t[6].op = "register" /\ t[6].fail = "none" /\ t[6].sub = "FULL_SCAN_RESULTS"
        /\ t[6].sub \in Subs /\ KindOf(t[6].sub) = "scan"
        /\ t[7].op = "ask" /\ t[7].fail = "undo"
    BY ScanPrograms DEF Ask, Reg, Enable, KindOf, Subs
  <2> HIDE DEF t
  <2>5. /\ \A i \in DOMAIN t :
            /\ t[i].op \in {"ask", "register"}
            /\ t[i].op = "register" => t[i].sub \in Subs /\ KindOf(t[i].sub) = k
            /\ t[i].fail = "undo" => k # "rtt"
    BY <1>1, <2>2, <2>3, <2>4
  <2>6. \A i, j \in DOMAIN t : i < j =>
            /\ t[i].op = "register" => t[j].fail # "return" /\ k # "rtt"
            /\ t[i].op = "register" /\ t[j].op = "register" => t[i].sub # t[j].sub
    BY <1>1, <2>2, <2>3, <2>4
  <2> QED BY <1>1, <2>1, <2>2, <2>5, <2>6 DEF StartShape
<1>2. CASE k = "hotlist"
  <2> DEFINE t == StartHotlist
  <2>1. Start(k) = t
    BY <1>2 DEF Start
  <2>2. t \in Seq(Steps) /\ DOMAIN t = 1 .. 5
    BY StartHotlistSteps
  <2>3. \A i \in 1 .. 5 : i = 1 \/ i = 2 \/ i = 3 \/ i = 4 \/ i = 5
    OBVIOUS
  <2>4. /\ t[1].op = "ask" /\ t[1].fail = "return"
        /\ t[2].op = "ask" /\ t[2].fail = "return"
        /\ t[3].op = "register" /\ t[3].fail = "none" /\ t[3].sub = "HOTLIST_FOUND"
        /\ t[3].sub \in Subs /\ KindOf(t[3].sub) = "hotlist"
        /\ t[4].op = "register" /\ t[4].fail = "none" /\ t[4].sub = "HOTLIST_LOST"
        /\ t[4].sub \in Subs /\ KindOf(t[4].sub) = "hotlist"
        /\ t[5].op = "ask" /\ t[5].fail = "undo"
    BY StartHotlistSteps DEF Ask, Reg, Enable, KindOf, Subs
  <2> HIDE DEF t
  <2>5. /\ \A i \in DOMAIN t :
            /\ t[i].op \in {"ask", "register"}
            /\ t[i].op = "register" => t[i].sub \in Subs /\ KindOf(t[i].sub) = k
            /\ t[i].fail = "undo" => k # "rtt"
    BY <1>2, <2>2, <2>3, <2>4
  <2>6. \A i, j \in DOMAIN t : i < j =>
            /\ t[i].op = "register" => t[j].fail # "return" /\ k # "rtt"
            /\ t[i].op = "register" /\ t[j].op = "register" => t[i].sub # t[j].sub
    BY <1>2, <2>2, <2>3, <2>4
  <2> QED BY <1>2, <2>1, <2>2, <2>5, <2>6 DEF StartShape
<1>3. CASE k = "change"
  <2> DEFINE t == StartChange
  <2>1. Start(k) = t
    BY <1>3 DEF Start
  <2>2. t \in Seq(Steps) /\ DOMAIN t = 1 .. 4
    BY StartChangeSteps
  <2>3. \A i \in 1 .. 4 : i = 1 \/ i = 2 \/ i = 3 \/ i = 4
    OBVIOUS
  <2>4. /\ t[1].op = "ask" /\ t[1].fail = "return"
        /\ t[2].op = "ask" /\ t[2].fail = "return"
        /\ t[3].op = "register" /\ t[3].fail = "none" /\ t[3].sub = "SIGNIFICANT_CHANGE"
        /\ t[3].sub \in Subs /\ KindOf(t[3].sub) = "change"
        /\ t[4].op = "ask" /\ t[4].fail = "undo"
    BY StartChangeSteps DEF Ask, Reg, Enable, KindOf, Subs
  <2> HIDE DEF t
  <2>5. /\ \A i \in DOMAIN t :
            /\ t[i].op \in {"ask", "register"}
            /\ t[i].op = "register" => t[i].sub \in Subs /\ KindOf(t[i].sub) = k
            /\ t[i].fail = "undo" => k # "rtt"
    BY <1>3, <2>2, <2>3, <2>4
  <2>6. \A i, j \in DOMAIN t : i < j =>
            /\ t[i].op = "register" => t[j].fail # "return" /\ k # "rtt"
            /\ t[i].op = "register" /\ t[j].op = "register" => t[i].sub # t[j].sub
    BY <1>3, <2>2, <2>3, <2>4
  <2> QED BY <1>3, <2>1, <2>2, <2>5, <2>6 DEF StartShape
<1>4. CASE k = "anqpo"
  <2> DEFINE t == StartAnqpo
  <2>1. Start(k) = t
    BY <1>4 DEF Start
  <2>2. t \in Seq(Steps) /\ DOMAIN t = 1 .. 3
    BY StartAnqpoSteps
  <2>3. \A i \in 1 .. 3 : i = 1 \/ i = 2 \/ i = 3
    OBVIOUS
  <2>4. /\ t[1].op = "ask" /\ t[1].fail = "return"
        /\ t[2].op = "register" /\ t[2].fail = "none" /\ t[2].sub = "ANQPO_MATCH"
        /\ t[2].sub \in Subs /\ KindOf(t[2].sub) = "anqpo"
        /\ t[3].op = "ask" /\ t[3].fail = "undo"
    BY StartAnqpoSteps DEF Ask, Reg, Enable, KindOf, Subs
  <2> HIDE DEF t
  <2>5. /\ \A i \in DOMAIN t :
            /\ t[i].op \in {"ask", "register"}
            /\ t[i].op = "register" => t[i].sub \in Subs /\ KindOf(t[i].sub) = k
            /\ t[i].fail = "undo" => k # "rtt"
    BY <1>4, <2>2, <2>3, <2>4
  <2>6. \A i, j \in DOMAIN t : i < j =>
            /\ t[i].op = "register" => t[j].fail # "return" /\ k # "rtt"
            /\ t[i].op = "register" /\ t[j].op = "register" => t[i].sub # t[j].sub
    BY <1>4, <2>2, <2>3, <2>4
  <2> QED BY <1>4, <2>1, <2>2, <2>5, <2>6 DEF StartShape
<1>5. CASE k = "rtt"
  <2> DEFINE t == StartRtt
  <2>1. Start(k) = t
    BY <1>5 DEF Start
  <2>2. t \in Seq(Steps) /\ DOMAIN t = 1 .. 2
    BY StartRttSteps
  <2>3. \A i \in 1 .. 2 : i = 1 \/ i = 2
    OBVIOUS
  <2>4. /\ t[1].op = "ask" /\ t[1].fail = "return"
        /\ t[2].op = "register" /\ t[2].fail = "none" /\ t[2].sub = "RTT_COMPLETE"
        /\ t[2].sub \in Subs /\ KindOf(t[2].sub) = "rtt"
    BY StartRttSteps DEF Ask, Reg, Enable, KindOf, Subs
  <2> HIDE DEF t
  <2>5. /\ \A i \in DOMAIN t :
            /\ t[i].op \in {"ask", "register"}
            /\ t[i].op = "register" => t[i].sub \in Subs /\ KindOf(t[i].sub) = k
            /\ t[i].fail = "undo" => k # "rtt"
    BY <1>5, <2>2, <2>3, <2>4
  <2>6. \A i, j \in DOMAIN t : i < j =>
            /\ t[i].op = "register" => t[j].fail # "return" /\ k # "rtt"
            /\ t[i].op = "register" /\ t[j].op = "register" => t[i].sub # t[j].sub
    BY <1>5, <2>2, <2>3, <2>4
  <2> QED BY <1>5, <2>1, <2>2, <2>5, <2>6 DEF StartShape
<1> QED BY <1>1, <1>2, <1>3, <1>4, <1>5 DEF AllKinds

(* The steps a refused start undoes: unregistrations only, of every event  *)
(* of the command. (Not so for a scan, which registers again.)             *)
LEMMA UndoFits ==
  ASSUME NEW k \in {"hotlist", "change", "anqpo"}
  PROVE  Undo(k) \in Seq(Steps) /\ UndoShape(Undo(k)) /\ Ends(Undo(k), k)
<1>1. CASE k = "hotlist"
  <2> DEFINE t == UndoHotlist
  <2>1. Undo(k) = t
    BY <1>1 DEF Undo
  <2>2. t \in Seq(Steps) /\ DOMAIN t = 1 .. 2
    <3>1. Unreg("HOTLIST_FOUND") \in Steps /\ Unreg("HOTLIST_LOST") \in Steps
      BY StepTypes DEF Subs
    <3> QED BY <3>1 DEF UndoHotlist
  <2>3. \A i \in 1 .. 2 : i = 1 \/ i = 2
    OBVIOUS
  <2>4. /\ t[1].op = "unregister" /\ t[1].fail = "none" /\ t[1].sub = "HOTLIST_FOUND"
        /\ t[2].op = "unregister" /\ t[2].fail = "none" /\ t[2].sub = "HOTLIST_LOST"
    BY DEF Try, Unreg, UndoHotlist
  <2>5. \A s \in Subs : KindOf(s) = "hotlist" => s = "HOTLIST_FOUND" \/ s = "HOTLIST_LOST"
    BY DEF Subs, KindOf
  <2> HIDE DEF t
  <2>6. UndoShape(t)
    BY <2>2, <2>3, <2>4 DEF UndoShape
  <2>7. Ends(t, "hotlist")
    <3>1. 1 \in DOMAIN t /\ 2 \in DOMAIN t
      BY <2>2
    <3> QED BY <2>4, <2>5, <3>1 DEF Ends
  <2> QED BY <1>1, <2>1, <2>2, <2>6, <2>7
<1>2. CASE k = "change"
  <2> DEFINE t == <<Unreg("SIGNIFICANT_CHANGE")>>
  <2>1. Undo(k) = t
    BY <1>2 DEF Undo
  <2>2. t \in Seq(Steps) /\ DOMAIN t = 1 .. 1
    <3>1. Unreg("SIGNIFICANT_CHANGE") \in Steps
      BY StepTypes DEF Subs
    <3> QED BY <3>1
  <2>3. \A i \in 1 .. 1 : i = 1
    OBVIOUS
  <2>4. /\ t[1].op = "unregister" /\ t[1].fail = "none" /\ t[1].sub = "SIGNIFICANT_CHANGE"
    BY DEF Try, Unreg
  <2>5. \A s \in Subs : KindOf(s) = "change" => s = "SIGNIFICANT_CHANGE"
    BY DEF Subs, KindOf
  <2> HIDE DEF t
  <2>6. UndoShape(t)
    BY <2>2, <2>3, <2>4 DEF UndoShape
  <2>7. Ends(t, "change")
    <3>1. 1 \in DOMAIN t
      BY <2>2
    <3> QED BY <2>4, <2>5, <3>1 DEF Ends
  <2> QED BY <1>2, <2>1, <2>2, <2>6, <2>7
<1>3. CASE k = "anqpo"
  <2> DEFINE t == <<Unreg("ANQPO_MATCH")>>
  <2>1. Undo(k) = t
    BY <1>3 DEF Undo
  <2>2. t \in Seq(Steps) /\ DOMAIN t = 1 .. 1
    <3>1. Unreg("ANQPO_MATCH") \in Steps
      BY StepTypes DEF Subs
    <3> QED BY <3>1
  <2>3. \A i \in 1 .. 1 : i = 1
    OBVIOUS
  <2>4. /\ t[1].op = "unregister" /\ t[1].fail = "none" /\ t[1].sub = "ANQPO_MATCH"
    BY DEF Try, Unreg
  <2>5. \A s \in Subs : KindOf(s) = "anqpo" => s = "ANQPO_MATCH"
    BY DEF Subs, KindOf
  <2> HIDE DEF t
  <2>6. UndoShape(t)
    BY <2>2, <2>3, <2>4 DEF UndoShape
  <2>7. Ends(t, "anqpo")
    <3>1. 1 \in DOMAIN t
      BY <2>2
    <3> QED BY <2>4, <2>5, <3>1 DEF Ends
  <2> QED BY <1>3, <2>1, <2>2, <2>6, <2>7
<1> QED BY <1>1, <1>2, <1>3

(* Every cancel() unregisters all the events of its command, and no        *)
(* failure makes it return before that.                                    *)
LEMMA CancelFits ==
  ASSUME NEW k \in AllKinds
  PROVE  Cancel(k) \in Seq(Steps) /\ CancelShape(Cancel(k)) /\ Ends(Cancel(k), k)
<1>1. CASE k = "scan"
  <2> DEFINE t == CancelScan
  <2>1. Cancel(k) = t
    BY <1>1 DEF Cancel
  <2>2. t \in Seq(Steps) /\ DOMAIN t = 1 .. 4
    <3>1. /\ Try \in Steps /\ Unreg("COMPLETE_SCAN") \in Steps
          /\ Unreg("SCAN_RESULTS_AVAILABLE") \in Steps
          /\ Unreg("FULL_SCAN_RESULTS") \in Steps
      BY StepTypes DEF Subs
    <3> QED BY <3>1 DEF CancelScan
  <2>3. \A i \in 1 .. 4 : i = 1 \/ i = 2 \/ i = 3 \/ i = 4
    OBVIOUS
  <2>4. /\ t[1].op = "ask" /\ t[1].fail = "go on"
        /\ t[2].op = "unregister" /\ t[2].fail = "none" /\ t[2].sub = "COMPLETE_SCAN"
        /\ t[3].op = "unregister" /\ t[3].fail = "none" /\ t[3].sub = "SCAN_RESULTS_AVAILABLE"
        /\ t[4].op = "unregister" /\ t[4].fail = "none" /\ t[4].sub = "FULL_SCAN_RESULTS"
    BY DEF Try, Unreg, CancelScan
  <2>5. \A s \in Subs : KindOf(s) = "scan" =>
          \/ s = "SCAN_RESULTS_AVAILABLE" \/ s = "COMPLETE_SCAN"
          \/ s = "FULL_SCAN_RESULTS"
    BY DEF Subs, KindOf
  <2> HIDE DEF t
  <2>6. CancelShape(t)
    BY <2>2, <2>3, <2>4 DEF CancelShape
  <2>7. Ends(t, "scan")
    <3>1. 1 \in DOMAIN t /\ 2 \in DOMAIN t /\ 3 \in DOMAIN t /\ 4 \in DOMAIN t
      BY <2>2
    <3> QED BY <2>4, <2>5, <3>1 DEF Ends
  <2> QED BY <1>1, <2>1, <2>2, <2>6, <2>7
<1>2. CASE k = "hotlist"
  <2> DEFINE t == CancelHotlist
  <2>1. Cancel(k) = t
    BY <1>2 DEF Cancel
  <2>2. t \in Seq(Steps) /\ DOMAIN t = 1 .. 3
    BY CancelHotlistSteps
  <2>3. \A i \in 1 .. 3 : i = 1 \/ i = 2 \/ i = 3
    OBVIOUS
  <2>4. /\ t[1].op = "unregister" /\ t[1].fail = "none" /\ t[1].sub = "HOTLIST_FOUND"
        /\ t[2].op = "unregister" /\ t[2].fail = "none" /\ t[2].sub = "HOTLIST_LOST"
        /\ t[3].op = "ask" /\ t[3].fail = "return"
    BY CancelHotlistSteps DEF Ask, Unreg
  <2>5. \A s \in Subs : KindOf(s) = "hotlist" => s = "HOTLIST_FOUND" \/ s = "HOTLIST_LOST"
    BY DEF Subs, KindOf
  <2> HIDE DEF t
  <2>6. CancelShape(t)
    BY <2>2, <2>3, <2>4 DEF CancelShape
  <2>7. Ends(t, "hotlist")
    <3>1. 1 \in DOMAIN t /\ 2 \in DOMAIN t /\ 3 \in DOMAIN t
      BY <2>2
    <3> QED BY <2>4, <2>5, <3>1 DEF Ends
  <2> QED BY <1>2, <2>1, <2>2, <2>6, <2>7
<1>3. CASE k = "change"
  <2> DEFINE t == CancelChange
  <2>1. Cancel(k) = t
    BY <1>3 DEF Cancel
  <2>2. t \in Seq(Steps) /\ DOMAIN t = 1 .. 2
    BY CancelChangeSteps
  <2>3. \A i \in 1 .. 2 : i = 1 \/ i = 2
    OBVIOUS
  <2>4. /\ t[1].op = "unregister" /\ t[1].fail = "none" /\ t[1].sub = "SIGNIFICANT_CHANGE"
        /\ t[2].op = "ask" /\ t[2].fail = "return"
    BY CancelChangeSteps DEF Ask, Unreg
  <2>5. \A s \in Subs : KindOf(s) = "change" => s = "SIGNIFICANT_CHANGE"
    BY DEF Subs, KindOf
  <2> HIDE DEF t
  <2>6. CancelShape(t)
    BY <2>2, <2>3, <2>4 DEF CancelShape
  <2>7. Ends(t, "change")
    <3>1. 1 \in DOMAIN t /\ 2 \in DOMAIN t
      BY <2>2
    <3> QED BY <2>4, <2>5, <3>1 DEF Ends
  <2> QED BY <1>3, <2>1, <2>2, <2>6, <2>7
<1>4. CASE k = "anqpo"
  <2> DEFINE t == CancelAnqpo
  <2>1. Cancel(k) = t
    BY <1>4 DEF Cancel
  <2>2. t \in Seq(Steps) /\ DOMAIN t = 1 .. 2
    <3>1. Try \in Steps /\ Unreg("ANQPO_MATCH") \in Steps
      BY StepTypes DEF Subs
    <3> QED BY <3>1 DEF CancelAnqpo
  <2>3. \A i \in 1 .. 2 : i = 1 \/ i = 2
    OBVIOUS
  <2>4. /\ t[1].op = "ask" /\ t[1].fail = "go on"
        /\ t[2].op = "unregister" /\ t[2].fail = "none" /\ t[2].sub = "ANQPO_MATCH"
    BY DEF Try, Unreg, CancelAnqpo
  <2>5. \A s \in Subs : KindOf(s) = "anqpo" => s = "ANQPO_MATCH"
    BY DEF Subs, KindOf
  <2> HIDE DEF t
  <2>6. CancelShape(t)
    BY <2>2, <2>3, <2>4 DEF CancelShape
  <2>7. Ends(t, "anqpo")
    <3>1. 1 \in DOMAIN t /\ 2 \in DOMAIN t
      BY <2>2
    <3> QED BY <2>4, <2>5, <3>1 DEF Ends
  <2> QED BY <1>4, <2>1, <2>2, <2>6, <2>7
<1>5. CASE k = "rtt"
  <2> DEFINE t == CancelRtt
  <2>1. Cancel(k) = t
    BY <1>5 DEF Cancel
  <2>2. t \in Seq(Steps) /\ DOMAIN t = 1 .. 2
    <3>1. Try \in Steps /\ Unreg("RTT_COMPLETE") \in Steps
      BY StepTypes DEF Subs
    <3> QED BY <3>1 DEF CancelRtt
  <2>3. \A i \in 1 .. 2 : i = 1 \/ i = 2
    OBVIOUS
  <2>4. /\ t[1].op = "ask" /\ t[1].fail = "go on"
        /\ t[2].op = "unregister" /\ t[2].fail = "none" /\ t[2].sub = "RTT_COMPLETE"
    BY DEF Try, Unreg, CancelRtt
  <2>5. \A s \in Subs : KindOf(s) = "rtt" => s = "RTT_COMPLETE"
    BY DEF Subs, KindOf
  <2> HIDE DEF t
  <2>6. CancelShape(t)
    BY <2>2, <2>3, <2>4 DEF CancelShape
  <2>7. Ends(t, "rtt")
    <3>1. 1 \in DOMAIN t /\ 2 \in DOMAIN t
      BY <2>2
    <3> QED BY <2>4, <2>5, <3>1 DEF Ends
  <2> QED BY <1>5, <2>1, <2>2, <2>6, <2>7
<1> QED BY <1>1, <1>2, <1>3, <1>4, <1>5 DEF AllKinds

(* The undo lists are programs.                                            *)
LEMMA UndoTyped == ASSUME NEW k \in AllKinds PROVE Undo(k) \in Seq(Steps)
<1>1. CASE k = "scan"
  <2>1. /\ Reg("COMPLETE_SCAN") \in Steps /\ Unreg("SCAN_RESULTS_AVAILABLE") \in Steps
        /\ Unreg("FULL_SCAN_RESULTS") \in Steps
    BY StepTypes DEF Subs
  <2> QED BY <1>1, <2>1 DEF Undo, UndoScan
<1>2. CASE k = "rtt"
  BY <1>2 DEF Undo
<1>3. CASE k \in {"hotlist", "change", "anqpo"}
  BY <1>3, UndoFits
<1> QED BY <1>1, <1>2, <1>3 DEF AllKinds

ApiStates == {"idle", "write slot", "count up", "run", "find", "move", "count down",
              "cancel"}
LoopStates == {"poll", "handle", "results", "find", "move", "count down", "drop",
               "release"}

ApiType ==
  /\ api \in [pc : ApiStates, cmd : Cmds \cup {None}, kind : Kinds \cup {"none"},
              todo : Seq(Steps), slot : 0 .. CmdMax, ok : BOOLEAN]
  /\ api.pc # "idle" => api.cmd \in Cmds /\ api.kind \in Kinds
  /\ api.pc = "idle" => api.cmd = None

LoopType ==
  /\ loop \in [pc : LoopStates, cmd : Cmds \cup {None}, slot : 0 .. CmdMax]
  /\ loop.pc # "poll" => loop.cmd \in Cmds
  /\ loop.pc = "poll" => loop.cmd = None

TableType == slots \in [1 .. CmdMax -> Cmds \cup {None}] /\ num_cmd \in 0 .. CmdMax

ObjType ==
  /\ kind \in [Cmds -> Kinds \cup {"none"}] /\ refs \in [Cmds -> Nat]
  /\ lost \subseteq Cmds
  /\ current \in [Kinds -> Cmds \cup {None}]

TypeOK == ApiType /\ LoopType /\ TableType /\ ObjType /\ event_cb \in Seq(Entries)

(* The call of the API thread goes on.                                     *)
SameCall == api'.cmd = api.cmd /\ api'.kind = api.kind
SameTodo == api'.todo = api.todo /\ api'.ok = api.ok

(* The idle values are in their types.                                     *)
LEMMA ZeroAndNothing ==
  ASSUME WifiAssumption PROVE 0 \in 0 .. CmdMax /\ <<>> \in Seq(Steps)
BY DEF WifiAssumption

(* The idle API thread has its type.                                       *)
LEMMA IdleTyped ==
  ASSUME WifiAssumption PROVE api' = ApiIdle => ApiType'
<1>1. <<>> \in Seq(Steps) /\ 0 \in 0 .. CmdMax /\ "idle" \in ApiStates
  BY DEF ApiStates, WifiAssumption
<1> QED BY <1>1 DEF ApiIdle, ApiType

(* A change of the program counter and the todo list keeps the type.       *)
LEMMA MoveTyped ==
  ASSUME WifiAssumption, ApiType, api.pc # "idle",
         NEW where \in ApiStates \ {"idle"}, NEW t \in Seq(Steps), NEW n \in 0 .. CmdMax,
         NEW b \in BOOLEAN,
         api' = [api EXCEPT !.pc = where, !.todo = t, !.slot = n, !.ok = b]
  PROVE  ApiType' /\ SameCall /\ api'.pc = where /\ api'.todo = t /\ api'.slot = n /\ api'.ok = b
BY DEF ApiType, SameCall

(* The rest of a todo list.                                                *)
LEMMA TailTyped ==
  ASSUME ApiType, api.todo # <<>>
  PROVE  /\ Tail(api.todo) \in Seq(Steps) /\ Len(Tail(api.todo)) = Len(api.todo) - 1
         /\ Head(api.todo) = api.todo[1] /\ Head(api.todo) \in Steps
         /\ Len(api.todo) \in Nat /\ Len(api.todo) > 0
         /\ \A i \in 1 .. Len(api.todo) - 1 : Tail(api.todo)[i] = api.todo[i + 1]
<1>1. api.todo \in Seq(Steps)
  BY DEF ApiType
<1> DEFINE t == api.todo
<1> HIDE DEF t
<1>2. t \in Seq(Steps) /\ t # <<>>
  BY <1>1 DEF t
<1>3. /\ Tail(t) \in Seq(Steps) /\ Len(Tail(t)) = Len(t) - 1
         /\ Head(t) = t[1] /\ Head(t) \in Steps
         /\ Len(t) \in Nat /\ Len(t) > 0
         /\ \A i \in 1 .. Len(t) - 1 : Tail(t)[i] = t[i + 1]
  BY <1>2
<1> QED BY <1>3 DEF t

(* What the steps of the API thread do to its call.                        *)
LEMMA TableSteps ==
  ASSUME WifiAssumption, ApiType, SlotOf(api.cmd) \in 0 .. CmdMax
  PROVE  /\ RegisterWrite => ApiType' /\ SameCall /\ SameTodo /\ api'.pc = "count up"
         /\ RegisterCount => ApiType' /\ SameCall /\ SameTodo /\ api'.pc = "run"
         /\ RegisterFull => /\ ApiType'
                            /\ IF api.kind = "rtt" THEN SameCall /\ SameTodo /\ api'.pc = "run"
                               ELSE api' = ApiIdle
         /\ ApiFind => /\ ApiType'
                       /\ IF SlotOf(api.cmd) # 0
                          THEN SameCall /\ SameTodo /\ api'.pc = "move" /\ api'.slot = SlotOf(api.cmd)
                          ELSE api' = ApiIdle
         /\ ApiMove => ApiType' /\ SameCall /\ SameTodo /\ api'.pc = "count down"
         /\ ApiCountDown => ApiType' /\ SameCall /\ SameTodo /\ api'.pc = "cancel"
<1> USE DEF ApiType, ApiStates, SameCall, SameTodo, WifiAssumption
<1>1. RegisterWrite => ApiType' /\ SameCall /\ SameTodo /\ api'.pc = "count up"
  BY DEF RegisterWrite
<1>2. RegisterCount => ApiType' /\ SameCall /\ SameTodo /\ api'.pc = "run"
  BY DEF RegisterCount
<1>3. RegisterFull => /\ ApiType'
                      /\ IF api.kind = "rtt" THEN SameCall /\ SameTodo /\ api'.pc = "run"
                         ELSE api' = ApiIdle
  BY IdleTyped, ZenonT(60) DEF RegisterFull
<1>4. ApiFind => /\ ApiType'
                 /\ IF SlotOf(api.cmd) # 0
                    THEN SameCall /\ SameTodo /\ api'.pc = "move" /\ api'.slot = SlotOf(api.cmd)
                    ELSE api' = ApiIdle
  BY IdleTyped DEF ApiFind
<1>5. ASSUME ApiMove PROVE ApiType' /\ SameCall /\ SameTodo /\ api'.pc = "count down"
  <2>1. 0 \in 0 .. CmdMax
    BY ZeroAndNothing
  <2>2. api' = [api EXCEPT !.pc = "count down", !.slot = 0] /\ api.pc = "move"
    BY <1>5 DEF ApiMove
  <2> QED BY <2>1, <2>2
<1>6. ApiCountDown => ApiType' /\ SameCall /\ SameTodo /\ api'.pc = "cancel"
  BY DEF ApiCountDown
<1> QED BY <1>1, <1>2, <1>3, <1>4, <1>5, <1>6

(* What the steps of start() and cancel() do to the todo list.             *)
LEMMA TodoSteps ==
  ASSUME WifiAssumption, ApiType
  PROVE  /\ ApiRegister \/ ApiUnregister \/ Answered =>
              ApiType' /\ SameCall /\ api'.pc = api.pc /\ api'.ok = api.ok
              /\ api.todo # <<>> /\ api'.todo = Tail(api.todo)
              /\ api.pc \in {"run", "cancel"}
         /\ Refused =>
              /\ ApiType' /\ SameCall /\ api'.pc = api.pc /\ api.todo # <<>>
              /\ api.pc \in {"run", "cancel"}
              /\ Head(api.todo).op = "ask"
              /\ \/ /\ Head(api.todo).fail = "return"
                    /\ api'.todo = <<>> /\ ~api'.ok
                 \/ /\ Head(api.todo).fail = "undo" /\ api.kind \in MayRefuse
                    /\ api'.todo = Undo(api.kind) /\ ~api'.ok
                 \/ /\ Head(api.todo).fail \notin {"return", "undo"}
                    /\ api'.todo = Tail(api.todo) /\ api'.ok = api.ok
         /\ StartReturns \/ CancelReturns => ApiType' /\ api' = ApiIdle
<1> USE DEF ApiStates, WifiAssumption
<1>1. ASSUME ApiRegister \/ ApiUnregister \/ Answered
      PROVE  /\ ApiType' /\ SameCall /\ api'.pc = api.pc /\ api'.ok = api.ok
             /\ api.todo # <<>> /\ api'.todo = Tail(api.todo)
             /\ api.pc \in {"run", "cancel"}
  <2>1. api.todo # <<>> /\ api' = [api EXCEPT !.todo = Tail(@)] /\ api.pc \in {"run", "cancel"}
    BY <1>1 DEF ApiRegister, ApiUnregister, Answered, Running, Done
  <2> DEFINE t == Tail(api.todo)
  <2>2. t \in Seq(Steps)
    BY <2>1, TailTyped
  <2>3. api' = [api EXCEPT !.todo = t]
    BY <2>1 DEF ApiType
  <2> HIDE DEF t
  <2>4. ApiType' /\ SameCall /\ api'.pc = api.pc /\ api'.ok = api.ok /\ api'.todo = t
    BY <2>1, <2>2, <2>3 DEF ApiType, SameCall
  <2> QED BY <2>1, <2>4 DEF t
<1>2. ASSUME Refused
      PROVE   /\ ApiType' /\ SameCall /\ api'.pc = api.pc /\ api.todo # <<>>
              /\ api.pc \in {"run", "cancel"}
              /\ Head(api.todo).op = "ask"
              /\ \/ /\ Head(api.todo).fail = "return"
                    /\ api'.todo = <<>> /\ ~api'.ok
                 \/ /\ Head(api.todo).fail = "undo" /\ api.kind \in MayRefuse
                    /\ api'.todo = Undo(api.kind) /\ ~api'.ok
                 \/ /\ Head(api.todo).fail \notin {"return", "undo"}
                    /\ api'.todo = Tail(api.todo) /\ api'.ok = api.ok
  <2>1. /\ api.todo # <<>> /\ api.pc \in {"run", "cancel"} /\ Head(api.todo).op = "ask"
        /\ Head(api.todo).fail = "undo" => api.kind \in MayRefuse
    BY <1>2 DEF Refused, Running
  <2>2. CASE Head(api.todo).fail = "return"
    <3>1. api' = [api EXCEPT !.todo = <<>>, !.ok = FALSE]
      BY <1>2, <2>2 DEF Refused
    <3>2. PICK t : t = <<>> /\ t \in Seq(Steps)
      BY ZeroAndNothing
    <3>3. api' = [api EXCEPT !.todo = t, !.ok = FALSE]
      BY <3>1, <3>2
    <3>4. ApiType' /\ SameCall /\ api'.pc = api.pc /\ api'.todo = t /\ ~api'.ok
      BY <2>1, <3>3, <3>2 DEF ApiType, SameCall
    <3> QED BY <2>1, <2>2, <3>2, <3>4
  <2>3. CASE Head(api.todo).fail = "undo"
    <3> DEFINE t == Undo(api.kind)
    <3>1. api' = [api EXCEPT !.todo = t, !.ok = FALSE]
      BY <1>2, <2>3 DEF Refused
    <3>2. t \in Seq(Steps)
      <4>1. api.kind \in AllKinds
        BY <2>1, <2>3 DEF AllKinds
      <4> QED BY <4>1, UndoTyped
    <3> HIDE DEF t
    <3>3. ApiType' /\ SameCall /\ api'.pc = api.pc /\ api'.todo = t /\ ~api'.ok
      BY <2>1, <3>1, <3>2 DEF ApiType, SameCall
    <3> QED BY <2>1, <2>3, <3>3 DEF t
  <2>4. CASE Head(api.todo).fail \notin {"return", "undo"}
    <3> DEFINE t == Tail(api.todo)
    <3>1. api' = [api EXCEPT !.todo = t]
      BY <1>2, <2>4 DEF Refused, Done, ApiType
    <3>2. t \in Seq(Steps)
      BY <2>1, TailTyped
    <3> HIDE DEF t
    <3>3. ApiType' /\ SameCall /\ api'.pc = api.pc /\ api'.todo = t /\ api'.ok = api.ok
      BY <2>1, <3>1, <3>2 DEF ApiType, SameCall
    <3> QED BY <2>1, <2>4, <3>3 DEF t
  <2> QED BY <2>2, <2>3, <2>4
<1>3. StartReturns \/ CancelReturns => ApiType' /\ api' = ApiIdle
  BY IdleTyped DEF StartReturns, CancelReturns
<1> QED BY <1>1, <1>2, <1>3

(* What the calls of the framework set up.                                 *)
LEMMA CallSteps ==
  ASSUME WifiAssumption, TypeOK
  PROVE  /\ \A k \in Kinds : CallStart(k) =>
              \E c \in Cmds :
                /\ Create(c, k) /\ ApiType' /\ api'.pc = "write slot" /\ api'.cmd = c
                /\ api'.kind = k /\ api'.todo = Start(k) /\ api'.ok
         /\ \A k \in Kinds : CallStop(k) =>
                /\ ApiType' /\ api'.pc = "find" /\ api'.cmd = current[k] /\ api'.kind = k
                /\ api'.todo = Cancel(k) /\ current[k] \in Cmds
         /\ CallStopAll =>
              \E c \in Cmds :
                /\ Create(c, "scan") /\ ApiType' /\ api'.pc = "cancel" /\ api'.cmd = c
                /\ api'.kind = "scan" /\ api'.todo = CancelScan /\ "scan" \in Kinds
<1>0. ASSUME NEW c \in Cmds, NEW k \in Kinds, NEW where \in ApiStates \ {"idle"}, NEW t \in Seq(Steps),
             api' = [ApiIdle EXCEPT !.pc = where, !.cmd = c, !.kind = k, !.todo = t]
      PROVE  ApiType' /\ api'.pc = where /\ api'.cmd = c /\ api'.kind = k /\ api'.todo = t /\ api'.ok
  <2>1. api' = [pc |-> where, cmd |-> c, kind |-> k, todo |-> t, slot |-> 0, ok |-> TRUE]
    BY <1>0 DEF ApiIdle
  <2>2. 0 \in 0 .. CmdMax
    BY DEF WifiAssumption
  <2> QED BY <2>1, <2>2 DEF ApiType
<1>1. /\ \A k \in Kinds : Start(k) \in Seq(Steps) /\ Cancel(k) \in Seq(Steps)
      /\ "scan" \in Kinds => CancelScan \in Seq(Steps)
  <2>1. \A k \in Kinds : k \in AllKinds
    BY DEF WifiAssumption, AllKinds
  <2>2. Cancel("scan") = CancelScan
    BY DEF Cancel
  <2> QED BY <2>1, <2>2, StartFits, CancelFits
<1>2. ASSUME NEW k \in Kinds, CallStart(k)
      PROVE  \E c \in Cmds :
                /\ Create(c, k) /\ ApiType' /\ api'.pc = "write slot" /\ api'.cmd = c
                /\ api'.kind = k /\ api'.todo = Start(k) /\ api'.ok
  <2>1. PICK c \in Cmds : /\ Create(c, k)
                          /\ api' = [ApiIdle EXCEPT !.pc = "write slot", !.cmd = c, !.kind = k,
                                                    !.todo = Start(k)]
    BY <1>2 DEF CallStart
  <2>2. "write slot" \in ApiStates \ {"idle"}
    BY DEF ApiStates
  <2>3. ApiType' /\ api'.pc = "write slot" /\ api'.cmd = c /\ api'.kind = k /\ api'.todo = Start(k) /\ api'.ok
    BY <1>0, <1>1, <2>1, <2>2
  <2> QED BY <2>1, <2>3
<1>3. ASSUME NEW k \in Kinds, CallStop(k)
      PROVE     /\ ApiType' /\ api'.pc = "find" /\ api'.cmd = current[k] /\ api'.kind = k
                /\ api'.todo = Cancel(k) /\ current[k] \in Cmds
  <2>1. /\ current[k] # None
        /\ api' = [ApiIdle EXCEPT !.pc = "find", !.cmd = current[k], !.kind = k, !.todo = Cancel(k)]
    BY <1>3 DEF CallStop
  <2>2. current[k] \in Cmds
    BY <2>1 DEF TypeOK, ObjType
  <2>3. "find" \in ApiStates \ {"idle"}
    BY DEF ApiStates
  <2> QED BY <1>0, <1>1, <2>1, <2>2, <2>3
<1>4. ASSUME CallStopAll
      PROVE  \E c \in Cmds :
                /\ Create(c, "scan") /\ ApiType' /\ api'.pc = "cancel" /\ api'.cmd = c
                /\ api'.kind = "scan" /\ api'.todo = CancelScan /\ "scan" \in Kinds
  <2>1. PICK c \in Cmds : /\ Create(c, "scan")
                          /\ api' = [ApiIdle EXCEPT !.pc = "cancel", !.cmd = c,
                                 !.kind = "scan", !.todo = CancelScan]
    BY <1>4 DEF CallStopAll
  <2>2. "scan" \in Kinds /\ "cancel" \in ApiStates \ {"idle"}
    BY <1>4 DEF CallStopAll, ApiStates
  <2>3. ApiType' /\ api'.pc = "cancel" /\ api'.cmd = c /\ api'.kind = "scan" /\ api'.todo = CancelScan
    BY <1>0, <1>1, <2>1, <2>2
  <2> QED BY <2>1, <2>2, <2>3
<1> QED BY <1>2, <1>3, <1>4

(* The command table, at every moment. While a command is taken out, the   *)
(* last slot in use still counts.                                          *)
Shrinking == api.pc = "count down" \/ loop.pc = "count down"
Used == IF Shrinking THEN num_cmd - 1 ELSE num_cmd
Listed(c) == \E i \in 1 .. Used : slots[i] = c

TableInv ==
  /\ ~(ApiInTable /\ LoopInTable)
  /\ Used \in 0 .. CmdMax
  /\ \A i \in 1 .. Used : slots[i] \in Cmds
  /\ \A i, j \in 1 .. Used : slots[i] = slots[j] => i = j
  /\ api.pc = "count up" => num_cmd < CmdMax /\ slots[num_cmd + 1] = api.cmd
  /\ api.pc = "move" => api.slot \in 1 .. num_cmd /\ slots[api.slot] = api.cmd
  /\ loop.pc = "move" => loop.slot \in 1 .. num_cmd /\ slots[loop.slot] = loop.cmd

(* The owners of an object: the table, the API thread or the event loop    *)
(* that is about to enter it or took it out, or nobody any more.           *)
ApiOwner(c) == api.cmd = c /\ api.pc \in {"write slot", "count up", "count down", "cancel"}
LoopOwner(c) == loop.cmd = c /\ loop.pc \in {"count down", "drop"}
Handled(c) == loop.cmd = c /\ loop.pc # "poll"

OneOwner ==
  \A c \in Cmds :
    /\ Listed(c) => ~ApiOwner(c) /\ ~LoopOwner(c) /\ c \notin lost
    /\ ApiOwner(c) => ~LoopOwner(c) /\ c \notin lost
    /\ LoopOwner(c) => c \notin lost

(* Each owner, and the handling of an event, is one reference.             *)
Owned(c) == Listed(c) \/ ApiOwner(c) \/ LoopOwner(c) \/ c \in lost
Account == \A c \in Cmds : refs[c] = One(Owned(c)) + One(Handled(c))

CountInv == TypeOK /\ TableInv /\ OneOwner /\ Account

(* Adding up who refers to an object.                                      *)
LEMMA Ones ==
  \A b, d \in BOOLEAN :
    /\ One(b) + One(d) = 0 <=> ~b /\ ~d
    /\ b /\ ~d => One(b) + One(d) = 1
    /\ ~b /\ d => One(b) + One(d) = 1
    /\ One(b) + One(d) \in Nat
BY DEF One

(* A write behind the used slots leaves the used slots alone.              *)
LEMMA Written ==
  ASSUME NEW m \in Nat, NEW n \in Nat, n < m, NEW S, NEW f \in [1 .. m -> S], NEW v
  PROVE  /\ [f EXCEPT ![n + 1] = v][n + 1] = v
         /\ \A i \in 1 .. n : [f EXCEPT ![n + 1] = v][i] = f[i]
OBVIOUS

(* The search of the command table: it finds an entry of the command, and  *)
(* it finds none only if there is none.                                    *)
LEMMA SlotFound ==
  ASSUME TableType, NEW c
  PROVE  /\ SlotOf(c) \in 0 .. num_cmd
         /\ SlotOf(c) # 0 <=> InTable(c)
         /\ SlotOf(c) # 0 => slots[SlotOf(c)] = c
<1> DEFINE I == {i \in 1 .. num_cmd : slots[i] = c}
<1>1. num_cmd \in Nat /\ I \subseteq Nat
  BY DEF TableType
<1>2. CASE InTable(c)
  <2>1. I # {}
    BY <1>2 DEF InTable
  <2>2. \E x \in I : \A y \in I : ~ (<<y, x>> \in OpToRel(<, Nat))
    <3> HIDE DEF I
    <3> QED BY <1>1, <2>1, WFMin, NatLessThanWellFounded
  <2>3. PICK x \in I : \A y \in I : ~ (y < x)
    BY <1>1, <2>2 DEF OpToRel
  <2>4. \A j \in 1 .. x - 1 : slots[j] # c
    <3> SUFFICES ASSUME NEW j \in 1 .. x - 1, slots[j] = c PROVE FALSE
      OBVIOUS
    <3>1. j \in I /\ j < x
      BY <1>1
    <3> QED BY <2>3, <3>1
  <2>5. SlotOf(c) = CHOOSE i \in 1 .. num_cmd :
                      slots[i] = c /\ \A j \in 1 .. i - 1 : slots[j] # c
    BY <1>2 DEF SlotOf
  <2>6. SlotOf(c) \in 1 .. num_cmd /\ slots[SlotOf(c)] = c
    BY <2>3, <2>4, <2>5
  <2> QED BY <1>1, <1>2, <2>6
<1>3. CASE ~InTable(c)
  BY <1>1, <1>3 DEF SlotOf
<1> QED BY <1>2, <1>3

(* The numbers of the command table are in their ranges.                   *)
LEMMA InRange ==
  ASSUME WifiAssumption, TypeOK
  PROVE  /\ num_cmd \in Nat /\ CmdMax \in Nat /\ num_cmd <= CmdMax
         /\ SlotOf(api.cmd) \in 0 .. CmdMax /\ SlotOf(loop.cmd) \in 0 .. CmdMax
<1>1. num_cmd \in Nat /\ CmdMax \in Nat /\ num_cmd <= CmdMax
  BY DEF TypeOK, TableType, WifiAssumption
<1>2. SlotOf(api.cmd) \in 0 .. num_cmd /\ SlotOf(loop.cmd) \in 0 .. num_cmd
  BY SlotFound DEF TypeOK
<1> QED BY <1>1, <1>2

(* Steps that leave the table and the references alone.                    *)
LEMMA ApiQuiet ==
  ASSUME WifiAssumption, CountInv, TypeOK', UNCHANGED <<slots, num_cmd, refs, lost, loop>>,
         api.pc \notin {"write slot", "count up", "count down"},
         api'.pc \notin {"write slot", "count up", "count down"},
         api.pc = "cancel" \/ api'.pc = "cancel" => api'.pc = api.pc /\ api'.cmd = api.cmd,
         api'.pc = "move" =>
           ~LoopInTable /\ api'.slot \in 1 .. num_cmd /\ slots[api'.slot] = api'.cmd
  PROVE  CountInv'
<1>1. Shrinking' = Shrinking /\ Used' = Used
  BY DEF Shrinking, Used
<1>2. \A c : Listed(c)' = Listed(c)
  BY <1>1 DEF Listed
<1>3. \A c : ApiOwner(c)' = ApiOwner(c) /\ LoopOwner(c)' = LoopOwner(c) /\ Handled(c)' = Handled(c)
  BY DEF ApiOwner, LoopOwner, Handled
<1>4. TableInv'
  BY <1>1 DEF CountInv, TableInv, ApiInTable, LoopInTable
<1>5. OneOwner'
  BY <1>2, <1>3 DEF CountInv, OneOwner
<1>6. Account'
  BY <1>2, <1>3 DEF CountInv, Account, Owned, One
<1> QED BY <1>4, <1>5, <1>6 DEF CountInv

(* A step that leaves the table, the objects and the API thread alone, and *)
(* the event loop in a state that owns nothing new, keeps the account.     *)
LEMMA LoopQuiet ==
  ASSUME WifiAssumption, CountInv, TypeOK', UNCHANGED <<slots, num_cmd, refs, lost, api>>,
         loop.pc \notin {"poll", "count down", "drop"},
         loop'.pc \notin {"poll", "count down", "drop"}, loop'.cmd = loop.cmd,
         loop'.pc = "move" =>
           ~ApiInTable /\ loop'.slot \in 1 .. num_cmd /\ slots[loop'.slot] = loop'.cmd
  PROVE  CountInv'
<1>1. Shrinking' = Shrinking /\ Used' = Used
  BY DEF Shrinking, Used
<1>2. \A c : Listed(c)' = Listed(c)
  BY <1>1 DEF Listed
<1>3. \A c : ApiOwner(c)' = ApiOwner(c) /\ LoopOwner(c)' = LoopOwner(c) /\ Handled(c)' = Handled(c)
  BY DEF ApiOwner, LoopOwner, Handled
<1>4. TableInv'
  BY <1>1 DEF CountInv, TableInv, ApiInTable, LoopInTable
<1>5. OneOwner'
  BY <1>2, <1>3 DEF CountInv, OneOwner
<1>6. Account'
  BY <1>2, <1>3 DEF CountInv, Account, Owned, One
<1> QED BY <1>4, <1>5, <1>6 DEF CountInv

-----------------------------------------------------------------------------
(* The steps that change the table or the references, except of the type.  *)
LEMMA CountsCallStart ==
  ASSUME WifiAssumption, CountInv, TypeOK', NEW c \in Cmds, NEW k,
         Create(c, k), api.pc = "idle", api'.cmd = c, api'.pc \in {"write slot", "cancel"},
         UNCHANGED <<slots, num_cmd, lost, loop>>
  PROVE  CountInv'
<1>1. Shrinking' = Shrinking /\ Used' = Used
  BY DEF Shrinking, Used
<1>2. \A d : Listed(d)' = Listed(d)
  BY <1>1 DEF Listed
<1>3. \A d : ~ApiOwner(d) /\ (ApiOwner(d)' <=> d = c)
            /\ LoopOwner(d)' = LoopOwner(d) /\ Handled(d)' = Handled(d)
  BY DEF ApiOwner, LoopOwner, Handled
<1>4. TableInv'
  BY <1>1 DEF CountInv, TableInv, ApiInTable, LoopInTable
<1>5. refs[c] = 0 /\ refs' = [refs EXCEPT ![c] = 1] /\ ~Owned(c) /\ ~Handled(c)
  <2>1. refs[c] = 0 /\ refs' = [refs EXCEPT ![c] = 1]
    BY DEF Create, FreeAddress
  <2>2. refs[c] = One(Owned(c)) + One(Handled(c))
    BY DEF CountInv, Account
  <2>4. Owned(c) \in BOOLEAN /\ Handled(c) \in BOOLEAN
    BY DEF Owned, Handled, Listed, ApiOwner, LoopOwner
  <2> QED BY <2>1, <2>2, <2>4, Ones
<1>6. OneOwner'
  <2>1. /\ ~Listed(c) /\ ~LoopOwner(c) /\ c \notin lost
    BY <1>5 DEF Owned
  <2> SUFFICES ASSUME NEW d \in Cmds
               PROVE  /\ Listed(d)' => ~ApiOwner(d)' /\ ~LoopOwner(d)' /\ d \notin lost'
                      /\ ApiOwner(d)' => ~LoopOwner(d)' /\ d \notin lost'
                      /\ LoopOwner(d)' => d \notin lost'
    BY DEF OneOwner
  <2>2. /\ Listed(d)' = Listed(d) /\ LoopOwner(d)' = LoopOwner(d) /\ lost' = lost
        /\ ApiOwner(d)' => d = c
    BY <1>2, <1>3
  <2>3. /\ Listed(d) => ~LoopOwner(d) /\ d \notin lost
        /\ LoopOwner(d) => d \notin lost
    BY DEF CountInv, OneOwner
  <2> QED BY <2>1, <2>2, <2>3, Zenon
<1>7. Account'
  <2> SUFFICES ASSUME NEW d \in Cmds PROVE refs'[d] = One(Owned(d)') + One(Handled(d)')
    BY DEF Account
  <2>1. refs[d] = One(Owned(d)) + One(Handled(d)) /\ refs \in [Cmds -> Nat]
    BY DEF CountInv, Account, TypeOK, ObjType
  <2>2. CASE d = c
    <3>1. Owned(c)' /\ ~Handled(c)' /\ refs'[c] = 1
      BY <1>3, <1>5, <2>1 DEF Owned
    <3>2. Owned(d)' \in BOOLEAN /\ Handled(d)' \in BOOLEAN
      BY DEF Owned, Handled, Listed, ApiOwner, LoopOwner
    <3>3. One(Owned(d)') + One(Handled(d)') = 1
      BY <2>2, <3>1, <3>2, Ones, Zenon
    <3> QED BY <2>2, <3>1, <3>3
  <2>3. CASE d # c
    <3>1. Owned(d)' = Owned(d) /\ Handled(d)' = Handled(d)
      BY <1>2, <1>3, <2>3 DEF Owned
    <3> QED BY <1>5, <2>1, <2>3, <3>1
  <2> QED BY <2>2, <2>3
<1> QED BY <1>4, <1>6, <1>7 DEF CountInv

(* wifi_register_cmd writes the slot: nobody counts it yet.                *)
LEMMA CountsRegisterWrite ==
  ASSUME WifiAssumption, CountInv, TypeOK', ~Overlap, RegisterWrite
  PROVE  CountInv'
<1>0. /\ api.pc = "write slot" /\ num_cmd < CmdMax /\ ~LoopInTable
      /\ slots' = [slots EXCEPT ![num_cmd + 1] = api.cmd]
      /\ api' = [api EXCEPT !.pc = "count up"] /\ UNCHANGED <<num_cmd, refs, lost, loop>>
  BY DEF RegisterWrite, objVars
<1>1. api'.pc = "count up" /\ api'.cmd = api.cmd
  BY <1>0 DEF CountInv, TypeOK, ApiType
<1>2. ~Shrinking /\ ~Shrinking' /\ Used = num_cmd /\ Used' = num_cmd /\ num_cmd \in 0 .. CmdMax
      /\ CmdMax \in Nat
  BY <1>0, <1>1 DEF Shrinking, Used, LoopInTable, CountInv, TypeOK, TableType,
       WifiAssumption
<1>t. slots \in [1 .. CmdMax -> Cmds \cup {None}]
  BY DEF CountInv, TypeOK, TableType
<1>n. num_cmd \in Nat
  BY InRange DEF CountInv
<1>w. /\ [slots EXCEPT ![num_cmd + 1] = api.cmd][num_cmd + 1] = api.cmd
      /\ \A i \in 1 .. num_cmd : [slots EXCEPT ![num_cmd + 1] = api.cmd][i] = slots[i]
  <2>1. num_cmd < CmdMax
    BY <1>0
  <2>2. CmdMax \in Nat
    BY <1>2
  <2> QED BY <2>1, <2>2, <1>t, <1>n, Written
<1>3. \A i \in 1 .. num_cmd : slots'[i] = slots[i]
  BY <1>0, <1>w, Zenon
<1>4. slots'[num_cmd + 1] = api.cmd
  BY <1>0, <1>w, Zenon
<1>5. \A c : Listed(c)' = Listed(c)
  BY <1>2, <1>3 DEF Listed
<1>6. \A c : ApiOwner(c)' = ApiOwner(c) /\ LoopOwner(c)' = LoopOwner(c) /\ Handled(c)' = Handled(c)
  BY <1>0, <1>1 DEF ApiOwner, LoopOwner, Handled
<1>7. TableInv'
  <2>1. ~LoopInTable' /\ loop'.pc # "move"
    BY <1>0 DEF LoopInTable
  <2>2. /\ \A i \in 1 .. num_cmd : slots[i] \in Cmds
        /\ \A i, j \in 1 .. num_cmd : slots[i] = slots[j] => i = j
    BY <1>2 DEF CountInv, TableInv
  <2>3. /\ \A i \in 1 .. num_cmd : slots'[i] \in Cmds
        /\ \A i, j \in 1 .. num_cmd : slots'[i] = slots'[j] => i = j
    BY <1>3, <2>2
  <2> QED BY <1>0, <1>1, <1>2, <1>4, <2>1, <2>3 DEF TableInv
<1>8. OneOwner'
  BY <1>0, <1>5, <1>6 DEF CountInv, OneOwner
<1>9. Account'
  BY <1>0, <1>5, <1>6 DEF CountInv, Account, Owned, One
<1> QED BY <1>7, <1>8, <1>9 DEF CountInv

(* wifi_register_cmd counts the slot: the table owns the object.           *)
LEMMA CountsRegisterCount ==
  ASSUME WifiAssumption, CountInv, TypeOK', ~Overlap, RegisterCount
  PROVE  CountInv'
<1>0. /\ api.pc = "count up" /\ num_cmd' = num_cmd + 1
      /\ api' = [api EXCEPT !.pc = "run"] /\ UNCHANGED <<slots, refs, lost, loop>>
  BY DEF RegisterCount, objVars
<1>1. api'.pc = "run" /\ api'.cmd = api.cmd /\ api.cmd \in Cmds
  BY <1>0 DEF CountInv, TypeOK, ApiType
<1>2. /\ ~LoopInTable /\ num_cmd < CmdMax /\ slots[num_cmd + 1] = api.cmd
      /\ num_cmd \in Nat /\ CmdMax \in Nat
  <2>1. num_cmd \in Nat /\ CmdMax \in Nat
    BY InRange DEF CountInv
  <2>2. ApiInTable
    BY <1>0 DEF ApiInTable
  <2> QED BY <1>0, <2>1, <2>2 DEF CountInv, TableInv
<1>3. ~Shrinking /\ ~Shrinking' /\ Used = num_cmd /\ Used' = num_cmd + 1
  BY <1>0, <1>1, <1>2 DEF Shrinking, Used, LoopInTable
<1>4. \A c : Listed(c)' <=> Listed(c) \/ c = api.cmd
  <2>1. \A i : i \in 1 .. num_cmd + 1 <=> i \in 1 .. num_cmd \/ i = num_cmd + 1
    BY <1>2
  <2>2. \A c : (\E i \in 1 .. num_cmd + 1 : slots[i] = c)
              <=> (\E i \in 1 .. num_cmd : slots[i] = c) \/ c = api.cmd
    BY <1>2, <2>1
  <2> QED BY <1>0, <1>3, <2>2 DEF Listed
<1>5. \A c : /\ ApiOwner(c) <=> c = api.cmd
             /\ ~ApiOwner(c)'
             /\ LoopOwner(c)' = LoopOwner(c) /\ Handled(c)' = Handled(c)
  BY <1>0, <1>1 DEF ApiOwner, LoopOwner, Handled
<1>6. ~Listed(api.cmd)
  BY <1>1, <1>5 DEF CountInv, OneOwner
<1>7. TableInv'
  <2>1. ~LoopInTable' /\ loop'.pc # "move"
    BY <1>0, <1>2 DEF LoopInTable
  <2>2. \A i, j \in 1 .. num_cmd + 1 : slots[i] = slots[j] => i = j
    <3>1. /\ \A i, j \in 1 .. num_cmd : slots[i] = slots[j] => i = j
          /\ \A i \in 1 .. num_cmd : slots[i] # slots[num_cmd + 1]
      BY <1>2, <1>3, <1>6 DEF CountInv, TableInv, Listed
    <3>2. \A i : i \in 1 .. num_cmd + 1 <=> i \in 1 .. num_cmd \/ i = num_cmd + 1
      BY <1>2
    <3> QED BY <3>1, <3>2
  <2>3. \A i \in 1 .. num_cmd + 1 : slots[i] \in Cmds
    <3>1. \A i \in 1 .. num_cmd : slots[i] \in Cmds
      BY <1>3 DEF CountInv, TableInv
    <3>2. \A i : i \in 1 .. num_cmd + 1 <=> i \in 1 .. num_cmd \/ i = num_cmd + 1
      BY <1>2
    <3> QED BY <1>1, <1>2, <3>1, <3>2
  <2>4. Used' \in 0 .. CmdMax
    BY <1>2, <1>3
  <2> QED BY <1>0, <1>1, <1>3, <2>1, <2>2, <2>3, <2>4 DEF TableInv, ApiInTable
<1>8. OneOwner'
  BY <1>0, <1>4, <1>5 DEF CountInv, OneOwner
<1>9. Account'
  <2>1. \A c : Owned(c)' <=> Owned(c)
    BY <1>0, <1>4, <1>5 DEF Owned
  <2> QED BY <1>0, <1>5, <2>1 DEF CountInv, Account, One
<1> QED BY <1>7, <1>8, <1>9 DEF CountInv

(* The types of the numbers of the table and of the counts.                *)
LEMMA Numbers ==
  ASSUME WifiAssumption, CountInv
  PROVE  /\ num_cmd \in Nat /\ CmdMax \in Nat /\ num_cmd <= CmdMax
         /\ slots \in [1 .. CmdMax -> Cmds \cup {None}]
         /\ refs \in [Cmds -> Nat] /\ lost \subseteq Cmds
BY InRange DEF CountInv, TypeOK, TableType, ObjType

(* The uses of an object are truth values.                                 *)
LEMMA Truths ==
  \A c : /\ Owned(c) \in BOOLEAN /\ Handled(c) \in BOOLEAN
         /\ Owned(c)' \in BOOLEAN /\ Handled(c)' \in BOOLEAN
BY DEF Owned, Handled, Listed, ApiOwner, LoopOwner

(* After the memmove the table holds what it held, except the command of   *)
(* the slot.                                                               *)
LEMMA TakenOut ==
  ASSUME WifiAssumption, CountInv, ~Shrinking, Shrinking', num_cmd' = num_cmd,
         NEW n \in 1 .. num_cmd, slots' = Moved(n)
  PROVE  /\ slots' \in [1 .. CmdMax -> Cmds \cup {None}]
         /\ Used' \in 0 .. CmdMax
         /\ \A i \in 1 .. Used' : slots'[i] \in Cmds
         /\ \A i, j \in 1 .. Used' : slots'[i] = slots'[j] => i = j
         /\ \A c : Listed(c)' <=> Listed(c) /\ c # slots[n]
<1>1. /\ num_cmd \in Nat /\ CmdMax \in Nat /\ num_cmd <= CmdMax
      /\ slots \in [1 .. CmdMax -> Cmds \cup {None}]
  BY Numbers
<1>2. Used = num_cmd /\ Used' = num_cmd - 1
  BY DEF Used
<1>3. /\ \A i \in 1 .. num_cmd : slots[i] \in Cmds
      /\ \A i, j \in 1 .. num_cmd : slots[i] = slots[j] => i = j
  BY <1>2 DEF CountInv, TableInv
<1>4. slots' = [j \in DOMAIN slots |-> IF j >= n /\ j < num_cmd THEN slots[j + 1] ELSE slots[j]]
  BY DEF Moved
<1>5. /\ slots' \in [1 .. CmdMax -> Cmds \cup {None}]
      /\ \A i \in 1 .. num_cmd - 1 : slots'[i] \in Cmds
      /\ \A i, j \in 1 .. num_cmd - 1 : slots'[i] = slots'[j] => i = j
      /\ \A c : (\E i \in 1 .. num_cmd - 1 : slots'[i] = c)
                <=> (\E i \in 1 .. num_cmd : slots[i] = c) /\ c # slots[n]
  <2> DEFINE S == Cmds \cup {None}
             g == slots'
             f == slots
  <2>1. g = [j \in DOMAIN f |-> IF j >= n /\ j < num_cmd THEN f[j + 1] ELSE f[j]]
    BY <1>4
  <2>2. /\ CmdMax \in Nat /\ num_cmd \in Nat /\ num_cmd <= CmdMax
        /\ f \in [1 .. CmdMax -> S] /\ n \in 1 .. num_cmd
        /\ \A i \in 1 .. num_cmd : f[i] \in Cmds
        /\ \A i, j \in 1 .. num_cmd : f[i] = f[j] => i = j
    BY <1>1, <1>3
  <2> HIDE DEF S, f, g
  <2> USE <2>1, <2>2
  <2> DEFINE at(j) == IF j >= n THEN j + 1 ELSE j
  <2>a1. /\ \A j \in 1 .. num_cmd - 1 : at(j) \in 1 .. num_cmd /\ at(j) # n
         /\ \A x, y \in 1 .. num_cmd - 1 : at(x) = at(y) => x = y
         /\ \A x \in 1 .. num_cmd : x # n => \E y \in 1 .. num_cmd - 1 : at(y) = x
    <3>1. \A i \in 1 .. num_cmd : i # n => \E j \in 1 .. num_cmd - 1 : at(j) = i
      <4> SUFFICES ASSUME NEW i \in 1 .. num_cmd, i # n PROVE \E j \in 1 .. num_cmd - 1 : at(j) = i
        OBVIOUS
      <4>1. CASE i < n
        <5>1. i \in 1 .. num_cmd - 1 /\ at(i) = i
          BY <4>1
        <5> QED BY <5>1
      <4>2. CASE ~(i < n)
        <5>1. i - 1 \in 1 .. num_cmd - 1 /\ at(i - 1) = i
          BY <4>2
        <5> QED BY <5>1
      <4> QED BY <4>1, <4>2
    <3>2. num_cmd \in Nat /\ n \in Nat /\ 1 <= n /\ n <= num_cmd
      BY <2>2
    <3>3. \A j \in 1 .. num_cmd - 1 : at(j) \in 1 .. num_cmd /\ at(j) # n
      BY <3>2
    <3>4. \A i, j \in 1 .. num_cmd - 1 : at(i) = at(j) => i = j
      BY <3>2
    <3> QED BY <3>1, <3>3, <3>4
  <2>a2. \A j \in 1 .. num_cmd - 1 : g[j] = f[at(j)]
    OBVIOUS
  <2>a3. g \in [1 .. CmdMax -> S]
    <3>1. \A j \in 1 .. CmdMax : j < num_cmd => j + 1 \in 1 .. CmdMax
      OBVIOUS
    <3>2. \A j \in 1 .. CmdMax : (IF j >= n /\ j < num_cmd THEN f[j + 1] ELSE f[j]) \in S
      BY <3>1
    <3> QED BY <3>2
  <2> HIDE DEF at
  <2>a4. \A i \in 1 .. num_cmd - 1 : g[i] \in Cmds
    BY <2>a1, <2>a2
  <2>a5. \A i, j \in 1 .. num_cmd - 1 : g[i] = g[j] => i = j
    <3> SUFFICES ASSUME NEW i \in 1 .. num_cmd - 1, NEW j \in 1 .. num_cmd - 1, g[i] = g[j]
                 PROVE  i = j
      OBVIOUS
    <3>1. f[at(i)] = f[at(j)] /\ at(i) \in 1 .. num_cmd /\ at(j) \in 1 .. num_cmd
      BY <2>a1, <2>a2
    <3>2. at(i) = at(j)
      BY <3>1
    <3> QED BY <2>a1, <3>2
  <2>a6. ASSUME NEW c PROVE (\E i \in 1 .. num_cmd - 1 : g[i] = c) <=> (\E i \in 1 .. num_cmd : f[i] = c) /\ c # f[n]
    <3>1. ASSUME NEW i \in 1 .. num_cmd - 1, g[i] = c PROVE (\E j \in 1 .. num_cmd : f[j] = c) /\ c # f[n]
      BY <2>a1, <2>a2, <3>1
    <3>2. ASSUME NEW i \in 1 .. num_cmd, f[i] = c, c # f[n] PROVE \E j \in 1 .. num_cmd - 1 : g[j] = c
      <4>1. PICK j \in 1 .. num_cmd - 1 : at(j) = i
        BY <2>a1, <3>2
      <4> QED BY <2>a2, <3>2, <4>1
    <3> QED BY <3>1, <3>2
  <2> QED BY <2>a3, <2>a4, <2>a5, <2>a6 DEF S, f, g
<1>6. \A c : Listed(c)' <=> Listed(c) /\ c # slots[n]
  BY <1>2, <1>5 DEF Listed
<1>7. Used' \in 0 .. CmdMax
  BY <1>1, <1>2
<1> QED BY <1>2, <1>5, <1>6, <1>7

(* One use of an object ends: one reference less.                          *)
LEMMA Released ==
  ASSUME WifiAssumption, CountInv, NEW c \in Cmds, ReleaseRef(c),
         \A d \in Cmds : d # c => Owned(d)' = Owned(d) /\ Handled(d)' = Handled(d),
         \/ Owned(c) /\ ~Owned(c)' /\ Handled(c)' = Handled(c)
         \/ Handled(c) /\ ~Handled(c)' /\ Owned(c)' = Owned(c)
  PROVE  Account' /\ refs[c] > 0 /\ refs' \in [Cmds -> Nat]
<1>1. /\ \A d \in Cmds : refs[d] = One(Owned(d)) + One(Handled(d))
      /\ refs \in [Cmds -> Nat] /\ refs' = [refs EXCEPT ![c] = refs[c] - 1]
  BY Numbers DEF CountInv, Account, ReleaseRef
<1>2. refs[c] = One(Owned(c)') + One(Handled(c)') + 1
  <2>1. refs[c] = One(Owned(c)) + One(Handled(c))
    BY <1>1
  <2> DEFINE a == Owned(c) b == Handled(c) x == Owned(c)' y == Handled(c)'
  <2>2. a \in BOOLEAN /\ b \in BOOLEAN /\ x \in BOOLEAN /\ y \in BOOLEAN
    BY Truths
  <2>3. \/ a /\ ~x /\ y = b
        \/ b /\ ~y /\ x = a
    OBVIOUS
  <2>4. refs[c] = One(a) + One(b)
    BY <2>1
  <2> HIDE DEF a, b, x, y
  <2>5. \A p, q, s, t \in BOOLEAN :
           (p /\ ~s /\ t = q) \/ (q /\ ~t /\ s = p) => One(p) + One(q) = One(s) + One(t) + 1
    BY DEF One
  <2>6. refs[c] = One(x) + One(y) + 1
    BY <2>2, <2>3, <2>4, <2>5
  <2> QED BY <2>6 DEF x, y
<1>3. One(Owned(c)') + One(Handled(c)') \in Nat
  BY Truths, Ones
<1>4. ASSUME NEW d \in Cmds PROVE refs'[d] = One(Owned(d)') + One(Handled(d)')
  <2>1. CASE d = c
    BY <1>1, <1>2, <1>3, <2>1
  <2>2. CASE d # c
    <3>1. refs'[d] = refs[d]
      BY <1>1, <2>2
    <3> QED BY <1>1, <2>2, <3>1
  <2> QED BY <2>1, <2>2
<1>5. refs[c] > 0 /\ refs[c] - 1 \in Nat
  BY <1>2, <1>3
<1> QED BY <1>1, <1>4, <1>5 DEF Account

(* One more reference.                                                     *)
LEMMA Added ==
  ASSUME WifiAssumption, CountInv, NEW c \in Cmds, AddRef(c), ~Handled(c), Handled(c)', Owned(c)' = Owned(c),
         \A d \in Cmds : d # c => Owned(d)' = Owned(d) /\ Handled(d)' = Handled(d)
  PROVE  Account' /\ refs' \in [Cmds -> Nat]
<1>1. /\ \A d \in Cmds : refs[d] = One(Owned(d)) + One(Handled(d))
      /\ refs \in [Cmds -> Nat] /\ refs' = [refs EXCEPT ![c] = refs[c] + 1]
  BY Numbers DEF CountInv, Account, AddRef
<1>2. One(Owned(c)') + One(Handled(c)') = refs[c] + 1
  <2>1. refs[c] = One(Owned(c)) + One(Handled(c))
    BY <1>1
  <2> DEFINE a == Owned(c) b == Handled(c) x == Owned(c)' y == Handled(c)'
  <2>2. a \in BOOLEAN /\ b \in BOOLEAN /\ x \in BOOLEAN /\ y \in BOOLEAN
    BY Truths
  <2>3. ~b /\ y /\ x = a
    OBVIOUS
  <2>4. refs[c] = One(a) + One(b)
    BY <2>1
  <2> HIDE DEF a, b, x, y
  <2>5. One(x) + One(y) = refs[c] + 1
    BY <2>2, <2>3, <2>4 DEF One
  <2> QED BY <2>5 DEF x, y
<1>4. ASSUME NEW d \in Cmds PROVE refs'[d] = One(Owned(d)') + One(Handled(d)')
  <2>1. CASE d = c
    BY <1>1, <1>2, <2>1
  <2>2. CASE d # c
    <3>1. refs'[d] = refs[d]
      BY <1>1, <2>2
    <3> QED BY <1>1, <2>2, <3>1
  <2> QED BY <2>1, <2>2
<1> QED BY <1>1, <1>4 DEF Account

(* No room in the table: the object is lost, its reference with it.        *)
LEMMA CountsRegisterFull ==
  ASSUME WifiAssumption, CountInv, TypeOK', RegisterFull
  PROVE  CountInv'
<1>0. /\ api.pc = "write slot" /\ lost' = lost \cup {api.cmd}
      /\ api'.pc = "idle" \/ api'.pc = "run"
      /\ UNCHANGED <<slots, num_cmd, refs, loop>> /\ api.cmd \in Cmds
  BY DEF RegisterFull, tableVars, ApiIdle, CountInv, TypeOK, ApiType
<1>1. Shrinking' = Shrinking /\ Used' = Used
  BY <1>0 DEF Shrinking, Used
<1>2. \A c : Listed(c)' = Listed(c)
  BY <1>0, <1>1 DEF Listed
<1>3. \A c : /\ ApiOwner(c) <=> c = api.cmd
             /\ ~ApiOwner(c)'
             /\ LoopOwner(c)' = LoopOwner(c) /\ Handled(c)' = Handled(c)
  BY <1>0 DEF ApiOwner, LoopOwner, Handled
<1>4. TableInv'
  BY <1>0, <1>1 DEF CountInv, TableInv, ApiInTable, LoopInTable
<1>5. OneOwner'
  BY <1>0, <1>2, <1>3 DEF CountInv, OneOwner
<1>6. Account'
  <2>1. \A c : Owned(c)' <=> Owned(c)
    BY <1>0, <1>2, <1>3 DEF Owned
  <2> QED BY <1>0, <1>3, <2>1 DEF CountInv, Account, One
<1> QED BY <1>4, <1>5, <1>6 DEF CountInv

(* The API thread takes the command out of the table: it owns the          *)
(* reference of the table.                                                 *)
LEMMA CountsApiMove ==
  ASSUME WifiAssumption, CountInv, TypeOK', ApiMove
  PROVE  CountInv'
<1>0. /\ api.pc = "move" /\ slots' = Moved(api.slot)
      /\ UNCHANGED <<num_cmd, refs, lost, loop>>
  BY DEF ApiMove, objVars
<1>1. api'.pc = "count down" /\ api'.cmd = api.cmd /\ api.cmd \in Cmds
  <2>1. SlotOf(api.cmd) \in 0 .. CmdMax
    BY InRange DEF CountInv
  <2> QED BY <1>0, <2>1, TableSteps DEF CountInv, TypeOK, SameCall, ApiType
<1>2. api.slot \in 1 .. num_cmd /\ slots[api.slot] = api.cmd /\ ~LoopInTable
  BY <1>0 DEF CountInv, TableInv, ApiInTable
<1>3. ~Shrinking /\ Shrinking'
  BY <1>0, <1>1, <1>2 DEF Shrinking, LoopInTable
<1>4. /\ Used' \in 0 .. CmdMax
      /\ \A i \in 1 .. Used' : slots'[i] \in Cmds
      /\ \A i, j \in 1 .. Used' : slots'[i] = slots'[j] => i = j
      /\ \A c : Listed(c)' <=> Listed(c) /\ c # api.cmd
  <2>1. \A c : c # slots[api.slot] <=> c # api.cmd
    BY <1>2
  <2> QED BY <1>0, <1>2, <1>3, <2>1, TakenOut
<1>5. \A c : /\ ~ApiOwner(c) /\ (ApiOwner(c)' <=> c = api.cmd)
             /\ LoopOwner(c)' = LoopOwner(c) /\ Handled(c)' = Handled(c)
  BY <1>0, <1>1 DEF ApiOwner, LoopOwner, Handled
<1>6. Listed(api.cmd)
  <2>1. Used = num_cmd
    BY <1>3 DEF Used
  <2> QED BY <1>2, <2>1 DEF Listed
<1>7. TableInv'
  <2>1. ~LoopInTable' /\ loop'.pc # "move"
    BY <1>0, <1>2 DEF LoopInTable
  <2> QED BY <1>1, <1>4, <2>1 DEF TableInv
<1>8. OneOwner'
  BY <1>0, <1>1, <1>4, <1>5, <1>6 DEF CountInv, OneOwner
<1>9. Account'
  <2>1. \A c : Owned(c)' <=> Owned(c)
    BY <1>0, <1>4, <1>5, <1>6 DEF Owned
  <2> QED BY <1>0, <1>5, <2>1 DEF CountInv, Account, One
<1> QED BY <1>7, <1>8, <1>9 DEF CountInv

(* The count of the table goes down behind the memmove.                    *)
LEMMA CountsApiCountDown ==
  ASSUME WifiAssumption, CountInv, TypeOK', ApiCountDown
  PROVE  CountInv'
<1>0. /\ api.pc = "count down" /\ num_cmd' = num_cmd - 1
      /\ UNCHANGED <<slots, refs, lost, loop>>
  BY DEF ApiCountDown, objVars
<1>1. api'.pc = "cancel" /\ api'.cmd = api.cmd
  <2>1. SlotOf(api.cmd) \in 0 .. CmdMax
    BY InRange DEF CountInv
  <2> QED BY <2>1, TableSteps DEF CountInv, TypeOK, SameCall
<1>2. ~LoopInTable
  BY <1>0 DEF CountInv, TableInv, ApiInTable
<1>3. Shrinking /\ ~Shrinking' /\ Used' = Used
  BY <1>0, <1>1, <1>2 DEF Shrinking, LoopInTable, Used
<1>4. \A c : Listed(c)' <=> Listed(c)
  BY <1>0, <1>3 DEF Listed
<1>5. \A c : ApiOwner(c)' = ApiOwner(c) /\ LoopOwner(c)' = LoopOwner(c) /\ Handled(c)' = Handled(c)
  BY <1>0, <1>1 DEF ApiOwner, LoopOwner, Handled
<1>7. TableInv'
  <2>1. ~LoopInTable' /\ loop'.pc # "move"
    BY <1>0, <1>2 DEF LoopInTable
  <2> QED BY <1>0, <1>1, <1>3, <2>1 DEF CountInv, TableInv
<1>8. OneOwner'
  BY <1>0, <1>4, <1>5 DEF CountInv, OneOwner
<1>9. Account'
  <2>1. \A c : Owned(c)' <=> Owned(c)
    BY <1>0, <1>4, <1>5 DEF Owned
  <2> QED BY <1>0, <1>5, <2>1 DEF CountInv, Account, One
<1> QED BY <1>7, <1>8, <1>9 DEF CountInv

(* cancel() has returned: the API thread gives up its reference.           *)
LEMMA CountsCancelReturns ==
  ASSUME WifiAssumption, CountInv, TypeOK', CancelReturns
  PROVE  CountInv' /\ refs[api.cmd] > 0
<1>0. /\ api.pc = "cancel" /\ ReleaseRef(api.cmd) /\ api'.pc = "idle"
      /\ UNCHANGED <<slots, num_cmd, lost, loop>> /\ api.cmd \in Cmds
  BY DEF CancelReturns, tableVars, ApiIdle, CountInv, TypeOK, ApiType
<1>1. Shrinking' = Shrinking /\ Used' = Used
  BY <1>0 DEF Shrinking, Used
<1>2. \A c : Listed(c)' = Listed(c)
  BY <1>0, <1>1 DEF Listed
<1>3. \A c : /\ ApiOwner(c) <=> c = api.cmd
             /\ ~ApiOwner(c)'
             /\ LoopOwner(c)' = LoopOwner(c) /\ Handled(c)' = Handled(c)
  BY <1>0 DEF ApiOwner, LoopOwner, Handled
<1>4. TableInv'
  BY <1>0, <1>1 DEF CountInv, TableInv, ApiInTable, LoopInTable
<1>5. OneOwner'
  BY <1>0, <1>2, <1>3 DEF CountInv, OneOwner
<1>6. Account' /\ refs[api.cmd] > 0
  <2> DEFINE a == api.cmd
  <2>0. PICK c \in Cmds : c = api.cmd
    BY <1>0
  <2>1. \A d \in Cmds : d # c => Owned(d)' = Owned(d) /\ Handled(d)' = Handled(d)
    BY <1>0, <1>2, <1>3, <2>0 DEF Owned
  <2>2. ApiOwner(c) /\ ~Listed(c) /\ ~LoopOwner(c) /\ c \notin lost
    BY <1>3, <2>0 DEF CountInv, OneOwner
  <2>3. ~Listed(c)' /\ ~LoopOwner(c)' /\ ~ApiOwner(c)' /\ c \notin lost'
    BY <1>0, <1>2, <1>3, <2>2
  <2>4. Owned(c) /\ ~Owned(c)' /\ Handled(c)' = Handled(c)
    BY <1>3, <2>2, <2>3 DEF Owned
  <2>5. ReleaseRef(c)
    BY <1>0, <2>0
  <2> QED BY <2>0, <2>1, <2>4, <2>5, Released
<1> QED BY <1>4, <1>5, <1>6 DEF CountInv

(* The event loop holds the command whose event it handles.                *)
LEMMA CountsDispatch ==
  ASSUME WifiAssumption, CountInv, TypeOK', NEW s, Dispatch(s)
  PROVE  CountInv'
<1> DEFINE where == HandlerOf(s)
<1>0. /\ loop.pc = "poll" /\ where # 0 /\ AddRef(event_cb[where].cmd)
      /\ loop' = [LoopIdle EXCEPT !.pc = "handle", !.cmd = event_cb[where].cmd]
      /\ UNCHANGED <<slots, num_cmd, lost, api>>
  BY DEF Dispatch, tableVars
<1>1. where \in 1 .. Len(event_cb) /\ event_cb \in Seq(Entries)
  BY <1>0, FirstHandler DEF CountInv, TypeOK
<1>2. event_cb[where].cmd \in Cmds
  <2>1. event_cb[where] \in Entries
    BY <1>1, ElementOfSeq
  <2> QED BY <2>1 DEF Entries
<1> HIDE DEF where
<1>c. PICK c \in Cmds : c = event_cb[where].cmd
  BY <1>2
<1>3. loop'.pc = "handle" /\ loop'.cmd = c /\ AddRef(c)
  BY <1>0, <1>c DEF LoopIdle
<1>4. Shrinking' = Shrinking /\ Used' = Used
  BY <1>0, <1>3 DEF Shrinking, Used
<1>5. \A d : Listed(d)' = Listed(d)
  BY <1>0, <1>4 DEF Listed
<1>6. \A d : /\ ApiOwner(d)' = ApiOwner(d) /\ ~LoopOwner(d) /\ ~LoopOwner(d)'
             /\ ~Handled(d) /\ (Handled(d)' <=> d = c)
  BY <1>0, <1>3 DEF ApiOwner, LoopOwner, Handled
<1>7. TableInv'
  BY <1>0, <1>3, <1>4 DEF CountInv, TableInv, ApiInTable, LoopInTable
<1>8. OneOwner'
  BY <1>0, <1>5, <1>6 DEF CountInv, OneOwner
<1>9. Account'
  <2>1. \A d : Owned(d)' = Owned(d)
    BY <1>0, <1>5, <1>6 DEF Owned
  <2>2. ~Handled(c) /\ Handled(c)' /\ \A d \in Cmds : d # c => Handled(d)' = Handled(d)
    BY <1>6, Truths
  <2> QED BY <1>3, <2>1, <2>2, Added
<1> QED BY <1>7, <1>8, <1>9 DEF CountInv

(* The event loop takes the command out of the table: it owns the          *)
(* reference of the table.                                                 *)
LEMMA CountsLoopMove ==
  ASSUME WifiAssumption, CountInv, TypeOK', LoopMove
  PROVE  CountInv'
<1>0. /\ loop.pc = "move" /\ slots' = Moved(loop.slot)
      /\ loop' = [loop EXCEPT !.pc = "count down", !.slot = 0]
      /\ UNCHANGED <<num_cmd, refs, lost, api>>
  BY DEF LoopMove, objVars
<1>1. loop'.pc = "count down" /\ loop'.cmd = loop.cmd /\ loop.cmd \in Cmds
  BY <1>0 DEF CountInv, TypeOK, LoopType
<1>2. loop.slot \in 1 .. num_cmd /\ slots[loop.slot] = loop.cmd /\ ~ApiInTable
  BY <1>0 DEF CountInv, TableInv, LoopInTable
<1>3. ~Shrinking /\ Shrinking'
  BY <1>0, <1>1, <1>2 DEF Shrinking, ApiInTable
<1>4. /\ Used' \in 0 .. CmdMax
      /\ \A i \in 1 .. Used' : slots'[i] \in Cmds
      /\ \A i, j \in 1 .. Used' : slots'[i] = slots'[j] => i = j
      /\ \A c : Listed(c)' <=> Listed(c) /\ c # loop.cmd
  <2>1. \A c : c # slots[loop.slot] <=> c # loop.cmd
    BY <1>2
  <2> QED BY <1>0, <1>2, <1>3, <2>1, TakenOut
<1>5. \A c : /\ ~LoopOwner(c) /\ (LoopOwner(c)' <=> c = loop.cmd)
             /\ ApiOwner(c)' = ApiOwner(c) /\ Handled(c)' = Handled(c)
  BY <1>0, <1>1 DEF ApiOwner, LoopOwner, Handled
<1>6. Listed(loop.cmd)
  <2>1. Used = num_cmd
    BY <1>3 DEF Used
  <2> QED BY <1>2, <2>1 DEF Listed
<1>7. TableInv'
  <2>1. ~ApiInTable' /\ api'.pc # "move" /\ api'.pc # "count up"
    BY <1>0, <1>2 DEF ApiInTable
  <2> QED BY <1>1, <1>4, <2>1 DEF TableInv
<1>8. OneOwner'
  BY <1>0, <1>1, <1>4, <1>5, <1>6 DEF CountInv, OneOwner
<1>9. Account'
  <2>1. \A c : Owned(c)' <=> Owned(c)
    BY <1>0, <1>4, <1>5, <1>6 DEF Owned
  <2> QED BY <1>0, <1>5, <2>1 DEF CountInv, Account, One
<1> QED BY <1>7, <1>8, <1>9 DEF CountInv

(* The count of the table goes down behind the memmove.                    *)
LEMMA CountsLoopCountDown ==
  ASSUME WifiAssumption, CountInv, TypeOK', LoopCountDown
  PROVE  CountInv'
<1>0. /\ loop.pc = "count down" /\ num_cmd' = num_cmd - 1
      /\ loop' = [loop EXCEPT !.pc = "drop"] /\ UNCHANGED <<slots, refs, lost, api>>
  BY DEF LoopCountDown, objVars
<1>1. loop'.pc = "drop" /\ loop'.cmd = loop.cmd
  BY <1>0 DEF CountInv, TypeOK, LoopType
<1>2. ~ApiInTable
  BY <1>0 DEF CountInv, TableInv, LoopInTable
<1>3. Shrinking /\ ~Shrinking' /\ Used' = Used
  BY <1>0, <1>1, <1>2 DEF Shrinking, ApiInTable, Used
<1>4. \A c : Listed(c)' <=> Listed(c)
  BY <1>0, <1>3 DEF Listed
<1>5. \A c : ApiOwner(c)' = ApiOwner(c) /\ LoopOwner(c)' = LoopOwner(c) /\ Handled(c)' = Handled(c)
  BY <1>0, <1>1 DEF ApiOwner, LoopOwner, Handled
<1>7. TableInv'
  <2>1. ~ApiInTable' /\ api'.pc # "move" /\ api'.pc # "count up"
    BY <1>0, <1>2 DEF ApiInTable
  <2> QED BY <1>0, <1>1, <1>3, <2>1 DEF CountInv, TableInv
<1>8. OneOwner'
  BY <1>0, <1>4, <1>5 DEF CountInv, OneOwner
<1>9. Account'
  <2>1. \A c : Owned(c)' <=> Owned(c)
    BY <1>0, <1>4, <1>5 DEF Owned
  <2> QED BY <1>0, <1>5, <2>1 DEF CountInv, Account, One
<1> QED BY <1>7, <1>8, <1>9 DEF CountInv

(* The event loop gives up the reference of the table, then its own.       *)
LEMMA CountsLoopReleases ==
  ASSUME WifiAssumption, CountInv, TypeOK', LoopDrop \/ LoopRelease
  PROVE  CountInv' /\ refs[loop.cmd] > 0
<1>0. /\ loop.pc = "drop" \/ loop.pc = "release"
      /\ ReleaseRef(loop.cmd)
      /\ UNCHANGED <<slots, num_cmd, lost, api>> /\ loop.cmd \in Cmds
  BY DEF LoopDrop, LoopRelease, tableVars, CountInv, TypeOK, LoopType
<1>c. PICK c \in Cmds : c = loop.cmd
  BY <1>0
<1>r. ReleaseRef(c)
  BY <1>0, <1>c DEF LoopDrop, LoopRelease
<1>1. \/ loop.pc = "drop" /\ loop'.pc = "release" /\ loop'.cmd = loop.cmd
      \/ loop.pc = "release" /\ loop'.pc = "poll"
  BY DEF LoopDrop, LoopRelease, LoopIdle, CountInv, TypeOK, LoopType
<1>2. Shrinking' = Shrinking /\ Used' = Used
  BY <1>0, <1>1 DEF Shrinking, Used
<1>3. \A d : Listed(d)' = Listed(d)
  BY <1>0, <1>2 DEF Listed
<1>4. \A d : ApiOwner(d)' = ApiOwner(d) /\ ~LoopOwner(d)' /\ (Handled(d) <=> d = c)
  BY <1>0, <1>1, <1>c DEF ApiOwner, LoopOwner, Handled
<1>5. \/ /\ \A d : (LoopOwner(d) <=> d = c) /\ Handled(d)' = Handled(d)
      \/ /\ \A d : ~LoopOwner(d) /\ ~Handled(d)'
  BY <1>0, <1>1, <1>c DEF LoopOwner, Handled
<1>7. TableInv'
  BY <1>0, <1>1, <1>2 DEF CountInv, TableInv, ApiInTable, LoopInTable
<1>8. OneOwner'
  BY <1>0, <1>3, <1>4 DEF CountInv, OneOwner
<1>9. Account' /\ refs[c] > 0
  <2>1. CASE \A d : (LoopOwner(d) <=> d = c) /\ Handled(d)' = Handled(d)
    <3>1. \A d \in Cmds : d # c => Owned(d)' = Owned(d) /\ Handled(d)' = Handled(d)
      BY <1>0, <1>3, <1>4, <2>1 DEF Owned
    <3>2. LoopOwner(c) /\ ~Listed(c) /\ ~ApiOwner(c) /\ c \notin lost
      BY <2>1 DEF CountInv, OneOwner
    <3>3. ~Listed(c)' /\ ~LoopOwner(c)' /\ ~ApiOwner(c)' /\ c \notin lost'
      BY <1>0, <1>3, <1>4, <3>2
    <3>4. Owned(c) /\ ~Owned(c)' /\ Handled(c)' = Handled(c)
      BY <2>1, <3>2, <3>3 DEF Owned
    <3> QED BY <1>r, <3>1, <3>4, Released
  <2>2. CASE \A d : ~LoopOwner(d) /\ ~Handled(d)'
    <3>1. \A d : Owned(d)' = Owned(d)
      BY <1>0, <1>3, <1>4, <2>2 DEF Owned
    <3>2. \A d \in Cmds : d # c => Handled(d)' = Handled(d)
      BY <1>4, <2>2, Truths
    <3>3. Handled(c) /\ ~Handled(c)'
      BY <1>4, <2>2
    <3> QED BY <1>r, <3>1, <3>2, <3>3, Released
  <2> QED BY <1>5, <2>1, <2>2
<1> QED BY <1>c, <1>7, <1>8, <1>9 DEF CountInv

(* Whoever is used has not been deleted.                                   *)
LEMMA UsedIsLive ==
  ASSUME WifiAssumption, CountInv, NEW c \in Cmds, Owned(c) \/ Handled(c)
  PROVE  refs[c] > 0
<1>1. refs[c] = One(Owned(c)) + One(Handled(c)) /\ refs[c] \in Nat
  BY Numbers DEF CountInv, Account
<1>2. ~(One(Owned(c)) + One(Handled(c)) = 0)
  BY Truths, Ones
<1> QED BY <1>1, <1>2

(* releaseRef by somebody who holds a reference keeps the types.           *)
LEMMA ReleaseTyped ==
  ASSUME WifiAssumption, CountInv, NEW c \in Cmds, Owned(c) \/ Handled(c), ReleaseRef(c),
         UNCHANGED <<lost, current>>
  PROVE  ObjType'
<1>1. refs[c] > 0 /\ ObjType
  BY UsedIsLive DEF CountInv, TypeOK
<1>2. refs' \in [Cmds -> Nat]
  BY <1>1 DEF ReleaseRef, ObjType
<1>3. kind' \in [Cmds -> Kinds \cup {"none"}]
  BY <1>1 DEF ReleaseRef, ObjType
<1> QED BY <1>1, <1>2, <1>3 DEF ObjType

(* A new object keeps the types.                                           *)
LEMMA CreateTyped ==
  ASSUME WifiAssumption, TypeOK, NEW c \in Cmds, NEW k \in Kinds, Create(c, k), UNCHANGED <<lost, current>>
  PROVE  ObjType'
BY DEF Create, ObjType, TypeOK

(* A new handler keeps the type of the handlers.                           *)
LEMMA RegisteredTyped ==
  ASSUME event_cb \in Seq(Entries), NEW s \in Subs, NEW c \in Cmds
  PROVE  Registered(s, c) \in Seq(Entries)
<1>1. [sub |-> s, cmd |-> c] \in Entries
  BY DEF Entries
<1>2. Append(event_cb, [sub |-> s, cmd |-> c]) \in Seq(Entries)
  BY <1>1, AppendProperties
<1> QED BY <1>2 DEF Registered

(* A step of the event loop to another state of the same command.          *)
LEMMA LoopTyped ==
  ASSUME WifiAssumption, CountInv, EventLoop
  PROVE  LoopType' /\ (loop'.pc # "poll" => loop'.cmd = loop.cmd)
<1>1. SlotOf(loop.cmd) \in 0 .. CmdMax /\ 0 \in 0 .. CmdMax /\ LoopType
  BY InRange, ZeroAndNothing DEF CountInv, TypeOK
<1>2. CASE LoopRelease
  BY <1>1, <1>2 DEF LoopRelease, LoopIdle, LoopType, LoopStates
<1>3. CASE LoopFind
  BY <1>1, <1>3 DEF LoopFind, LoopType, LoopStates
<1>4. CASE LoopMove
  BY <1>1, <1>4 DEF LoopMove, LoopType, LoopStates
<1>5. CASE HandleReport \/ HandleRttPart \/ HandleRttComplete \/ RttResults \/ LoopCountDown \/ LoopDrop
  BY <1>1, <1>5 DEF HandleReport, HandleRttPart, HandleRttComplete, RttResults,
       LoopCountDown,
     LoopDrop, LoopType, LoopStates
<1> QED BY <1>2, <1>3, <1>4, <1>5 DEF EventLoop

(* The steps of the event loop keep the types.                             *)
LEMMA TypeStepLoop ==
  ASSUME WifiAssumption, CountInv, EventLoop
  PROVE  TypeOK'
<1>t. TypeOK /\ LoopType'
  BY LoopTyped DEF CountInv
<1>n. /\ num_cmd \in Nat /\ CmdMax \in Nat /\ num_cmd <= CmdMax
      /\ slots \in [1 .. CmdMax -> Cmds \cup {None}]
  BY Numbers
<1>1. CASE HandleReport \/ HandleRttPart \/ LoopFind
  <2>1. UNCHANGED <<event_cb, slots, num_cmd, kind, refs, lost, current, api>>
    BY <1>1 DEF HandleReport, HandleRttPart, LoopFind, cbVars, tableVars, objVars
  <2> QED BY <1>t, <2>1 DEF TypeOK, ApiType, TableType, ObjType
<1>2. CASE HandleRttComplete
  <2>1. /\ UNCHANGED <<slots, num_cmd, kind, refs, lost, current, api>>
        /\ event_cb' = Unregistered("RTT_COMPLETE")
    BY <1>2 DEF HandleRttComplete, tableVars, objVars
  <2>2. event_cb' \in Seq(Entries)
    BY <1>t, <2>1, UnregisteredHandlers DEF TypeOK
  <2> QED BY <1>t, <2>1, <2>2 DEF TypeOK, ApiType, TableType, ObjType
<1>3. CASE RttResults
  <2>1. /\ UNCHANGED <<event_cb, slots, num_cmd, kind, refs, lost, api>>
        /\ current' = [k \in Kinds |-> IF current[k] = loop.cmd THEN None ELSE current[k]]
    BY <1>3 DEF RttResults, cbVars, tableVars, objVars
  <2>2. current' \in [Kinds -> Cmds \cup {None}]
    BY <1>t, <2>1 DEF TypeOK, ObjType
  <2> QED BY <1>t, <2>1, <2>2 DEF TypeOK, ApiType, TableType, ObjType
<1>4. CASE LoopMove
  <2>1. /\ UNCHANGED <<event_cb, num_cmd, kind, refs, lost, current, api>>
        /\ slots' = Moved(loop.slot) /\ loop.pc = "move" /\ loop'.pc = "count down"
    BY <1>4 DEF LoopMove, cbVars, objVars, CountInv, TypeOK, LoopType
  <2>2. loop.slot \in 1 .. num_cmd /\ ~ApiInTable
    BY <2>1 DEF CountInv, TableInv, LoopInTable
  <2>3. ~Shrinking /\ Shrinking'
    BY <2>1, <2>2 DEF Shrinking, ApiInTable
  <2>4. slots' \in [1 .. CmdMax -> Cmds \cup {None}]
    BY <2>1, <2>2, <2>3, TakenOut
  <2> QED BY <1>t, <2>1, <2>4 DEF TypeOK, ApiType, TableType, ObjType
<1>5. CASE LoopCountDown
  <2>1. /\ UNCHANGED <<event_cb, slots, kind, refs, lost, current, api>>
        /\ num_cmd' = num_cmd - 1 /\ loop.pc = "count down"
    BY <1>5 DEF LoopCountDown, cbVars, objVars
  <2>2. num_cmd - 1 \in 0 .. CmdMax
    BY <2>1 DEF CountInv, TableInv, Used, Shrinking
  <2> QED BY <1>t, <2>1, <2>2 DEF TypeOK, ApiType, TableType, ObjType
<1>6. CASE LoopDrop \/ LoopRelease
  <2>1. /\ UNCHANGED <<event_cb, slots, num_cmd, lost, current, api>>
        /\ ReleaseRef(loop.cmd) /\ loop.cmd \in Cmds /\ Handled(loop.cmd)
    BY <1>6 DEF LoopDrop, LoopRelease, cbVars, tableVars, CountInv, TypeOK,
         LoopType, Handled
  <2>2. ObjType'
    BY <2>1, ReleaseTyped
  <2> QED BY <1>t, <2>1, <2>2 DEF TypeOK, ApiType, TableType
<1> QED BY <1>1, <1>2, <1>3, <1>4, <1>5, <1>6 DEF EventLoop

(* The dispatch of an event keeps the types.                               *)
LEMMA TypeStepDispatch ==
  ASSUME WifiAssumption, CountInv, NEW s, Dispatch(s)
  PROVE  TypeOK'
<1> DEFINE where == HandlerOf(s)
<1>0. /\ loop.pc = "poll" /\ where # 0 /\ AddRef(event_cb[where].cmd)
      /\ loop' = [LoopIdle EXCEPT !.pc = "handle", !.cmd = event_cb[where].cmd]
      /\ UNCHANGED <<event_cb, slots, num_cmd, kind, lost, current, api>> /\ TypeOK
  BY DEF Dispatch, tableVars, cbVars, CountInv
<1>1. where \in 1 .. Len(event_cb) /\ event_cb \in Seq(Entries)
  BY <1>0, FirstHandler DEF TypeOK
<1> HIDE DEF where
<1>2. event_cb[where].cmd \in Cmds
  <2>1. event_cb[where] \in Entries
    BY <1>1, ElementOfSeq
  <2> QED BY <2>1 DEF Entries
<1>3. LoopType'
  <2>1. 0 \in 0 .. CmdMax
    BY ZeroAndNothing
  <2> QED BY <1>0, <1>2, <2>1 DEF LoopType, LoopIdle, LoopStates
<1>4. ObjType'
  BY <1>0, <1>2 DEF TypeOK, ObjType, AddRef
<1> QED BY <1>0, <1>3, <1>4 DEF TypeOK, ApiType, TableType

(* The calls of the framework keep the types.                              *)
LEMMA TypeStepCalls ==
  ASSUME WifiAssumption, CountInv, NEW k \in Kinds, CallStart(k) \/ CallStop(k) \/ CallStopAll
  PROVE  TypeOK'
<1>t. TypeOK
  BY DEF CountInv
<1>1. CASE CallStart(k)
  <2>1. PICK c \in Cmds : Create(c, k) /\ ApiType'
    BY <1>t, <1>1, CallSteps
  <2>2. UNCHANGED <<event_cb, slots, num_cmd, lost, current, loop>>
    BY <1>1 DEF CallStart, cbVars, tableVars
  <2>3. ObjType'
    BY <1>t, <2>1, <2>2, CreateTyped
  <2> QED BY <1>t, <2>1, <2>2, <2>3 DEF TypeOK, LoopType, TableType
<1>2. CASE CallStop(k)
  <2>1. ApiType' /\ UNCHANGED <<event_cb, slots, num_cmd, kind, refs, lost, loop>>
        /\ current' = [current EXCEPT ![k] = None]
    BY <1>t, <1>2, CallSteps DEF CallStop, cbVars, tableVars, objVars
  <2>2. ObjType'
    BY <1>t, <2>1 DEF TypeOK, ObjType
  <2> QED BY <1>t, <2>1, <2>2 DEF TypeOK, LoopType, TableType
<1>3. CASE CallStopAll
  <2>1. PICK c \in Cmds : Create(c, "scan") /\ ApiType' /\ "scan" \in Kinds
    BY <1>t, <1>3, CallSteps
  <2>2. UNCHANGED <<event_cb, slots, num_cmd, lost, current, loop>>
    BY <1>3 DEF CallStopAll, cbVars, tableVars
  <2>3. ObjType'
    BY <1>t, <2>1, <2>2, CreateTyped
  <2> QED BY <1>t, <2>1, <2>2, <2>3 DEF TypeOK, LoopType, TableType
<1> QED BY <1>1, <1>2, <1>3

(* The steps of the API thread in the table keep the types.                *)
LEMMA TypeStepTable ==
  ASSUME WifiAssumption, CountInv, ~Overlap,
         RegisterWrite \/ RegisterCount \/ RegisterFull \/ ApiFind \/ ApiMove \/ ApiCountDown
  PROVE  TypeOK'
<1>n. /\ num_cmd \in Nat /\ CmdMax \in Nat /\ num_cmd <= CmdMax
      /\ slots \in [1 .. CmdMax -> Cmds \cup {None}] /\ lost \subseteq Cmds
  BY Numbers
<1>t. TypeOK /\ ApiType'
  <2>1. ApiType /\ SlotOf(api.cmd) \in 0 .. CmdMax
    BY InRange DEF CountInv, TypeOK
  <2> QED BY <2>1, TableSteps DEF CountInv
<1>p. api.pc # "idle" => api.cmd \in Cmds
  BY <1>t DEF TypeOK, ApiType
<1>1. CASE RegisterWrite
  <2>1. /\ UNCHANGED <<event_cb, num_cmd, kind, refs, lost, current, loop>> /\ api.cmd \in Cmds
        /\ slots' = [slots EXCEPT ![num_cmd + 1] = api.cmd]
    BY <1>1, <1>p DEF RegisterWrite, cbVars, objVars
  <2>2. slots' \in [1 .. CmdMax -> Cmds \cup {None}]
    BY <1>n, <2>1
  <2> QED BY <1>t, <2>1, <2>2 DEF TypeOK, LoopType, TableType, ObjType
<1>2. CASE RegisterCount
  <2>1. /\ UNCHANGED <<event_cb, slots, kind, refs, lost, current, loop>>
        /\ num_cmd' = num_cmd + 1 /\ api.pc = "count up"
    BY <1>2 DEF RegisterCount, cbVars, objVars
  <2>2. num_cmd < CmdMax
    BY <2>1 DEF CountInv, TableInv
  <2>3. num_cmd + 1 \in 0 .. CmdMax
    BY <1>n, <2>2
  <2> QED BY <1>t, <2>1, <2>3 DEF TypeOK, LoopType, TableType, ObjType
<1>3. CASE RegisterFull
  <2>1. /\ UNCHANGED <<event_cb, slots, num_cmd, kind, refs, current, loop>>
        /\ lost' = lost \cup {api.cmd} /\ api.cmd \in Cmds
    BY <1>3, <1>p DEF RegisterFull, cbVars, tableVars
  <2>2. lost' \subseteq Cmds
    BY <1>n, <2>1
  <2> QED BY <1>t, <2>1, <2>2 DEF TypeOK, LoopType, TableType, ObjType
<1>4. CASE ApiFind
  <2>1. UNCHANGED <<event_cb, slots, num_cmd, kind, refs, lost, current, loop>>
    BY <1>4 DEF ApiFind, cbVars, tableVars, objVars
  <2> QED BY <1>t, <2>1 DEF TypeOK, LoopType, TableType, ObjType
<1>5. CASE ApiMove
  <2>1. /\ UNCHANGED <<event_cb, num_cmd, kind, refs, lost, current, loop>>
        /\ slots' = Moved(api.slot) /\ api.pc = "move"
    BY <1>5 DEF ApiMove, cbVars, objVars
  <2>p. api'.pc = "count down"
    <3>1. ApiType /\ SlotOf(api.cmd) \in 0 .. CmdMax
      BY InRange DEF CountInv, TypeOK
    <3> QED BY <1>5, <3>1, TableSteps
  <2>2. api.slot \in 1 .. num_cmd /\ ~LoopInTable
    BY <2>1 DEF CountInv, TableInv, ApiInTable
  <2>3. ~Shrinking /\ Shrinking'
    BY <2>1, <2>p, <2>2 DEF Shrinking, LoopInTable
  <2>4. slots' \in [1 .. CmdMax -> Cmds \cup {None}]
    BY <2>1, <2>2, <2>3, TakenOut
  <2> QED BY <1>t, <2>1, <2>4 DEF TypeOK, LoopType, TableType, ObjType
<1>6. CASE ApiCountDown
  <2>1. /\ UNCHANGED <<event_cb, slots, kind, refs, lost, current, loop>>
        /\ num_cmd' = num_cmd - 1 /\ api.pc = "count down"
    BY <1>6 DEF ApiCountDown, cbVars, objVars
  <2>2. num_cmd - 1 \in 0 .. CmdMax
    BY <2>1 DEF CountInv, TableInv, Used, Shrinking
  <2> QED BY <1>t, <2>1, <2>2 DEF TypeOK, LoopType, TableType, ObjType
<1> QED BY <1>1, <1>2, <1>3, <1>4, <1>5, <1>6

(* The steps of start() and cancel() keep the types.                       *)
LEMMA TypeStepTodo ==
  ASSUME WifiAssumption, CountInv,
         ApiRegister \/ ApiUnregister \/ Answered \/ Refused \/ StartReturns \/ CancelReturns
  PROVE  TypeOK'
<1>t. TypeOK /\ ApiType'
  <2>1. ApiType
    BY DEF CountInv, TypeOK
  <2> QED BY <2>1, TodoSteps DEF CountInv
<1>p. api.pc # "idle" => api.cmd \in Cmds /\ api.kind \in Kinds
  BY <1>t DEF TypeOK, ApiType
<1>1. CASE ApiRegister
  <2>1. /\ UNCHANGED <<slots, num_cmd, kind, refs, lost, current, loop>>
        /\ api.pc \in {"run", "cancel"} /\ Head(api.todo).op = "register" /\ api.todo # <<>>
        /\ event_cb' = Registered(Head(api.todo).sub, api.cmd)
    BY <1>1 DEF ApiRegister, tableVars, objVars, Running
  <2>2. Head(api.todo) \in Steps
    BY <1>t, <2>1, TailTyped DEF TypeOK
  <2>3. Head(api.todo).sub \in Subs
    BY <2>1, <2>2 DEF Steps
  <2>4. event_cb' \in Seq(Entries)
    BY <1>t, <1>p, <2>1, <2>3, RegisteredTyped DEF TypeOK
  <2> QED BY <1>t, <2>1, <2>4 DEF TypeOK, LoopType, TableType, ObjType
<1>2. CASE ApiUnregister
  <2>1. /\ UNCHANGED <<slots, num_cmd, kind, refs, lost, current, loop>>
        /\ event_cb' = Unregistered(Head(api.todo).sub)
    BY <1>2 DEF ApiUnregister, tableVars, objVars
  <2>2. event_cb' \in Seq(Entries)
    BY <1>t, <2>1, UnregisteredHandlers DEF TypeOK
  <2> QED BY <1>t, <2>1, <2>2 DEF TypeOK, LoopType, TableType, ObjType
<1>3. CASE Answered \/ Refused
  <2>1. UNCHANGED <<event_cb, slots, num_cmd, kind, refs, lost, current, loop>>
    BY <1>3 DEF Answered, Refused, cbVars, tableVars, objVars
  <2> QED BY <1>t, <2>1 DEF TypeOK, LoopType, TableType, ObjType
<1>4. CASE StartReturns
  <2>1. /\ UNCHANGED <<event_cb, slots, num_cmd, kind, refs, lost, loop>>
        /\ api.pc = "run"
        /\ current' = IF api.ok THEN [current EXCEPT ![api.kind] = api.cmd] ELSE current
    BY <1>4 DEF StartReturns, cbVars, tableVars, objVars
  <2>2. ObjType'
    BY <1>t, <1>p, <2>1 DEF TypeOK, ObjType
  <2> QED BY <1>t, <2>1, <2>2 DEF TypeOK, LoopType, TableType
<1>5. CASE CancelReturns
  <2>1. /\ UNCHANGED <<event_cb, slots, num_cmd, lost, current, loop>>
        /\ api.pc = "cancel" /\ ReleaseRef(api.cmd)
    BY <1>5 DEF CancelReturns, cbVars, tableVars
  <2>2. PICK c \in Cmds : c = api.cmd
    BY <1>p, <2>1
  <2>3. Owned(c)
    BY <2>1, <2>2 DEF Owned, ApiOwner
  <2>4. ObjType'
    BY <2>1, <2>2, <2>3, ReleaseTyped
  <2> QED BY <1>t, <2>1, <2>4 DEF TypeOK, LoopType, TableType
<1> QED BY <1>1, <1>2, <1>3, <1>4, <1>5

(* The account holds at the start.                                         *)
LEMMA CountInit == ASSUME WifiAssumption PROVE Init => CountInv
<1> SUFFICES ASSUME Init PROVE CountInv
  OBVIOUS
<1>0. 0 \in 0 .. CmdMax /\ <<>> \in Seq(Steps) /\ CmdMax \in Nat
  BY ZeroAndNothing DEF WifiAssumption
<1>1. api = [pc |-> "idle", cmd |-> None, kind |-> "none", todo |-> <<>>, slot |-> 0, ok |-> TRUE]
      /\ loop = [pc |-> "poll", cmd |-> None, slot |-> 0]
  BY DEF Init, ApiIdle, LoopIdle
<1>2. api.pc = "idle" /\ loop.pc = "poll" /\ num_cmd = 0 /\ lost = {}
  BY <1>1 DEF Init
<1>3. ApiType /\ LoopType
  BY <1>0, <1>1 DEF ApiType, LoopType, ApiStates, LoopStates
<1>4. TableType /\ ObjType /\ event_cb \in Seq(Entries)
  BY <1>0 DEF Init, TableType, ObjType
<1>5. Used = 0 /\ \A c : ~Listed(c) /\ ~ApiOwner(c) /\ ~LoopOwner(c) /\ ~Handled(c) /\ c \notin lost
  BY <1>2 DEF Used, Shrinking, Listed, ApiOwner, LoopOwner, Handled
<1>6. TableInv
  BY <1>0, <1>2, <1>5 DEF TableInv, ApiInTable, LoopInTable
<1>7. OneOwner
  BY <1>5 DEF OneOwner
<1>8. \A c : ~Owned(c)
  BY <1>5 DEF Owned
<1>9. Account
  BY <1>5, <1>8 DEF Account, Init, One
<1> QED BY <1>3, <1>4, <1>6, <1>7, <1>9 DEF CountInv, TypeOK

(* Every step keeps the account.                                           *)
LEMMA CountStep ==
  ASSUME WifiAssumption, ~Overlap, CountInv, [Next]_vars
  PROVE  CountInv'
<1>t. TypeOK /\ ApiType /\ SlotOf(api.cmd) \in 0 .. CmdMax
  BY InRange DEF CountInv, TypeOK
<1>1. ASSUME NEW k \in Kinds, CallStart(k) PROVE CountInv'
  <2>1. TypeOK'
    BY <1>1, TypeStepCalls
  <2>2. PICK c \in Cmds : Create(c, k) /\ api'.cmd = c /\ api'.pc = "write slot"
    BY <1>t, <1>1, CallSteps
  <2>3. api.pc = "idle" /\ UNCHANGED <<slots, num_cmd, lost, loop>>
    BY <1>1 DEF CallStart, tableVars
  <2> QED BY <2>1, <2>2, <2>3, CountsCallStart
<1>2. ASSUME NEW k \in Kinds, CallStop(k) PROVE CountInv'
  <2>1. TypeOK'
    BY <1>2, TypeStepCalls
  <2>2. api'.pc = "find" /\ api.pc = "idle" /\ UNCHANGED <<slots, num_cmd, refs, lost, loop>>
    BY <1>t, <1>2, CallSteps DEF CallStop, tableVars, objVars
  <2> QED BY <2>1, <2>2, ApiQuiet
<1>3. ASSUME NEW k \in Kinds, CallStopAll PROVE CountInv'
  <2>1. TypeOK'
    BY <1>3, TypeStepCalls
  <2>2. PICK c \in Cmds : Create(c, "scan") /\ api'.cmd = c /\ api'.pc = "cancel"
    BY <1>t, <1>3, CallSteps
  <2>3. api.pc = "idle" /\ UNCHANGED <<slots, num_cmd, lost, loop>>
    BY <1>3 DEF CallStopAll, tableVars
  <2> QED BY <2>1, <2>2, <2>3, CountsCallStart
<1>4. ASSUME RegisterWrite \/ RegisterCount \/ RegisterFull \/ ApiMove \/ ApiCountDown
      PROVE  CountInv'
  BY <1>4, TypeStepTable, CountsRegisterWrite, CountsRegisterCount,
       CountsRegisterFull,
     CountsApiMove, CountsApiCountDown
<1>5. ASSUME ApiFind PROVE CountInv'
  <2>1. TypeOK'
    BY <1>5, TypeStepTable
  <2>2. /\ api.pc = "find" /\ UNCHANGED <<slots, num_cmd, refs, lost, loop>>
        /\ ~LoopInTable
    BY <1>5 DEF ApiFind, tableVars, objVars
  <2>3. CASE SlotOf(api.cmd) # 0
    <3>1. api'.pc = "move" /\ api'.slot = SlotOf(api.cmd) /\ api'.cmd = api.cmd
      BY <1>t, <1>5, <2>3, TableSteps DEF SameCall
    <3>2. SlotOf(api.cmd) \in 1 .. num_cmd /\ slots[SlotOf(api.cmd)] = api.cmd
      <4>1. num_cmd \in Nat
        BY Numbers
      <4> QED BY <1>t, <2>3, <4>1, SlotFound DEF TypeOK
    <3> QED BY <2>1, <2>2, <3>1, <3>2, ApiQuiet
  <2>4. CASE SlotOf(api.cmd) = 0
    <3>0. api' = ApiIdle
      BY <1>t, <1>5, <2>4 DEF ApiFind
    <3>1. api'.pc = "idle"
      BY <3>0 DEF ApiIdle
    <3> QED BY <2>1, <2>2, <3>1, ApiQuiet
  <2> QED BY <2>3, <2>4
<1>6. ASSUME ApiRegister \/ ApiUnregister \/ Answered \/ Refused PROVE CountInv'
  <2>1. TypeOK'
    BY <1>6, TypeStepTodo
  <2>2. /\ api.pc \in {"run", "cancel"} /\ api'.pc = api.pc /\ api'.cmd = api.cmd
        /\ UNCHANGED <<slots, num_cmd, refs, lost, loop>>
    BY <1>t, <1>6, TodoSteps DEF SameCall, ApiRegister, ApiUnregister, Answered,
         Refused,
       tableVars, objVars
  <2> QED BY <2>1, <2>2, ApiQuiet
<1>7. ASSUME StartReturns PROVE CountInv'
  <2>1. TypeOK'
    BY <1>7, TypeStepTodo
  <2>2. api.pc = "run" /\ api'.pc = "idle" /\ UNCHANGED <<slots, num_cmd, refs, lost, loop>>
    BY <1>7 DEF StartReturns, ApiIdle, tableVars, objVars
  <2> QED BY <2>1, <2>2, ApiQuiet
<1>8. ASSUME CancelReturns PROVE CountInv'
  BY <1>8, TypeStepTodo, CountsCancelReturns
<1>9. ASSUME NEW s \in Subs, Dispatch(s) PROVE CountInv'
  BY <1>9, TypeStepDispatch, CountsDispatch
<1>10. ASSUME HandleReport \/ HandleRttPart \/ HandleRttComplete \/ RttResults PROVE CountInv'
  <2>1. TypeOK'
    BY <1>10, TypeStepLoop DEF EventLoop
  <2>2. /\ loop.pc \in {"handle", "results"} /\ loop'.pc \in {"release", "results", "find"}
        /\ UNCHANGED <<slots, num_cmd, refs, lost, api>> /\ loop'.cmd = loop.cmd
    BY <1>t, <1>10 DEF HandleReport, HandleRttPart, HandleRttComplete,
         RttResults, TypeOK, LoopType,
       tableVars, objVars
  <2> QED BY <2>1, <2>2, LoopQuiet
<1>11. ASSUME LoopFind PROVE CountInv'
  <2>1. TypeOK'
    BY <1>11, TypeStepLoop DEF EventLoop
  <2>2. /\ loop.pc = "find" /\ UNCHANGED <<slots, num_cmd, refs, lost, api>>
        /\ ~ApiInTable /\ loop'.cmd = loop.cmd
    BY <1>t, <1>11 DEF LoopFind, tableVars, objVars, TypeOK, LoopType
  <2>3. CASE SlotOf(loop.cmd) # 0
    <3>1. loop'.pc = "move" /\ loop'.slot = SlotOf(loop.cmd)
      BY <1>t, <1>11, <2>3 DEF LoopFind, TypeOK, LoopType
    <3>2. SlotOf(loop.cmd) \in 1 .. num_cmd /\ slots[SlotOf(loop.cmd)] = loop.cmd
      <4>1. num_cmd \in Nat
        BY Numbers
      <4> QED BY <1>t, <2>3, <4>1, SlotFound DEF TypeOK
    <3> QED BY <2>1, <2>2, <3>1, <3>2, LoopQuiet
  <2>4. CASE SlotOf(loop.cmd) = 0
    <3>1. loop'.pc = "release"
      BY <1>t, <1>11, <2>4 DEF LoopFind, TypeOK, LoopType
    <3> QED BY <2>1, <2>2, <3>1, LoopQuiet
  <2> QED BY <2>3, <2>4
<1>12. ASSUME LoopMove \/ LoopCountDown \/ LoopDrop \/ LoopRelease PROVE CountInv'
  BY <1>12, TypeStepLoop, CountsLoopMove, CountsLoopCountDown,
       CountsLoopReleases DEF EventLoop
<1>13. ASSUME UNCHANGED vars PROVE CountInv'
  <2>0. UNCHANGED <<event_cb, slots, num_cmd, kind, refs, lost, current, api, loop>>
    BY <1>13 DEF vars
  <2>1. TypeOK'
    BY <1>t, <2>0 DEF TypeOK, ApiType, LoopType, TableType, ObjType
  <2>2. Used' = Used /\ \A c : /\ Listed(c)' = Listed(c) /\ ApiOwner(c)' = ApiOwner(c)
                               /\ LoopOwner(c)' = LoopOwner(c) /\ Handled(c)' = Handled(c)
    BY <2>0 DEF Used, Shrinking, Listed, ApiOwner, LoopOwner, Handled
  <2>3. TableInv'
    BY <2>0, <2>2 DEF CountInv, TableInv, ApiInTable, LoopInTable
  <2>4. OneOwner' /\ Account'
    BY <2>0, <2>2 DEF CountInv, OneOwner, Account, Owned
  <2> QED BY <2>1, <2>3, <2>4 DEF CountInv
<1>14. CASE CallStopAll
  <2>1. PICK k \in Kinds : TRUE
    BY <1>14 DEF CallStopAll
  <2> QED BY <1>3, <1>14, <2>1
<1> QED BY <1>1, <1>2, <1>4, <1>5, <1>6, <1>7, <1>8, <1>9, <1>10, <1>11, <1>12,
     <1>13, <1>14
     DEF Next, Api, EventLoop

(* mRefs of every command says who uses it: the table or the thread that   *)
(* took it out, and the event loop that handles its event. Nothing is      *)
(* released twice and nothing is forgotten but what the full table lost.   *)
THEOREM RefsAreExact ==
  ASSUME WifiAssumption, ~Overlap PROVE Spec => []RefsCountUsers
<1>1. CountInv => RefsCountUsers
  <2> SUFFICES ASSUME CountInv, ~ApiInTable, ~LoopInTable, NEW c \in Cmds
               PROVE  refs[c] = One(InTable(c)) + One(c \in ApiOwns) + One(c \in lost)
                                + One(loop.pc # "poll" /\ loop.cmd = c)
                                + One(loop.pc = "drop" /\ loop.cmd = c)
    BY DEF RefsCountUsers
  <2>1. Listed(c) <=> InTable(c)
    BY DEF Listed, Used, Shrinking, ApiInTable, LoopInTable, InTable
  <2>2. ApiOwner(c) <=> c \in ApiOwns
    BY DEF ApiOwner, ApiOwns, ApiInTable
  <2>3. LoopOwner(c) <=> loop.pc = "drop" /\ loop.cmd = c
    BY DEF LoopOwner, LoopInTable
  <2>4. Handled(c) <=> loop.pc # "poll" /\ loop.cmd = c
    BY DEF Handled
  <2>5. /\ InTable(c) => c \notin ApiOwns /\ ~(loop.pc = "drop" /\ loop.cmd = c) /\ c \notin lost
        /\ c \in ApiOwns => ~(loop.pc = "drop" /\ loop.cmd = c) /\ c \notin lost
        /\ loop.pc = "drop" /\ loop.cmd = c => c \notin lost
    BY <2>1, <2>2, <2>3 DEF CountInv, OneOwner
  <2>6. Owned(c) <=> InTable(c) \/ c \in ApiOwns \/ (loop.pc = "drop" /\ loop.cmd = c) \/ c \in lost
    BY <2>1, <2>2, <2>3 DEF Owned
  <2>7. refs[c] = One(Owned(c)) + One(Handled(c))
    BY DEF CountInv, Account
  <2> QED BY <2>4, <2>5, <2>6, <2>7 DEF One
<1>2. CountInv /\ [Next]_vars => CountInv'
  BY CountStep
<1> QED BY CountInit, <1>1, <1>2, PTL DEF Spec

Starting == api.pc \in {"write slot", "count up", "run"}
Stopping == api.pc \in {"find", "move", "count down", "cancel"}
EndsRtt == loop.pc \in {"results", "find", "move", "count down", "drop"}
HandlerFor(c) == \E i \in DOMAIN event_cb : event_cb[i].cmd = c

RttShape(t) ==
  /\ \A i \in DOMAIN t : t[i].fail # "undo"
  /\ \A i, j \in DOMAIN t : i < j => t[i].op # "register"

RunInv ==
  /\ EndsRtt => kind[loop.cmd] = "rtt"
  /\ Starting /\ api.kind = "rtt" => RttShape(api.todo)
  /\ Starting /\ api.todo # <<>> =>
       /\ kind[api.cmd] = api.kind
       /\ api.pc = "run" => Listed(api.cmd) \/ api.cmd \in lost
       /\ api.kind = "rtt" => loop.cmd # api.cmd /\ ~HandlerFor(api.cmd)

(* An object that is in use before and after a step keeps its class.       *)
LEMMA KindKept ==
  ASSUME WifiAssumption, CountInv, CountInv', Next, NEW c \in Cmds,
         Owned(c) \/ Handled(c), Owned(c)' \/ Handled(c)'
  PROVE  kind'[c] = kind[c]
<1>1. refs[c] > 0 /\ refs \in [Cmds -> Nat] /\ kind \in [Cmds -> Kinds \cup {"none"}]
  BY UsedIsLive, Numbers DEF CountInv, TypeOK, ObjType
<1>2. refs'[c] # 0
  <2>1. refs'[c] = One(Owned(c)') + One(Handled(c)')
    BY DEF CountInv, Account
  <2> DEFINE x == Owned(c)' y == Handled(c)'
  <2>2. x \in BOOLEAN /\ y \in BOOLEAN /\ (x \/ y)
    BY Truths
  <2>3. refs'[c] = One(x) + One(y)
    BY <2>1
  <2> HIDE DEF x, y
  <2> QED BY <2>2, <2>3, Ones
<1>3. \/ kind' = kind
      \/ \E d \in Cmds, k \in Kinds : Create(d, k)
      \/ \E d \in {api.cmd, loop.cmd} : ReleaseRef(d)
  BY DEF Next, CallStart, CallStop, CallStopAll, Api, RegisterWrite,
       RegisterCount, RegisterFull,
     ApiFind, ApiMove, ApiCountDown, ApiRegister, ApiUnregister, Answered, Refused,
     StartReturns, CancelReturns, Dispatch, EventLoop, HandleReport, HandleRttPart,
     HandleRttComplete, RttResults, LoopFind, LoopMove, LoopCountDown, LoopDrop,
       LoopRelease, objVars
<1>4. CASE \E d \in Cmds, k \in Kinds : Create(d, k)
  BY <1>1, <1>4 DEF Create, FreeAddress
<1>5. CASE \E d \in {api.cmd, loop.cmd} : ReleaseRef(d)
  <2>1. PICK d : refs' = [refs EXCEPT ![d] = refs[d] - 1]
                 /\ kind' = IF refs[d] = 1 THEN [kind EXCEPT ![d] = "none"] ELSE kind
    BY <1>5 DEF ReleaseRef
  <2>2. CASE d = c
    BY <1>1, <1>2, <2>1, <2>2
  <2>3. CASE d # c
    BY <1>1, <2>1, <2>3
  <2> QED BY <2>2, <2>3
<1> QED BY <1>3, <1>4, <1>5

(* What happens to the todo list of a start.                               *)
LEMMA StartSteps ==
  ASSUME WifiAssumption, CountInv, Next, Starting'
  PROVE  \/ \E k \in Kinds, c \in Cmds :
              /\ Create(c, k) /\ api'.cmd = c /\ api'.kind = k /\ api'.pc = "write slot"
              /\ api'.todo = Start(k) /\ api'.ok
              /\ current[k] = None /\ api.pc = "idle"
              /\ UNCHANGED <<event_cb, loop, slots, num_cmd, lost, current>>
         \/ Starting /\ SameCall /\ SameTodo /\ api'.pc = api.pc /\ ~Api
         \/ Starting /\ SameCall /\ SameTodo /\ (RegisterWrite \/ RegisterCount \/ RegisterFull)
         \/ Starting /\ SameCall /\ api.pc = "run" /\ api'.pc = "run"
            /\ (ApiRegister \/ ApiUnregister \/ Answered \/ Refused)
<1>t. TypeOK /\ ApiType /\ SlotOf(api.cmd) \in 0 .. CmdMax
  BY InRange DEF CountInv, TypeOK
<1>i. api' = ApiIdle => ~Starting'
  BY DEF ApiIdle, Starting
<1>1. ASSUME NEW k \in Kinds, CallStart(k)
      PROVE  \E c \in Cmds :
              /\ Create(c, k) /\ api'.cmd = c /\ api'.kind = k /\ api'.pc = "write slot"
              /\ api'.todo = Start(k) /\ api'.ok
              /\ current[k] = None /\ api.pc = "idle"
              /\ UNCHANGED <<event_cb, loop, slots, num_cmd, lost, current>>
  <2>1. current[k] = None /\ api.pc = "idle" /\ UNCHANGED <<event_cb, loop, slots, num_cmd, lost, current>>
    BY <1>1 DEF CallStart, cbVars, tableVars
  <2> QED BY <1>t, <1>1, <2>1, CallSteps
<1>2. ASSUME NEW k \in Kinds, CallStop(k) \/ CallStopAll PROVE FALSE
  BY <1>t, <1>2, CallSteps DEF Starting
<1>3. ASSUME RegisterWrite \/ RegisterCount \/ RegisterFull
      PROVE  Starting /\ SameCall /\ SameTodo
  <2>1. Starting
    BY <1>3 DEF RegisterWrite, RegisterCount, RegisterFull, Starting
  <2> QED BY <1>t, <1>i, <1>3, <2>1, TableSteps
<1>4. ASSUME ApiFind \/ ApiMove \/ ApiCountDown PROVE FALSE
  BY <1>t, <1>i, <1>4, TableSteps DEF Starting
<1>5. ASSUME ApiRegister \/ ApiUnregister \/ Answered \/ Refused
      PROVE  Starting /\ SameCall /\ api.pc = "run" /\ api'.pc = "run"
  BY <1>t, <1>5, TodoSteps DEF Starting
<1>6. ASSUME StartReturns \/ CancelReturns PROVE FALSE
  BY <1>t, <1>i, <1>6, TodoSteps
<1>7. ASSUME ~Api, (\E s \in Subs : Dispatch(s)) \/ EventLoop
      PROVE  Starting /\ SameCall /\ SameTodo /\ api'.pc = api.pc
  <2>1. api' = api
    BY <1>7 DEF Dispatch, EventLoop, HandleReport, HandleRttPart,
       HandleRttComplete, RttResults, LoopFind, LoopMove, LoopCountDown,
         LoopDrop, LoopRelease
  <2> QED BY <2>1 DEF Starting, SameCall, SameTodo
<1>8. CASE \E k \in Kinds : CallStart(k) \/ CallStop(k)
  BY <1>1, <1>2, <1>8
<1>9. CASE CallStopAll
  BY <1>2, <1>9 DEF CallStopAll
<1>10. CASE Api
  BY <1>3, <1>4, <1>5, <1>6, <1>10 DEF Api
<1> QED BY <1>7, <1>8, <1>9, <1>10 DEF Next

(* A command that is in the table leaves it only by the hands of the API   *)
(* thread that stops it, or of the event loop that ends it.                *)
LEMMA ListedStays ==
  ASSUME WifiAssumption, ~Overlap, CountInv, Next, NEW c \in Cmds, Listed(c),
         ApiMove => api.cmd # c, LoopMove => loop.cmd # c
  PROVE  Listed(c)'
<1>n. num_cmd \in Nat /\ CmdMax \in Nat /\ num_cmd <= CmdMax
      /\ slots \in [1 .. CmdMax -> Cmds \cup {None}]
  BY Numbers
<1>t. TypeOK /\ ApiType /\ SlotOf(api.cmd) \in 0 .. CmdMax /\ TableInv
  BY InRange DEF CountInv, TypeOK
<1>p. PICK i \in 1 .. Used : slots[i] = c
  BY DEF Listed
<1>1. ASSUME UNCHANGED <<slots, num_cmd>>, Shrinking' = Shrinking PROVE Listed(c)'
  BY <1>1 DEF Listed, Used
<1>2. CASE RegisterWrite
  <2>1. api.pc = "write slot" /\ ~LoopInTable /\ num_cmd' = num_cmd /\ loop' = loop /\ api'.pc = "count up"
        /\ slots' = [slots EXCEPT ![num_cmd + 1] = api.cmd]
    BY <1>t, <1>2, TableSteps DEF RegisterWrite
  <2>2. Used' = num_cmd /\ Used = num_cmd
    BY <2>1 DEF Used, Shrinking, LoopInTable
  <2>3. slots'[i] = slots[i]
    <3>1. i \in 1 .. CmdMax /\ i # num_cmd + 1
      BY <1>n, <2>2
    <3> QED BY <1>n, <2>1, <3>1
  <2> QED BY <1>p, <2>2, <2>3 DEF Listed
<1>3. CASE RegisterCount
  <2>1. api.pc = "count up" /\ num_cmd' = num_cmd + 1 /\ slots' = slots /\ loop' = loop /\ api'.pc = "run"
    BY <1>t, <1>3, TableSteps DEF RegisterCount
  <2>2. ~LoopInTable
    BY <1>t, <2>1 DEF TableInv, ApiInTable
  <2>3. Used' = num_cmd + 1 /\ Used = num_cmd
    BY <2>1, <2>2 DEF Used, Shrinking, LoopInTable
  <2>4. i \in 1 .. num_cmd + 1
    BY <1>n, <2>3
  <2> QED BY <1>p, <2>1, <2>3, <2>4 DEF Listed
<1>4. CASE ApiMove
  <2>1. api.pc = "move" /\ num_cmd' = num_cmd /\ slots' = Moved(api.slot) /\ api'.pc = "count down"
    BY <1>t, <1>4, TableSteps DEF ApiMove
  <2>2. api.slot \in 1 .. num_cmd /\ slots[api.slot] = api.cmd /\ ~LoopInTable
    BY <1>t, <2>1 DEF TableInv, ApiInTable
  <2>3. ~Shrinking /\ Shrinking'
    BY <2>1, <2>2 DEF Shrinking, LoopInTable
  <2>4. \A d : Listed(d)' <=> Listed(d) /\ d # slots[api.slot]
    BY <2>1, <2>2, <2>3, TakenOut
  <2> QED BY <1>4, <2>2, <2>4
<1>5. CASE LoopMove
  <2>1. loop.pc = "move" /\ num_cmd' = num_cmd /\ slots' = Moved(loop.slot) /\ loop'.pc = "count down"
    BY <1>t, <1>5 DEF LoopMove, TypeOK, LoopType
  <2>2. loop.slot \in 1 .. num_cmd /\ slots[loop.slot] = loop.cmd /\ ~ApiInTable
    BY <1>t, <2>1 DEF TableInv, LoopInTable
  <2>3. ~Shrinking /\ Shrinking'
    BY <2>1, <2>2 DEF Shrinking, ApiInTable
  <2>4. \A d : Listed(d)' <=> Listed(d) /\ d # slots[loop.slot]
    BY <2>1, <2>2, <2>3, TakenOut
  <2> QED BY <1>5, <2>2, <2>4
<1>6. CASE ApiCountDown
  <2>1. api.pc = "count down" /\ num_cmd' = num_cmd - 1 /\ slots' = slots /\ loop' = loop /\ api'.pc = "cancel"
    BY <1>t, <1>6, TableSteps DEF ApiCountDown
  <2>2. ~LoopInTable
    BY <1>t, <2>1 DEF TableInv, ApiInTable
  <2>3. Used' = Used
    BY <2>1, <2>2 DEF Used, Shrinking, LoopInTable
  <2> QED BY <1>p, <2>1, <2>3 DEF Listed
<1>7. CASE LoopCountDown
  <2>1. loop.pc = "count down" /\ num_cmd' = num_cmd - 1 /\ slots' = slots /\ api' = api /\ loop'.pc = "drop"
    BY <1>t, <1>7 DEF LoopCountDown, TypeOK, LoopType
  <2>2. ~ApiInTable
    BY <1>t, <2>1 DEF TableInv, LoopInTable
  <2>3. Used' = Used
    BY <2>1, <2>2 DEF Used, Shrinking, ApiInTable
  <2> QED BY <1>p, <2>1, <2>3 DEF Listed
<1>8. CASE RegisterFull \/ ApiFind \/ ApiRegister \/ ApiUnregister \/ Answered \/ Refused \/ StartReturns
           \/ CancelReturns \/ CallStopAll \/ \E k \in Kinds : CallStart(k) \/ CallStop(k)
  <2>1. UNCHANGED <<slots, num_cmd, loop>>
    BY <1>8 DEF RegisterFull, ApiFind, ApiRegister, ApiUnregister, Answered,
         Refused, StartReturns,
       CancelReturns, CallStopAll, CallStart, CallStop, tableVars
  <2>2. api.pc # "count down"
    BY <1>8 DEF RegisterFull, ApiFind, ApiRegister, ApiUnregister, Answered,
         Refused, StartReturns,
       CancelReturns, CallStopAll, CallStart, CallStop, Running
  <2>i. api' = ApiIdle => api'.pc # "count down"
    BY DEF ApiIdle
  <2>3. api'.pc # "count down"
    <3>1. CASE RegisterFull \/ ApiFind
      BY <1>t, <2>i, <3>1, TableSteps
    <3>2. CASE ApiRegister \/ ApiUnregister \/ Answered \/ Refused \/ StartReturns \/ CancelReturns
      BY <1>t, <2>i, <3>2, TodoSteps
    <3>3. CASE CallStopAll \/ \E k \in Kinds : CallStart(k) \/ CallStop(k)
      BY <1>t, <3>3, CallSteps
    <3> QED BY <1>8, <3>1, <3>2, <3>3
  <2> QED BY <1>1, <2>1, <2>2, <2>3 DEF Shrinking
<1>9. CASE (\E s \in Subs : Dispatch(s)) \/ HandleReport \/ HandleRttPart \/ HandleRttComplete
           \/ RttResults \/ LoopFind \/ LoopDrop \/ LoopRelease
  <2>1. UNCHANGED <<slots, num_cmd, api>> /\ loop.pc # "count down"
    BY <1>9 DEF Dispatch, HandleReport, HandleRttPart, HandleRttComplete,
         RttResults, LoopFind,
       LoopDrop, LoopRelease, tableVars
  <2>2. loop'.pc # "count down"
    <3>0. loop \in [pc : LoopStates, cmd : Cmds \cup {None}, slot : 0 .. CmdMax]
      BY <1>t DEF TypeOK, LoopType
    <3>1. CASE \E s \in Subs : Dispatch(s)
      BY <3>1 DEF Dispatch, LoopIdle
    <3>2. CASE LoopFind
      BY <3>0, <3>2 DEF LoopFind
    <3>3. CASE LoopRelease
      BY <3>3 DEF LoopRelease, LoopIdle
    <3>4. CASE HandleReport \/ HandleRttPart \/ HandleRttComplete \/ RttResults \/ LoopDrop
      BY <3>0, <3>4 DEF HandleReport, HandleRttPart, HandleRttComplete,
           RttResults, LoopDrop
    <3> QED BY <1>9, <3>1, <3>2, <3>3, <3>4
  <2> QED BY <1>1, <2>1, <2>2 DEF Shrinking
<1> QED BY <1>2, <1>3, <1>4, <1>5, <1>6, <1>7, <1>8, <1>9 DEF Next, Api, EventLoop

(* Without a registration there is no new handler.                         *)
LEMMA NoNewHandler ==
  ASSUME WifiAssumption, CountInv, Next, ~ApiRegister, NEW c, ~HandlerFor(c)
  PROVE  ~HandlerFor(c)'
<1>1. event_cb' = event_cb \/ \E s : event_cb' = Unregistered(s)
  BY DEF Next, CallStart, CallStop, CallStopAll, Api, RegisterWrite,
       RegisterCount, RegisterFull,
     ApiFind, ApiMove, ApiCountDown, ApiUnregister, Answered, Refused,
     StartReturns, CancelReturns, Dispatch, EventLoop, HandleReport, HandleRttPart,
     HandleRttComplete, RttResults, LoopFind, LoopMove, LoopCountDown, LoopDrop,
       LoopRelease, cbVars
<1>2. CASE event_cb' = event_cb
  BY <1>2 DEF HandlerFor
<1>3. ASSUME NEW s, event_cb' = Unregistered(s) PROVE ~HandlerFor(c)'
  <2>1. \A j \in DOMAIN Unregistered(s) : \E i \in DOMAIN event_cb : Unregistered(s)[j] = event_cb[i]
    BY UnregisteredHandlers DEF CountInv, TypeOK
  <2>2. \A j \in DOMAIN event_cb' : \E i \in DOMAIN event_cb : event_cb'[j] = event_cb[i]
    BY <1>3, <2>1, Zenon
  <2> QED BY <2>2 DEF HandlerFor
<1> QED BY <1>1, <1>2, <1>3

(* The event loop turns to an object only through a handler.               *)
LEMMA LoopTurns ==
  ASSUME WifiAssumption, CountInv, Next, NEW c, loop.cmd # c, ~HandlerFor(c), c \in Cmds
  PROVE  loop'.cmd # c
<1>t. TypeOK /\ None \notin Cmds
  BY DEF CountInv, WifiAssumption
<1>1. CASE \E s \in Subs : Dispatch(s)
  <2>1. PICK s \in Subs : Dispatch(s)
    BY <1>1
  <2>2. HandlerOf(s) # 0 /\ loop'.cmd = event_cb[HandlerOf(s)].cmd
    BY <2>1 DEF Dispatch, LoopIdle
  <2>3. HandlerOf(s) \in DOMAIN event_cb
    BY <1>t, <2>2, FirstHandler DEF TypeOK
  <2> QED BY <2>2, <2>3 DEF HandlerFor
<1>2. CASE EventLoop
  <2>1. loop'.pc # "poll" => loop'.cmd = loop.cmd
    BY <1>2, LoopTyped
  <2>2. loop'.pc = "poll" => loop'.cmd = None
    BY <1>2, LoopTyped DEF LoopType
  <2> QED BY <1>t, <2>1, <2>2
<1>3. CASE loop' = loop
  BY <1>3
<1> QED BY <1>1, <1>2, <1>3 DEF Next, CallStart, CallStop, CallStopAll, Api,
     RegisterWrite, RegisterCount,
     RegisterFull, ApiFind, ApiMove, ApiCountDown, ApiRegister, ApiUnregister,
     Answered, Refused,
     StartReturns, CancelReturns

(* Every step keeps what start() and the event loop know of their          *)
(* commands.                                                               *)
LEMMA RunStep ==
  ASSUME WifiAssumption, ~Overlap, CountInv, CountInv', RunInv, Next
  PROVE  RunInv'
<1>t. TypeOK /\ ApiType /\ LoopType /\ TypeOK' /\ LoopType' /\ TableInv
      /\ SlotOf(api.cmd) \in 0 .. CmdMax
  BY InRange DEF CountInv, TypeOK
<1>1. ASSUME EndsRtt' PROVE kind'[loop'.cmd] = "rtt"
  <2>1. kind[loop.cmd] = "rtt" /\ loop'.cmd = loop.cmd /\ loop.pc # "poll"
    <3>1. CASE \E s \in Subs : Dispatch(s)
      BY <1>1, <3>1 DEF Dispatch, LoopIdle, EndsRtt
    <3>2. CASE HandleRttComplete
      BY <1>t, <3>2 DEF HandleRttComplete, LoopType
    <3>3. CASE HandleReport \/ HandleRttPart \/ LoopDrop \/ LoopRelease
      <4>1. loop'.pc = "release" \/ loop' = LoopIdle
        BY <1>t, <3>3 DEF HandleReport, HandleRttPart, LoopDrop, LoopRelease,
             LoopType
      <4>2. loop'.pc \in {"release", "poll"}
        BY <4>1 DEF LoopIdle
      <4> QED BY <1>1, <4>2 DEF EndsRtt
    <3>4. CASE RttResults \/ LoopFind \/ LoopMove \/ LoopCountDown
      <4>1. EndsRtt /\ loop.pc # "poll"
        BY <3>4 DEF RttResults, LoopFind, LoopMove, LoopCountDown, EndsRtt
      <4>2. loop'.cmd = loop.cmd
        BY <1>t, <3>4 DEF RttResults, LoopFind, LoopMove, LoopCountDown, LoopType
      <4> QED BY <4>1, <4>2 DEF RunInv
    <3>5. CASE loop' = loop
      BY <1>1, <3>5 DEF RunInv, EndsRtt
    <3> QED BY <3>1, <3>2, <3>3, <3>4, <3>5 DEF EventLoop, Next, CallStart,
         CallStop, CallStopAll, Api,
      RegisterWrite, RegisterCount, RegisterFull, ApiFind, ApiMove, ApiCountDown,
         ApiRegister,
      ApiUnregister, Answered, Refused, StartReturns, CancelReturns
  <2>2. PICK c \in Cmds : c = loop.cmd
    BY <1>t, <2>1 DEF LoopType
  <2>3. Handled(c) /\ Handled(c)'
    BY <1>1, <2>1, <2>2 DEF Handled, EndsRtt
  <2> QED BY <2>1, <2>2, <2>3, KindKept
<1>2. ASSUME Starting' PROVE /\ api'.kind = "rtt" => RttShape(api'.todo)
                             /\ api'.todo # <<>> =>
                                /\ kind'[api'.cmd] = api'.kind
                                /\ api'.pc = "run" => Listed(api.cmd)' \/ api'.cmd \in lost'
                                /\ api'.kind = "rtt" => loop'.cmd # api'.cmd /\ ~HandlerFor(api.cmd)'
  <2>1. CASE \E k \in Kinds, c \in Cmds :
              /\ Create(c, k) /\ api'.cmd = c /\ api'.kind = k /\ api'.pc = "write slot"
              /\ api'.todo = Start(k) /\ api'.ok
              /\ current[k] = None /\ api.pc = "idle"
              /\ UNCHANGED <<event_cb, loop, slots, num_cmd, lost, current>>
    <3>1. PICK k \in Kinds, c \in Cmds :
              /\ Create(c, k) /\ api'.cmd = c /\ api'.kind = k /\ api'.pc = "write slot"
              /\ api'.todo = Start(k)
              /\ UNCHANGED <<event_cb, loop>>
      BY <2>1
    <3>2. kind'[c] = k
      BY <1>t, <3>1 DEF Create, TypeOK, ObjType
    <3>3. loop'.cmd # c /\ ~HandlerFor(c)'
      BY <3>1 DEF Create, FreeAddress, HandlerFor
    <3>4. k \in AllKinds
      BY DEF WifiAssumption, AllKinds
    <3>5. k = "rtt" => RttShape(Start(k))
      BY <3>4, StartFits DEF StartShape, RttShape
    <3>6. api'.pc # "run"
      BY <3>1
    <3>7. api'.kind = "rtt" => RttShape(api'.todo)
      BY <3>1, <3>5, Zenon
    <3>8. kind'[api'.cmd] = api'.kind /\ loop'.cmd # api'.cmd
      BY <3>1, <3>2, <3>3
    <3>9. ~HandlerFor(api.cmd)'
      BY <3>1, <3>3 DEF HandlerFor
    <3> QED BY <3>6, <3>7, <3>8, <3>9
  <2>2. CASE \/ Starting /\ SameCall /\ SameTodo /\ api'.pc = api.pc /\ ~Api
             \/ Starting /\ SameCall /\ SameTodo /\ (RegisterWrite \/ RegisterCount \/ RegisterFull)
             \/ Starting /\ SameCall /\ api.pc = "run" /\ api'.pc = "run"
                /\ (ApiRegister \/ ApiUnregister \/ Answered \/ Refused)
    <3>1. Starting /\ api'.cmd = api.cmd /\ api'.kind = api.kind
      BY <2>2 DEF SameCall
    <3>c. PICK c \in Cmds : c = api.cmd
      BY <1>t, <3>1 DEF ApiType, Starting
    <3>k. PICK k : k = api.kind
      OBVIOUS
    <3>2. k = "rtt" => RttShape(api.todo)
      BY <3>1, <3>k DEF RunInv
    <3>3. api'.todo = api.todo \/ ApiRegister \/ ApiUnregister \/ Answered \/ Refused
      BY <2>2 DEF SameTodo
    <3>4. api'.todo # <<>> => api.todo # <<>>
      BY <1>t, <3>3, TodoSteps
    <3>5. k = "rtt" => RttShape(api'.todo) /\ (ApiRegister => api'.todo = <<>>)
      <4> SUFFICES ASSUME k = "rtt" PROVE RttShape(api'.todo) /\ (ApiRegister => api'.todo = <<>>)
        OBVIOUS
      <4>1. CASE api'.todo = api.todo /\ ~ApiRegister
        BY <3>2, <4>1
      <4>2. CASE ApiRegister \/ ApiUnregister \/ Answered \/ Refused
        <5>1. api.todo # <<>> /\ api.todo \in Seq(Steps)
          BY <1>t, <4>2, TodoSteps DEF ApiType
        <5>2. \/ api'.todo = Tail(api.todo)
              \/ api'.todo = <<>>
              \/ Head(api.todo).fail = "undo"
          BY <1>t, <4>2, TodoSteps
        <5> DEFINE t == api.todo
        <5>3. /\ Tail(t) \in Seq(Steps) /\ Len(Tail(t)) = Len(t) - 1
              /\ Head(t) = t[1] /\ Len(t) \in Nat /\ Len(t) > 0
              /\ \A i \in 1 .. Len(t) - 1 : Tail(t)[i] = t[i + 1]
          BY <1>t, <5>1, TailTyped
        <5>4. RttShape(t) /\ DOMAIN t = 1 .. Len(t) /\ DOMAIN Tail(t) = 1 .. Len(t) - 1
          BY <3>2, <5>1, <5>3
        <5> DEFINE u == Tail(t)
        <5> HIDE DEF t, u
        <5>5. RttShape(u)
          BY <5>3, <5>4 DEF RttShape, u
        <5>6. RttShape(<<>>)
          BY DEF RttShape
        <5>7. Head(api.todo).fail # "undo"
          BY <5>3, <5>4 DEF RttShape, t
        <5>8. RttShape(api'.todo)
          BY <5>2, <5>5, <5>6, <5>7 DEF u, t
        <5>9. ASSUME ApiRegister PROVE api'.todo = <<>>
          <6>1. Head(api.todo).op = "register" /\ api'.todo = Tail(api.todo)
            BY <1>t, <5>9, TodoSteps DEF ApiRegister
          <6>2. t[1].op = "register"
            BY <5>3, <6>1 DEF t
          <6>3. Len(t) = 1
            BY <5>3, <5>4, <6>2 DEF RttShape
          <6>4. u \in Seq(Steps) /\ Len(u) = 0
            BY <5>3, <6>3 DEF u
          <6>5. u = <<>>
            BY <6>4, EmptySeq
          <6> QED BY <6>1, <6>5 DEF u, t
        <5> QED BY <5>8, <5>9
      <4> QED BY <3>3, <4>1, <4>2
    <3> SUFFICES ASSUME api'.todo # <<>>, api.todo # <<>>
                 PROVE  /\ kind'[c] = k
                        /\ api'.pc = "run" => Listed(c)' \/ c \in lost'
                        /\ k = "rtt" => loop'.cmd # c /\ ~HandlerFor(c)'
      <4>1. api'.cmd = c /\ api'.kind = k
        BY <3>1, <3>c, <3>k
      <4> QED BY <3>4, <3>5, <4>1 DEF Listed, HandlerFor
    <3>6. /\ kind[c] = k /\ (api.pc = "run" => Listed(c) \/ c \in lost)
          /\ k = "rtt" => loop.cmd # c /\ ~HandlerFor(c)
      BY <3>1, <3>c, <3>k DEF RunInv
    <3>7. Owned(c)
      BY <3>1, <3>c, <3>6 DEF Owned, ApiOwner, Starting
    <3>8. api'.pc = "run" => Listed(c)' \/ c \in lost'
      <4>1. CASE api.pc = "run"
        <5>1. CASE c \in lost
          <6>1. lost \subseteq lost'
            BY DEF Next, CallStart, CallStop, CallStopAll, Api, RegisterWrite,
                 RegisterCount, RegisterFull,
              ApiFind, ApiMove, ApiCountDown, ApiRegister, ApiUnregister,
                 Answered, Refused,
              StartReturns, CancelReturns, Dispatch, EventLoop, HandleReport,
                 HandleRttPart,
              HandleRttComplete, RttResults, LoopFind, LoopMove, LoopCountDown,
                 LoopDrop, LoopRelease,
              objVars
          <6> QED BY <5>1, <6>1
        <5>2. CASE Listed(c)
          <6>1. LoopMove => loop.cmd # c
            BY <3>6 DEF RunInv, EndsRtt, LoopMove
          <6>2. ~ApiMove
            BY <4>1 DEF ApiMove
          <6> QED BY <5>2, <6>1, <6>2, ListedStays
        <5> QED BY <3>6, <4>1, <5>1, <5>2
      <4>2. CASE RegisterWrite
        BY <1>t, <4>2, TableSteps
      <4>3. CASE RegisterFull
        BY <3>c, <4>3 DEF RegisterFull
      <4>4. CASE RegisterCount
        <5>1. api.pc = "count up" /\ num_cmd' = num_cmd + 1 /\ slots' = slots /\ loop' = loop /\ api'.pc = "run"
          BY <1>t, <4>4, TableSteps DEF RegisterCount
        <5>2. ~LoopInTable /\ slots[num_cmd + 1] = c /\ num_cmd \in Nat
          BY <1>t, <3>c, <5>1, Numbers DEF TableInv, ApiInTable
        <5>3. Used' = num_cmd + 1
          BY <5>1, <5>2 DEF Used, Shrinking, LoopInTable
        <5>4. num_cmd + 1 \in 1 .. num_cmd + 1
          BY <5>2
        <5> QED BY <5>1, <5>2, <5>3, <5>4 DEF Listed
      <4> QED BY <2>2, <4>1, <4>2, <4>3, <4>4
    <3>9. Owned(c)'
      <4>1. api'.cmd = c /\ api'.pc \in {"write slot", "count up", "run"}
        BY <1>2, <3>1, <3>c DEF Starting
      <4>2. api'.pc # "run" => ApiOwner(c)'
        BY <4>1 DEF ApiOwner
      <4> QED BY <3>8, <4>2 DEF Owned
    <3>10. kind'[c] = k
      BY <3>6, <3>7, <3>9, KindKept
    <3>11. k = "rtt" => loop'.cmd # c /\ ~HandlerFor(c)'
      BY <3>5, <3>6, LoopTurns, NoNewHandler
    <3> QED BY <3>8, <3>10, <3>11
  <2> QED BY <1>2, <2>1, <2>2, StartSteps
<1> QED BY <1>1, <1>2 DEF RunInv

(* RunInv holds at the start.                                              *)
LEMMA RunInit == ASSUME WifiAssumption PROVE Init => RunInv
<1> SUFFICES ASSUME Init PROVE RunInv
  OBVIOUS
<1>1. api.pc = "idle" /\ loop.pc = "poll"
  BY DEF Init, ApiIdle, LoopIdle
<1> QED BY <1>1 DEF RunInv, Starting, EndsRtt

(* The account and RunInv are inductive together.                          *)
LEMMA RunInvStep ==
  ASSUME WifiAssumption, ~Overlap
  PROVE  CountInv /\ RunInv /\ [Next]_vars => (CountInv /\ RunInv)'
<1>1. ASSUME CountInv, RunInv, UNCHANGED vars PROVE RunInv'
  <2>1. UNCHANGED <<event_cb, slots, num_cmd, kind, refs, lost, current, api, loop>>
    BY <1>1 DEF vars
  <2>2. EndsRtt' = EndsRtt /\ Starting' = Starting
    BY <2>1 DEF EndsRtt, Starting
  <2>3. \A c : Listed(c)' = Listed(c) /\ HandlerFor(c)' = HandlerFor(c)
    BY <2>1 DEF Listed, Used, Shrinking, HandlerFor
  <2> QED BY <1>1, <2>1, <2>2, <2>3 DEF RunInv
<1> QED BY <1>1, CountStep, RunStep

(* The object a thread works on is not deleted by the other one: start()   *)
(* and cancel() run on the API thread, handleEvent and the end of an RTT   *)
(* measurement on the event loop, and neither holds a lock for it.         *)
THEOREM WorkedOnStaysLive ==
  ASSUME WifiAssumption, ~Overlap PROVE Spec => []WorkedOnIsLive
<1>1. CountInv /\ RunInv => WorkedOnIsLive
  <2> SUFFICES ASSUME CountInv, RunInv PROVE WorkedOnIsLive
    OBVIOUS
  <2>1. /\ api.pc # "idle" => api.cmd \in Cmds
        /\ loop.pc # "poll" => loop.cmd \in Cmds
    BY DEF CountInv, TypeOK, ApiType, LoopType
  <2>2. ASSUME api.pc \in {"write slot", "count up", "cancel"} PROVE refs[api.cmd] > 0
    BY <2>1, <2>2, UsedIsLive DEF Owned, ApiOwner
  <2>3. ASSUME api.pc = "run", api.todo # <<>> PROVE refs[api.cmd] > 0
    BY <2>1, <2>3, UsedIsLive DEF Owned, RunInv, Starting
  <2>4. ASSUME loop.pc # "poll" PROVE refs[loop.cmd] > 0
    BY <2>1, <2>4, UsedIsLive DEF Handled
  <2> QED BY <2>2, <2>3, <2>4 DEF WorkedOnIsLive
<1> QED BY CountInit, RunInit, RunInvStep, <1>1, PTL DEF Spec

(* What the API thread has still to do, and what the framework knows.      *)
PlanInv ==
  /\ Starting /\ api.ok => StartShape(api.todo, api.kind)
  /\ Starting /\ ~api.ok => api.pc = "run" /\ UndoShape(api.todo)
  /\ Stopping => CancelShape(api.todo)
  /\ api.pc \in {"write slot", "count up"} => api.todo # <<>>
  /\ Starting => kind[api.cmd] \in {"none", api.kind} /\ current[api.kind] = None
  /\ api.pc = "run" /\ api.cmd \in lost => api.kind = "rtt"
  /\ \A k, l \in Kinds : current[k] # None /\ current[k] = current[l] => k = l
  /\ api.pc # "idle" => \A k \in Kinds : current[k] # api.cmd

Has(t, o, s) == \E i \in DOMAIN t : t[i].op = o /\ t[i].sub = s
NoReturn(t) == \A i \in DOMAIN t : t[i].fail # "return"

(* The handler of the event s for the command c.                           *)
HandlerFits(s, c) ==
  /\ kind[c] = KindOf(s)
  /\ Listed(c) \/ ApiOwner(c)
  /\ current[KindOf(s)] = c \/ (api.cmd = c /\ (api.pc = "run" \/ Stopping))
  /\ Starting /\ api.ok => ~Has(api.todo, "register", s)
  /\ Starting /\ api.kind = KindOf(s) =>
       /\ NoReturn(api.todo)
       /\ api.ok \/ Has(api.todo, "unregister", s)
  /\ Stopping /\ api.cmd = c => Has(api.todo, "unregister", s)
  /\ EndsRtt => c # loop.cmd

Handlers ==
  /\ \A i \in DOMAIN event_cb : HandlerFits(event_cb[i].sub, event_cb[i].cmd)
  /\ DistinctSubs(event_cb)

(* The rest of a program has the shape of the program.                     *)
LEMMA TailShapes ==
  ASSUME NEW t \in Seq(Steps), t # <<>>, NEW k
  PROVE  /\ StartShape(t, k) => StartShape(Tail(t), k)
         /\ UndoShape(t) => UndoShape(Tail(t))
         /\ CancelShape(t) => CancelShape(Tail(t))
<1> DEFINE u == Tail(t)
<1>1. /\ DOMAIN t = 1 .. Len(t) /\ DOMAIN u = 1 .. Len(t) - 1 /\ Len(t) \in Nat
      /\ \A i \in 1 .. Len(t) - 1 : u[i] = t[i + 1]
  OBVIOUS
<1>2. /\ \A i \in DOMAIN u : i + 1 \in DOMAIN t /\ u[i] = t[i + 1]
      /\ \A i, j \in DOMAIN u : i < j => i + 1 < j + 1
  BY <1>1
<1> HIDE DEF u
<1>3. StartShape(t, k) => StartShape(u, k)
  BY <1>2 DEF StartShape
<1>4. UndoShape(t) => UndoShape(u)
  BY <1>2 DEF UndoShape
<1>5. CancelShape(t) => CancelShape(u)
  BY <1>2 DEF CancelShape
<1> QED BY <1>3, <1>4, <1>5 DEF u

(* The empty todo list has every shape.                                    *)
LEMMA NothingFits ==
  /\ \A k : StartShape(<<>>, k)
  /\ UndoShape(<<>>) /\ CancelShape(<<>>)
BY DEF StartShape, UndoShape, CancelShape

(* Every start() has something to do.                                      *)
LEMMA StartNotEmpty == ASSUME NEW k \in AllKinds PROVE Start(k) # <<>>
<1>1. Len(<<>>) = 0
  OBVIOUS
<1>2. Len(Start(k)) \in {2, 3, 4, 5, 7}
  BY ScanPrograms, StartHotlistSteps, StartChangeSteps, StartAnqpoSteps,
       StartRttSteps
     DEF Start, AllKinds
<1> QED BY <1>1, <1>2

(* The driver refuses what the model lets it refuse; never the enabling of *)
(* a scan.                                                                 *)
LEMMA PlanStarts ==
  ASSUME WifiAssumption, "scan" \notin MayRefuse, ~Overlap, CountInv, PlanInv, Next, Starting'
  PROVE  /\ api'.ok => StartShape(api'.todo, api'.kind)
         /\ ~api'.ok => api'.pc = "run" /\ UndoShape(api'.todo)
         /\ api'.pc \in {"write slot", "count up"} => api'.todo # <<>>
<1>t. TypeOK /\ ApiType /\ SlotOf(api.cmd) \in 0 .. CmdMax
  BY InRange DEF CountInv, TypeOK
<1>1. CASE \E k \in Kinds, c \in Cmds :
              /\ Create(c, k) /\ api'.cmd = c /\ api'.kind = k /\ api'.pc = "write slot"
              /\ api'.todo = Start(k) /\ api'.ok
              /\ current[k] = None /\ api.pc = "idle"
              /\ UNCHANGED <<event_cb, loop, slots, num_cmd, lost, current>>
  <2>1. PICK k \in Kinds : api'.kind = k /\ api'.todo = Start(k) /\ api'.ok
    BY <1>1
  <2>2. k \in AllKinds
    BY DEF WifiAssumption, AllKinds
  <2>3. Start(k) # <<>> /\ StartShape(Start(k), k)
    BY <2>2, StartNotEmpty, StartFits
  <2> QED BY <2>1, <2>3, Zenon
<1>2. CASE Starting /\ SameCall /\ SameTodo /\ api'.pc = api.pc /\ ~Api
  BY <1>2, Zenon DEF SameCall, SameTodo, PlanInv
<1>3. CASE Starting /\ SameCall /\ SameTodo /\ (RegisterWrite \/ RegisterCount \/ RegisterFull)
  <2>1. api.pc \in {"write slot", "count up"}
    BY <1>3 DEF RegisterWrite, RegisterCount, RegisterFull
  <2>2. api.ok /\ StartShape(api.todo, api.kind) /\ api.todo # <<>>
    BY <1>3, <2>1 DEF PlanInv
  <2> QED BY <1>3, <2>2, Zenon DEF SameCall, SameTodo
<1>4. CASE Starting /\ SameCall /\ api.pc = "run" /\ api'.pc = "run"
            /\ (ApiRegister \/ ApiUnregister \/ Answered \/ Refused)
  <2>1. /\ api.ok => StartShape(api.todo, api.kind)
        /\ ~api.ok => UndoShape(api.todo)
        /\ api'.pc = "run" /\ api'.kind = api.kind
    BY <1>4 DEF PlanInv, SameCall
  <2>2. api.todo # <<>> /\ api.todo \in Seq(Steps)
    BY <1>t, <1>4, TodoSteps DEF ApiType
  <2>t. \A k : /\ StartShape(api.todo, k) => StartShape(Tail(api.todo), k)
               /\ UndoShape(api.todo) => UndoShape(Tail(api.todo))
    BY <2>2, TailShapes
  <2>3. CASE api'.todo = Tail(api.todo) /\ api'.ok = api.ok
    BY <2>1, <2>3, <2>t, Zenon
  <2>4. CASE api'.todo = <<>> /\ ~api'.ok
    BY <2>1, <2>4, NothingFits, Zenon
  <2>5. CASE /\ Head(api.todo).fail = "undo" /\ Head(api.todo).op = "ask" /\ api.kind \in MayRefuse
             /\ api'.todo = Undo(api.kind) /\ ~api'.ok
    <3>1. Head(api.todo) = api.todo[1] /\ 1 \in DOMAIN api.todo
      BY <2>2
    <3>2. api.ok
      BY <2>1, <2>5, <3>1 DEF UndoShape
    <3>3. api.kind # "rtt"
      BY <2>1, <2>5, <3>1, <3>2 DEF StartShape
    <3>4. api.kind \in {"hotlist", "change", "anqpo"}
      BY <2>5, <3>3 DEF WifiAssumption
    <3>5. UndoShape(Undo(api.kind))
      BY <3>4, UndoFits
    <3> QED BY <2>1, <2>5, <3>5, Zenon
  <2> QED BY <1>t, <1>4, <2>3, <2>4, <2>5, TodoSteps
<1> QED BY <1>1, <1>2, <1>3, <1>4, StartSteps

(* What cancel() has still to do has the shape of a cancel().              *)
LEMMA PlanStops ==
  ASSUME WifiAssumption, ~Overlap, CountInv, PlanInv, Next, Stopping'
  PROVE  CancelShape(api'.todo)
<1>t. TypeOK /\ ApiType /\ SlotOf(api.cmd) \in 0 .. CmdMax
  BY InRange DEF CountInv, TypeOK
<1>i. api' = ApiIdle => ~Stopping'
  BY DEF ApiIdle, Stopping
<1>1. CASE \E k \in Kinds : CallStart(k)
  BY <1>t, <1>1, CallSteps DEF Stopping
<1>2. CASE \E k \in Kinds : CallStop(k)
  <2>1. PICK k \in Kinds : api'.todo = Cancel(k)
    BY <1>t, <1>2, CallSteps
  <2>2. k \in AllKinds
    BY DEF WifiAssumption, AllKinds
  <2>3. CancelShape(Cancel(k))
    BY <2>2, CancelFits
  <2> QED BY <2>1, <2>3, Zenon
<1>3. CASE CallStopAll
  <2>1. api'.todo = CancelScan
    BY <1>t, <1>3, CallSteps
  <2>2. Cancel("scan") = CancelScan /\ "scan" \in AllKinds
    BY DEF Cancel, AllKinds
  <2>3. CancelShape(CancelScan)
    BY <2>2, CancelFits
  <2> QED BY <2>1, <2>3, Zenon
<1>4. CASE RegisterWrite \/ RegisterCount \/ RegisterFull
  <2>1. api'.pc \in {"count up", "run"} \/ api' = ApiIdle
    BY <1>t, <1>4, TableSteps
  <2> QED BY <1>i, <2>1 DEF Stopping
<1>5. CASE ApiFind \/ ApiMove \/ ApiCountDown
  <2>1. SameTodo
    BY <1>t, <1>i, <1>5, TableSteps
  <2>2. Stopping
    BY <1>5 DEF ApiFind, ApiMove, ApiCountDown, Stopping
  <2> QED BY <2>1, <2>2, Zenon DEF SameTodo, PlanInv
<1>6. CASE ApiRegister \/ ApiUnregister \/ Answered \/ Refused
  <2>1. api.pc = "cancel" /\ api.todo # <<>> /\ api.todo \in Seq(Steps)
    BY <1>t, <1>6, TodoSteps DEF ApiType, Stopping
  <2>2. CancelShape(api.todo)
    BY <2>1 DEF PlanInv, Stopping
  <2>3. CancelShape(Tail(api.todo))
    BY <2>1, <2>2, TailShapes
  <2>4. Head(api.todo).fail # "undo"
    <3>1. Head(api.todo) = api.todo[1] /\ 1 \in DOMAIN api.todo
      BY <2>1
    <3> QED BY <2>2, <3>1 DEF CancelShape
  <2>5. api'.todo = Tail(api.todo) \/ api'.todo = <<>>
    BY <1>t, <1>6, <2>4, TodoSteps
  <2> QED BY <2>3, <2>5, NothingFits, Zenon
<1>7. CASE StartReturns \/ CancelReturns
  BY <1>t, <1>i, <1>7, TodoSteps
<1>8. CASE (\E s \in Subs : Dispatch(s)) \/ EventLoop
  <2>1. api' = api
    BY <1>8 DEF Dispatch, EventLoop, HandleReport, HandleRttPart,
       HandleRttComplete, RttResults, LoopFind, LoopMove, LoopCountDown,
         LoopDrop, LoopRelease
  <2> QED BY <2>1, Zenon DEF Stopping, PlanInv
<1> QED BY <1>1, <1>2, <1>3, <1>4, <1>5, <1>6, <1>7, <1>8 DEF Next, Api

(* What the framework knows of ids.                                        *)
LEMMA CurrentSteps ==
  ASSUME WifiAssumption, CountInv, Next
  PROVE  \/ current' = current
         \/ \E k \in Kinds : CallStop(k) /\ current' = [current EXCEPT ![k] = None]
         \/ StartReturns /\ api.ok /\ current' = [current EXCEPT ![api.kind] = api.cmd]
         \/ /\ RttResults
            /\ current' = [k \in Kinds |-> IF current[k] = loop.cmd THEN None ELSE current[k]]
BY DEF Next, CallStart, CallStop, CallStopAll, Api, RegisterWrite, RegisterCount,
     RegisterFull,
   ApiFind, ApiMove, ApiCountDown, ApiRegister, ApiUnregister, Answered, Refused,
   StartReturns, CancelReturns, Dispatch, EventLoop, HandleReport, HandleRttPart,
   HandleRttComplete, RttResults, LoopFind, LoopMove, LoopCountDown, LoopDrop,
     LoopRelease

(* Whether a call goes on, starts a new object, or stops a command the     *)
(* framework knows.                                                        *)
LEMMA CallKept ==
  ASSUME WifiAssumption, CountInv, Next, api'.pc # "idle"
  PROVE  \/ api.pc # "idle" /\ api'.cmd = api.cmd /\ api'.kind = api.kind
         \/ \E k \in Kinds, c \in Cmds :
              Create(c, k) /\ api'.cmd = c /\ api'.kind = k /\ current' = current
         \/ \E k \in Kinds : CallStop(k) /\ api'.cmd = current[k] /\ api'.pc = "find"
<1>t. TypeOK /\ ApiType /\ SlotOf(api.cmd) \in 0 .. CmdMax
  BY InRange DEF CountInv, TypeOK
<1>i. api' = ApiIdle => api'.pc = "idle"
  BY DEF ApiIdle
<1>1. CASE \E k \in Kinds : CallStart(k)
  BY <1>t, <1>1, CallSteps DEF CallStart
<1>2. CASE \E k \in Kinds : CallStop(k)
  BY <1>t, <1>2, CallSteps
<1>3. CASE CallStopAll
  BY <1>t, <1>3, CallSteps DEF CallStopAll
<1>4. CASE RegisterWrite \/ RegisterCount \/ RegisterFull \/ ApiFind \/ ApiMove \/ ApiCountDown
  <2>1. SameCall
    BY <1>t, <1>i, <1>4, TableSteps
  <2>2. api.pc # "idle"
    BY <1>4 DEF RegisterWrite, RegisterCount, RegisterFull, ApiFind, ApiMove,
         ApiCountDown
  <2> QED BY <2>1, <2>2 DEF SameCall
<1>5. CASE ApiRegister \/ ApiUnregister \/ Answered \/ Refused
  BY <1>t, <1>5, TodoSteps DEF SameCall
<1>6. CASE StartReturns \/ CancelReturns
  BY <1>t, <1>i, <1>6, TodoSteps
<1>7. CASE (\E s \in Subs : Dispatch(s)) \/ EventLoop
  <2>1. api' = api
    BY <1>7 DEF Dispatch, EventLoop, HandleReport, HandleRttPart,
       HandleRttComplete, RttResults, LoopFind, LoopMove, LoopCountDown,
         LoopDrop, LoopRelease
  <2> QED BY <2>1
<1> QED BY <1>1, <1>2, <1>3, <1>4, <1>5, <1>6, <1>7 DEF Next, Api

(* The framework knows an id once, and never that of a command whose start *)
(* or stop is under way.                                                   *)
LEMMA PlanIds ==
  ASSUME WifiAssumption, ~Overlap, CountInv, CountInv', PlanInv, Next
  PROVE  /\ \A k, l \in Kinds : current'[k] # None /\ current'[k] = current'[l] => k = l
         /\ api'.pc # "idle" => \A k \in Kinds : current'[k] # api'.cmd
<1>t. /\ current \in [Kinds -> Cmds \cup {None}]
      /\ api.pc # "idle" => api.cmd \in Cmds /\ api.kind \in Kinds
      /\ api'.pc # "idle" => api'.cmd \in Cmds /\ api'.kind \in Kinds
      /\ None \notin Cmds
  BY DEF CountInv, TypeOK, ObjType, ApiType, WifiAssumption
<1>1. /\ \A k, l \in Kinds : current[k] # None /\ current[k] = current[l] => k = l
      /\ api.pc # "idle" => \A k \in Kinds : current[k] # api.cmd
  BY DEF PlanInv
<1>2. \A k, l \in Kinds : current'[k] # None /\ current'[k] = current'[l] => k = l
  <2>1. CASE current' = current
    BY <1>1, <2>1, Zenon
  <2>2. CASE \E k \in Kinds : current' = [current EXCEPT ![k] = None]
    BY <1>t, <1>1, <2>2
  <2>3. CASE StartReturns /\ current' = [current EXCEPT ![api.kind] = api.cmd]
    <3>1. api.pc # "idle"
      BY <2>3 DEF StartReturns
    <3> QED BY <1>t, <1>1, <2>3, <3>1
  <2>4. CASE current' = [k \in Kinds |-> IF current[k] = loop.cmd THEN None ELSE current[k]]
    BY <1>t, <1>1, <2>4
  <2> QED BY <2>1, <2>2, <2>3, <2>4, CurrentSteps
<1>3. ASSUME api'.pc # "idle", NEW m \in Kinds PROVE current'[m] # api'.cmd
  <2>1. CASE api.pc # "idle" /\ api'.cmd = api.cmd
    <3>1. current'[m] = current[m] \/ current'[m] = None
      <4>1. ~StartReturns
        BY <1>3 DEF StartReturns, ApiIdle
      <4> QED BY <1>t, <4>1, CurrentSteps
    <3> QED BY <1>t, <1>1, <2>1, <3>1
  <2>2. CASE \E k \in Kinds, c \in Cmds : Create(c, k) /\ api'.cmd = c /\ current' = current
    BY <2>2 DEF Create, FreeAddress
  <2>3. CASE \E k \in Kinds : CallStop(k) /\ api'.cmd = current[k]
    <3>1. PICK k \in Kinds : /\ current[k] # None /\ api'.cmd = current[k]
                             /\ current' = [current EXCEPT ![k] = None]
      BY <2>3 DEF CallStop
    <3> QED BY <1>t, <1>1, <3>1
  <2> QED BY <1>3, <2>1, <2>2, <2>3, CallKept
<1> QED BY <1>2, <1>3

(* A start works on an object of its class or one already deleted (an RTT  *)
(* measurement that is over), and only an RTT start goes on when the table *)
(* is full.                                                                *)
LEMMA PlanObject ==
  ASSUME WifiAssumption, ~Overlap, CountInv, CountInv', RunInv, PlanInv, Next
  PROVE  /\ Starting' => kind'[api'.cmd] \in {"none", api'.kind} /\ current'[api'.kind] = None
         /\ api'.pc = "run" /\ api'.cmd \in lost' => api'.kind = "rtt"
<1>t. /\ current \in [Kinds -> Cmds \cup {None}] /\ kind \in [Cmds -> Kinds \cup {"none"}]
      /\ refs \in [Cmds -> Nat]
      /\ api.pc # "idle" => api.cmd \in Cmds /\ api.kind \in Kinds
      /\ None \notin Cmds /\ TypeOK /\ ApiType /\ SlotOf(api.cmd) \in 0 .. CmdMax
  BY InRange DEF CountInv, TypeOK, ObjType, ApiType, WifiAssumption
<1>1. ASSUME Starting' PROVE kind'[api'.cmd] \in {"none", api'.kind} /\ current'[api'.kind] = None
  <2>1. CASE \E k \in Kinds, c \in Cmds :
              /\ Create(c, k) /\ api'.cmd = c /\ api'.kind = k /\ api'.pc = "write slot"
              /\ api'.todo = Start(k) /\ api'.ok
              /\ current[k] = None /\ api.pc = "idle"
              /\ UNCHANGED <<event_cb, loop, slots, num_cmd, lost, current>>
    <3>1. PICK k \in Kinds, c \in Cmds : /\ Create(c, k) /\ api'.cmd = c /\ api'.kind = k
                                         /\ UNCHANGED current /\ current[k] = None
      BY <2>1
    <3>2. kind'[c] = k
      BY <1>t, <3>1 DEF Create
    <3> QED BY <3>1, <3>2
  <2>2. CASE Starting /\ SameCall
    <3>1. PICK c \in Cmds, k \in Kinds : c = api.cmd /\ api'.cmd = c /\ k = api.kind /\ api'.kind = k
      BY <1>t, <2>2 DEF SameCall, Starting
    <3>2. kind[c] \in {"none", k} /\ current[k] = None
      BY <2>2, <3>1 DEF PlanInv
    <3>3. current'[k] = None
      <4>1. ~StartReturns /\ ~CallStop(k)
        <5>1. api' = ApiIdle => ~Starting'
          BY DEF ApiIdle, Starting
        <5> QED BY <1>1, <2>2, <5>1 DEF StartReturns, CallStop, Starting
      <4>2. \A l \in Kinds : ~CallStop(l)
        BY <2>2 DEF CallStop, Starting
      <4> QED BY <1>t, <3>2, <4>1, <4>2, CurrentSteps
    <3>4. kind'[c] \in {"none", k}
      <4>1. \/ kind' = kind
            \/ \E d \in {api.cmd, loop.cmd} : ReleaseRef(d)
        <5>1. ~CallStopAll /\ \A l \in Kinds : ~CallStart(l)
          BY <2>2 DEF CallStopAll, CallStart, Starting
        <5> QED BY <5>1 DEF Next, CallStop, Api, RegisterWrite, RegisterCount,
             RegisterFull,
           ApiFind, ApiMove, ApiCountDown, ApiRegister, ApiUnregister, Answered,
             Refused,
           StartReturns, CancelReturns, Dispatch, EventLoop, HandleReport,
             HandleRttPart,
           HandleRttComplete, RttResults, LoopFind, LoopMove, LoopCountDown,
             LoopDrop, LoopRelease,
           objVars
      <4>2. CASE \E d \in {api.cmd, loop.cmd} : ReleaseRef(d)
        <5>1. kind'[c] = kind[c] \/ kind'[c] = "none"
          BY <1>t, <4>2 DEF ReleaseRef
        <5> QED BY <3>2, <5>1
      <4> QED BY <3>2, <4>1, <4>2
    <3> QED BY <3>1, <3>3, <3>4
  <2> QED BY <1>1, <2>1, <2>2, StartSteps
<1>2. ASSUME api'.pc = "run", api'.cmd \in lost' PROVE api'.kind = "rtt"
  <2>1. Starting'
    BY <1>2 DEF Starting
  <2>2. CASE Starting /\ SameCall /\ (api'.pc = api.pc \/ api.pc = "run") /\ lost' = lost
    BY <1>2, <2>2 DEF SameCall, PlanInv
  <2>3. CASE Starting /\ SameCall /\ SameTodo /\ (RegisterWrite \/ RegisterCount \/ RegisterFull)
    <3>1. CASE RegisterWrite
      BY <1>t, <1>2, <3>1, TableSteps
    <3>2. CASE RegisterCount
      <4>1. api.cmd \in lost /\ api.pc = "count up" /\ api.cmd \in Cmds
        <5>1. lost' = lost /\ api.pc = "count up"
          BY <3>2 DEF RegisterCount, objVars
        <5>2. api'.cmd = api.cmd
          BY <2>3 DEF SameCall
        <5> QED BY <1>t, <1>2, <5>1, <5>2
      <4>2. ApiOwner(api.cmd)
        BY <4>1 DEF ApiOwner
      <4> QED BY <4>1, <4>2 DEF CountInv, OneOwner
    <3>3. CASE RegisterFull
      <4>1. api.kind = "rtt"
        BY <1>2, <3>3 DEF RegisterFull, ApiIdle
      <4> QED BY <2>3, <4>1 DEF SameCall
    <3> QED BY <2>3, <3>1, <3>2, <3>3
  <2>4. lost' = lost \/ RegisterFull
    BY DEF Next, CallStart, CallStop, CallStopAll, Api, RegisterWrite,
         RegisterCount,
           ApiFind, ApiMove, ApiCountDown, ApiRegister, ApiUnregister, Answered,
         Refused,
           StartReturns, CancelReturns, Dispatch, EventLoop, HandleReport,
         HandleRttPart,
           HandleRttComplete, RttResults, LoopFind, LoopMove, LoopCountDown,
         LoopDrop, LoopRelease,
           objVars
  <2>5. RegisterFull => Api
    BY DEF Api
  <2>6. RegisterFull /\ (ApiRegister \/ ApiUnregister \/ Answered \/ Refused) => api.pc # "run"
    BY DEF RegisterFull
  <2>7. ~(\E k \in Kinds, c \in Cmds : api'.pc = "write slot")
    BY <1>2
  <2>8. api.pc = "run" => ~RegisterFull
    BY DEF RegisterFull
  <2> QED BY <1>2, <2>1, <2>2, <2>3, <2>4, <2>5, <2>8, StartSteps
<1> QED BY <1>1, <1>2

(* PlanInv holds at the start.                                             *)
LEMMA PlanInit == ASSUME WifiAssumption PROVE Init => PlanInv
<1> SUFFICES ASSUME Init PROVE PlanInv
  OBVIOUS
<1>1. api.pc = "idle" /\ \A k \in Kinds : current[k] = None
  BY DEF Init, ApiIdle
<1> QED BY <1>1 DEF PlanInv, Starting, Stopping

(* Every step keeps PlanInv.                                               *)
LEMMA PlanStep ==
  ASSUME WifiAssumption, "scan" \notin MayRefuse, ~Overlap
  PROVE  CountInv /\ RunInv /\ PlanInv /\ [Next]_vars => PlanInv'
<1>1. ASSUME CountInv, RunInv, PlanInv, Next PROVE PlanInv'
  <2>1. CountInv'
    BY <1>1, CountStep
  <2>2. Starting' => /\ api'.ok => StartShape(api'.todo, api'.kind)
                     /\ ~api'.ok => api'.pc = "run" /\ UndoShape(api'.todo)
                     /\ api'.pc \in {"write slot", "count up"} => api'.todo # <<>>
    BY <1>1, <2>1, PlanStarts
  <2>3. Stopping' => CancelShape(api'.todo)
    BY <1>1, <2>1, PlanStops
  <2>4. /\ \A k, l \in Kinds : current'[k] # None /\ current'[k] = current'[l] => k = l
        /\ api'.pc # "idle" => \A k \in Kinds : current'[k] # api'.cmd
    BY <1>1, <2>1, PlanIds
  <2>5. /\ Starting' => kind'[api'.cmd] \in {"none", api'.kind} /\ current'[api'.kind] = None
        /\ api'.pc = "run" /\ api'.cmd \in lost' => api'.kind = "rtt"
    BY <1>1, <2>1, PlanObject
  <2>6. api'.pc \in {"write slot", "count up"} => Starting'
    BY DEF Starting
  <2> QED BY <2>2, <2>3, <2>4, <2>5, <2>6 DEF PlanInv
<1>2. ASSUME PlanInv, UNCHANGED vars PROVE PlanInv'
  <2>1. UNCHANGED <<event_cb, slots, num_cmd, kind, refs, lost, current, api, loop>>
    BY <1>2 DEF vars
  <2> QED BY <1>2, <2>1 DEF PlanInv, Starting, Stopping
<1> QED BY <1>1, <1>2

(* What the rest of a todo list has, and what it lacks.                    *)
LEMMA TailHas ==
  ASSUME NEW t \in Seq(Steps), t # <<>>
  PROVE  /\ \A o, s : Has(Tail(t), o, s) => Has(t, o, s)
         /\ \A o, s : Has(t, o, s) /\ ~(Head(t).op = o /\ Head(t).sub = s) => Has(Tail(t), o, s)
         /\ NoReturn(t) => NoReturn(Tail(t))
<1> DEFINE u == Tail(t)
<1>1. /\ DOMAIN t = 1 .. Len(t) /\ DOMAIN u = 1 .. Len(t) - 1 /\ Len(t) \in Nat
      /\ \A i \in 1 .. Len(t) - 1 : u[i] = t[i + 1]
      /\ Head(t) = t[1]
  OBVIOUS
<1>2. /\ \A i \in DOMAIN u : i + 1 \in DOMAIN t /\ u[i] = t[i + 1]
      /\ \A i \in DOMAIN t : i # 1 => i - 1 \in DOMAIN u /\ u[i - 1] = t[i]
  BY <1>1
<1> HIDE DEF u
<1>3. \A o, s : Has(u, o, s) => Has(t, o, s)
  BY <1>2 DEF Has
<1>4. \A o, s : Has(t, o, s) /\ ~(Head(t).op = o /\ Head(t).sub = s) => Has(u, o, s)
  BY <1>1, <1>2 DEF Has
<1>5. NoReturn(t) => NoReturn(u)
  BY <1>2 DEF NoReturn
<1> QED BY <1>3, <1>4, <1>5 DEF u

(* Every event belongs to a class; RTT_COMPLETE is the only one of RTT.    *)
LEMMA KindsOfEvents ==
  /\ \A s \in Subs : KindOf(s) \in AllKinds /\ KindOf(s) # "none"
  /\ \A s \in Subs : KindOf(s) = "rtt" => s = "RTT_COMPLETE"
BY DEF KindOf, Subs, AllKinds

(* The facts about a handler from which its next state follows.            *)
LEMMA HandlerFacts ==
  ASSUME WifiAssumption, CountInv, PlanInv, NEW s \in Subs, NEW c \in Cmds, HandlerFits(s, c)
  PROVE  /\ KindOf(s) \in Kinds /\ c # None
         /\ api.pc = "idle" => current[KindOf(s)] = c
         /\ api.pc \in {"write slot", "count up"} => api.cmd # c /\ current[KindOf(s)] = c
         /\ ApiOwner(c) => api.pc \in {"count down", "cancel"}
<1>1. kind[c] = KindOf(s) /\ kind[c] \in Kinds \cup {"none"} /\ KindOf(s) # "none"
  BY KindsOfEvents DEF HandlerFits, CountInv, TypeOK, ObjType
<1>2. c # None
  BY DEF WifiAssumption
<1>3. current[KindOf(s)] = c \/ (api.cmd = c /\ (api.pc = "run" \/ Stopping))
  BY DEF HandlerFits
<1>4. api.pc # "idle" => \A k \in Kinds : current[k] # api.cmd
  BY DEF PlanInv
<1>5. api.pc \in {"write slot", "count up"} => api.cmd # c /\ current[KindOf(s)] = c
  BY <1>1, <1>3, <1>4 DEF Stopping
<1> QED BY <1>1, <1>2, <1>3, <1>5 DEF Stopping, ApiOwner

(* The command of a handler keeps its owner and its class.                 *)
LEMMA HandlerOwned ==
  ASSUME WifiAssumption, ~Overlap, CountInv, PlanInv, Next,
         NEW s \in Subs, NEW c \in Cmds, HandlerFits(s, c)
  PROVE  Listed(c)' \/ ApiOwner(c)'
<1>f. /\ ApiOwner(c) => api.pc \in {"count down", "cancel"}
      /\ EndsRtt => c # loop.cmd
      /\ Stopping /\ api.cmd = c => Has(api.todo, "unregister", s)
      /\ Listed(c) \/ ApiOwner(c)
  BY HandlerFacts DEF HandlerFits
<1>t. TypeOK /\ ApiType /\ SlotOf(api.cmd) \in 0 .. CmdMax
  BY InRange DEF CountInv, TypeOK
<1>1. CASE Listed(c)
  <2>1. LoopMove => loop.cmd # c
    BY <1>f DEF LoopMove, EndsRtt
  <2>2. CASE ApiMove /\ api.cmd = c
    BY <1>t, <2>2, TableSteps DEF SameCall, ApiOwner
  <2>3. CASE ~(ApiMove /\ api.cmd = c)
    BY <1>1, <2>1, <2>3, ListedStays
  <2> QED BY <2>2, <2>3
<1>2. CASE ApiOwner(c)
  <2>1. api.cmd = c /\ api.pc \in {"count down", "cancel"}
    BY <1>2, <1>f DEF ApiOwner
  <2>2. CASE ApiCountDown
    BY <1>t, <2>1, <2>2, TableSteps DEF SameCall, ApiOwner
  <2>3. CASE ApiRegister \/ ApiUnregister \/ Answered \/ Refused
    BY <1>t, <2>1, <2>3, TodoSteps DEF SameCall, ApiOwner
  <2>4. CASE CancelReturns
    <3>1. Has(api.todo, "unregister", s) /\ api.todo = <<>>
      BY <1>f, <2>1, <2>4 DEF Stopping, CancelReturns
    <3> QED BY <3>1 DEF Has
  <2>5. CASE api' = api
    BY <2>1, <2>5 DEF ApiOwner
  <2> QED BY <2>1, <2>2, <2>3, <2>4, <2>5 DEF Next, CallStart, CallStop,
       CallStopAll, Api, RegisterWrite,
      RegisterCount, RegisterFull, ApiFind, ApiMove, StartReturns, Dispatch,
       EventLoop, HandleReport,
      HandleRttPart, HandleRttComplete, RttResults, LoopFind, LoopMove,
       LoopCountDown, LoopDrop, LoopRelease
<1> QED BY <1>1, <1>2, <1>f

(* The command of a handler keeps its class.                               *)
LEMMA HandlerKind ==
  ASSUME WifiAssumption, ~Overlap, CountInv, CountInv', PlanInv, Next,
         NEW s \in Subs, NEW c \in Cmds, HandlerFits(s, c)
  PROVE  kind'[c] = KindOf(s)
<1>1. Listed(c) \/ ApiOwner(c)
  BY DEF HandlerFits
<1>2. Listed(c)' \/ ApiOwner(c)'
  BY HandlerOwned
<1>3. kind'[c] = kind[c]
  BY <1>1, <1>2, KindKept DEF Owned
<1> QED BY <1>3 DEF HandlerFits

(* The id of the command of a handler is with the framework, or with the   *)
(* call that starts or stops it.                                           *)
LEMMA HandlerKnown ==
  ASSUME WifiAssumption, ~Overlap, CountInv, PlanInv, Next,
         NEW s \in Subs, NEW c \in Cmds, HandlerFits(s, c)
  PROVE  current'[KindOf(s)] = c \/ (api'.cmd = c /\ (api'.pc = "run" \/ Stopping'))
<1> DEFINE k == KindOf(s)
<1>f. /\ k \in Kinds /\ c # None
      /\ api.pc = "idle" => current[k] = c
      /\ current[k] = c \/ (api.cmd = c /\ (api.pc = "run" \/ Stopping))
      /\ EndsRtt => c # loop.cmd
      /\ Stopping /\ api.cmd = c => Has(api.todo, "unregister", s)
      /\ Starting /\ api.kind = k => api.ok \/ Has(api.todo, "unregister", s)
      /\ Listed(c) \/ ApiOwner(c)
      /\ kind[c] = k
  BY HandlerFacts DEF HandlerFits
<1> HIDE DEF k
<1>t. TypeOK /\ ApiType /\ SlotOf(api.cmd) \in 0 .. CmdMax /\ current \in [Kinds -> Cmds \cup {None}]
  BY InRange DEF CountInv, TypeOK, ObjType
<1>1. CASE current[k] = c
  <2>1. CASE current' = current
    BY <1>1, <2>1 DEF k
  <2>2. ASSUME NEW l \in Kinds, CallStop(l), current' = [current EXCEPT ![l] = None]
        PROVE  current'[k] = c \/ (api'.cmd = c /\ Stopping')
    <3>1. CASE l = k
      BY <1>t, <1>1, <2>2, <3>1, CallSteps DEF Stopping
    <3>2. CASE l # k
      BY <1>t, <1>f, <1>1, <2>2, <3>2
    <3> QED BY <3>1, <3>2
  <2>3. CASE StartReturns /\ current' = [current EXCEPT ![api.kind] = api.cmd]
    <3>1. current[api.kind] = None
      BY <2>3 DEF StartReturns, PlanInv, Starting
    <3> QED BY <1>t, <1>f, <1>1, <2>3, <3>1 DEF k
  <2>4. CASE RttResults /\ current' = [l \in Kinds |-> IF current[l] = loop.cmd THEN None ELSE current[l]]
    <3>1. c # loop.cmd
      BY <1>f, <2>4 DEF RttResults, EndsRtt
    <3> QED BY <1>f, <1>1, <2>4, <3>1 DEF k
  <2> QED BY <2>1, <2>2, <2>3, <2>4, CurrentSteps DEF k
<1>2. CASE api.cmd = c /\ (api.pc = "run" \/ Stopping)
  <2>1. CASE ApiFind
    <3>1. Listed(c)
      BY <1>f, <2>1 DEF ApiOwner, ApiFind
    <3>2. InTable(c)
      <4>1. Used = num_cmd
        BY <2>1 DEF ApiFind, LoopInTable, Used, Shrinking
      <4> QED BY <3>1, <4>1 DEF Listed, InTable
    <3>3. SlotOf(api.cmd) # 0
      BY <1>t, <1>2, <3>2, SlotFound DEF TypeOK
    <3> QED BY <1>t, <1>2, <2>1, <3>3, TableSteps DEF SameCall, Stopping
  <2>2. CASE ApiMove \/ ApiCountDown
    BY <1>t, <1>2, <2>2, TableSteps DEF SameCall, Stopping
  <2>3. CASE ApiRegister \/ ApiUnregister \/ Answered \/ Refused
    BY <1>t, <1>2, <2>3, TodoSteps DEF SameCall, Stopping
  <2>4. CASE StartReturns
    <3>1. api.pc = "run" /\ api.todo = <<>>
      BY <2>4 DEF StartReturns
    <3>2. kind[c] = k /\ kind[api.cmd] \in {"none", api.kind} /\ k # "none"
      BY <1>f, <3>1, KindsOfEvents DEF PlanInv, Starting, HandlerFits, k
    <3>3. api.kind = k
      BY <1>2, <3>2
    <3>4. api.ok
      BY <1>f, <3>1, <3>3 DEF Starting, Has
    <3>5. current' = [current EXCEPT ![api.kind] = api.cmd]
      BY <2>4, <3>4 DEF StartReturns
    <3> QED BY <1>t, <1>f, <1>2, <3>3, <3>5 DEF k
  <2>5. CASE CancelReturns
    <3>1. Has(api.todo, "unregister", s) /\ api.todo = <<>>
      BY <1>f, <1>2, <2>5 DEF Stopping, CancelReturns
    <3> QED BY <3>1 DEF Has
  <2>6. CASE api' = api
    BY <1>2, <2>6 DEF Stopping
  <2> QED BY <1>2, <2>1, <2>2, <2>3, <2>4, <2>5, <2>6 DEF Next, CallStart,
       CallStop, CallStopAll, Api,
      RegisterWrite, RegisterCount, RegisterFull, Dispatch, EventLoop,
       HandleReport, Stopping,
      HandleRttPart, HandleRttComplete, RttResults, LoopFind, LoopMove,
       LoopCountDown, LoopDrop, LoopRelease
<1> QED BY <1>1, <1>2, <1>f

(* What a start does about the event s, which has a handler.               *)
LEMMA HandlerStarts ==
  ASSUME WifiAssumption, "scan" \notin MayRefuse, ~Overlap, CountInv, PlanInv, Next, Starting',
         NEW s \in Subs, NEW c \in Cmds, HandlerFits(s, c),
         ApiUnregister => Head(api.todo).sub # s
  PROVE  /\ api'.ok => ~Has(api'.todo, "register", s)
         /\ api'.kind = KindOf(s) =>
              NoReturn(api'.todo) /\ (api'.ok \/ Has(api'.todo, "unregister", s))
<1> DEFINE k == KindOf(s)
<1>f. /\ k \in Kinds /\ c # None
      /\ api.pc = "idle" => current[k] = c
      /\ Starting /\ api.ok => ~Has(api.todo, "register", s)
      /\ Starting /\ api.kind = k =>
           NoReturn(api.todo) /\ (api.ok \/ Has(api.todo, "unregister", s))
  BY HandlerFacts DEF HandlerFits
<1> HIDE DEF k
<1>t. TypeOK /\ ApiType /\ SlotOf(api.cmd) \in 0 .. CmdMax
  BY InRange DEF CountInv, TypeOK
<1>1. CASE \E l \in Kinds, d \in Cmds :
              /\ Create(d, l) /\ api'.cmd = d /\ api'.kind = l /\ api'.pc = "write slot"
              /\ api'.todo = Start(l) /\ api'.ok
              /\ current[l] = None /\ api.pc = "idle"
              /\ UNCHANGED <<event_cb, loop, slots, num_cmd, lost, current>>
  <2>1. PICK l \in Kinds : /\ api'.kind = l /\ api'.todo = Start(l)
                           /\ current[l] = None /\ api.pc = "idle"
    BY <1>1
  <2>3. l # k
    BY <1>f, <2>1
  <2>4. l \in AllKinds
    BY DEF WifiAssumption, AllKinds
  <2>5. StartShape(Start(l), l)
    BY <2>4, StartFits
  <2>6. ~Has(Start(l), "register", s)
    BY <2>3, <2>5 DEF StartShape, Has, k
  <2> QED BY <2>1, <2>3, <2>6, Zenon DEF k
<1>2. CASE Starting /\ SameCall /\ SameTodo
  BY <1>f, <1>2, Zenon DEF SameCall, SameTodo, k
<1>4. CASE Starting /\ SameCall /\ api.pc = "run" /\ api'.pc = "run"
            /\ (ApiRegister \/ ApiUnregister \/ Answered \/ Refused)
  <2>1. /\ api.ok => StartShape(api.todo, api.kind)
        /\ ~api.ok => UndoShape(api.todo)
        /\ api'.kind = api.kind
    BY <1>4 DEF PlanInv, SameCall
  <2>2. api.todo # <<>> /\ api.todo \in Seq(Steps) /\ Head(api.todo) = api.todo[1] /\ 1 \in DOMAIN api.todo
    BY <1>t, <1>4, TodoSteps DEF ApiType
  <2>t. /\ \A o : Has(Tail(api.todo), o, s) => Has(api.todo, o, s)
        /\ \A o : Has(api.todo, o, s) /\ ~(Head(api.todo).op = o /\ Head(api.todo).sub = s)
                    => Has(Tail(api.todo), o, s)
        /\ NoReturn(api.todo) => NoReturn(Tail(api.todo))
    BY <2>2, TailHas
  <2>3. CASE api'.todo = Tail(api.todo) /\ api'.ok = api.ok
    <3>1. Has(api.todo, "unregister", s) => Has(Tail(api.todo), "unregister", s)
      <4>1. CASE ApiUnregister
        BY <2>t, <4>1
      <4>2. CASE ApiRegister \/ Answered \/ Refused
        <5>1. Head(api.todo).op # "unregister"
          BY <4>2 DEF ApiRegister, Answered, Refused
        <5> QED BY <2>t, <5>1
      <4> QED BY <1>4, <4>1, <4>2
    <3>2. api.ok => ~Has(Tail(api.todo), "register", s)
      BY <1>f, <1>4, <2>t
    <3>3. api.kind = k => NoReturn(Tail(api.todo)) /\ (api.ok \/ Has(Tail(api.todo), "unregister", s))
      BY <1>f, <1>4, <2>t, <3>1
    <3> QED BY <2>1, <2>3, <3>2, <3>3, Zenon DEF k
  <2>4. CASE Head(api.todo).fail = "return" /\ api'.todo = <<>> /\ ~api'.ok
    <3>1. api.kind # k
      BY <1>f, <1>4, <2>2, <2>4 DEF NoReturn
    <3> QED BY <2>1, <2>4, <3>1 DEF k
  <2>5. CASE /\ Head(api.todo).fail = "undo" /\ Head(api.todo).op = "ask" /\ api.kind \in MayRefuse
             /\ api'.todo = Undo(api.kind) /\ ~api'.ok
    <3>2. api.ok
      BY <2>1, <2>2, <2>5 DEF UndoShape
    <3>3. api.kind # "rtt"
      BY <2>1, <2>2, <2>5, <3>2 DEF StartShape
    <3>4. PICK l \in {"hotlist", "change", "anqpo"} : l = api.kind
      BY <2>5, <3>3 DEF WifiAssumption
    <3>5. Undo(l) \in Seq(Steps) /\ UndoShape(Undo(l)) /\ Ends(Undo(l), l)
      BY <3>4, UndoFits
    <3>6. NoReturn(Undo(l))
      <4> DEFINE t == Undo(l)
      <4>1. t \in Seq(Steps) /\ UndoShape(t)
        BY <3>5
      <4> HIDE DEF t
      <4>2. \A i \in DOMAIN t : t[i] \in Steps /\ t[i].op = "unregister"
        BY <4>1 DEF UndoShape
      <4>3. \A x \in Steps : x.op = "unregister" => x.fail = "none"
        BY DEF Steps
      <4>4. NoReturn(t)
        BY <4>2, <4>3 DEF NoReturn
      <4> QED BY <4>4 DEF t
    <3>7. l = k => Has(Undo(l), "unregister", s)
      BY <3>5 DEF Ends, Has, k
    <3>8. api'.todo = Undo(l) /\ api'.kind = l
      BY <2>1, <2>5, <3>4
    <3> QED BY <2>5, <3>6, <3>7, <3>8, Zenon DEF k
  <2> QED BY <1>t, <1>4, <2>3, <2>4, <2>5, TodoSteps
<1> QED BY <1>1, <1>2, <1>4, StartSteps

(* A call that stops a command unregisters all of its handlers.            *)
LEMMA HandlerStops ==
  ASSUME WifiAssumption, ~Overlap, CountInv, PlanInv, Next, Stopping',
         NEW s \in Subs, NEW c \in Cmds, HandlerFits(s, c), HandlerFor(c), api'.cmd = c,
         ApiUnregister => Head(api.todo).sub # s
  PROVE  Has(api'.todo, "unregister", s)
<1> DEFINE k == KindOf(s)
<1>f. /\ k \in Kinds /\ c # None
      /\ api.pc = "idle" => current[k] = c
      /\ Stopping /\ api.cmd = c => Has(api.todo, "unregister", s)
  BY HandlerFacts DEF HandlerFits
<1> HIDE DEF k
<1>t. TypeOK /\ ApiType /\ SlotOf(api.cmd) \in 0 .. CmdMax
  BY InRange DEF CountInv, TypeOK
<1>i. api' = ApiIdle => ~Stopping'
  BY DEF ApiIdle, Stopping
<1>1. CASE \E l \in Kinds : CallStart(l)
  BY <1>t, <1>1, CallSteps DEF Stopping
<1>2. CASE \E l \in Kinds : CallStop(l)
  <2>1. PICK l \in Kinds : /\ api'.todo = Cancel(l) /\ current[l] = c /\ api.pc = "idle"
    BY <1>t, <1>2, CallSteps DEF CallStop
  <2>2. l = k
    BY <1>f, <2>1 DEF PlanInv
  <2>3. l \in AllKinds
    BY DEF WifiAssumption, AllKinds
  <2>4. Ends(Cancel(l), l)
    BY <2>3, CancelFits
  <2>5. Has(Cancel(l), "unregister", s)
    BY <2>2, <2>4 DEF Ends, Has, k
  <2> QED BY <2>1, <2>5, Zenon
<1>3. CASE CallStopAll
  <2>1. PICK d \in Cmds : Create(d, "scan") /\ api'.cmd = d
    BY <1>t, <1>3, CallSteps
  <2> QED BY <2>1 DEF Create, FreeAddress, HandlerFor
<1>4. CASE RegisterWrite \/ RegisterCount \/ RegisterFull
  <2>1. api'.pc \in {"count up", "run"} \/ api' = ApiIdle
    BY <1>t, <1>4, TableSteps
  <2> QED BY <1>i, <2>1 DEF Stopping
<1>5. CASE ApiFind \/ ApiMove \/ ApiCountDown
  <2>1. SameTodo /\ SameCall
    BY <1>t, <1>i, <1>5, TableSteps
  <2>2. Stopping
    BY <1>5 DEF ApiFind, ApiMove, ApiCountDown, Stopping
  <2> QED BY <1>f, <2>1, <2>2, Zenon DEF SameTodo, SameCall
<1>6. CASE ApiRegister \/ ApiUnregister \/ Answered \/ Refused
  <2>1. api.pc = "cancel" /\ api.todo # <<>> /\ api.todo \in Seq(Steps) /\ api.cmd = c
    BY <1>t, <1>6, TodoSteps DEF ApiType, Stopping, SameCall
  <2>2. CancelShape(api.todo) /\ Stopping
    BY <2>1 DEF PlanInv, Stopping
  <2>3. Head(api.todo) = api.todo[1] /\ 1 \in DOMAIN api.todo /\ DOMAIN api.todo = 1 .. Len(api.todo)
    BY <2>1
  <2>4. Head(api.todo).fail # "undo"
    BY <2>2, <2>3 DEF CancelShape
  <2>5. Has(api.todo, "unregister", s)
    BY <1>f, <2>1, <2>2
  <2>6. CASE api'.todo = Tail(api.todo)
    <3>1. \A o : Has(api.todo, o, s) /\ ~(Head(api.todo).op = o /\ Head(api.todo).sub = s)
                    => Has(Tail(api.todo), o, s)
      BY <2>1, TailHas
    <3>2. CASE ApiUnregister
      BY <2>5, <2>6, <3>1, <3>2
    <3>3. CASE ApiRegister \/ Answered \/ Refused
      <4>1. Head(api.todo).op # "unregister"
        BY <3>3 DEF ApiRegister, Answered, Refused
      <4> QED BY <2>5, <2>6, <3>1, <4>1
    <3> QED BY <1>6, <3>2, <3>3
  <2>7. CASE Refused /\ Head(api.todo).fail = "return" /\ Head(api.todo).op = "ask"
    <3>1. PICK j \in DOMAIN api.todo : api.todo[j].op = "unregister"
      BY <2>5 DEF Has
    <3>2. 1 < j
      BY <2>3, <2>7, <3>1
    <3> QED BY <2>2, <2>3, <2>7, <3>1, <3>2 DEF CancelShape
  <2> QED BY <1>t, <1>6, <2>4, <2>6, <2>7, TodoSteps
<1>7. CASE StartReturns \/ CancelReturns
  BY <1>t, <1>i, <1>7, TodoSteps
<1>8. CASE (\E r \in Subs : Dispatch(r)) \/ EventLoop
  <2>1. api' = api
    BY <1>8 DEF Dispatch, EventLoop, HandleReport, HandleRttPart,
       HandleRttComplete, RttResults, LoopFind, LoopMove, LoopCountDown,
         LoopDrop, LoopRelease
  <2> QED BY <1>f, <2>1, Zenon DEF Stopping
<1> QED BY <1>1, <1>2, <1>3, <1>4, <1>5, <1>6, <1>7, <1>8 DEF Next, Api

(* The event loop does not end a command that has a handler.               *)
LEMMA HandlerHeard ==
  ASSUME WifiAssumption, CountInv, Next, EndsRtt',
         NEW s \in Subs, NEW c \in Cmds, HandlerFits(s, c), HandleRttComplete => s # "RTT_COMPLETE"
  PROVE  c # loop'.cmd
<1>t. LoopType /\ kind[c] = KindOf(s) /\ (EndsRtt => c # loop.cmd)
  BY DEF CountInv, TypeOK, HandlerFits
<1>1. CASE \E r \in Subs : Dispatch(r)
  BY <1>1 DEF Dispatch, LoopIdle, EndsRtt
<1>2. CASE HandleRttComplete
  <2>1. kind[loop.cmd] = "rtt" /\ loop'.cmd = loop.cmd
    BY <1>t, <1>2 DEF HandleRttComplete, LoopType
  <2> QED BY <1>t, <1>2, <2>1, KindsOfEvents
<1>3. CASE HandleReport \/ HandleRttPart \/ LoopDrop \/ LoopRelease
  <2>1. loop'.pc = "release" \/ loop' = LoopIdle
    BY <1>t, <1>3 DEF HandleReport, HandleRttPart, LoopDrop, LoopRelease, LoopType
  <2>2. loop'.pc \in {"release", "poll"}
    BY <2>1 DEF LoopIdle
  <2> QED BY <2>2 DEF EndsRtt
<1>4. CASE RttResults \/ LoopFind \/ LoopMove \/ LoopCountDown
  <2>1. EndsRtt
    BY <1>4 DEF RttResults, LoopFind, LoopMove, LoopCountDown, EndsRtt
  <2>2. loop'.cmd = loop.cmd
    BY <1>t, <1>4 DEF RttResults, LoopFind, LoopMove, LoopCountDown, LoopType
  <2> QED BY <1>t, <2>1, <2>2
<1>5. CASE loop' = loop
  BY <1>t, <1>5 DEF EndsRtt
<1> QED BY <1>1, <1>2, <1>3, <1>4, <1>5 DEF EventLoop, Next, CallStart, CallStop,
     CallStopAll, Api,
      RegisterWrite, RegisterCount, RegisterFull, ApiFind, ApiMove, ApiCountDown,
     ApiRegister,
      ApiUnregister, Answered, Refused, StartReturns, CancelReturns

(* A handler that is not unregistered goes on fitting its command.         *)
LEMMA HandlerKept ==
  ASSUME WifiAssumption, "scan" \notin MayRefuse, ~Overlap, CountInv, CountInv', PlanInv, Next,
         NEW s \in Subs, NEW c \in Cmds, HandlerFits(s, c), HandlerFor(c),
         ApiUnregister => Head(api.todo).sub # s,
         HandleRttComplete => s # "RTT_COMPLETE"
  PROVE  HandlerFits(s, c)'
<1>1. kind'[c] = KindOf(s)
  BY HandlerKind
<1>2. Listed(c)' \/ ApiOwner(c)'
  BY HandlerOwned
<1>3. current'[KindOf(s)] = c \/ (api'.cmd = c /\ (api'.pc = "run" \/ Stopping'))
  BY HandlerKnown
<1>4. Starting' => /\ api'.ok => ~Has(api'.todo, "register", s)
                   /\ api'.kind = KindOf(s) =>
                        NoReturn(api'.todo) /\ (api'.ok \/ Has(api'.todo, "unregister", s))
  BY HandlerStarts
<1>5. Stopping' /\ api'.cmd = c => Has(api'.todo, "unregister", s)
  BY HandlerStops
<1>6. EndsRtt' => c # loop'.cmd
  BY HandlerHeard
<1> QED BY <1>1, <1>2, <1>3, <1>4, <1>5, <1>6, Zenon DEF HandlerFits

(* registerVendorHandler adds the handler of a command that is in the      *)
(* table, and no handler of that event exists.                             *)
LEMMA HandlerNew ==
  ASSUME WifiAssumption, "scan" \notin MayRefuse, ~Overlap, CountInv, RunInv, PlanInv,
         ApiRegister, ~RttLost,
         NEW s, s = Head(api.todo).sub, NEW c, c = api.cmd
  PROVE  /\ s \in Subs /\ c \in Cmds /\ HandlerFits(s, c)'
         /\ \A r \in Subs, d \in Cmds : HandlerFits(r, d) => r # s
<1> DEFINE t == api.todo
<1>t. TypeOK /\ ApiType
  BY DEF CountInv, TypeOK
<1>a. /\ ApiType' /\ api'.cmd = c /\ api'.kind = api.kind /\ api'.pc = api.pc /\ api'.ok = api.ok
      /\ t # <<>> /\ t \in Seq(Steps) /\ api'.todo = Tail(t)
      /\ api.pc \in {"run", "cancel"}
      /\ api.cmd \in Cmds /\ api.kind \in Kinds
  BY <1>t, TodoSteps DEF SameCall, ApiType
<1>h. Head(t).op = "register" /\ Head(t) = t[1] /\ 1 \in DOMAIN t
  BY <1>a DEF ApiRegister
<1>1. api.pc = "run" /\ api.ok /\ Starting
  <2>1. api.pc # "cancel"
    BY <1>h DEF PlanInv, Stopping, CancelShape
  <2>2. api.ok
    BY <1>h, <1>a, <2>1 DEF PlanInv, Starting, UndoShape
  <2> QED BY <1>a, <2>1, <2>2 DEF Starting
<1>2. StartShape(t, api.kind)
  BY <1>1 DEF PlanInv
<1>3. s \in Subs /\ KindOf(s) = api.kind
  BY <1>h, <1>2 DEF StartShape
<1>4. /\ kind[c] = api.kind /\ (Listed(c) \/ c \in lost)
      /\ api.kind = "rtt" => loop.cmd # c
  BY <1>a, <1>1 DEF RunInv
<1>5. Listed(c)
  <2>1. ASSUME c \in lost PROVE FALSE
    <3>1. api.kind = "rtt"
      BY <1>1, <2>1 DEF PlanInv
    <3> QED BY <1>4, <2>1, <3>1 DEF RttLost
  <2> QED BY <1>4, <2>1
<1>6. Listed(c)'
  <2>1. slots' = slots /\ num_cmd' = num_cmd /\ loop' = loop
    BY DEF ApiRegister, tableVars
  <2> QED BY <1>a, <1>5, <2>1 DEF Listed, Used, Shrinking
<1>7. kind'[c] = KindOf(s)
  BY <1>3, <1>4 DEF ApiRegister, objVars
<1>8. /\ ~Has(Tail(t), "register", s) /\ NoReturn(Tail(t))
      /\ Has(t, "register", s)
  <2> DEFINE u == Tail(t)
  <2>1. /\ \A i \in DOMAIN u : i + 1 \in DOMAIN t /\ u[i] = t[i + 1] /\ 1 < i + 1
    <3>1. /\ DOMAIN t = 1 .. Len(t) /\ DOMAIN u = 1 .. Len(t) - 1 /\ Len(t) \in Nat
          /\ \A i \in 1 .. Len(t) - 1 : u[i] = t[i + 1]
      BY <1>a
    <3> QED BY <3>1
  <2> HIDE DEF u
  <2>2. ~Has(u, "register", s)
    BY <1>2, <1>h, <2>1 DEF Has, StartShape
  <2>3. NoReturn(u)
    BY <1>2, <1>h, <2>1 DEF NoReturn, StartShape
  <2>4. Has(t, "register", s)
    BY <1>h DEF Has
  <2> QED BY <2>2, <2>3, <2>4 DEF u
<1>9. EndsRtt' => c # loop'.cmd
  <2>1. loop' = loop
    BY DEF ApiRegister
  <2>2. EndsRtt => kind[loop.cmd] = "rtt"
    BY DEF RunInv
  <2> QED BY <1>4, <2>1, <2>2 DEF EndsRtt
<1>10. ~Stopping'
  BY <1>a, <1>1 DEF Stopping
<1>11. HandlerFits(s, c)'
  BY <1>a, <1>1, <1>3, <1>6, <1>7, <1>8, <1>9, <1>10 DEF HandlerFits
<1>12. ASSUME NEW r \in Subs, NEW d \in Cmds, HandlerFits(r, d) PROVE r # s
  BY <1>1, <1>8, <1>12 DEF HandlerFits
<1> QED BY <1>a, <1>3, <1>11, <1>12

(* An RTT command that was lost stays lost.                                *)
LEMMA LostStaysLost ==
  ASSUME WifiAssumption, CountInv, CountInv', Next, RttLost
  PROVE  RttLost'
<1>1. PICK c \in lost : kind[c] = "rtt"
  BY DEF RttLost
<1>2. lost' = lost \/ RegisterFull
  BY DEF Next, CallStart, CallStop, CallStopAll, Api, RegisterWrite, RegisterCount,
         ApiFind, ApiMove, ApiCountDown, ApiRegister, ApiUnregister, Answered,
       Refused,
         StartReturns, CancelReturns, Dispatch, EventLoop, HandleReport,
       HandleRttPart,
         HandleRttComplete, RttResults, LoopFind, LoopMove, LoopCountDown,
       LoopDrop, LoopRelease,
         objVars
<1>3. c \in lost' /\ c \in Cmds
  BY <1>1, <1>2 DEF RegisterFull, CountInv, TypeOK, ObjType
<1>4. kind'[c] = kind[c]
  BY <1>1, <1>3, KindKept DEF Owned
<1> QED BY <1>1, <1>3, <1>4 DEF RttLost

(* Handlers, in the next state, from facts about values.                   *)
LEMMA AllFit ==
  ASSUME DistinctSubs(event_cb)',
         \A i \in DOMAIN event_cb' : \E r \in Subs, d \in Cmds :
           r = event_cb'[i].sub /\ d = event_cb'[i].cmd /\ HandlerFits(r, d)'
  PROVE  Handlers'
<1>1. ASSUME NEW i \in DOMAIN event_cb'
      PROVE  (HandlerFits(event_cb[i].sub, event_cb[i].cmd))'
  <2>1. PICK r \in Subs, d \in Cmds : r = event_cb'[i].sub /\ d = event_cb'[i].cmd /\ HandlerFits(r, d)'
    OBVIOUS
  <2> QED BY <2>1 DEF HandlerFits
<1> QED BY <1>1 DEF Handlers

(* Every step keeps the handlers fitting, unless an RTT command was lost.  *)
LEMMA HandlersStep ==
  ASSUME WifiAssumption, "scan" \notin MayRefuse, ~Overlap, CountInv, CountInv', RunInv, PlanInv, Next,
         ~RttLost, Handlers
  PROVE  Handlers'
<1>t. event_cb \in Seq(Entries)
  BY DEF CountInv, TypeOK
<1>l. LoopType /\ (HandleRttComplete => loop' # loop)
  <2>1. LoopType
    BY DEF CountInv, TypeOK
  <2>2. HandleRttComplete => loop.pc = "handle" /\ loop'.pc = "results"
    BY <2>1 DEF HandleRttComplete, LoopType
  <2> QED BY <2>1, <2>2
<1>d. DOMAIN event_cb = 1 .. Len(event_cb) /\ Len(event_cb) \in Nat
  BY <1>t
<1>e. ASSUME NEW i \in DOMAIN event_cb
      PROVE  /\ event_cb[i].sub \in Subs /\ event_cb[i].cmd \in Cmds
             /\ HandlerFits(event_cb[i].sub, event_cb[i].cmd)
             /\ HandlerFor(event_cb[i].cmd)
  <2>1. event_cb[i] \in Entries
    BY <1>t
  <2>2. event_cb[i].sub \in Subs /\ event_cb[i].cmd \in Cmds
    BY <2>1 DEF Entries
  <2>3. HandlerFits(event_cb[i].sub, event_cb[i].cmd)
    BY DEF Handlers
  <2> QED BY <2>2, <2>3 DEF HandlerFor
<1>1. CASE ApiRegister
  <2>1. PICK s, c : s = Head(api.todo).sub /\ c = api.cmd
    OBVIOUS
  <2>2. /\ s \in Subs /\ c \in Cmds /\ HandlerFits(s, c)'
        /\ \A r \in Subs, d \in Cmds : HandlerFits(r, d) => r # s
    BY <1>1, <2>1, HandlerNew
  <2>3. ~ApiUnregister /\ ~HandleRttComplete
    BY <1>1, <1>l DEF ApiRegister, ApiUnregister
  <2>4. \A i \in DOMAIN event_cb : \E r \in Subs, d \in Cmds :
          r = event_cb[i].sub /\ d = event_cb[i].cmd /\ HandlerFits(r, d)' /\ r # s
    <3>1. TAKE i \in DOMAIN event_cb
    <3>2. PICK r \in Subs, d \in Cmds : r = event_cb[i].sub /\ d = event_cb[i].cmd
      BY <1>e
    <3>3. HandlerFits(r, d) /\ HandlerFor(d)
      BY <1>e, <3>2
    <3>4. HandlerFits(r, d)' /\ r # s
      BY <2>2, <2>3, <3>3, HandlerKept
    <3> QED BY <3>2, <3>4
  <2>5. event_cb' = event_cb \/ event_cb' = Append(event_cb, [sub |-> s, cmd |-> c])
    BY <1>1, <2>1 DEF ApiRegister, Registered
  <2>6. CASE event_cb' = event_cb
    BY <2>4, <2>6, AllFit DEF Handlers
  <2>7. CASE event_cb' = Append(event_cb, [sub |-> s, cmd |-> c])
    <3> DEFINE n == Len(event_cb) + 1
               h == [sub |-> s, cmd |-> c]
    <3>0. h.sub = s /\ h.cmd = c /\ h \in Entries
      BY <2>2 DEF Entries
    <3>1. /\ DOMAIN event_cb' = 1 .. n /\ event_cb'[n] = h
          /\ \A i \in 1 .. Len(event_cb) : event_cb'[i] = event_cb[i]
      <4> HIDE DEF h
      <4> QED BY <1>t, <1>d, <2>7, <3>0 DEF h
    <3>2. \A i \in 1 .. n : i = n \/ i \in DOMAIN event_cb
      BY <1>d
    <3> HIDE DEF n, h
    <3>3. \A i \in DOMAIN event_cb' : \E r \in Subs, d \in Cmds :
          r = event_cb'[i].sub /\ d = event_cb'[i].cmd /\ HandlerFits(r, d)'
      <4>1. TAKE i \in DOMAIN event_cb'
      <4>2. CASE i = n
        <5>1. event_cb'[i].sub = s /\ event_cb'[i].cmd = c
          BY <3>0, <3>1, <4>2
        <5> QED BY <2>2, <5>1
      <4>3. CASE i \in DOMAIN event_cb
        <5>1. event_cb'[i] = event_cb[i]
          BY <1>d, <3>1, <4>3
        <5> QED BY <2>4, <4>3, <5>1
      <4> QED BY <3>1, <3>2, <4>2, <4>3
    <3>4. DistinctSubs(event_cb')
      <4>1. \A i \in DOMAIN event_cb : event_cb'[i] = event_cb[i]
        BY <1>d, <3>1
      <4> QED BY <2>4, <3>0, <3>1, <3>2, <4>1 DEF Handlers, DistinctSubs
    <3> QED BY <3>3, <3>4, AllFit
  <2> QED BY <2>5, <2>6, <2>7
<1>2. CASE ApiUnregister \/ HandleRttComplete
  <2>1. PICK s : /\ event_cb' = Unregistered(s)
                 /\ ApiUnregister => s = Head(api.todo).sub
                 /\ HandleRttComplete => s = "RTT_COMPLETE"
    <3>1. ~(ApiUnregister /\ HandleRttComplete)
      BY <1>l DEF ApiUnregister
    <3> QED BY <1>2, <3>1 DEF ApiUnregister, HandleRttComplete
  <2>2. /\ DistinctSubs(Unregistered(s))
        /\ \A j \in DOMAIN Unregistered(s) :
             /\ Unregistered(s)[j].sub # s
             /\ \E i \in DOMAIN event_cb : Unregistered(s)[j] = event_cb[i]
    BY <1>t, UnregisteredHandlers DEF Handlers
  <2>3. \A j \in DOMAIN event_cb' : \E r \in Subs, d \in Cmds :
          r = event_cb'[j].sub /\ d = event_cb'[j].cmd /\ HandlerFits(r, d)'
    <3>1. TAKE j \in DOMAIN event_cb'
    <3>2. PICK i \in DOMAIN event_cb : event_cb'[j] = event_cb[i]
      BY <2>1, <2>2
    <3>3. PICK r \in Subs, d \in Cmds : /\ r = event_cb[i].sub /\ d = event_cb[i].cmd
                                       /\ HandlerFits(r, d) /\ HandlerFor(d)
      BY <1>e
    <3>4. r # s
      BY <2>1, <2>2, <3>2, <3>3
    <3>5. HandlerFits(r, d)'
      BY <2>1, <3>3, <3>4, HandlerKept
    <3> QED BY <3>2, <3>3, <3>5
  <2> QED BY <2>1, <2>2, <2>3, AllFit
<1>3. CASE event_cb' = event_cb /\ ~ApiUnregister /\ ~HandleRttComplete
  <2>1. \A i \in DOMAIN event_cb : \E r \in Subs, d \in Cmds :
          r = event_cb[i].sub /\ d = event_cb[i].cmd /\ HandlerFits(r, d)'
    <3>1. TAKE i \in DOMAIN event_cb
    <3>2. PICK r \in Subs, d \in Cmds : /\ r = event_cb[i].sub /\ d = event_cb[i].cmd
                                       /\ HandlerFits(r, d) /\ HandlerFor(d)
      BY <1>e
    <3>3. HandlerFits(r, d)'
      BY <1>3, <3>2, HandlerKept
    <3> QED BY <1>3, <3>2, <3>3
  <2> QED BY <1>3, <2>1, AllFit DEF Handlers
<1> QED BY <1>1, <1>2, <1>3 DEF Next, CallStart, CallStop, CallStopAll, Api,
     RegisterWrite,
         RegisterCount, RegisterFull, ApiFind, ApiMove, ApiCountDown, Answered,
     Refused,
         StartReturns, CancelReturns, Dispatch, EventLoop, HandleReport,
     HandleRttPart,
         RttResults, LoopFind, LoopMove, LoopCountDown, LoopDrop, LoopRelease,
     cbVars

HandlerInv == CountInv /\ RunInv /\ PlanInv /\ (RttLost \/ Handlers)

(* A handler that fits belongs to a command with a reference.              *)
LEMMA HandlersAreHeld ==
  ASSUME WifiAssumption, HandlerInv PROVE HandlersAreLive
<1>1. ASSUME Handlers, NEW i \in DOMAIN event_cb PROVE refs[event_cb[i].cmd] > 0
  <2>1. event_cb[i] \in Entries
    BY <1>1 DEF HandlerInv, CountInv, TypeOK
  <2>2. PICK c \in Cmds : c = event_cb[i].cmd
    BY <2>1 DEF Entries
  <2>3. Listed(c) \/ ApiOwner(c)
    BY <1>1, <2>2 DEF Handlers, HandlerFits
  <2>4. refs[c] > 0
    BY <2>3, UsedIsLive DEF HandlerInv, Owned
  <2> QED BY <2>2, <2>4
<1> QED BY <1>1 DEF HandlerInv, HandlersAreLive

(* The whole invariant holds at the start.                                 *)
LEMMA HandlerInvInit == ASSUME WifiAssumption PROVE Init => HandlerInv
<1> SUFFICES ASSUME Init PROVE HandlerInv
  OBVIOUS
<1>1. DOMAIN event_cb = {}
  BY DEF Init
<1>2. Handlers
  BY <1>1 DEF Handlers, DistinctSubs
<1> QED BY <1>2, CountInit, RunInit, PlanInit DEF HandlerInv

(* The whole invariant is inductive.                                       *)
LEMMA HandlerInvStep ==
  ASSUME WifiAssumption, ~Overlap, "scan" \notin MayRefuse
  PROVE  HandlerInv /\ [Next]_vars => HandlerInv'
<1> SUFFICES ASSUME HandlerInv, [Next]_vars PROVE HandlerInv'
  OBVIOUS
<1>1. CountInv' /\ RunInv' /\ PlanInv'
  BY RunInvStep, PlanStep DEF HandlerInv
<1>2. RttLost' \/ Handlers'
  <2>1. CASE Next
    BY <1>1, <2>1, LostStaysLost, HandlersStep DEF HandlerInv
  <2>2. CASE UNCHANGED vars
    <3>1. UNCHANGED <<event_cb, slots, num_cmd, kind, refs, lost, current, api, loop>>
      BY <2>2 DEF vars
    <3>2. RttLost' = RttLost
      BY <3>1 DEF RttLost
    <3>3. Handlers => Handlers'
      BY <3>1 DEF Handlers, HandlerFits, Listed, Used, Shrinking, ApiOwner,
           Starting, Stopping, EndsRtt
    <3> QED BY <3>2, <3>3 DEF HandlerInv
  <2> QED BY <2>1, <2>2
<1> QED BY <1>1, <1>2 DEF HandlerInv

(* An event never reaches a deleted command: whatever requests of its      *)
(* start or cancel failed, and however full the handler array was, the     *)
(* handlers of a command are gone before its last reference is, since      *)
(* every path of start() and cancel() unregisters them, and the event loop *)
(* removes RTT_COMPLETE before it gives the command up. A scan whose       *)
(* enabling is refused is left out: undoing it registers COMPLETE_SCAN     *)
(* again.                                                                  *)
THEOREM HandlersStayLive ==
  ASSUME WifiAssumption, ~Overlap, "scan" \notin MayRefuse
  PROVE  Spec => []HandlersAreLive
<1>1. Init => HandlerInv
  BY HandlerInvInit
<1>2. HandlerInv /\ [Next]_vars => HandlerInv'
  BY HandlerInvStep
<1>3. HandlerInv => HandlersAreLive
  BY HandlersAreHeld
<1> QED BY <1>1, <1>2, <1>3, PTL DEF Spec

(* The types of all the state, the numbers of the table within the array.  *)
THEOREM TypesHold ==
  ASSUME WifiAssumption, ~Overlap PROVE Spec => []TypeOK
<1>1. CountInv => TypeOK
  BY DEF CountInv
<1> QED BY CountInit, CountStep, <1>1, PTL DEF Spec
=============================================================================
