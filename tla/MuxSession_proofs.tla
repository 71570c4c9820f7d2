--------------------------- MODULE MuxSession_proofs ---------------------------
(***************************************************************************)
(* One thread reads each pty in the first session, for any number of       *)
(* channels, any command lines and any number of hang-ups and things that  *)
(* go wrong.  In every session the watchdog that has waited for the answers*)
(* to its DISCs goes on only when all of those channels are closed: it     *)
(* holds watch_lock meanwhile, so that nobody opens one of them again.     *)
(***************************************************************************)
EXTENDS MuxSession, TLAPS, WellFoundedInduction

(* One session, with a pty for every virtual port of the command line.     *)
FirstSession == SessionAssumption /\ Sessions = 1 /\ vir_ports <= NChan

States == {"OPENING", "INITILIZING", "MUXING", "CLOSING", "PEER_CLOSING", "OFF"}

Types1 ==
  /\ state \in States /\ session \in Nat /\ wi \in Nat \ {0}
  /\ fd \in [Chan -> BOOLEAN] /\ reopen \in [Chan -> BOOLEAN] /\ poll \in [Chan -> Nat]
  /\ rild_started \in BOOLEAN /\ pty_trouble \in BOOLEAN

(* The way from the opened device to the start of the RIL daemon.          *)
Setup == {"start", "threads", "reader", "sabm", "alloc", "wait", "woken", "rild"}

(* Nobody is inside while watch_lock is free. The first setup comes before *)
(* the RIL daemon, and there is no second one.                             *)
FirstSetup ==
  /\ watch_lock = "none" => wd = "none"
  /\ state = "INITILIZING" => wd \in {"none", "start"} /\ session # 0
  /\ wd \in Setup => session # 0
  /\ session = 0 \/ state = "INITILIZING" \/ wd \in Setup => ~rild_started
  /\ state = "OFF" => main = "ended"
  /\ wd = "clear" => wi \in Chan
  /\ wd = "open" => wi = 1

(* Nobody asks for a reopen before the RIL daemon runs.                    *)
(* Channels are allocated one after the other; one that waits to be        *)
(* reopened has no descriptor, until watchdog() has given it one and is    *)
(* about to forget the request.                                            *)
Descriptors ==
  /\ ~rild_started => \A c \in Chan : ~reopen[c]
  /\ state = "INITILIZING" \/ wd \in {"start", "threads", "reader", "sabm"} =>
       wi = 1 /\ \A c \in Chan : ~fd[c]
  /\ wd = "alloc" => \A c \in Chan : fd[c] => c < wi
  /\ \A c \in Chan : fd[c] /\ reopen[c] => wd = "clear" /\ c = wi
  /\ \A c \in Chan : poll[c] = IF fd[c] THEN 1 ELSE 0

IInv == Types1 /\ FirstSetup /\ (pty_trouble \/ Descriptors)

-----------------------------------------------------------------------------
(* The channel that is allocated is the first that is free.                *)
LEMMA LeastChannel ==
  ASSUME FirstSession, NEW d \in Chan, ~fd[d]
  PROVE  Allocated \in Chan /\ ~fd[Allocated] /\ Allocated <= d
<1> DEFINE T == {c \in Chan : ~fd[c]}
<1>0. NChan \in Nat /\ Chan \subseteq Nat
  BY DEF FirstSession, SessionAssumption, Chan
<1>1. T \subseteq Nat /\ T # {}
  BY <1>0
<1>2. \E x \in T : \A y \in T : ~ (<<y, x>> \in OpToRel(<, Nat))
  <2> HIDE DEF T
  <2> QED BY <1>1, WFMin, NatLessThanWellFounded
<1>3. PICK x \in T : \A y \in T : ~ (<<y, x>> \in OpToRel(<, Nat))
  BY <1>2
<1>4. \A y \in T : ~ (y < x)
  BY <1>1, <1>3 DEF OpToRel
<1>5. x \in Chan /\ ~fd[x] /\ \A e \in Chan : e < x => fd[e]
  BY <1>3, <1>4
<1>6. \E c \in Chan : ~fd[c] /\ \A e \in Chan : e < c => fd[e]
  BY <1>5
<1> DEFINE a == CHOOSE c \in Chan : ~fd[c] /\ \A e \in Chan : e < c => fd[e]
<1>7. a \in Chan /\ ~fd[a] /\ \A e \in Chan : e < a => fd[e]
  BY <1>6
<1>8. Allocated = a
  BY DEF Allocated
<1> HIDE DEF a
<1>9. a <= d
  BY <1>0, <1>7
<1> QED BY <1>7, <1>8, <1>9

(* At the beginning no channel is open.                                    *)
LEMMA InitIInv == ASSUME FirstSession PROVE Init => IInv
<1> SUFFICES ASSUME Init PROVE IInv
  OBVIOUS
<1>1. Types1
  <2>1. poll = [c \in Chan |-> 0] /\ 0 \in Nat /\ 1 \in Nat \ {0}
    BY DEF Init
  <2>2. fd \in [Chan -> BOOLEAN] /\ reopen \in [Chan -> BOOLEAN]
    BY DEF Init
  <2> QED BY <2>1, <2>2 DEF Init, Types1, States
<1>2. FirstSetup
  BY DEF Init, FirstSetup, Setup
<1>3. Descriptors
  BY DEF Init, Descriptors
<1> QED BY <1>1, <1>2, <1>3 DEF IInv

-----------------------------------------------------------------------------
(* Descriptors that are closed take their threads with them.               *)
Shrink ==
  /\ fd' \in [Chan -> BOOLEAN] /\ poll' \in [Chan -> Nat]
  /\ \A c \in Chan : \/ fd'[c] = fd[c] /\ poll'[c] = poll[c]
                     \/ ~fd'[c] /\ poll'[c] = 0

(* Closing channels: they lose their descriptor, the others keep it.       *)
LEMMA CloseShrinks ==
  ASSUME IInv, NEW S, CloseChannels(S)
  PROVE  Shrink
<1>1. fd \in [Chan -> BOOLEAN] /\ poll \in [Chan -> Nat]
  BY DEF IInv, Types1
<1>2. /\ fd' = [c \in Chan |-> fd[c] /\ c \notin S]
      /\ poll' = [c \in Chan |-> IF c \in S THEN 0 ELSE poll[c]]
  BY DEF CloseChannels
<1>3. \A c \in Chan : poll'[c] \in Nat /\ fd'[c] \in BOOLEAN
  BY <1>1, <1>2
<1> QED BY <1>1, <1>2, <1>3 DEF Shrink

(* A step of a thread that is not in watchdog().                           *)
Beside ==
  /\ UNCHANGED <<watch_lock, wi, session, reopen, rild_started, pty_trouble>>
  /\ wd' = wd \/ (wd = "discWait" /\ wd' = "discDone") \/ (wd = "wait" /\ wd' = "woken")
  /\ state' = state \/ state' \in {"CLOSING", "PEER_CLOSING"} \/ (state' = "OFF" /\ main' = "ended")

(* Such a step, if it at most closes channels, keeps the invariant.        *)
LEMMA BesideKeeps ==
  ASSUME FirstSession, IInv, Running, Shrink, Beside
  PROVE  IInv'
<1>1. Types1'
  BY DEF IInv, Types1, Shrink, Beside, States
<1>2. FirstSetup'
  BY DEF IInv, FirstSetup, Beside, Setup, Running
<1>3. ASSUME Descriptors PROVE Descriptors'
  <2>1. \A c \in Chan : fd'[c] => fd[c]
    BY DEF Shrink
  <2>2. \A c \in Chan : poll'[c] = IF fd'[c] THEN 1 ELSE 0
    BY <1>3 DEF Descriptors, Shrink
  <2> QED BY <1>3, <2>1, <2>2 DEF Descriptors, Beside
<1> QED BY <1>1, <1>2, <1>3 DEF IInv, Beside

(* A step in watchdog() that opens no descriptor.                          *)
Within ==
  /\ UNCHANGED <<session, rild_started, pty_trouble>>
  /\ wd' = "none" \/ watch_lock' = watch_lock
  /\ reopen' \in [Chan -> BOOLEAN] /\ \A c \in Chan : reopen'[c] => reopen[c]
  /\ wi' \in Nat \ {0}
  /\ state' \in States \ {"OFF"}
  /\ state' = "INITILIZING" => state = "INITILIZING" /\ (wd = "start" => wd' = "none" /\ wi' = 1)
  /\ wd \notin {"none", "clear"}
  /\ wd' \in {"none", "threads", "reader", "sabm", "alloc", "wait", "woken", "rild",
             "reopen", "ping", "discSend", "discWait", "cld"}
  /\ wd' \in {"threads", "reader", "sabm"} => wd \in {"start", "threads", "reader"} /\ wi' = wi
  /\ wd' = "alloc" => wd = "sabm"
  /\ wd' \in Setup => wd \in Setup

(* The same of a step of the watchdog that opens no channel.               *)
LEMMA WithinKeeps ==
  ASSUME FirstSession, IInv, Running, Shrink, Within
  PROVE  IInv'
<1>1. Types1'
  BY DEF IInv, Types1, Shrink, Within, States
<1>2. FirstSetup'
  BY DEF IInv, FirstSetup, Within, Setup, Running
<1>3. ASSUME Descriptors PROVE Descriptors'
  <2>1. \A c \in Chan : fd'[c] => fd[c]
    BY DEF Shrink
  <2>2. \A c \in Chan : poll'[c] = IF fd'[c] THEN 1 ELSE 0
    BY <1>3 DEF Descriptors, Shrink
  <2>3. \A c \in Chan : ~(fd[c] /\ reopen[c])
    BY <1>3 DEF Descriptors, Within
  <2>4. state' = "INITILIZING" => wi' = 1 /\ \A c \in Chan : ~fd[c]
    BY <1>3 DEF Descriptors, Within, IInv, FirstSetup
  <2>5. wd' \in {"threads", "reader", "sabm"} => wi' = 1 /\ \A c \in Chan : ~fd[c]
    BY <1>3 DEF Descriptors, Within
  <2>6. wd' = "alloc" => \A c \in Chan : ~fd[c]
    BY <1>3 DEF Descriptors, Within
  <2>7. ~rild_started' => \A c \in Chan : ~reopen'[c]
    BY <1>3 DEF Descriptors, Within
  <2> QED BY <2>1, <2>2, <2>3, <2>4, <2>5, <2>6, <2>7 DEF Descriptors, Within
<1> QED BY <1>1, <1>2, <1>3 DEF IInv, Within

(* A step that touches no channel.                                         *)
LEMMA SameShrinks == ASSUME IInv, UNCHANGED <<fd, poll>> PROVE Shrink
BY DEF IInv, Types1, Shrink

-----------------------------------------------------------------------------
(* watchdog().                                                             *)

(* The error returns, the error return of the opening among them.          *)
LEMMA ErrorsKeep ==
  ASSUME FirstSession, IInv, Running,
         WdOpenFails \/ WdStartFails \/ WdThreadsFail \/ WdAllocRefused
  PROVE  IInv'
<1>1. state # "OFF"
  BY DEF IInv, FirstSetup, Running
<1>2. /\ wd' = "none" /\ wi' = 1 /\ wd \in {"open", "start", "threads", "reader", "alloc"}
      /\ UNCHANGED <<state, session, rild_started, pty_trouble>>
  BY DEF WdOpenFails, WdStartFails, WdThreadsFail, WdAllocRefused, ReturnError, Resume,
         devVars, setVars, exitVars
<1>3. Shrink
  <2>1. CASE WdOpenFails
    BY <2>1, CloseShrinks DEF WdOpenFails
  <2>2. CASE ~WdOpenFails
    BY <2>2, SameShrinks DEF WdStartFails, WdThreadsFail, WdAllocRefused, chanVars, thrVars
  <2> QED BY <2>1, <2>2
<1>4. reopen' \in [Chan -> BOOLEAN] /\ \A c \in Chan : reopen'[c] => reopen[c]
  <2>1. CASE WdOpenFails
    BY <2>1 DEF WdOpenFails
  <2>2. CASE ~WdOpenFails
    BY <2>2 DEF WdStartFails, WdThreadsFail, WdAllocRefused, reVars, IInv, Types1
  <2> QED BY <2>1, <2>2
<1>5. Within
  BY <1>1, <1>2, <1>4 DEF Within, IInv, Types1, Setup
<1> QED BY <1>3, <1>5, WithinKeeps

(* From the multiplexer's start to the SABM of channel 0, and the waits.   *)
LEMMA SetupKeeps ==
  ASSUME FirstSession, IInv, Running,
         \/ WdStart \/ WdAssembler \/ WdReader \/ WdSabm \/ WdSetup \/ WdSpurious \/ WdWoken
  PROVE  IInv'
<1>1. state # "OFF" /\ (state = "INITILIZING" => wd \in {"none", "start"})
  BY DEF IInv, FirstSetup, Running
<1>2. /\ UNCHANGED <<watch_lock, session, rild_started, pty_trouble, reopen, wi, fd, poll>>
      /\ state' = IF wd = "start" THEN "MUXING" ELSE state
      /\ \/ wd = "start" /\ wd' = "threads"
         \/ wd = "threads" /\ wd' = "reader"
         \/ wd = "reader" /\ wd' = "sabm"
         \/ wd = "sabm" /\ wd' = "alloc"
         \/ wd = "alloc" /\ wd' \in {"rild", "wait"}
         \/ wd = "wait" /\ wd' = "woken"
         \/ wd = "woken" /\ wd' = "rild"
  BY DEF WdStart, WdAssembler, WdReader, WdSabm, WdSetup, WdSpurious, WdWoken,
         devVars, setVars, exitVars, chanVars, thrVars, reVars
<1>3. Shrink
  BY <1>2, SameShrinks
<1>4. Within
  BY <1>1, <1>2 DEF Within, IInv, Types1, Setup, States
<1> QED BY <1>3, <1>4, WithinKeeps

(* The watchdog starts rild: the first set-up is over.                     *)
LEMMA RildKeeps ==
  ASSUME FirstSession, IInv, Running, WdRild
  PROVE  IInv'
<1>1. /\ wd = "rild" /\ wd' = "none" /\ wi' = 1 /\ rild_started' = TRUE
      /\ UNCHANGED <<session, state, pty_trouble, reopen, fd, poll>>
  BY DEF WdRild, Leave, Resume, devVars, exitVars, chanVars, thrVars, reVars
<1>2. Types1'
  BY <1>1 DEF IInv, Types1
<1>3. session # 0 /\ state \notin {"INITILIZING", "OFF"}
  BY <1>1 DEF IInv, FirstSetup, Setup, Running
<1>4. FirstSetup'
  BY <1>1, <1>3 DEF FirstSetup, Setup
<1>5. Descriptors => Descriptors'
  BY <1>1, <1>3 DEF Descriptors
<1> QED BY <1>1, <1>2, <1>4, <1>5 DEF IInv

(* The serial device is opened: a session begins with every channel        *)
(* closed.                                                                 *)
LEMMA OpenKeeps ==
  ASSUME FirstSession, IInv, Running, WdOpen
  PROVE  IInv'
<1>1. /\ wd = "open" /\ wd' = "start" /\ state' = "INITILIZING" /\ session < Sessions
      /\ session' = session + 1 /\ CloseChannels(All) /\ reopen' = [c \in Chan |-> FALSE]
      /\ UNCHANGED <<watch_lock, wi, rild_started, pty_trouble>>
  BY DEF WdOpen, setVars, exitVars
<1>2. session = 0 /\ session' = 1 /\ wi = 1
  BY <1>1 DEF FirstSession, IInv, Types1, FirstSetup
<1>3. Chan \subseteq All
  BY DEF Chan, All, FirstSession, SessionAssumption
<1>4. Shrink /\ fd' = [c \in Chan |-> FALSE] /\ \A c \in Chan : poll'[c] = 0
  BY <1>1, <1>3, CloseShrinks DEF CloseChannels
<1>5. Types1'
  BY <1>1, <1>2, <1>4 DEF IInv, Types1, Shrink, States
<1>6. FirstSetup'
  BY <1>1, <1>2 DEF IInv, FirstSetup, Setup
<1>7. Descriptors'
  BY <1>1, <1>2, <1>4 DEF Descriptors
<1> QED BY <1>5, <1>6, <1>7 DEF IInv

(* The channels below wi have been tried; one that DM has closed meanwhile *)
(* is tried again.                                                         *)
LEMMA AllocKeeps ==
  ASSUME FirstSession, IInv, Running, WdAlloc
  PROVE  IInv'
<1>1. /\ wd = "alloc" /\ wi <= vir_ports /\ wi' = wi + 1
      /\ fd' = [fd EXCEPT ![Allocated] = TRUE]
      /\ poll' = [poll EXCEPT ![Allocated] = @ + 1]
      /\ UNCHANGED <<watch_lock, wd, state, session, rild_started, pty_trouble, reopen>>
  BY DEF WdAlloc, devVars, setVars, exitVars, reVars
<1>2. /\ fd \in [Chan -> BOOLEAN] /\ poll \in [Chan -> Nat] /\ wi \in Nat \ {0}
      /\ NChan \in Nat /\ Chan = 1 .. NChan /\ vir_ports \in Nat
  BY DEF IInv, Types1, FirstSession, SessionAssumption, Chan
<1>3. wi \in Chan
  BY <1>1, <1>2 DEF FirstSession
<1>4. ~rild_started /\ state # "INITILIZING"
  BY <1>1 DEF IInv, FirstSetup, Setup
<1>5. Types1'
  <2>1. fd' \in [Chan -> BOOLEAN]
    BY <1>1, <1>2
  <2>2. poll' \in [Chan -> Nat]
    <3>1. Allocated \in Chan
      <4>1. CASE \E c \in Chan : ~fd[c]
        BY <4>1, LeastChannel
      <4>2. CASE ~ \E c \in Chan : ~fd[c]
        BY <1>2, <1>3, <4>2 DEF Allocated
      <4> QED BY <4>1, <4>2
    <3>2. poll[Allocated] + 1 \in Nat
      BY <1>2, <3>1
    <3> QED BY <1>1, <1>2, <3>2
  <2> QED BY <1>1, <1>2, <2>1, <2>2 DEF IInv, Types1
<1>6. FirstSetup'
  BY <1>1 DEF IInv, FirstSetup, Setup, Running
<1>7. ASSUME Descriptors PROVE Descriptors'
  <2>1. /\ \A c \in Chan : fd[c] => c < wi
        /\ \A c \in Chan : poll[c] = IF fd[c] THEN 1 ELSE 0
        /\ \A c \in Chan : ~reopen[c]
    BY <1>1, <1>4, <1>7 DEF Descriptors
  <2>2. ~fd[wi]
    BY <1>2, <1>3, <2>1
  <2>3. Allocated \in Chan /\ ~fd[Allocated] /\ Allocated <= wi
    BY <1>3, <2>2, LeastChannel
  <2>4. \A c \in Chan : fd'[c] = (fd[c] \/ c = Allocated)
    BY <1>1, <1>2
  <2>5. \A c \in Chan : poll'[c] = IF c = Allocated THEN poll[c] + 1 ELSE poll[c]
    BY <1>1, <1>2
  <2>6. \A c \in Chan : fd'[c] => c < wi'
    BY <1>1, <1>2, <2>1, <2>3, <2>4
  <2>7. \A c \in Chan : poll'[c] = IF fd'[c] THEN 1 ELSE 0
    <3> TAKE c \in Chan
    <3>1. CASE c = Allocated
      <4>1. poll[c] = 0 /\ fd'[c]
        BY <2>1, <2>3, <2>4, <3>1
      <4>2. poll'[c] = poll[c] + 1
        BY <2>5, <3>1
      <4> QED BY <4>1, <4>2
    <3>2. CASE c # Allocated
      BY <2>1, <2>4, <2>5, <3>2
    <3> QED BY <3>1, <3>2
  <2> QED BY <1>1, <1>4, <2>1, <2>6, <2>7 DEF Descriptors
<1> QED BY <1>1, <1>5, <1>6, <1>7 DEF IInv

(* A pty that cannot be opened.                                            *)
LEMMA PtyFailsKeeps ==
  ASSUME FirstSession, IInv, Running, WdAllocFails \/ WdReopenFails
  PROVE  IInv'
<1>1. /\ wd \in {"alloc", "reopen"} /\ wi' = wi + 1 /\ pty_trouble' = TRUE
      /\ UNCHANGED <<watch_lock, wd, state, session, rild_started, reopen, poll>>
  BY DEF WdAllocFails, WdReopenFails, devVars, setVars, reVars, thrVars
<1>2. fd' \in [Chan -> BOOLEAN]
  <2>1. PICK ok \in BOOLEAN, d \in {Allocated, wi} : fd' = [fd EXCEPT ![d] = ok]
    BY DEF WdAllocFails, WdReopenFails
  <2> QED BY <2>1 DEF IInv, Types1
<1>3. Types1'
  BY <1>1, <1>2 DEF IInv, Types1
<1>4. FirstSetup'
  BY <1>1 DEF IInv, FirstSetup, Setup, Running
<1> QED BY <1>1, <1>3, <1>4 DEF IInv

(* A channel whose reopen flag is set gets its pty again ...               *)
LEMMA ReopenKeeps ==
  ASSUME FirstSession, IInv, Running, WdReopen
  PROVE  IInv'
<1>1. /\ wd = "reopen" /\ wd' = "clear" /\ wi <= NChan /\ reopen[wi]
      /\ fd' = [fd EXCEPT ![wi] = TRUE] /\ poll' = [poll EXCEPT ![wi] = @ + 1]
      /\ UNCHANGED <<watch_lock, wi, state, session, rild_started, pty_trouble, reopen>>
  BY DEF WdReopen, devVars, setVars, exitVars, reVars
<1>2. /\ fd \in [Chan -> BOOLEAN] /\ poll \in [Chan -> Nat] /\ wi \in Chan
  BY <1>1 DEF IInv, Types1, FirstSession, SessionAssumption, Chan
<1>3. Types1'
  <2>1. fd' \in [Chan -> BOOLEAN]
    BY <1>1, <1>2
  <2>2. poll' \in [Chan -> Nat]
    BY <1>1, <1>2
  <2> QED BY <1>1, <2>1, <2>2 DEF IInv, Types1
<1>4. FirstSetup'
  BY <1>1, <1>2 DEF IInv, FirstSetup, Setup, Running
<1>5. ASSUME Descriptors PROVE Descriptors'
  <2>1. /\ \A c \in Chan : ~(fd[c] /\ reopen[c])
        /\ \A c \in Chan : poll[c] = IF fd[c] THEN 1 ELSE 0
    BY <1>1, <1>5 DEF Descriptors
  <2>2. ~fd[wi] /\ poll[wi] = 0
    BY <1>1, <1>2, <2>1
  <2>3. \A c \in Chan : fd'[c] = (fd[c] \/ c = wi)
    BY <1>1, <1>2
  <2>4. \A c \in Chan : poll'[c] = IF c = wi THEN poll[c] + 1 ELSE poll[c]
    BY <1>1, <1>2
  <2>5. \A c \in Chan : poll'[c] = IF fd'[c] THEN 1 ELSE 0
    <3> TAKE c \in Chan
    <3>1. CASE c = wi
      <4>1. poll[c] = 0 /\ fd'[c]
        BY <2>2, <2>3, <3>1
      <4>2. poll'[c] = poll[c] + 1
        BY <2>4, <3>1
      <4> QED BY <4>1, <4>2
    <3>2. CASE c # wi
      BY <2>1, <2>3, <2>4, <3>2
    <3> QED BY <3>1, <3>2
  <2>6. \A c \in Chan : fd'[c] /\ reopen[c] => c = wi
    BY <2>1, <2>3
  <2>7. state # "INITILIZING"
    BY <1>1 DEF IInv, FirstSetup
  <2>8. ~rild_started' => \A c \in Chan : ~reopen'[c]
    BY <1>1, <1>5 DEF Descriptors
  <2> QED BY <1>1, <2>5, <2>6, <2>7, <2>8 DEF Descriptors
<1> QED BY <1>1, <1>3, <1>4, <1>5 DEF IInv

(* ... and the flag is cleared.                                            *)
LEMMA ClearKeeps ==
  ASSUME FirstSession, IInv, Running, WdClear
  PROVE  IInv'
<1>1. /\ wd = "clear" /\ wd' = "clearAll" /\ reopen' = [reopen EXCEPT ![wi] = FALSE]
      /\ UNCHANGED <<watch_lock, wi, state, session, rild_started, pty_trouble, fd, poll>>
  BY DEF WdClear, devVars, setVars, exitVars, chanVars, thrVars
<1>2. reopen \in [Chan -> BOOLEAN] /\ wi \in Chan
  BY <1>1 DEF IInv, Types1, FirstSetup
<1>3. reopen' \in [Chan -> BOOLEAN] /\ \A c \in Chan : reopen'[c] <=> reopen[c] /\ c # wi
  BY <1>1, <1>2
<1>4. Types1'
  BY <1>1, <1>3 DEF IInv, Types1
<1>5. FirstSetup'
  BY <1>1, <1>3 DEF IInv, FirstSetup, Setup, Running
<1>6. Descriptors => Descriptors'
  <2>1. state # "INITILIZING"
    BY <1>1 DEF IInv, FirstSetup
  <2> QED BY <1>1, <1>3, <2>1 DEF Descriptors
<1> QED BY <1>1, <1>4, <1>5, <1>6 DEF IInv

(* Everything else of watchdog(): the loop over the ptys, the ping, the    *)
(* ends of a session.                                                      *)
LEMMA MuxingKeeps ==
  ASSUME FirstSession, IInv, Running,
         \/ WdMuxing \/ WdReopenNext \/ WdClearAll \/ WdPing
         \/ WdDisc \/ WdDiscSend \/ WdDiscSent \/ WdDiscTimeout \/ WdDiscDone \/ WdCld
         \/ WdShutdown
  PROVE  IInv'
<1>1. /\ state \in States \ {"OFF"} /\ (state = "INITILIZING" => wd \in {"none", "start"})
      /\ wi \in Nat \ {0}
  BY DEF IInv, Types1, FirstSetup, Running
<1>2. UNCHANGED <<session, rild_started, pty_trouble, reopen>>
  BY DEF WdMuxing, WdReopenNext, WdClearAll, WdPing, WdDisc, WdDiscSend, WdDiscSent,
         WdDiscTimeout, WdDiscDone, WdCld, WdShutdown, devVars, setVars, exitVars, reVars
<1>3. /\ wd \in {"muxing", "reopen", "clearAll", "ping", "disc", "discSend", "discWait",
                "discDone", "cld", "shutdown"}
      /\ wd' \in {"reopen", "ping", "none", "cld", "discSend", "discWait"}
      /\ wd' = "none" \/ watch_lock' = watch_lock
  BY DEF WdMuxing, WdReopenNext, WdClearAll, WdPing, WdDisc, WdDiscSend, WdDiscSent,
         WdDiscTimeout, WdDiscDone, WdCld, WdShutdown, Leave, Resume
<1>4. wi' \in {wi, wi + 1, 1}
  BY DEF WdMuxing, WdReopenNext, WdClearAll, WdPing, WdDisc, WdDiscSend, WdDiscSent,
         WdDiscTimeout, WdDiscDone, WdCld, WdShutdown, Leave, Resume
<1>5. state' \in {state, "CLOSING", "OPENING"}
  BY DEF WdMuxing, WdReopenNext, WdClearAll, WdPing, WdDisc, WdDiscSend, WdDiscSent,
         WdDiscTimeout, WdDiscDone, WdCld, WdShutdown, devVars
<1>6. Shrink
  <2>1. CASE WdShutdown
    BY <2>1, CloseShrinks DEF WdShutdown
  <2>2. CASE ~WdShutdown
    BY <2>2, SameShrinks DEF WdMuxing, WdReopenNext, WdClearAll, WdPing, WdDisc,
       WdDiscSend, WdDiscSent, WdDiscTimeout, WdDiscDone, WdCld, chanVars, thrVars
  <2> QED BY <2>1, <2>2
<1>7. Within
  <2>1. wi' \in Nat \ {0}
    BY <1>1, <1>4
  <2> QED BY <1>1, <1>2, <1>3, <1>5, <2>1 DEF Within, IInv, Types1, Setup, States
<1> QED BY <1>6, <1>7, WithinKeeps

-----------------------------------------------------------------------------
(* The other threads.                                                      *)

(* A caller that gets watch_lock.                                          *)
LEMMA CallKeeps ==
  ASSUME FirstSession, IInv, Running, NEW p \in {"Main", "Asm", "Helper"}, Acquire(p)
  PROVE  IInv'
<1>1. /\ wd' = Entry /\ wi' = 1 /\ watch_lock' # "none" /\ wd = "none"
      /\ UNCHANGED <<state, session, rild_started, pty_trouble, reopen, fd, poll>>
  BY DEF Acquire, devVars, setVars, exitVars, chanVars, reVars, IInv, FirstSetup
<1>2. state \in States /\ state # "OFF"
  BY DEF IInv, Types1, FirstSetup, Running
<1>3. /\ Entry \in {"open", "start", "muxing", "disc", "shutdown"}
      /\ Entry = "start" <=> state = "INITILIZING"
  BY <1>2 DEF Entry, States
<1>4. Types1'
  BY <1>1 DEF IInv, Types1
<1>5. FirstSetup'
  BY <1>1, <1>2, <1>3 DEF IInv, FirstSetup, Setup
<1>6. Descriptors => Descriptors'
  BY <1>1, <1>3 DEF Descriptors
<1> QED BY <1>1, <1>4, <1>5, <1>6 DEF IInv

(* A read of a channel's thread fails: the descriptor goes, and with it   *)
(* the threads that read it.                                               *)
LEMMA HangUpKeeps ==
  ASSUME FirstSession, IInv, Running, NEW c \in Chan, HangUp(c) \/ StaleRead(c)
  PROVE  IInv'
<1>1. /\ fd' = [fd EXCEPT ![c] = FALSE] /\ reopen' = [reopen EXCEPT ![c] = TRUE]
      /\ UNCHANGED <<watch_lock, wd, wi, state, session, rild_started>>
      /\ pty_trouble \/ ~rild_started => pty_trouble'
      /\ pty_trouble' \in BOOLEAN
  BY DEF HangUp, StaleRead, Dropped, ReadFails, wdVars, devVars, setVars, IInv, Types1
<1>2. /\ fd \in [Chan -> BOOLEAN] /\ reopen \in [Chan -> BOOLEAN] /\ poll \in [Chan -> Nat]
  BY DEF IInv, Types1
<1>3. \/ poll[c] > 0 /\ fd[c] /\ poll' = [poll EXCEPT ![c] = @ - 1]
      \/ poll' = [poll EXCEPT ![c] = 0]
  BY DEF HangUp, StaleRead, Dropped
<1>4. Types1'
  <2>1. poll[c] > 0 => poll[c] - 1 \in Nat
    BY <1>2
  <2>2. /\ fd' \in [Chan -> BOOLEAN] /\ reopen' \in [Chan -> BOOLEAN] /\ poll' \in [Chan -> Nat]
    BY <1>1, <1>2, <1>3, <2>1
  <2> QED BY <1>1, <2>2 DEF IInv, Types1
<1>5. FirstSetup'
  <2>1. main' = main
    BY DEF HangUp, StaleRead, ReadFails, procVars
  <2> QED BY <1>1, <2>1 DEF IInv, FirstSetup
<1>6. ASSUME Descriptors, rild_started PROVE Descriptors'
  <2>1. \A d \in Chan : poll[d] = IF fd[d] THEN 1 ELSE 0
    BY <1>6 DEF Descriptors
  <2>2. \A d \in Chan : /\ fd'[d] = (fd[d] /\ d # c) /\ reopen'[d] = (reopen[d] \/ d = c)
                        /\ d # c => poll'[d] = poll[d]
    BY <1>1, <1>2, <1>3
  <2>3. poll'[c] = 0
    <3>1. poll[c] > 0 /\ fd[c] => poll[c] - 1 = 0
      BY <2>1
    <3> QED BY <1>2, <1>3, <3>1
  <2>4. \A d \in Chan : poll'[d] = IF fd'[d] THEN 1 ELSE 0
    BY <2>1, <2>2, <2>3
  <2> QED BY <1>1, <1>6, <2>2, <2>4 DEF Descriptors
<1> QED BY <1>1, <1>4, <1>5, <1>6 DEF IInv

(* The loop of main() and its end, the serial reader, the assembler, the   *)
(* threads that end, the modem.                                            *)
LEMMA OthersKeep ==
  ASSUME FirstSession, IInv, Running,
         \/ MainLoop \/ MainFinal \/ ModemSends
         \/ \E s \in Run : RdCheck(s) \/ RdRead(s) \/ Asm(s)
         \/ \E c \in Chan : Tell(c) \/ StaleSelect(c) \/ RetryWrite(c)
  PROVE  IInv'
<1>1. CASE MainFinal
  <2>1. Shrink
    BY <1>1, CloseShrinks DEF MainFinal
  <2>2. Beside
    BY <1>1 DEF MainFinal, Beside, wdVars, setVars, exitVars, reVars
  <2> QED BY <2>1, <2>2, BesideKeeps
<1>2. CASE MainLoop \/ ModemSends \/ \E c \in Chan : Tell(c) \/ StaleSelect(c) \/ RetryWrite(c)
  <2>1. UNCHANGED <<fd, poll>> /\ Beside
    BY <1>2 DEF MainLoop, ModemSends, Tell, StaleSelect, RetryWrite, Gsm0710Muxd_Assert, Beside, devVars, chanVars, thrVars,
                wdVars, setVars, exitVars, reVars
  <2> QED BY <2>1, SameShrinks, BesideKeeps
<1>3. ASSUME NEW s \in Run, RdCheck(s) \/ RdRead(s) PROVE IInv'
  <2>1. UNCHANGED <<fd, poll>> /\ Beside
    BY <1>3 DEF RdCheck, RdRead, Beside, devVars, chanVars, thrVars, wdVars, setVars,
                exitVars, reVars
  <2> QED BY <2>1, SameShrinks, BesideKeeps
<1>4. ASSUME NEW s \in Run, Asm(s) PROVE IInv'
  <2>1. Beside
    BY <1>4 DEF Asm, AsmUaOpen, AsmUaSabm, AsmSignal, AsmUaClosed, AsmDm, AsmDisc, AsmSabm,
                AsmCld, AsmData, Gsm0710Muxd_Assert, Beside, devVars, wdVars, setVars, exitVars, reVars
  <2>2. CASE UNCHANGED <<fd, poll>>
    BY <2>1, <2>2, SameShrinks, BesideKeeps
  <2>3. UNCHANGED <<fd, poll>> \/ CloseChannels({From})
    BY <1>4 DEF Asm, AsmUaOpen, AsmUaSabm, AsmSignal, AsmUaClosed, AsmDm, AsmDisc, AsmSabm,
                AsmCld, AsmData, chanVars, thrVars
  <2> QED BY <2>1, <2>2, <2>3, CloseShrinks, BesideKeeps
<1> QED BY <1>1, <1>2, <1>3, <1>4

(* Every step.                                                             *)
LEMMA StepIInv == ASSUME FirstSession PROVE IInv /\ [Next]_vars => IInv'
<1> SUFFICES ASSUME IInv, [Next]_vars PROVE IInv'
  OBVIOUS
<1>1. CASE UNCHANGED vars
  <2>1. UNCHANGED <<state, session, wi, fd, reopen, poll, rild_started, pty_trouble, wd,
                    watch_lock, main>>
    BY <1>1 DEF vars, devVars, wdVars, chanVars, reVars, thrVars, setVars, exitVars, procVars
  <2>2. Types1' /\ FirstSetup' /\ (Descriptors => Descriptors')
    BY <2>1 DEF IInv, Types1, FirstSetup, Descriptors
  <2> QED BY <2>1, <2>2 DEF IInv
<1>2. CASE Next
  <2>0. Running
    BY <1>2 DEF Next
  <2>1. CASE Wd \/ WdSpurious
    BY <2>0, <2>1, ErrorsKeep, SetupKeeps, RildKeeps, OpenKeeps, AllocKeeps, PtyFailsKeeps,
       ReopenKeeps, ClearKeeps, MuxingKeeps DEF Wd
  <2>2. CASE MainCalls \/ HelperCalls \/ \E s \in Run : AsmCalls(s)
    BY <2>0, <2>2, CallKeeps DEF MainCalls, HelperCalls, AsmCalls
  <2>3. CASE \E c \in Chan : HangUp(c) \/ StaleRead(c)
    BY <2>0, <2>3, HangUpKeeps
  <2>4. CASE \/ MainLoop \/ MainFinal \/ ModemSends
             \/ \E s \in Run : RdCheck(s) \/ RdRead(s) \/ Asm(s)
             \/ \E c \in Chan : Tell(c) \/ StaleSelect(c) \/ RetryWrite(c)
    BY <2>0, <2>4, OthersKeep
  <2> QED BY <1>2, <2>1, <2>2, <2>3, <2>4 DEF Next
<1> QED BY <1>1, <1>2

(* In the first session each pty has exactly one thread that reads it,     *)
(* while the ptys can be opened: for any number of channels, hang-ups,     *)
(* refusals and failures, whatever is reopened or closed at the same time. *)
THEOREM OneReaderPerPty == ASSUME FirstSession PROVE Spec => []OneReader
<1>1. IInv => OneReader
  BY DEF IInv, Descriptors, OneReader
<1> QED BY InitIInv, StepIInv, <1>1, PTL DEF Spec

-----------------------------------------------------------------------------
(* The wait of close_devices, in every session.                            *)
DiscTypes ==
  /\ fd \in [Chan -> BOOLEAN]
  /\ opened \in [All -> BOOLEAN] /\ disc_ua_pending \in [All -> BOOLEAN]

Waiting == {"discSend", "discWait", "discDone"}

(* A channel that was sent DISC keeps disc_ua_pending while it has a       *)
(* descriptor: only the answer to the DISC resets it on an open channel,   *)
(* and whatever closes the channel takes the descriptor too.               *)
DiscInv ==
  /\ DiscTypes
  /\ watch_lock = "none" => wd = "none"
  /\ wd \in Waiting => discs \subseteq Chan
  /\ wd \in {"discSend", "discWait"} =>
       \A c \in discs : fd[c] => opened[c] /\ disc_ua_pending[c]
  /\ wi \in Nat \ {0}
  /\ DiscsAnswered

(* "OFF" is the state of a process whose main() has ended.                 *)
StateInv == state \in States /\ (state = "OFF" => main = "ended")

(* The state is OFF only when the process has ended.                       *)
LEMMA StateSteps == StateInv /\ [Next]_vars => StateInv'
<1> SUFFICES ASSUME StateInv, [Next]_vars PROVE StateInv'
  OBVIOUS
<1>1. CASE UNCHANGED vars
  BY <1>1 DEF vars, devVars, procVars, StateInv
<1>2. CASE Next
  <2>1. state \in States \ {"OFF"}
    BY <1>2 DEF Next, Running, StateInv
  <2>2. CASE Wd \/ WdSpurious
    <3>1. state' \in {state, "INITILIZING", "MUXING", "CLOSING", "OPENING"}
      BY <2>2 DEF Wd, WdSpurious, WdOpen, WdOpenFails, WdStart, WdStartFails, WdAssembler,
         WdReader, WdThreadsFail, WdSabm, WdAlloc, WdAllocFails, WdAllocRefused, WdSetup, WdWoken,
         WdRild, WdMuxing, WdReopen, WdReopenFails, WdReopenNext, WdClear, WdClearAll, WdPing,
         WdDisc, WdDiscSend, WdDiscSent, WdDiscTimeout, WdDiscDone, WdCld, WdShutdown, devVars
    <3> QED BY <2>1, <3>1 DEF StateInv, States
  <2>3. CASE MainFinal
    BY <2>3 DEF MainFinal, StateInv, States
  <2>4. ASSUME NEW s \in Run, RdCheck(s) \/ RdRead(s) \/ Asm(s) \/ AsmCalls(s) PROVE StateInv'
    <3>1. state' \in {state, "CLOSING", "PEER_CLOSING"}
      BY <2>4 DEF RdCheck, RdRead, Asm, AsmUaOpen, AsmUaSabm, AsmSignal, AsmUaClosed, AsmDm,
         AsmDisc, AsmSabm, AsmCld, AsmData, AsmCalls, Acquire, devVars
    <3> QED BY <2>1, <3>1 DEF StateInv, States
  <2>5. CASE \/ MainLoop \/ MainCalls \/ HelperCalls \/ ModemSends
             \/ \E c \in Chan : HangUp(c) \/ StaleRead(c) \/ Tell(c) \/ StaleSelect(c) \/ RetryWrite(c)
    <3>1. state' = state
      BY <2>5 DEF MainLoop, MainCalls, HelperCalls, ModemSends, HangUp, StaleRead, ReadFails, Tell,
         StaleSelect, RetryWrite, Acquire, devVars
    <3> QED BY <2>1, <3>1 DEF StateInv, States
  <2> QED BY <1>2, <2>2, <2>3, <2>4, <2>5 DEF Next
<1> QED BY <1>1, <1>2

(* At the beginning nobody waits for an answer to a DISC.                  *)
LEMMA InitDisc == ASSUME SessionAssumption PROVE Init => DiscInv
BY DEF Init, DiscInv, DiscTypes, DiscsAnswered, Waiting

(* The control channel is none of the channels with a pty.                 *)
LEMMA ChannelNumbers == SessionAssumption => 0 \notin Chan /\ Chan \subseteq All
BY DEF SessionAssumption, Chan, All

(* Closing channels clears what they wait for.                             *)
LEMMA CloseDiscTypes ==
  ASSUME NEW S, CloseChannels(S), DiscTypes
  PROVE  DiscTypes'
<1>1. /\ fd' = [c \in Chan |-> fd[c] /\ c \notin S]
      /\ opened' = [c \in All |-> opened[c] /\ c \notin S]
      /\ disc_ua_pending' = [c \in All |-> disc_ua_pending[c] /\ c \notin S]
  BY DEF CloseChannels
<1>2. /\ \A c \in Chan : (fd[c] /\ c \notin S) \in BOOLEAN
      /\ \A c \in All : (opened[c] /\ c \notin S) \in BOOLEAN
      /\ \A c \in All : (disc_ua_pending[c] /\ c \notin S) \in BOOLEAN
  BY DEF DiscTypes
<1> QED BY <1>1, <1>2 DEF DiscTypes

(* A step of watchdog() outside the wait, or of one that enters it.        *)
LEMMA OutsideKeeps ==
  ASSUME DiscInv, DiscTypes', wd' \notin Waiting, watch_lock' = "none" => wd' = "none",
         wi' \in Nat \ {0}
  PROVE  DiscInv'
BY DEF DiscInv, DiscsAnswered, Waiting

(* The watchdog sends its DISCs, one after the other, and begins to wait.  *)
LEMMA WaitStarts ==
  ASSUME SessionAssumption, DiscInv, WdDisc \/ WdDiscSend \/ WdDiscSent
  PROVE  DiscInv'
<1>0. UNCHANGED <<fd, opened, watch_lock>> /\ wi' \in {wi, wi + 1, 1} /\ wd # "none"
  BY DEF WdDisc, WdDiscSend, WdDiscSent, chanVars
<1>1. watch_lock' # "none" /\ wi' \in Nat \ {0}
  BY <1>0 DEF DiscInv
<1>2. CASE WdDisc
  <2>1. discs' = {} /\ wd' = "discSend" /\ UNCHANGED disc_ua_pending
    BY <1>2 DEF WdDisc, chanVars
  <2> QED BY <1>0, <1>1, <2>1 DEF DiscInv, DiscTypes, DiscsAnswered, Waiting
<1>3. CASE WdDiscSend
  <2>1. wd = "discSend" /\ wd' = "discSend" /\ wi <= NChan
    BY <1>3 DEF WdDiscSend
  <2>2. wi \in Chan
    BY <2>1 DEF DiscInv, SessionAssumption, Chan
  <2>3. CASE UNCHANGED <<disc_ua_pending, discs>>
    BY <1>0, <1>1, <2>1, <2>3 DEF DiscInv, DiscTypes, DiscsAnswered, Waiting
  <2>4. CASE /\ wi \in Live /\ discs' = discs \cup {wi}
             /\ disc_ua_pending' = [disc_ua_pending EXCEPT ![wi] = TRUE]
    <3>1. DiscTypes' /\ \A c \in Chan : disc_ua_pending'[c] = (c = wi \/ disc_ua_pending[c])
      BY <1>0, <2>2, <2>4, ChannelNumbers DEF DiscInv, DiscTypes
    <3>2. discs' \subseteq Chan
      BY <2>1, <2>2, <2>4 DEF DiscInv, Waiting
    <3>3. \A c \in discs' : fd'[c] => opened'[c] /\ disc_ua_pending'[c]
      BY <1>0, <2>1, <2>4, <3>1, <3>2 DEF DiscInv, Live
    <3> QED BY <1>1, <2>1, <3>1, <3>2, <3>3 DEF DiscInv, DiscsAnswered, Waiting
  <2> QED BY <1>3, <2>3, <2>4 DEF WdDiscSend
<1>4. CASE WdDiscSent
  <2>1. wd = "discSend" /\ wd' \in {"cld", "discWait"} /\ UNCHANGED <<disc_ua_pending, discs>>
    BY <1>4 DEF WdDiscSent, chanVars, envVars, histVars
  <2> QED BY <1>0, <1>1, <2>1 DEF DiscInv, DiscTypes, DiscsAnswered, Waiting
<1> QED BY <1>2, <1>3, <1>4

(* A step of a thread outside watchdog() that closes channels, or opens    *)
(* them, or does neither.                                                  *)
Apart ==
  /\ DiscTypes' /\ UNCHANGED <<watch_lock, discs, wi>>
  /\ wd' = wd \/ (wd = "wait" /\ wd' = "woken")
  /\ \A c \in Chan : fd'[c] => fd[c]
  /\ \A c \in Chan : /\ opened[c] /\ ~opened'[c] => ~fd'[c]
                     /\ disc_ua_pending[c] /\ ~disc_ua_pending'[c] => ~fd'[c] \/ ~opened[c]

(* A step apart from the wait for the answers.                             *)
LEMMA ApartKeeps == ASSUME DiscInv, Apart PROVE DiscInv'
<1>1. CASE wd \in Waiting
  <2>1. wd' = wd /\ discs' = discs /\ discs \subseteq Chan
    BY <1>1 DEF DiscInv, Apart, Waiting
  <2>2. wd \in {"discSend", "discWait"} =>
          \A c \in discs : fd'[c] => opened'[c] /\ disc_ua_pending'[c]
    BY <2>1 DEF DiscInv, Apart
  <2>3. wd = "discDone" => \A c \in discs : ~fd'[c]
    BY <2>1 DEF DiscInv, Apart, DiscsAnswered
  <2> QED BY <2>1, <2>2, <2>3 DEF DiscInv, DiscsAnswered, Apart
<1>2. CASE wd \notin Waiting
  BY <1>2, OutsideKeeps DEF DiscInv, Apart, Waiting
<1> QED BY <1>1, <1>2

(* Such are the steps that touch no channel ...                            *)
LEMMA SameIsApart ==
  ASSUME DiscInv, UNCHANGED <<fd, opened, disc_ua_pending, watch_lock, discs, wi>>,
         wd' = wd \/ (wd = "wait" /\ wd' = "woken")
  PROVE  Apart
BY DEF DiscInv, DiscTypes, Apart

(* ... and those that close some.                                          *)
LEMMA CloseIsApart ==
  ASSUME SessionAssumption, DiscInv, NEW S, CloseChannels(S),
         UNCHANGED <<wd, watch_lock, discs, wi>>
  PROVE  Apart
<1>1. DiscTypes'
  BY CloseDiscTypes DEF DiscInv
<1>2. \A c \in Chan : /\ fd'[c] = (fd[c] /\ c \notin S)
                      /\ opened'[c] = (opened[c] /\ c \notin S)
                      /\ disc_ua_pending'[c] = (disc_ua_pending[c] /\ c \notin S)
  BY ChannelNumbers DEF CloseChannels
<1> QED BY <1>1, <1>2 DEF Apart

(* UA to a DISC. The last one, under ua_rsp_for_disc_lock, ends the wait.  *)
LEMMA UaOpenKeeps ==
  ASSUME SessionAssumption, DiscInv, NEW s \in Run, AsmUaOpen(s)
  PROVE  DiscInv'
<1>0. UNCHANGED <<watch_lock, discs, wi>> /\ wd # "discSend"
  BY DEF AsmUaOpen, envVars, histVars
<1>1. PICK w : /\ w \in {wd, "discDone"}
               /\ wd' = w
               /\ w # wd => wd = "discWait" /\ \A c \in Chan : ~disc_ua_pending'[c]
  BY DEF AsmUaOpen
<1>2. /\ DiscTypes'
      /\ \A c \in Chan : fd'[c] => fd[c] /\ opened'[c] = opened[c]
                                   /\ disc_ua_pending'[c] = disc_ua_pending[c]
  <2>1. CASE CloseChannels({From})
    <3>1. DiscTypes'
      BY <2>1, CloseDiscTypes DEF DiscInv
    <3>2. \A c \in Chan : /\ fd'[c] = (fd[c] /\ c # From)
                          /\ opened'[c] = (opened[c] /\ c # From)
                          /\ disc_ua_pending'[c] = (disc_ua_pending[c] /\ c # From)
      BY <2>1, ChannelNumbers DEF CloseChannels
    <3>3. \A c \in Chan : opened[c] \in BOOLEAN /\ disc_ua_pending[c] \in BOOLEAN
      BY ChannelNumbers DEF DiscInv, DiscTypes
    <3> QED BY <3>1, <3>2, <3>3
  <2>2. CASE UNCHANGED <<fd, opened, disc_ua_pending>>
    BY <2>2 DEF DiscInv, DiscTypes
  <2> QED BY <2>1, <2>2 DEF AsmUaOpen, chanVars
<1>3. CASE wd = "discWait"
  <2>1. discs \subseteq Chan /\ \A c \in discs : fd'[c] => opened'[c] /\ disc_ua_pending'[c]
    BY <1>2, <1>3 DEF DiscInv, Waiting
  <2>2. wd' = "discDone" => \A c \in discs : ~fd'[c]
    BY <1>1, <1>3, <2>1
  <2> QED BY <1>0, <1>1, <1>2, <1>3, <2>1, <2>2 DEF DiscInv, DiscsAnswered, Waiting
<1>4. CASE wd # "discWait"
  <2>1. wd' = wd
    BY <1>1, <1>4
  <2>2. wd = "discDone" => \A c \in discs : ~fd'[c]
    BY <1>2 DEF DiscInv, DiscsAnswered, Waiting
  <2> QED BY <1>0, <1>2, <1>4, <2>1, <2>2 DEF DiscInv, DiscsAnswered, Waiting
<1> QED BY <1>3, <1>4

(* The assembler handles a frame.                                          *)
LEMMA AsmDiscInv ==
  ASSUME SessionAssumption, DiscInv, NEW s \in Run, Asm(s)
  PROVE  DiscInv'
<1>1. CASE AsmUaOpen(s)
  BY <1>1, UaOpenKeeps
<1>2. CASE AsmUaSabm(s) \/ AsmSabm(s)
  <2>1. /\ opened' = [opened EXCEPT ![From] = TRUE]
        /\ UNCHANGED <<fd, disc_ua_pending, wd, watch_lock, discs, wi>>
    BY <1>2 DEF AsmUaSabm, AsmSabm, wdVars, envVars, histVars
  <2>2. DiscTypes' /\ \A c \in Chan : opened[c] => opened'[c]
    BY <2>1, ChannelNumbers DEF DiscInv, DiscTypes
  <2>3. Apart
    BY <2>1, <2>2 DEF Apart
  <2> QED BY <2>3, ApartKeeps
<1>3. CASE AsmSignal(s) \/ AsmCld(s) \/ AsmData(s)
  <2>1. Apart
    BY <1>3, SameIsApart DEF AsmSignal, AsmCld, AsmData, chanVars, wdVars, envVars, histVars
  <2> QED BY <2>1, ApartKeeps
<1>4. CASE AsmUaClosed(s)
  <2>1. /\ ~opened[From] /\ disc_ua_pending' = [disc_ua_pending EXCEPT ![From] = FALSE]
        /\ UNCHANGED <<fd, opened, wd, watch_lock, discs, wi>>
    BY <1>4 DEF AsmUaClosed, wdVars, envVars, histVars
  <2>2. DiscTypes' /\ \A c \in Chan : disc_ua_pending[c] /\ ~disc_ua_pending'[c] => ~opened[c]
    BY <2>1, ChannelNumbers DEF DiscInv, DiscTypes
  <2>3. Apart
    BY <2>1, <2>2 DEF Apart
  <2> QED BY <2>3, ApartKeeps
<1>5. CASE AsmDm(s)
  <2>1. UNCHANGED <<wd, watch_lock, discs, wi>>
    BY <1>5 DEF AsmDm, wdVars, envVars, histVars
  <2>2. CloseChannels({From}) \/ UNCHANGED <<fd, opened, disc_ua_pending>>
    BY <1>5 DEF AsmDm, chanVars
  <2> QED BY <2>1, <2>2, CloseIsApart, SameIsApart, ApartKeeps
<1>6. CASE AsmDisc(s)
  <2>1. UNCHANGED <<wd, watch_lock, discs, wi>>
    BY <1>6 DEF AsmDisc, wdVars, envVars, histVars
  <2>2. CASE From = 0
    <3>1. opened' = [opened EXCEPT ![0] = FALSE] /\ UNCHANGED <<fd, disc_ua_pending>>
      BY <1>6, <2>2 DEF AsmDisc
    <3>2. DiscTypes' /\ \A c \in Chan : opened'[c] = opened[c]
      BY <3>1, ChannelNumbers DEF DiscInv, DiscTypes
    <3>3. Apart
      BY <2>1, <3>1, <3>2 DEF Apart
    <3> QED BY <3>3, ApartKeeps
  <2>3. CASE From # 0
    <3>1. CloseChannels({From}) \/ UNCHANGED <<fd, opened, disc_ua_pending>>
      BY <1>6, <2>3 DEF AsmDisc, chanVars
    <3> QED BY <2>1, <3>1, CloseIsApart, SameIsApart, ApartKeeps
  <2> QED BY <2>2, <2>3
<1> QED BY <1>1, <1>2, <1>3, <1>4, <1>5, <1>6 DEF Asm

(* Every other step of watchdog() lies outside the wait.                   *)
LEMMA WdDiscInv ==
  ASSUME SessionAssumption, DiscInv, Wd \/ WdSpurious
  PROVE  DiscInv'
<1>1. CASE WdDisc \/ WdDiscSend \/ WdDiscSent
  BY <1>1, WaitStarts
<1>2. CASE ~(WdDisc \/ WdDiscSend \/ WdDiscSent)
  <2>1. wd # "none" /\ watch_lock # "none"
    <3>1. wd # "none"
      BY <1>2 DEF Wd, WdSpurious, WdOpen, WdOpenFails, WdStart, WdStartFails, WdAssembler, WdReader,
         WdThreadsFail, WdSabm, WdAlloc, WdAllocFails, WdAllocRefused, WdSetup, WdWoken, WdRild,
         WdMuxing, WdReopen, WdReopenFails, WdReopenNext, WdClear, WdClearAll, WdPing,
         WdDiscTimeout, WdDiscDone, WdCld, WdShutdown
    <3> QED BY <3>1 DEF DiscInv
  <2>2. wd' \notin Waiting
    BY <1>2 DEF Wd, WdSpurious, WdOpen, WdOpenFails, WdStart, WdStartFails, WdAssembler, WdReader,
       WdThreadsFail, WdSabm, WdAlloc, WdAllocFails, WdAllocRefused, WdSetup, WdWoken, WdRild,
       WdMuxing, WdReopen, WdReopenFails, WdReopenNext, WdClear, WdClearAll, WdPing,
       WdDiscTimeout, WdDiscDone, WdCld, WdShutdown, Leave, ReturnError, Resume, Waiting
  <2>3. wd' = "none" \/ watch_lock' = watch_lock
    BY <1>2 DEF Wd, WdSpurious, WdOpen, WdOpenFails, WdStart, WdStartFails, WdAssembler, WdReader,
       WdThreadsFail, WdSabm, WdAlloc, WdAllocFails, WdAllocRefused, WdSetup, WdWoken, WdRild,
       WdMuxing, WdReopen, WdReopenFails, WdReopenNext, WdClear, WdClearAll, WdPing,
       WdDiscTimeout, WdDiscDone, WdCld, WdShutdown, Leave, ReturnError, Resume
  <2>4. DiscTypes'
    <3>1. CASE WdOpen \/ WdOpenFails \/ WdShutdown
      BY <3>1, CloseDiscTypes DEF DiscInv, WdOpen, WdOpenFails, WdShutdown
    <3>2. CASE WdAlloc \/ WdReopen
      <4>1. PICK d : fd' = [fd EXCEPT ![d] = TRUE] /\ UNCHANGED <<opened, disc_ua_pending>>
        BY <3>2 DEF WdAlloc, WdReopen
      <4> QED BY <4>1 DEF DiscInv, DiscTypes
    <3>3. CASE WdAllocFails \/ WdReopenFails
      <4>1. PICK ok \in BOOLEAN : /\ \E d : fd' = [fd EXCEPT ![d] = ok]
                                /\ UNCHANGED <<opened, disc_ua_pending>>
        BY <3>3 DEF WdAllocFails, WdReopenFails
      <4> QED BY <4>1 DEF DiscInv, DiscTypes
    <3>4. CASE UNCHANGED <<fd, opened, disc_ua_pending>>
      BY <3>4 DEF DiscInv, DiscTypes
    <3> QED
      BY <1>2, <3>1, <3>2, <3>3, <3>4 DEF Wd, WdSpurious, WdStart, WdStartFails, WdAssembler,
         WdReader, WdThreadsFail, WdSabm, WdAllocRefused, WdSetup, WdWoken, WdRild, WdMuxing,
         WdReopenNext, WdClear, WdClearAll, WdPing, WdDiscTimeout, WdDiscDone, WdCld, chanVars
  <2>5. wi' \in Nat \ {0}
    <3>1. wi' \in {wi, wi + 1, 1}
      BY <1>2 DEF Wd, WdSpurious, WdOpen, WdOpenFails, WdStart, WdStartFails, WdAssembler, WdReader,
         WdThreadsFail, WdSabm, WdAlloc, WdAllocFails, WdAllocRefused, WdSetup, WdWoken, WdRild,
         WdMuxing, WdReopen, WdReopenFails, WdReopenNext, WdClear, WdClearAll, WdPing,
         WdDiscTimeout, WdDiscDone, WdCld, WdShutdown, Leave, ReturnError, Resume
    <3> QED BY <3>1 DEF DiscInv
  <2> QED BY <2>1, <2>2, <2>3, <2>4, <2>5, OutsideKeeps
<1> QED BY <1>1, <1>2

(* The steps of the other threads and of the modem.                        *)
LEMMA OthersDiscInv ==
  ASSUME SessionAssumption, DiscInv, StateInv, Running,
         \/ MainLoop \/ MainCalls \/ MainFinal \/ HelperCalls \/ ModemSends
         \/ \E s \in Run : RdCheck(s) \/ RdRead(s) \/ AsmCalls(s)
         \/ \E c \in Chan : HangUp(c) \/ StaleRead(c) \/ Tell(c) \/ StaleSelect(c) \/ RetryWrite(c)
  PROVE  DiscInv'
<1>1. CASE MainLoop \/ ModemSends \/ (\E s \in Run : RdCheck(s) \/ RdRead(s))
           \/ \E c \in Chan : Tell(c) \/ StaleSelect(c) \/ RetryWrite(c)
  <2>1. UNCHANGED <<fd, opened, disc_ua_pending, watch_lock, discs, wd, wi>>
    BY <1>1 DEF MainLoop, ModemSends, RdCheck, RdRead, Tell, StaleSelect, RetryWrite, Trouble,
       chanVars, wdVars, envVars, histVars
  <2> QED BY <2>1, SameIsApart, ApartKeeps
<1>2. CASE MainFinal
  BY <1>2, CloseIsApart, ApartKeeps DEF MainFinal, wdVars, envVars, histVars
<1>3. ASSUME NEW c \in Chan, HangUp(c) \/ StaleRead(c) PROVE DiscInv'
  <2>1. /\ fd' = [fd EXCEPT ![c] = FALSE]
        /\ UNCHANGED <<opened, disc_ua_pending, wd, watch_lock, discs, wi>>
    BY <1>3 DEF HangUp, StaleRead, ReadFails, wdVars
  <2>2. DiscTypes' /\ \A d \in Chan : fd'[d] => fd[d]
    BY <2>1 DEF DiscInv, DiscTypes
  <2>3. Apart
    BY <2>1, <2>2 DEF Apart
  <2> QED BY <2>3, ApartKeeps
<1>4. ASSUME NEW p \in {"Main", "Asm", "Helper"}, Acquire(p) PROVE DiscInv'
  <2>1. /\ watch_lock' = p /\ wd' = Entry /\ UNCHANGED <<fd, opened, disc_ua_pending>>
    BY <1>4 DEF Acquire, chanVars
  <2>2. wd' \notin Waiting
    BY <2>1 DEF Entry, States, StateInv, Running, Waiting
  <2>3. DiscTypes'
    BY <2>1 DEF DiscInv, DiscTypes
  <2>4. wi' = 1
    BY <1>4 DEF Acquire
  <2> QED BY <2>1, <2>2, <2>3, <2>4, OutsideKeeps
<1>5. CASE MainCalls \/ HelperCalls \/ \E s \in Run : AsmCalls(s)
  BY <1>4, <1>5 DEF MainCalls, HelperCalls, AsmCalls
<1> QED BY <1>1, <1>2, <1>3, <1>5

(* When close_devices is woken before its timeout, every channel to which  *)
(* it sent DISC has been answered and closed: in every session, whatever   *)
(* the modem sends, the applications close and the system refuses.         *)
THEOREM WaitEndsAnswered == ASSUME SessionAssumption PROVE Spec => []DiscsAnswered
<1>1. DiscInv /\ StateInv /\ [Next]_vars => DiscInv'
  <2> SUFFICES ASSUME DiscInv, StateInv, [Next]_vars PROVE DiscInv'
    OBVIOUS
  <2>1. CASE UNCHANGED vars
    BY <2>1, SameIsApart, ApartKeeps DEF vars, chanVars, wdVars, envVars, histVars
  <2>2. CASE Next
    BY <2>2, WdDiscInv, AsmDiscInv, OthersDiscInv DEF Next
  <2> QED BY <2>1, <2>2
<1>2. DiscInv => DiscsAnswered
  BY DEF DiscInv
<1>3. Init => StateInv
  BY DEF Init, StateInv, States
<1> QED BY InitDisc, StateSteps, <1>1, <1>2, <1>3, PTL DEF Spec
=============================================================================
