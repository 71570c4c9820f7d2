------------------------------- MODULE GpsAt -------------------------------
(***************************************************************************)
(* The AT test of the GPS HAL, gps_mtk_aosp.c: AT%GPS and AT%GNSS commands  *)
(* (and the framework) start and stop a test of the signal of one           *)
(* satellite; the NMEA reader counts the seconds in which the satellite was *)
(* heard or not, and ends the test.                                         *)
(*                                                                         *)
(* A test of n samples is on while MNL_AT_TEST_FLAG is set, a signal test   *)
(* while MNL_AT_SIGNAL_MODE is.  Commands come in any order; one of them,   *)
(* or what the reader does with one set or end of a read, is one step.  The *)
(* levels that are measured, and the answers made of them, are left out.    *)
(* The specification is AtSpec; Gps_proofs extends it with the other        *)
(* modules of the HAL.                                                      *)
(***************************************************************************)
EXTENDS Naturals

CONSTANTS
  MaxNum,      \* bound: samples of a test
  MaxWait,     \* MAX_VALID_STATUS_WAIT_COUNT, 20 in the code
  SetsPerRead, \* bound: GSV sets with the satellite's number between two ends of reads
  MaxCount     \* bound: seconds counted

ASSUME AtAssumption == MaxNum \in Nat /\ MaxWait \in Nat \ {0} /\ SetsPerRead \in Nat /\ MaxCount \in Nat

VARIABLES
  t,           \* the test
  sets,        \* GSV sets since the last end of a read
  alone        \* ghost: the test that is on is left alone, see Touched

atvars == <<t, sets, alone>>

\* What becomes of a start or a stop: MNLD is told, cannot be told, or the HAL is not
\* initialised.
Outcomes == {"told", "untold", "uninit"}

\* "room" is what Dev_CNr points to, "late" that the first two seconds are over, "usb"
\* that test_mode_flag is 0.
AtInit ==
  /\ t = [flag |-> FALSE, signal |-> FALSE, begin |-> FALSE, state |-> "unknown",
          usb |-> FALSE, num |-> 0, room |-> "none", late |-> TRUE, success |-> 0,
          failure |-> 0, prev |-> 0, wait |-> 0]
  /\ sets = 0 /\ alone = FALSE

-----------------------------------------------------------------------------
(* mtk_gps_test_start and mtk_gps_test_stop *)

\* Dev_CNr keeps its value: a second stop frees the room again.
Freed(room) == IF room = "none" THEN "none" ELSE "freed"

BM_TestStop(s, end) ==   \* MNL_AT_TEST_STATE is not reset
  LET q == [s EXCEPT !.usb = FALSE]
  IN  IF end # "told" THEN q
      ELSE [q EXCEPT !.num = 0, !.flag = FALSE, !.signal = FALSE, !.begin = FALSE,
                     !.success = 0, !.wait = 0, !.room = Freed(@)]

\* What MNLD cannot be told is not undone.
TestStop(s, end) ==
  LET q == [s EXCEPT !.usb = FALSE]
  IN  IF end # "told" THEN q
      ELSE [q EXCEPT !.num = 0, !.flag = FALSE, !.signal = FALSE, !.begin = FALSE,
                     !.state = "unknown", !.success = 0, !.wait = 0, !.room = Freed(@)]

\* A test that is on is stopped first, but not when the last word was an AT command.
Prepared(s, num, end) ==
  LET q == IF s.state # "unknown" /\ ~s.usb THEN TestStop(s, end) ELSE s
  IN  [q EXCEPT !.num = num, !.room = "live", !.late = FALSE]

\* Without an initialised HAL the mode stays set; what MNLD cannot be told is no test.
TestStart(s, num, signal, end, sent) ==
  LET q == Prepared(s, num, end)
      p == IF signal THEN [q EXCEPT !.signal = TRUE] ELSE [q EXCEPT !.flag = TRUE]
  IN  IF num = 0 /\ ~signal THEN q
      ELSE CASE sent = "told" -> [p EXCEPT !.state = "inprogress"]
             [] sent = "untold" -> [p EXCEPT !.state = "unknown", !.flag = FALSE]
             [] OTHER -> p

Nums == 0 .. MaxNum

-----------------------------------------------------------------------------
(* The AT commands; a number that cannot be read is 0 *)

Usb(s) == [s EXCEPT !.usb = TRUE]

\* Ghost: a test begins alone when nothing of another one is counted, and is alone
\* until a command does more than ask.
Touched ==
  alone' = (t'.flag /\ IF t.flag THEN alone /\ t' = Usb(t)
                       ELSE t'.num > 0 /\ t'.success = 0 /\ t'.failure = 0 /\ t'.prev = 0)

\* AT%GPS=n
GpsNum ==
  /\ \E num \in Nums, end, sent \in Outcomes :
       t' = IF num = 0 THEN Usb(t) ELSE TestStart(Usb(t), num, FALSE, end, sent)
  /\ Touched /\ UNCHANGED sets

\* AT%GNSS=n starts over, and goes on with the signal test if there is one.
Reset(s) == [Usb(s) EXCEPT !.success = 0]

GnssNum ==
  /\ ~t.signal
  /\ \E num \in Nums, end, sent \in Outcomes :
       t' = IF num = 0 THEN Reset(t) ELSE TestStart(Reset(t), num, FALSE, end, sent)
  /\ Touched /\ UNCHANGED sets

GnssSignalNum ==
  /\ t.signal
  /\ \/ t' = [Reset(t) EXCEPT !.begin = TRUE, !.state = "inprogress", !.late = FALSE]
     \/ \E end \in Outcomes :   \* the number is 0
          t' = IF t.state # "unknown" THEN TestStop(Reset(t), end) ELSE Reset(t)
  /\ Touched /\ UNCHANGED sets

\* AT%GNSS=S turns a test of n samples into a signal test.
GnssS ==
  /\ \E end, sent \in Outcomes :
       t' = IF t.flag THEN [Usb(t) EXCEPT !.signal = TRUE, !.flag = FALSE]
            ELSE TestStart(Usb(t), 0, TRUE, end, sent)
  /\ Touched /\ UNCHANGED sets

\* AT%GNSS=E
GnssE ==
  /\ \E end \in Outcomes :
       t' = IF t.state = "unknown" THEN Usb(t) ELSE TestStop(Usb(t), end)
  /\ Touched /\ UNCHANGED sets

\* AT%GPS, AT%GNSS, AT%GPS=?, AT%GNSS=?, AT%GPS? and AT%GNSS?: answers only.
Ask ==
  /\ t' = Usb(t)
  /\ Touched /\ UNCHANGED sets

\* The framework's calls.
ApiStart ==
  /\ \E num \in Nums, signal \in BOOLEAN, end, sent \in Outcomes :
        t' = TestStart(t, num, signal, end, sent)
  /\ Touched /\ UNCHANGED sets

ApiStop ==
  /\ \E end \in Outcomes : t' = TestStop(t, end)
  /\ Touched /\ UNCHANGED sets

-----------------------------------------------------------------------------
(* The NMEA reader *)

\* gps_at_command_search_satellite, for the satellite under test: a sample, if it is
\* heard.
Search(s, heard) ==
  LET q == IF s.signal THEN [s EXCEPT !.state = IF s.begin THEN "result" ELSE "inprogress"]
           ELSE s
  IN  IF ~heard THEN s
      ELSE IF s.flag THEN [q EXCEPT !.success = @ + 1]
      ELSE q

\* gps_at_command_test_proc, at the end of a GSV set.
TestProc(s, heard) ==
  IF ~(s.flag \/ s.signal) \/ s.state = "done" \/ (s.signal /\ ~s.begin) THEN s
  ELSE Search(s, heard)

\* The end of a read: a second with or without a sample, or without any so far.
Failed(s) == s.failure + (IF s.success = s.prev THEN 1 ELSE 0)

Ended(s, end) ==
  LET q == [s EXCEPT !.wait = 0, !.state = "done"]
  IN  IF q.flag THEN [TestStop(q, end) EXCEPT !.failure = 0, !.prev = 0] ELSE q

BM_Evaluate(s, end) ==   \* a second without a sample is not counted
  IF s.success > 0
  THEN LET q == [s EXCEPT !.prev = s.success]
       IN  IF q.success = q.num THEN Ended(q, end) ELSE q
  ELSE LET q == [s EXCEPT !.wait = @ + 1, !.prev = 0]
       IN  IF q.wait = MaxWait THEN Ended(q, end) ELSE q

Evaluate(s, end) ==
  IF s.success > 0
  THEN LET q == [s EXCEPT !.failure = Failed(s), !.prev = s.success]
       IN  IF q.success + q.failure = q.num THEN Ended(q, end) ELSE q
  ELSE LET q == [s EXCEPT !.wait = @ + 1, !.prev = 0]
       IN  IF q.wait = MaxWait THEN Ended(q, end) ELSE q

\* nmea_reader_parse: in the first two seconds of a test the text is not looked at.
Testing(s) == s.flag \/ s.begin

GsvSet ==
  /\ sets < SetsPerRead /\ t.success < MaxCount
  /\ sets' = sets + 1
  /\ \E heard \in BOOLEAN :
       t' = IF Testing(t) /\ ~t.late THEN t ELSE TestProc(t, heard)
  /\ alone' = (alone /\ sets = 0)

ReadEnds ==
  /\ t.failure < MaxCount
  /\ sets' = 0
  /\ \E end \in Outcomes :
       /\ t' = IF Testing(t) /\ t.late THEN Evaluate(t, end) ELSE t
       /\ alone' = (alone /\ t'.flag /\ end = "told")

TwoSeconds ==
  /\ ~t.late
  /\ t' = [t EXCEPT !.late = TRUE]
  /\ UNCHANGED <<sets, alone>>

Command == \/ GpsNum \/ GnssNum \/ GnssSignalNum \/ GnssS \/ GnssE
           \/ Ask \/ ApiStart \/ ApiStop

AtNext == Command \/ GsvSet \/ ReadEnds \/ TwoSeconds

\* MNLD goes on to write, and time goes on.
AtSpec == AtInit /\ [][AtNext]_atvars /\ WF_atvars(ReadEnds) /\ WF_atvars(TwoSeconds)

-----------------------------------------------------------------------------
(* Properties *)

\* In whatever order tests are started, changed, refused and stopped, the samples go to
\* room that was not freed, and the stops the HAL makes itself (AT%GNSS=E, before a start,
\* at the end of a test), all in a state that is not "unknown", free it once.
RoomIsLive == t.flag \/ t.signal \/ t.state # "unknown" => t.room = "live"

\* A test of n samples that is left alone, its satellite in at most one set of a read,
\* ends: after n seconds from the first sample on or after a while without one.
TestEnds == t.flag /\ alone ~> ~t.flag \/ ~alone
=============================================================================
