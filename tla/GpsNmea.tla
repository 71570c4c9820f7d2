------------------------------ MODULE GpsNmea ------------------------------
(***************************************************************************)
(* The NMEA reader of the GPS HAL, gps_mtk_aosp.c: the device writes the    *)
(* sentences of one second after another, the reader thread takes what is   *)
(* there, puts the lines together, collects satellites and the fix, and     *)
(* calls the framework when a read ends.                                    *)
(*                                                                         *)
(* A character is a piece of a sentence, known by the sentence and its      *)
(* place in it; the tokens of a sentence are the fields of a record.        *)
(***************************************************************************)
EXTENDS Integers, SequencesExt

CONSTANTS
  Views,        \* satellites in view, as two sequences of ids, GPS and GLONASS
  NmeaMax,      \* NMEA_MAX_SIZE, in pieces
  PerLine,      \* NMEA_MAX_SV_INFO, satellites of a GSV sentence
  MaxSvs,       \* GNSS_MAX_SVS and GPS_MAX_SVS
  Interval,     \* report_time_interval, in events
  MaxEpochs,    \* bound: seconds the device runs
  Backlog       \* bound: pieces the device is ahead of the reader

ASSUME NmeaAssumption ==
  /\ Views \subseteq Seq(Nat) \X Seq(Nat)
  /\ NmeaMax \in Nat \ {0, 1} /\ PerLine \in Nat \ {0} /\ MaxSvs \in Nat
  /\ Interval \in Nat /\ MaxEpochs \in Nat /\ Backlog \in Nat

VARIABLES
  gps_mode,     \* satellites of all systems ("gnss") or of GPS and GLONASS ("gps")
  lines, cut,   \* the device: sentences of this second to write, pieces of the
                \* first one written
  view,         \* what the device sees
  epochs,
  fifo,         \* pieces written and not yet read
  draining,     \* the thread is in the loop that reads the device empty
  skipped,      \* events not reported
  running,      \* gps_state_thread was told to start
  reader        \* NmeaReader, sv_used_in_fix and what the satellite callback got

nmeavars == <<gps_mode, lines, cut, view, epochs, fifo, draining, skipped, running, reader>>

\* An entry of the list that was not written since the last report; what it held
\* before is not kept.
Unseen == [id |-> 0, used |-> FALSE]

\* nmea_reader_init.  "report" is what the last callback listed; "lost" says that the
\* last line was not parsed, "mixed" that a report may list more or less than one second.
NmeaInit ==
  /\ gps_mode \in {"gnss", "gps"}
  /\ lines = <<>> /\ cut = 0 /\ view = [svs |-> <<>>, used |-> {}] /\ epochs = 0
  /\ fifo = <<>> /\ draining = FALSE /\ skipped = 0 /\ running = FALSE
  /\ reader = [in |-> <<>>, overflow |-> FALSE, fixed |-> FALSE, flags |-> {},
               sv_count |-> 0, num_svs |-> 0, list |-> [i \in 0 .. MaxSvs - 1 |-> Unseen],
               used |-> {}, report |-> <<>>, lost |-> FALSE, mixed |-> FALSE]

-----------------------------------------------------------------------------
(* The device *)

Line(type) == [type |-> type]
Fix(type, fixed) == [type |-> type, fixed |-> fixed]
Gsa(fixed, ids) == [type |-> "GSA", fixed |-> fixed, ids |-> ids]
Gsv(seq, ids) ==
  [type |-> "GSV", num |-> IF ids = <<>> THEN 1 ELSE (Len(ids) + PerLine - 1) \div PerLine,
   seq |-> seq, cnt |-> Len(ids), ids |-> ids]
SvSentences(ids) == [seq \in 1 .. Gsv(1, ids).num |-> Gsv(seq, ids)]

\* The satellites a fix uses are some of those of the GPS in view.
Sentences(noise, fixed, ids, v) ==
  (IF noise THEN <<Line("long")>> ELSE <<>>)
    \o <<Fix("GGA", fixed), Gsa(fixed, ids)>> \o SvSentences(v[1]) \o SvSentences(v[2])
    \o <<Fix("RMC", fixed), Line("ACCURACY")>>

PiecesOf(line) == [n \in 1 .. IF line.type = "long" THEN NmeaMax + 2 ELSE 2 |-> <<line, n>>]
Whole(s) == s = PiecesOf(s[1][1])

\* nmea_tokenizer_init and _get: the fields of a whole sentence.
Tokens(s) == s[1][1]

Second ==
  /\ lines = <<>> /\ epochs < MaxEpochs
  /\ \E noise, fixed \in BOOLEAN, v \in Views, n \in 0 .. 2 :
       LET ids == SubSeq(v[1], 1, n)
       IN  /\ n <= Len(v[1])
           /\ lines' = Sentences(noise, fixed, ids, v)
           /\ view' = [svs |-> v[1] \o v[2], used |-> IF fixed THEN ToSet(ids) ELSE {}]
  /\ epochs' = epochs + 1
  /\ UNCHANGED <<gps_mode, cut, fifo, draining, skipped, running, reader>>

Write ==
  /\ lines # <<>> /\ Len(fifo) < Backlog
  /\ LET pieces == PiecesOf(Head(lines))
     IN  /\ fifo' = Append(fifo, pieces[cut + 1])
         /\ \/ cut + 1 < Len(pieces) /\ cut' = cut + 1 /\ UNCHANGED lines
            \/ cut + 1 = Len(pieces) /\ cut' = 0 /\ lines' = Tail(lines)
  /\ UNCHANGED <<gps_mode, view, epochs, draining, skipped, running, reader>>

-----------------------------------------------------------------------------
(* The sentences *)

Gps == 1 .. 32
Qzss == 193 .. 197
Others == 65 .. 96 \cup 201 .. 232

\* GSA: the satellites up to the first id that is none of those of the mode; one that
\* is not of the GPS voids the list in "gps" mode.
ParseGsa(p, line) ==
  LET good == Gps \cup Qzss \cup (IF gps_mode = "gnss" THEN Others ELSE {})
      read == {i \in DOMAIN line.ids : \A j \in 1 .. i : line.ids[j] \in good}
      ids == {line.ids[i] : i \in read} \ Qzss
      named == IF gps_mode = "gnss" THEN p.used \cup ids
               ELSE IF read = DOMAIN line.ids THEN ids ELSE {}
  IN  [p EXCEPT !.fixed = line.fixed,
                !.used = IF line.fixed THEN named ELSE IF gps_mode = "gnss" THEN @ ELSE {}]

\* nmea_reader_update_sv_status_gnss and _gps.
Ignored(id) == id \notin Gps \cup 65 .. 96 \cup (IF gps_mode = "gnss" THEN 200 .. 232 ELSE {})

UpdateSvStatus(p, id) ==
  LET i == p.sv_count + p.num_svs
  IN  IF Ignored(id) \/ p.sv_count >= MaxSvs \/ i >= MaxSvs THEN p
      ELSE [p EXCEPT !.list[i] = [id |-> id, used |-> id \in p.used], !.sv_count = @ + 1]

\* GSV: the first sentence of a set starts to count, the last one adds the count.
GsvIds(line) ==
  LET base == (line.seq - 1) * PerLine
      num == IF line.cnt - base > PerLine THEN PerLine ELSE line.cnt - base
  IN  SubSeq(line.ids, base + 1, base + num)

GsvEnds(p, line) ==
  IF line.seq # line.num THEN p
  ELSE IF p.sv_count <= line.cnt THEN [p EXCEPT !.num_svs = @ + p.sv_count]
  ELSE [p EXCEPT !.sv_count = 0, !.num_svs = 0]

\* The satellites of a sentence, one after the other.
AllUpdated(p, ids) ==
  LET upto[idx \in 0 .. Len(ids)] ==
        IF idx = 0 THEN p ELSE UpdateSvStatus(upto[idx - 1], ids[idx])
  IN  upto[Len(ids)]

BM_ParseGsv(p, line) == GsvEnds(AllUpdated(p, GsvIds(line)), line)

ParseGsv(p, line) ==
  LET q == IF line.seq = 1 THEN [p EXCEPT !.sv_count = 0] ELSE p
  IN  GsvEnds(AllUpdated(q, GsvIds(line)), line)

\* The callbacks, at the end of a read: a fix, and the satellites.
Located(p, end) == IF p.fixed /\ end THEN [p EXCEPT !.flags = {}] ELSE p

Listed(p, i) == IF i \in DOMAIN p.list THEN p.list[i] ELSE Unseen
SvReport(p) ==
  [i \in 1 .. p.num_svs |->
     IF gps_mode = "gnss" THEN Listed(p, i - 1)
     ELSE [Listed(p, i - 1) EXCEPT !.used = Listed(p, i - 1).id \in p.used]]

Reported(p, line, end) ==
  IF p.num_svs = 0 \/ ~end THEN p
  ELSE [p EXCEPT !.report = SvReport(p), !.sv_count = 0, !.num_svs = 0, !.used = {},
                 !.list = [i \in DOMAIN @ |-> Unseen],
                 !.mixed = @ \/ line.type \notin {"RMC", "ACCURACY"}]

Flagged(p, fields) == [p EXCEPT !.flags = @ \cup fields]

\* A field of a sentence that is empty or too short sets nothing.
LatLong(line) == IF line.fixed THEN {"lat_long"} ELSE {}
Altitude(line) == IF line.fixed THEN {"altitude"} ELSE {}
BearingSpeed(line) == IF line.fixed THEN {"bearing", "speed"} ELSE {}

ParseGga(p, line) ==
  [Flagged(p, LatLong(line) \cup Altitude(line)) EXCEPT
     !.mixed = p.num_svs # 0 \/ p.used # {}]
ParseRmc(p, line) == Flagged(p, LatLong(line) \cup BearingSpeed(line))
ParseAccuracy(p) == Flagged(p, IF p.fixed THEN {"accuracy"} ELSE {})

\* nmea_reader_parse.  A sentence of another type changes nothing before the reports.
Parse(p, line, end) ==
  LET q == CASE line.type = "GGA" -> ParseGga(p, line)
             [] line.type = "GSA" -> ParseGsa(p, line)
             [] line.type = "RMC" -> ParseRmc(p, line)
             [] line.type = "GSV" -> ParseGsv(p, line)
             [] line.type = "ACCURACY" -> ParseAccuracy(p)
             [] OTHER -> p
  IN  [Reported(Located(q, end), line, end) EXCEPT !.lost = FALSE]

\* nmea_reader_addc.  A line that does not fit is dropped up to the next newline.
Addc(p, c, end) ==
  LET newline == Last(PiecesOf(c[1])) = c
      all == Append(p.in, c)
  IN  IF p.overflow THEN [p EXCEPT !.overflow = ~newline, !.lost = TRUE]
      ELSE IF Len(p.in) >= NmeaMax THEN [p EXCEPT !.overflow = TRUE, !.in = <<>>, !.lost = TRUE]
      ELSE IF ~newline THEN [p EXCEPT !.in = all]
      ELSE IF ~Whole(all) THEN [p EXCEPT !.in = <<>>, !.lost = TRUE]
      ELSE [Parse(p, Tokens(all), end) EXCEPT !.in = <<>>]

-----------------------------------------------------------------------------
(* The reader thread *)

\* The characters of a read, one after the other; gps_nmea_end_tag marks the last one.
BM_Fed(p, buff) ==
  LET upto[nn \in 0 .. Len(buff)] ==
        IF nn = 0 THEN p ELSE Addc(upto[nn - 1], buff[nn], FALSE)
  IN  upto[Len(buff)]

Fed(p, buff) ==
  LET upto[nn \in 0 .. Len(buff)] ==
        IF nn = 0 THEN p ELSE Addc(upto[nn - 1], buff[nn], nn = Len(buff))
  IN  upto[Len(buff)]

\* Events are left out until the interval is over, the text that has come with it.
Event ==
  /\ ~draining /\ fifo # <<>>
  /\ IF Interval > skipped + 1
     THEN /\ skipped' = skipped + 1 /\ fifo' = <<>>
          /\ reader' = [reader EXCEPT !.lost = TRUE, !.mixed = TRUE]
          /\ UNCHANGED draining
     ELSE skipped' = 0 /\ draining' = TRUE /\ UNCHANGED <<fifo, reader>>
  /\ UNCHANGED <<gps_mode, lines, cut, view, epochs, running>>

Read ==
  /\ draining /\ fifo # <<>>
  /\ reader' = Fed(reader, fifo) /\ fifo' = <<>>
  /\ UNCHANGED <<gps_mode, lines, cut, view, epochs, draining, skipped, running>>

WouldBlock ==
  /\ draining /\ fifo = <<>>
  /\ draining' = FALSE
  /\ UNCHANGED <<gps_mode, lines, cut, view, epochs, fifo, skipped, running, reader>>

\* CMD_START: nmea_reader_set_callback starts over, the fix mode stays.
SetCallback ==
  /\ ~draining /\ ~running
  /\ running' = TRUE
  /\ reader' = [reader EXCEPT !.flags = {}, !.sv_count = 0, !.num_svs = 0, !.mixed = TRUE]
  /\ UNCHANGED <<gps_mode, lines, cut, view, epochs, fifo, draining, skipped>>

CmdStop ==
  /\ ~draining /\ running
  /\ running' = FALSE
  /\ UNCHANGED <<gps_mode, lines, cut, view, epochs, fifo, draining, skipped, reader>>

CmdRestart ==
  /\ ~draining
  /\ reader' = [reader EXCEPT !.fixed = FALSE]
  /\ UNCHANGED <<gps_mode, lines, cut, view, epochs, fifo, draining, skipped, running>>

NmeaNext == \/ Second \/ Write \/ Event \/ Read \/ WouldBlock
            \/ SetCallback \/ CmdStop \/ CmdRestart

NmeaSpec == NmeaInit /\ [][NmeaNext]_nmeavars

-----------------------------------------------------------------------------
(* Properties *)

\* When everything written was read and the last line could be parsed, no fix and no
\* satellite waits for the next second.
NothingHeldBack ==
  fifo = <<>> /\ reader.in = <<>> /\ ~reader.lost
    => reader.num_svs = 0 /\ (reader.fixed => reader.flags = {})

\* However the text of a second was cut into reads, the framework is told the satellites
\* in view and those the fix uses, in their order, when no read ended between its lines
\* and the seconds before it were reported.
ViewOf == LET seen == SelectSeq(view.svs, LAMBDA id : ~Ignored(id))
          IN  [i \in 1 .. IF Len(seen) < MaxSvs THEN Len(seen) ELSE MaxSvs |->
                 [id |-> seen[i], used |-> seen[i] \in view.used]]

WholeView ==
  epochs > 0 /\ lines = <<>> /\ fifo = <<>> /\ reader.in = <<>> /\ ~reader.lost
    /\ ~reader.mixed /\ ViewOf # <<>> => reader.report = ViewOf
=============================================================================
