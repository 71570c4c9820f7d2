------------------------------- MODULE GpsEpo -------------------------------
(***************************************************************************)
(* The EPO thread of the GPS HAL, gps_mtk_aosp.c: it downloads the orbit    *)
(* data in pieces of three days, appends them to EPOHAL.DAT, starts over    *)
(* when the server published new data in between, resumes a failed download *)
(* by a timer, and lets MNLD take the file.  The framework's start and the  *)
(* answer of MNLD change the same counters and files without any lock.      *)
(*                                                                         *)
(* Dates are days, 0 is "no such file" (an uTime left at zero).             *)
(*                                                                         *)
(* The specification is EpoSpec; Gps_proofs extends it with the other       *)
(* modules of the HAL.                                                      *)
(***************************************************************************)
EXTENDS Naturals, Sequences, FiniteSets

CONSTANTS
  Days,        \* gps_epo_download_days
  Period,      \* gps_epo_period and wifi_epo_period, days
  Trigger,     \* gps_epo_wifi_trigger
  MaxRetry,    \* bound: attempts at the same piece, 10 in the code
  MaxDay,      \* bound: the last day
  Overlap,     \* start, MNLD's answer and a restart may fall between fetch and check
  Truncated    \* the server may deliver a piece that is cut off

ASSUME EpoAssumption ==
  /\ Days \in Nat /\ Period \in Nat \ {0} /\ MaxRetry \in Nat \ {0} /\ MaxDay \in Nat
  /\ Trigger \in BOOLEAN /\ Overlap \in BOOLEAN /\ Truncated \in BOOLEAN

PieceDays == 3

\* Pieces that make up a download, at least one and at most ten.
PieceCount == LET n == Days \div 3 + (IF Days % 3 > 0 THEN 1 ELSE 0)
              IN  IF n > 10 THEN 10 ELSE IF n = 0 THEN 1 ELSE n

PieceSet == 0 .. PieceCount
None == [start |-> 0, whole |-> FALSE]

VARIABLES
  pc,          \* where the EPO thread is in one round of its loop
  via,         \* a download "first" asked for, or the "retry" of a failed one
  cur,         \* the piece gps_epo_file_name names
  temp,        \* file_count_temp
  count,       \* gps_epo_file_count
  updated,     \* s->epo_data_updated: a download is asked for
  failed,      \* epo_download_failed
  retry,       \* epo_download_retry
  timer,       \* the retry timer: "off", "on", or "lost" when it could not be armed
  file_retrying, retry_time,
  hdat,         \* EPOHAL.DAT: its pieces; empty when there is none
  edat,         \* EPO.DAT: the date of its first piece
  files,       \* the downloaded piece files
  update,      \* MNL_CMD_UPDATE_EPO_FILE: "none", "asked" or "done"
  gps_on, connected, wifi,
  day, base    \* today, and the first day of the server's data

tvars == <<pc, via, cur, temp>>
rvars == <<retry, timer, file_retrying, retry_time>>
wvars == <<gps_on, connected, wifi, day, base>>
epovars == <<tvars, count, updated, failed, rvars, hdat, edat, files, update, wvars>>

NotRetrying == 50

EpoInit ==
  /\ pc = "loop" /\ via = "first" /\ cur = 0 /\ temp = 0
  /\ count = 0 /\ updated = FALSE /\ failed = FALSE
  /\ retry = TRUE /\ timer = "off" /\ file_retrying = NotRetrying /\ retry_time = 0
  /\ hdat = <<>> /\ edat = 0 /\ files = [k \in PieceSet |-> None] /\ update = "none"
  /\ gps_on = FALSE /\ connected = FALSE /\ wifi = FALSE /\ day = 1 /\ base = 1

-----------------------------------------------------------------------------
(* The dates of the file *)

\* mtk_gps_epo_file_time_hal: first and last day of EPOHAL.DAT, else of EPO.DAT.
FileStart == IF hdat # <<>> THEN Head(hdat).start ELSE edat
FileEnd == IF hdat # <<>> THEN hdat[Len(hdat)].start + PieceDays
           ELSE IF edat # 0 THEN edat + PieceDays * PieceCount ELSE 0

\* mtk_epo_is_expired: a file of few days is renewed sooner.  It also starts the
\* count over.
ExpiresAfter(len) ==
  IF len >= Period THEN Period
  ELSE IF len < 3 THEN 0 ELSE IF len < 6 THEN 2 ELSE IF len < 9 THEN 5 ELSE 7
IsExpired == day >= FileStart + ExpiresAfter(FileEnd - FileStart)
IsExpiredWifi == day >= FileStart + Period

-----------------------------------------------------------------------------
(* thread_epo_file_update *)

Goto(p) == pc' = p

Begin ==
  /\ pc = "loop"
  /\ IF updated THEN /\ failed' = FALSE /\ cur' = count /\ via' = "first"
                     /\ Goto("fetch")
     ELSE Goto("retry") /\ UNCHANGED <<failed, cur, via>>
  /\ UNCHANGED <<temp, count, updated, rvars, hdat, edat, files, update, wvars>>

\* curl_easy_download_epo: nothing arrives and the piece's file is removed.
FetchFails ==
  /\ pc = "fetch"
  /\ failed' = TRUE
  /\ files' = [files EXCEPT ![cur] = None]
  /\ Goto("after")
  /\ UNCHANGED <<via, cur, temp, count, updated, rvars, hdat, edat, update, wvars>>

\* The piece is stored and appended to EPOHAL.DAT, of which the first piece makes
\* a new one.
FetchOK ==
  /\ pc = "fetch"
  /\ \E whole \in {TRUE} \cup {~Truncated} :
       LET piece == [start |-> base + PieceDays * cur, whole |-> whole] IN
         /\ files' = [files EXCEPT ![cur] = piece]
         /\ hdat' = Append(IF count = 0 THEN <<>> ELSE hdat, piece)
  /\ Goto("check")
  /\ UNCHANGED <<via, cur, temp, count, updated, failed, rvars, edat, update, wvars>>

\* mtk_gps_epo_server_data_is_changed: the piece before it ended a day or more
\* before this one starts.
PieceStart(k) == IF files[k].whole THEN files[k].start ELSE 0
PieceEnd(k) == IF files[k].whole THEN files[k].start + PieceDays ELSE 0
LastEnd == IF count = 0 THEN PieceStart(cur) ELSE PieceEnd(count - 1)
IsChanged == PieceStart(cur) >= LastEnd + 1

\* A piece file that is there but too short.
Short(k) == files[k] # None /\ ~files[k].whole

BM_StartOver ==
  /\ pc = "check" /\ IsChanged
  /\ failed' = (failed \/ Short(cur) \/ (count > 0 /\ Short(count - 1)))
  /\ files' = [k \in PieceSet |-> IF k <= count THEN None ELSE files[k]]
  /\ count' = 0
  /\ Goto("after")
  /\ UNCHANGED <<via, cur, temp, updated, rvars, hdat, edat, update, wvars>>

StartOver ==
  /\ pc = "check" /\ IsChanged
  /\ failed' = (failed \/ Short(cur) \/ (count > 0 /\ Short(count - 1)))
  /\ files' = [k \in PieceSet |-> IF k <= count THEN None ELSE files[k]]
  /\ hdat' = <<>> /\ count' = 0
  /\ Goto("after")
  /\ UNCHANGED <<via, cur, temp, updated, rvars, edat, update, wvars>>

\* A piece that is too short has failed, though EPOHAL.DAT already holds it.
Checked ==
  /\ pc = "check" /\ ~IsChanged
  /\ IF Short(cur) \/ (count > 0 /\ Short(count - 1))
     THEN failed' = TRUE /\ Goto("after")
     ELSE Goto("advance") /\ UNCHANGED failed
  /\ UNCHANGED <<via, cur, temp, count, updated, rvars, hdat, edat, files, update, wvars>>

\* mtk_gps_epo_file_update: the next piece, or the end, of which a running MNLD is told.
Advance ==
  /\ pc = "advance" /\ count + 1 < PieceCount
  /\ count' = count + 1
  /\ Goto("after")
  /\ UNCHANGED <<via, cur, temp, updated, failed, rvars, hdat, edat, files, update, wvars>>

Complete ==
  /\ pc = "advance" /\ count + 1 >= PieceCount
  /\ files' = [k \in PieceSet |-> None]
  /\ updated' = FALSE /\ count' = 0 /\ failed' = FALSE
  /\ IF gps_on THEN edat' = 0 /\ update' = "asked" ELSE UNCHANGED <<edat, update>>
  /\ Goto("after")
  /\ UNCHANGED <<via, cur, temp, rvars, hdat, wvars>>

\* Back in the loop: a failure ends what was asked for and leaves it to the retries.
AfterFirst ==
  /\ pc = "after" /\ via = "first"
  /\ updated' = (updated /\ ~failed)
  /\ Goto("retry")
  /\ UNCHANGED <<via, cur, temp, count, failed, rvars, hdat, edat, files, update, wvars>>

AfterRetry ==
  /\ pc = "after" /\ via = "retry"
  /\ Goto("counted")
  /\ UNCHANGED <<via, cur, temp, count, updated, failed, rvars, hdat, edat, files, update, wvars>>

RetryDue == (gps_on \/ wifi) /\ connected /\ failed /\ retry

NoRetry ==
  /\ pc = "retry" /\ ~RetryDue
  /\ Goto("wifi")
  /\ UNCHANGED <<via, cur, temp, count, updated, failed, rvars, hdat, edat, files, update, wvars>>

\* Data older than a day are downloaded from the first piece on ...
RetryAll ==
  /\ pc = "retry" /\ RetryDue /\ day >= FileStart + 1
  /\ temp' = count
  /\ file_retrying' = IF file_retrying = NotRetrying THEN count ELSE file_retrying
  /\ failed' = FALSE /\ count' = 0 /\ updated' = TRUE /\ hdat' = <<>>
  /\ Goto("counted")
  /\ UNCHANGED <<via, cur, retry, timer, retry_time, edat, files, update, wvars>>

\* ... newer ones from the piece that failed.
RetryPiece ==
  /\ pc = "retry" /\ RetryDue /\ day < FileStart + 1
  /\ temp' = count
  /\ file_retrying' = IF file_retrying = NotRetrying THEN count ELSE file_retrying
  /\ cur' = count /\ via' = "retry"
  /\ Goto("fetch")
  /\ UNCHANGED <<count, updated, failed, retry, timer, retry_time, hdat, edat, files, update, wvars>>

Progress ==
  /\ pc = "counted" /\ temp # count
  /\ Goto("wifi")
  /\ UNCHANGED <<via, cur, temp, count, updated, failed, rvars, hdat, edat, files, update, wvars>>

\* The same piece failed again: after a while the retries end.
Tried == IF file_retrying = count THEN retry_time + 1 ELSE 0

BM_WaitRetry ==
  /\ pc = "counted" /\ temp = count /\ Tried < MaxRetry
  /\ file_retrying' = count /\ retry_time' = Tried
  /\ retry' = FALSE
  /\ Goto("wifi")
  /\ UNCHANGED <<via, cur, temp, count, updated, failed, timer, hdat, edat, files, update, wvars>>

\* set_retry_alarm_handler: a timer that cannot be deleted, created or set is only
\* logged, and nothing else allows a retry again.
WaitRetry ==
  /\ pc = "counted" /\ temp = count /\ Tried < MaxRetry
  /\ file_retrying' = count /\ retry_time' = Tried
  /\ retry' = FALSE /\ timer' \in {"on", "lost"}
  /\ Goto("wifi")
  /\ UNCHANGED <<via, cur, temp, count, updated, failed, hdat, edat, files, update, wvars>>

GiveUp ==
  /\ pc = "counted" /\ temp = count /\ Tried >= MaxRetry
  /\ failed' = FALSE /\ retry_time' = 0 /\ file_retrying' = NotRetrying
  /\ Goto("wifi")
  /\ UNCHANGED <<via, cur, temp, count, updated, retry, timer, hdat, edat, files, update, wvars>>

\* A Wi-Fi connection triggers a download of its own.
WifiTriggers == ~updated /\ Trigger /\ ~failed /\ connected /\ wifi /\ IsExpiredWifi

WifiDownload ==
  /\ pc = "wifi" /\ WifiTriggers
  /\ updated' = TRUE /\ count' = 0 /\ hdat' = <<>>
  /\ Goto("loop")
  /\ UNCHANGED <<via, cur, temp, failed, rvars, edat, files, update, wvars>>

RoundEnds ==
  /\ pc = "wifi" /\ ~WifiTriggers
  /\ Goto("loop")
  /\ UNCHANGED <<via, cur, temp, count, updated, failed, rvars, hdat, edat, files, update, wvars>>

\* retry_alarm_handler, on a thread of its own.
Alarm ==
  /\ timer = "on"
  /\ timer' = "off" /\ retry' = TRUE
  /\ UNCHANGED <<tvars, count, updated, failed, file_retrying, retry_time, hdat, edat, files,
                 update, wvars>>

-----------------------------------------------------------------------------
(* The framework's start, and the thread that hears MNLD *)

Undisturbed == Overlap \/ pc \notin {"fetch", "check", "advance"}

\* gps_download_epo.
Request == updated' = TRUE /\ count' = 0

StartMissing ==
  /\ ~gps_on /\ Undisturbed /\ hdat = <<>> /\ (edat = 0 \/ IsExpired)
  /\ Request
  /\ gps_on' = TRUE
  /\ UNCHANGED <<tvars, failed, rvars, hdat, edat, files, update, connected, wifi, day, base>>

\* A failed download over Wi-Fi is left to its retries.
LeftToRetry == wifi /\ connected /\ failed

BM_StartExpired ==
  /\ ~gps_on /\ Undisturbed /\ hdat # <<>> /\ IsExpired /\ ~LeftToRetry
  /\ updated' = TRUE /\ UNCHANGED count
  /\ hdat' = <<>> /\ gps_on' = TRUE
  /\ UNCHANGED <<tvars, failed, rvars, edat, files, update, connected, wifi, day, base>>

StartExpired ==
  /\ ~gps_on /\ Undisturbed /\ hdat # <<>> /\ IsExpired /\ ~LeftToRetry
  /\ Request
  /\ hdat' = <<>> /\ gps_on' = TRUE
  /\ UNCHANGED <<tvars, failed, rvars, edat, files, update, connected, wifi, day, base>>

StartFresh ==
  /\ ~gps_on /\ Undisturbed /\ hdat # <<>> /\ ~IsExpired /\ ~LeftToRetry
  /\ edat' = 0 /\ update' = "asked" /\ gps_on' = TRUE
  /\ UNCHANGED <<tvars, count, updated, failed, rvars, hdat, files, connected, wifi, day, base>>

StartPlain ==
  /\ ~gps_on
  /\ IF hdat = <<>> THEN edat # 0 /\ ~IsExpired ELSE LeftToRetry
  /\ gps_on' = TRUE
  /\ UNCHANGED <<tvars, count, updated, failed, rvars, hdat, edat, files, update, connected, wifi,
                 day, base>>

Stop ==
  /\ gps_on
  /\ gps_on' = FALSE
  /\ UNCHANGED <<tvars, count, updated, failed, rvars, hdat, edat, files, update, connected, wifi,
                 day, base>>

\* HAL_CMD_UPDATE_EPO_FILE_DONE: the file is removed unless a download is under way.
UpdateDone ==
  /\ update = "done" /\ Undisturbed
  /\ update' = "none"
  /\ hdat' = IF ~failed /\ count = 0 THEN <<>> ELSE hdat
  /\ UNCHANGED <<tvars, count, updated, failed, rvars, edat, files, wvars>>

\* MNLD copies the file.
MnldTakes ==
  /\ update = "asked"
  /\ update' = "done"
  /\ edat' = IF hdat # <<>> THEN Head(hdat).start ELSE edat
  /\ UNCHANGED <<tvars, count, updated, failed, rvars, hdat, files, wvars>>

\* agps_ril_update_network_state.
Network ==
  /\ \E c, w \in BOOLEAN : connected' = c /\ wifi' = w /\ <<c, w>> # <<connected, wifi>>
  /\ UNCHANGED <<tvars, count, updated, failed, rvars, hdat, edat, files, update, gps_on, day, base>>

\* The process that holds the HAL is restarted: the files stay.
Restart ==
  /\ Overlap \/ pc # "check"
  /\ pc' = "loop" /\ via' = "first" /\ cur' = 0 /\ temp' = 0
  /\ count' = 0 /\ updated' = FALSE /\ failed' = FALSE
  /\ retry' = TRUE /\ timer' = "off" /\ file_retrying' = NotRetrying /\ retry_time' = 0
  /\ update' = "none" /\ gps_on' = FALSE /\ connected' = FALSE /\ wifi' = FALSE
  /\ UNCHANGED <<hdat, edat, files, day, base>>

NextDay ==
  /\ day < MaxDay
  /\ day' = day + 1
  /\ UNCHANGED <<tvars, count, updated, failed, rvars, hdat, edat, files, update, gps_on,
                 connected, wifi, base>>

ServerUpdates ==
  /\ base < day
  /\ base' = day
  /\ UNCHANGED <<tvars, count, updated, failed, rvars, hdat, edat, files, update, gps_on,
                 connected, wifi, day>>

-----------------------------------------------------------------------------
EpoThread == \/ Begin \/ FetchFails \/ FetchOK \/ StartOver \/ Checked \/ Advance \/ Complete
             \/ AfterFirst \/ AfterRetry \/ NoRetry \/ RetryAll \/ RetryPiece \/ Progress \/ WaitRetry \/ GiveUp
             \/ WifiDownload \/ RoundEnds
Hal == StartMissing \/ StartExpired \/ StartFresh \/ StartPlain \/ Stop \/ UpdateDone
World == MnldTakes \/ Network \/ Restart \/ NextDay \/ ServerUpdates

EpoNext == EpoThread \/ Alarm \/ Hal \/ World

\* The thread and the timer go on.
EpoFairness == WF_epovars(EpoThread) /\ WF_epovars(Alarm)

EpoSpec == EpoInit /\ [][EpoNext]_epovars /\ EpoFairness

-----------------------------------------------------------------------------
(* Properties *)

\* But for the piece that is just being checked, EPOHAL.DAT holds whole pieces, each
\* where the one before it ended, though the server's data change between two pieces.
PiecesInOrder ==
  pc # "check" => \A i \in 1 .. Len(hdat) :
                    hdat[i].whole /\ hdat[i].start = hdat[1].start + PieceDays * (i - 1)

\* A download that is asked for or has failed goes on with the piece after those
\* the file holds, and the file holds no more than a whole download.
ResumesInPlace ==
  /\ Len(hdat) <= PieceCount
  /\ pc = "loop" /\ (updated \/ failed) /\ count > 0 => Len(hdat) = count

\* What the retries need: a network and a user of the data.
Offline == ~connected \/ (~gps_on /\ ~wifi)

\* When the server fails and the framework asks only so many times, a download that is
\* asked for or has failed is completed, or given up, unless the network or the user
\* goes or the timer of a retry could not be armed.
DownloadSettles ==
  <>[][~FetchFails /\ ~StartMissing /\ ~StartExpired]_epovars
    => (updated \/ failed ~> (~updated /\ ~failed) \/ Offline \/ timer = "lost")
=============================================================================
