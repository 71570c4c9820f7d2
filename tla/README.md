# TLA+ models of the MediaTek Android hardware libraries

This directory holds a verification project for the programs of this repository. It
models the multiplexer daemon `gsm0710muxd`, a multi-threaded protocol implementation
that every call, SMS and data connection of the phone goes through; the commands of the
Wi-Fi HAL `wifi_hal`; and the GPS HAL `gps/hal` with its sessions, its download of orbit
data, its NMEA reader and its AT test. The other parts and the reasons why they are left
out are listed too.

Run a model with `tlc -config <X>.cfg <MC module>`, a proof with `tlapm
<module>_proofs.tla`; `PROJECT.json` lists the runs, the lines each definition models,
the hazards and the theorems.

## 1. Inventory

### gsm0710muxd (`src/gsm0710muxd/src`)

A daemon that multiplexes one serial line to the modem (`serial.fd`) into virtual
channels by the protocol GSM 07.10 (3GPP 27.010). Applications (the RIL daemon above
all) see a pseudo terminal per channel.

| part | state | operations | runs in |
|---|---|---|---|
| receive ring | `GSM0710_Buffer`: `data`, `readp`, `writep`, `datacount`, `newdataready`, `input_sleeping`, three mutexes, two conditions | `gsm0710_buffer_write`, `gsm0710_buffer_inc`, the wait loops | serial reader thread, assembler thread |
| frame parsers | `flag_found`, `adv_data`, `adv_length`, `adv_found_esc` | `gsm0710_advanced_buffer_get_frame`, `gsm0710_base_buffer_get_frame` | assembler thread |
| receive flow control | per channel `rx_fl`, `rx_fl_total`, `rx_fl_written`, `rx_fc_off`, `rx_thread` | the UIH branch of `extract_frames`, `gsm0710muxd_fc.c` | assembler thread, one retry thread per stop |
| transmit path | per channel `tx_fc_off`, `negotiated_N1`; `write_frame_lock`, `serial.adv_frame_buf` | `poll_thread`, `pseudo_device_read`, `handle_channel_data`, `write_frame` | a thread per channel; every thread that answers |
| session | `serial.state`, `serial.ping_number`, per channel `fd`, `opened`, `reopen`, `sabm_ua_pending`, `disc_ua_pending`; `pts_reopen`, `watch_lock`, the conditions for the channel setup and for the answers to DISC | `watchdog()` and what it calls, the control frames in `extract_frames` | main thread, threads of channels that end, assembler thread |
| control commands | none of its own | `handle_command`: MSC, CLD, and commands that are only answered | assembler thread |
| process exit | `main_exit_signal`, `g_set_force_assert_flag`, `g_set_alarm_flag` | `Gsm0710Muxd_Assert`, `set_main_exit_signal`, `signal_treatment`, the end of `main()` | any thread, signal handlers |

The parts meet in shared memory. The serial reader hands bytes to the assembler through
the ring. The assembler writes payloads to the ptys, starts retry threads, changes what
the channels' threads wait for, answers on the line and moves `serial.state`. The
channels' threads and the assembler share the line through `write_frame`. `watchdog()`
is entered by three kinds of threads.

The release build of the Android makefile is modelled (`__PRODUCTION_RELEASE__`,
`__MUXD_FLOWCONTROL__`, `MUX_ANDROID`): an assertion there does not stop the process. It
tells `main()` to exit and the thread goes on.

Hard behaviours: two threads on one ring with wakeups in both directions; frames cut
anywhere by `read()`; bit fields shared by several locks; threads that start while their
predecessor ends; error returns that keep a lock; channels closed under the threads that
serve them; state that survives a session (`sabm_ua_received`, `pts_reopen`); requests
merged in one flag.

What makes each part correct:

- ring and parser: every frame the modem sends is delivered once, unchanged, in order,
  and nothing else is; no thread sleeps while there is work for it;
- receive flow control: the pty sees the bytes in order and all of them; one writer at a
  time; the list stays below the watermark; the modem is told to go on after it was told
  to stop;
- transmit path: frames of different threads do not mix on the line; bytes arrive in
  order and completely; a stopped channel stops;
- session: each pty has one reader; a session that is to end does end; a pty that hung
  up is opened again; an assertion ends the process.

### wifi_hal (`src/wifi_hal`)

The vendor part of the Wi-Fi HAL: the framework starts scans, hotlists, watches for
significant changes, passpoint lists and RTT measurements; the kernel driver answers
requests and sends events over netlink.

| part | state | operations | runs in |
|---|---|---|---|
| handler table | `event_cb`, `num_event_cb`, under `cb_lock` | `wifi_register_vendor_handler`, `wifi_unregister_vendor_handler`, `internal_valid_message_handler` | API thread, event loop |
| command table | `cmd`, `num_cmd`, under no lock | `wifi_register_cmd`, `wifi_unregister_cmd`, `wifi_get_cmd` | API thread, event loop |
| commands | `mRefs`, the id of each object; the class's own requests | `start`, `cancel`, `handleEvent`, `addRef`, `releaseRef`, `requestResponse` | both |
| event loop | `in_event_loop`, `clean_up` | `wifi_event_loop`, `wifi_initialize`, `wifi_cleanup` | event loop |

Hard behaviours: the handler of an event runs with `cb_lock` dropped, while its command
may be cancelled; an RTT command removes itself from the event loop; a request refused
half way leaves registrations to undo; both arrays can be full. Correct means: an event
never reaches a deleted command, nobody's object is deleted under him, and the reference
count is that of the users.

### GPS HAL (`src/gps/hal/gps_mtk_aosp.c`)

| part | state | operations | runs in |
|---|---|---|---|
| session | `init`, `start_flag`, `started`, `flag_unlock`, the latches `lock_for_sync[]`, the status record, the wake lock | `mtk_gps_init`, `start`, `stop`, `cleanup`, interfaces; `gps_state_thread`, `mnld_to_gps_handler` | framework thread, `gps_state_thread` |
| EPO download | `gps_epo_file_count`, `epo_data_updated`, `epo_download_failed`, `epo_download_retry`, the retry counter and timer, piece files, `EPOHAL.DAT`, `EPO.DAT` | `thread_epo_file_update`, `gps_download_epo`, `retry_alarm_handler` | EPO thread, timer thread, framework thread, `gps_state_thread` |
| NMEA reader | `NmeaReader`: the character buffer, the fix, `sv_count`, `num_svs`, the satellite list | `nmea_reader_addc`, `nmea_reader_parse` and what it calls | `gps_state_thread` |
| AT test | `MNL_AT_TEST_FLAG`, `MNL_AT_SIGNAL_MODE`, the counters, the room for samples (`Dev_CNr`) | `at_gps_command_parser`, `at_gnss_command_parser`, `mtk_gps_test_start`, `_stop`, `gps_at_command_test_proc` | `gps_state_thread`; the framework's calls |

The threads meet in five latched conditions, in plain flags that one of them polls, and
in a socket pair; the daemon MNLD is a second process that talks to them in datagrams
and may die. None of the EPO state has a lock. Hard behaviours: a stop is asynchronous
and over only when MNLD's death was handled; a latch released too often survives into
the next session; pieces of a file must belong together although the server's data
change between two of them; a `read()` may end anywhere in the text of a second;
counters of an AT test are compared for equality. Correct means: the wake lock is
balanced, the framework's last news are true, cleanup is in order and every call
returns; the file holds the right pieces; each report holds the satellites of one
second; a test ends, and its samples go to memory that is theirs.

### The other parts

| part | state and hard behaviour | why it is not modelled |
|---|---|---|
| `liblights` | three logical lights share one LED; the blink state is remembered in static variables | small and sequential, its calls are serialised by one lock |
| `libbt-vendor` | one descriptor, one library handle | called by a single thread of a closed stack |
| `atv` | binder clients of a service that may die | forwarding to a closed library; the one hazard is listed at `ATVCtrl.cpp:656` |
| `power`, `audio`, `memtrack`, `libxlog`, `libcorkscrew` | stateless forwarding, formatting, stubs | nothing to check |
| `wpa_supplicant` | text commands to netlink messages | the state is in the kernel and in wpa_supplicant |
| `gps/libepos` | prebuilt archives | no source |

Each component has an entry in `PROJECT.json`, and each hazard of this code is listed
there at its line.

## 2. Plan

Done, the most important behaviour first:

1. `MuxRing`, `MuxFrame`, `MuxFrameBasic`, `MuxRxAdv`, `MuxRxBasic`: receive path in both modes,
   with proofs; `ByteQueue`, the abstract specification of the ring, and the proof that
   the ring under either parser implements it.
2. `MuxRxFlow`: receive flow control, with proofs.
3. `MuxTx`: transmit path, with proofs.
4. `MuxSession`: session, control frames, end of the process, with proofs of `OneReader`
   (first session) and `DiscsAnswered` (every session).
5. `WifiCommands`: handler and command tables, commands, event loop, with proofs.
6. `GpsSession`, `GpsEpo`, `GpsNmea`, `GpsAt`: the GPS HAL, with proofs.

What could follow: the signal handlers of the daemon (`signal_treatment` against
`set_main_exit_signal`), the start and the end of the Wi-Fi event loop, inductive
invariants for `WholeView` of `GpsNmea` and for damaged lines of the two receive paths, a
composition of `MuxTx` with `MuxSession` (which share the kept lock only by `wf_stuck`), and `liblights`.

Modules meant for proofs hold no RECURSIVE operator; constants carry named assumptions;
invariants are conjunctions of named parts.

## 3. Modules

### ByteQueue, MuxRing, MuxFrame, MuxRxAdv, MC_MuxRxAdv

`MuxRing` models the ring and both wait loops. The modem's bytes are a fixed sequence
`line`; `sent` and `consumed` count what `read()` has returned and what the parser has
taken, so that every byte keeps its identity. One action is one access to shared state:
`RdRead` is the `read()` with the free space computed before it, `RdCopy` the one or two
`memcpy` of `gsm0710_buffer_write`, `RdCount` the update under `datacount_lock`,
`RdReady` the one under `newdataready_lock`, `RdSignal` the signal after the unlock.
`RdFull`, `RdSleep`, `RdResume` are the branch for the full ring. `AsWait`, `AsGo` are
the wait loop of `assemble_frame_thread`. `RdSpurious`, `AsSpurious` let both waits
return without a signal.

`ByteQueue` is what the ring promises: a bounded queue of bytes with one producer and
one consumer. `MuxRing` instantiates it with the published bytes as what was put and the
unread bytes, read out of `data` from `readp` on, as the queue; `ImplementsQueue` is
checked by the run `adv` and proved for both parsers.

`MuxRxAdv` adds the parser of the advanced mode. It reads one byte per action (`Consume`
is `gsm0710_buffer_inc` under its lock); the branch order of the code is in the guards.
`FrameOut` is the return of a frame to `extract_frames`, which wakes the reader.

`MuxFrame` is the encoder of `write_frame` in the advanced mode, which the peer uses
too. `MuxRxAdv` extends it: `Streams` are the sequences of frames that the modem may
send, `LineOf` what they are on the line, and `DeliveredInOrder` compares what the
parser delivers with the frames before they were encoded. `PeerAssumption` says what
this rests on: the complement undoes itself, no escaped symbol turns into a flag
(`gsm0710muxd.h:225`), and a frame fits the ring (`gsm0710muxd.h:53`).

Run: `adv` (pass). Bounds: a ring of 7 bytes, lines of two or three frames (up to 18
bytes, so that the ring wraps twice and fills up), eight byte values among them the
flag, the escape and both complements, payloads that must be escaped, a control byte and
a checksum that must be escaped; `OnlySentFrames` runs over a line of three frames that
has lost one flag, header or checksum byte, for each of them, and over a line that
starts with something longer than the ring that looks like a frame. A lost payload byte
is not among them: the checksum of a UIH frame covers its header only, so that the
protocol itself lets such a frame pass.

Two findings lie in the state space of this model. Room in the ring does not end the
reader's sleep, only a complete frame does: after something longer than the ring the
reader sleeps beside an empty one while the assembler polls (`PROJECT.json`,
`gsm0710muxd.c:2536`); `AllDelivered` therefore speaks of whole frames. And empty frames
are skipped only if `read()` does not end between their flags (`gsm0710muxd.c:1534`): a
line that starts with a frame of no bytes loses the frame behind it.

### MuxFrameBasic, MuxRxBasic, MC_MuxRxBasic

The parser of the basic mode on the ring of `MuxRing`. Only the hunt for the flag
(`FindFlag`, `SkipFlag`) takes bytes one by one. `CopyCounters` is the copy of `readp`
and `datacount`; the analysis reads through it (`At`), and its verdict (`RejectLong`,
`RejectDamaged`, `Accept`) is carried out under `datacount_lock` by `DropFrame` or
`TakeFrame`. The reader runs between any two of these steps; the analysis itself is one
step, because the bytes it reads are not written meanwhile (`RingIsQueue`, proved).
`depth_level` counts the recursion; at `MaxResync` the assertion of the release build
sets `asserted` and goes on with the variable uninitialised, for which the model takes
any value up to the limit.

`MuxFrameBasic` is the other branch of `write_frame`, the frame as the peer sends it.
`PeerAssumption` of `MuxRxBasic` says of the frames in `Streams` that no address is a
flag (DLCIs stay below 32, `gsm0710muxd.h:47`), that the length field is read back as
the length of the payload (`LengthSurvives` proves it of the code's arithmetic), and
that the payload keeps to the channel's N1.

Run: `basic` (pass). Bounds: a ring of 8 bytes, the longest legal frame behind its start
flag fills it; payloads with a flag in them, both forms of the length, a UI frame, whose
checksum covers the payload; lines of two frames, every line of three frames with one
byte lost, and noise with three false starts in a row, which reaches the assertion. The
checksum is collision-free here: a false match, one in 256 in the code, is a property of
the protocol.

`LossIsLocal` excludes lines that are not read to their end: after noise that leaves a
partial frame in a full ring nobody wakes the reader, as in the advanced mode. On the
cut lines TLC also meets the race listed in `PROJECT.json` at `gsm0710muxd.c:1285`:
`SkipDone` with an empty ring, new bytes, then `CopyCounters`, and a flag is taken for
an address.

### MuxRxFlow, MC_MuxRxFlow

One data channel. `rx` is the position of the assembler between the frame arriving
(`RxData`), the test of `rx_fc_off` (`RxPass`, `RxCache`, `RxDrop`), the write to the
pty (`RxWriteAll`, `RxWritePart`) and the start of a retry thread (`RxRemain`,
`RxTellOff`, `RxWait`, `RxSetOff`, `RxCreate`). `th[t]` is the position of retry thread
`t`. `tx_fc_off`, `rx_fc_off` and `rx_thread` are bit fields of one byte
(`gsm0710muxd.h:415`): an assignment is a load and a store (`flags`, `rxbyte`,
`thbyte`). Locks are held between the load and the store, but not the same lock for all
three.

`HangUp` is the end of the application: the thread that reads the pty closes the
descriptor, `AskReopen` sets `reopen`, and from then on any caller of `watchdog()` gives
the channel another pty. Until then a write of the assembler (`RxWriteError`) or of a
retry thread (`ThWriteError`) fails; it calls `watchdog()` itself if it finds `reopen`
set, asserts if it does not, and writes the same bytes again. So the bytes of one frame
may go to two ptys, and none is lost or repeated. The locks inside `watchdog()`, and
requests that cross each other there, belong to `MuxSession`; a channel that the modem
closes while a reopen is pending is not followed any further.

Runs: `flow` (pass), `bits` (violation). Bounds: three frames of one and two bytes, one
hang-up at any time (none in `bits`), watermark 4 (4096 in the code), three thread
identities (two may overlap, the third is free for the next start), one flow control
command of the modem, a close at any idle moment, a `pthread_create` that fails. The
payload positions are explicit in `out`, so that order and loss are visible byte by
byte. `OffHasPusher` and `AllWritten` are about channels that are `Quiet`: open, without
a failed thread creation and before the first flow control command of the modem;
`AllWritten` holds across the hang-up. The watermark counts every byte cached since the
list was started, written ones included, as the code does (a finding at
`gsm0710muxd_fc.c:221`). The run `bits` shows why the last condition is needed; a failed
`pthread_create` is only logged and the frames then stay in the list.

### MuxTx, MC_MuxTx

Two channels and the assembler. `pc[p]` is the position of a thread between `select()`,
the test of `tx_fc_off`, the read, and inside `write_frame`: in the basic mode three
writes (`WfPrefix`, `WfData`, `WfPostfix`), in the advanced mode `WfFill` of the shared
buffer and one `WfWrite`. `WfFault` is a write that fails or is short: a part of the
piece may have reached the line, and the lock stays taken. `Receive` is the modem, which
attributes what is on the line to the channel of the first address field.

Run: `tx` (pass). Bounds: two bytes per channel read at most two at a time, one channel
with frames of one byte, three flow control commands for any channel, one spurious
wakeup per stop, one close per channel, two retries (5 in the code). After a short write
the first retry waits for the lock its own thread holds (`WfFault` keeps
`write_frame_lock`), and no other thread sends any more: a finding at
`gsm0710muxd.c:605`, and the reason why `AllSent` excludes faults.

### MuxSession, MC_MuxSession

`watch_lock` admits one caller to `watchdog()`, so that one position `wd` serves for all
of them; `main`, `asm[s]` and `callers` tell who is inside or waits. One `Wd...` action
is one stretch of `watchdog()`, `open_serial_device`, `start_muxer`, `c_alloc_channel`,
`close_devices` or `shutdown_devices` between two points where another thread can see or
change what it works on. `Asm...` are the control frames of `extract_frames`. Threads of
a channel are counted (`poll[c]` on the channel's descriptor, `stale[c]` on one that
another thread closed). The modem answers a command by an entry in `line`, which the
serial reader moves to `inbox`. `Budgets` bounds what goes wrong.

`Write` is `write_frame`. It may fail, or be short, on a device that is open: it then
returns 0 with `write_frame_lock` locked, no caller here looks at that, and whoever
writes the next frame waits for the lock (`wf_stuck`), the pings under `watch_lock` and
the DISC commands under `ua_rsp_for_disc_lock` too, since `close_devices` is a loop of
writes (`WdDisc`, `WdDiscSend` for each channel, `WdDiscSent`).

A channel's thread reads after its `select()`, and in between another thread may have
closed the channel, or closed and reopened it. `HangUp` is a read that fails on the
descriptor the thread watches, `StaleRead` one of the descriptor that was taken away: of
-1, or of the one that came after it, which the stale thread then closes under the new
one. Both are an assertion if the channel is not open, and both ask for a reopen
(`ReadFails`, `Tell`) and end in `watchdog()`. `RetryWrite` is a retry thread of
`MuxRxFlow` that finds no descriptor, `AsmData` the assembler that does.

Run: `session` (pass). Bounds: two data channels and the control channel; command lines
with a ping and with a timeout, in the basic and in the advanced mode; two hang-ups, or
one hang-up and one thing that goes wrong after the first setup, or one thing that goes
wrong at any time (a failing system call, a failing write to the device, a refused or unanswered
SABM, any control frame that nobody asked for, a spurious wakeup, a retry thread without
a descriptor). One session: with `Sessions = 2` the
model shows three findings, that the count of acknowledgements is never reset, so that a
second channel setup does not end (`gsm0710muxd.c:2049`); that a channel which hangs up
while another one is being reopened is not signalled (`gsm0710muxd.c:3042`, seen with
one session as well); and that a pty hung up during a second channel setup gets two
readers (`gsm0710muxd.c:1112`). `OneReader` therefore is a statement about the first
session.

Where the properties say "after the first channel setup" (`rild_started`), the code
gives no such guarantee before: `watchdog()` waits for the setup without a timeout,
holding `watch_lock`. A refused channel (DM), a pty that cannot be opened, a close down
of the modem or an assertion during the setup leave `main()` there for ever. A frame for
a pty that waits to be reopened makes the assembler, which alone could end that wait,
call `watchdog()` itself.

`CloseHandled`, `AllReopened` and `ExitFollows` except `wf_stuck`: after one failed write
of a ping or of the first DISC the session does not close and `main()` does not leave (a
finding at `gsm0710muxd.c:605`); without the exception each of them fails in the run.
Until then they hold with all that goes wrong besides. `pty_trouble` marks histories in
which a pty could not be opened, or was asked for by the thread of a closed channel
before the RIL daemon was started.

### WifiCommands, MC_WifiCommands

Two threads: `api`, the framework's thread in one call at a time, and `loop`, the event
loop. A command is an object with a class (`kind`) and a reference count. What `start()`
and `cancel()` of a class do is a sequence of steps (`StartScan`, `CancelHotlist`, ...):
requests that the driver may refuse, each with what the code does then, registrations
and their removal. A change of the handler table is one step, since `cb_lock` is held;
the command table has no lock, so `wifi_register_cmd` is two steps (`RegisterWrite`,
`RegisterCount`) and `wifi_unregister_cmd` three (`ApiFind`, `ApiMove`, `ApiCountDown`,
and the same for the event loop). `Dispatch` is `internal_valid_message_handler` up to
the call of the handler, `Handle...` the handler's body, `LoopRelease` the `releaseRef`
behind it. The address of a deleted object is used again when nothing refers to it.

Run: `wifi` (pass). Bounds: three addresses (symmetric), two slots in the command table
and four handlers (64 each in the code), so that both arrays are full at times; commands
of all five kinds, one of each at a time; any request may be refused and any event
arrive at any time. Two constants exclude what the code gets wrong, and name it:
`MayRefuse` leaves out `"scan"`, whose undo registers a handler again instead of
removing it (`gscan.cpp:567`), and `Overlap = FALSE` keeps the two threads from being
inside the command table at the same time (`common.cpp:184`). With `"scan"` added
`HandlersAreLive` is violated, with `Overlap = TRUE` `RefsCountUsers`. A measurement
that found the table full (`rtt.cpp:609`) leaves its handler behind and later ones are
removed for the wrong command: `RttLost` excludes it from `HandlersAreLive`, the only
property it breaks, for the reference of the lost object is never given up.

### GpsSession, MC_GpsSession

`fw` is the framework's thread inside a call, `hal` is `gps_state_thread`. What a thread
does one store or callback after another is a script in `todo[t]`, taken a step at a
time, so that the two threads interleave between the store of a status and its report,
the wake lock and the flag. `cond` are the latches of `lock_for_sync`; `start`'s and
`stop`'s polling of `start_flag` are guards. `toMnld`, `fromMnld`, `control` and `nmea`
are what is under way. MNLD runs from a start to a stop and says when it died; it asks
for a callback of AGPS, NI or RIL only after the framework stored it. Messages that only
lead to one callback are members of `Kinds`.

Runs: `gps` (pass), `gpsstop` (violation). Bounds: two sessions with two starts in all,
one message of MNLD on its own (icon on, icon off, a measurement), two datagrams under
way in each direction; the device or the codec socket cannot be opened, any send fails,
MNLD dies while a session is up. Not among `Faults` in the runs is `"early"`, by which
MNLD dies while `start` is still storing its state, or asks before the callbacks are
there: none of it is handled by the code. `CallsReturn` and `StartedAgrees` are about
histories without a fault. `started` of `gps_state_thread` is static (line 430), so that
it survives the thread: `StartedAgrees` says that once the commands are read it is what
the framework asked for last (`navigating`), in the second session as in the first; a
stop that cannot be sent leaves it behind (a finding at line 4494). The sentences of a
session reach the framework whatever it is: `nmea_reader_set_callback` never silences
the reader. When the thread ends, what MNLD had still to say is lost with its socket
(`OnQuit`, `Says`); `gpsstop` shows that one fault, the death of MNLD between a
start and a stop, keeps `stop` from returning. `mixed` marks histories in which the
icon's reports of MNLD fall into a start. `CleanupInOrder` says what was reported before
`cleanup` quits the thread; it leaves out an icon that MNLD shows for somebody else and
one that the HAL is just taking away (`IconShown`). The second needs two messages of MNLD
on its own, one more than the run has: the proof asked for it.

### GpsEpo, MC_GpsEpo

`pc` is the EPO thread's place in a round of its loop: ask, fetch a piece, check that it
follows the piece before, advance or complete, retry, Wi-Fi trigger. A file is the
sequence of its pieces, a piece its first day and whether it is whole; a day is a
number, 0 the date of a missing file. `Alarm` is the retry timer, which `WaitRetry` arms or, if a call fails that
nobody looks at, loses; `Start...`, `Stop` and
`UpdateDone` what the framework's thread and `gps_state_thread` do to the same
variables, `NextDay`, `ServerUpdates`, `Network`, `Restart` the world. `hdat` and `edat`
are EPOHAL.DAT and EPO.DAT. The names of the specification (`EpoSpec`, `EpoNext`, and
`AtSpec` in `GpsAt`) leave room for `Gps_proofs`, which extends the three modules.

Run: `epo` (pass). Bounds: a download of two pieces (six days), two attempts at a piece
(ten in the code), four days, so that data expire and the server publishes anew during a
download. `Overlap = FALSE` keeps `start`, MNLD's answer and a restart of the process
from falling between a fetch and its check, `Truncated = FALSE` a piece from being cut
off: each breaks `PiecesInOrder` when set to TRUE (findings at `gps_mtk_aosp.c:2753` and
`:5337`). `DownloadSettles` excepts a lost timer, after which no retry is ever allowed
again (`:4723`).

### GpsNmea, MC_GpsNmea

The device writes the sentences of a second (`lines`) as pieces (`Write`; `cut` counts
those of the first sentence), the reader takes all that is there (`Read`) and hands them
one by one to `Addc` (`Fed`), of which the last one of a read carries the mark that makes
`Parse` report. `reader` is the `NmeaReader`, together with what the last report listed.
Both variants of the code, all systems (`"gnss"`) and GPS with GLONASS (`"gps"`), are
initial values of `gps_mode`.

Run: `nmea` (pass). Bounds: two pieces for a sentence, a line too long for the buffer,
two seconds, no satellite in view or five of them for three places of the list, one a
QZSS satellite that is ignored, one satellite for each GSV sentence (four in the code),
a reader up to three pieces late, a start, stops and a restart of the receiver between
reads. `WholeView` is about seconds that no read cut between two lines (`mixed`) and
whose last line could be parsed (`lost`). A `Backlog` beyond a second and `Interval = 2`
show the findings at `gps_mtk_aosp.c:2264` and `:3864`; a set of GSV sentences that a
read cuts between two lines (`:2408`) is in the run, MNLD writes line by line.

### GpsAt, MC_GpsAt

`t` is the state of the test as one record. The AT commands come from a socket that
`gps_state_thread` itself reads, between two reads of NMEA text, so that each is one
step; the framework's start and stop are taken as one step too, between two sentences
(the code has no lock for it: the finding at line 4453). `GsvSet` is the end of a set of GSV
sentences, `ReadEnds` the end of a read, at which a second is counted. A start or a stop
ends in one of three ways (`Outcomes`): MNLD is told, cannot be told, or the HAL is not
initialised; what the code has set or freed before it finds out stays so. `room` is
`Dev_CNr`, which a stop frees and does not reset.

Run: `at` (pass). Bounds: tests of up to three samples, three seconds without a sample
(20 in the code), four seconds counted, two sets with the satellite's number in a read.
Commands of both sides come in any order, at any time.

`RoomIsLive` holds in all of it: whenever samples may be stored, or the HAL itself would
stop a test (AT%GNSS=E, a start over another test, the end of a test), the room was made
and not freed since. The framework may stop a test that has ended by itself, and then
the room is freed twice (`TestStop` of `"freed"`, a finding at line 4453); that is a
call the HAL does not refuse, not one it makes.

`TestEnds` is about a test that is left alone. The ghost `alone` says when: nothing of an
earlier test was counted when it began, no command but a question came since, no read
held the satellite's number twice, and MNLD could be told of the end. Each of the four is
needed, and `TestEnds` fails without it: the first three because the end is found by
equality (findings at 3155, 4367 and 2254), which also lets samples run past the end of
their room; that the number of samples stays below n holds for a test alone only and is
not claimed.

## 4. What the runs show

| run | module | result | question |
|---|---|---|---|
| `adv` | MC_MuxRxAdv | holds | does the ring behave as a queue, and are frames delivered whole, in order, once, all of them? |
| `basic` | MC_MuxRxBasic | holds | the same for the basic mode, and what does a lost byte cost? |
| `flow` | MC_MuxRxFlow | holds | is the pty written in order, completely, by one thread, with a bounded list? |
| `bits` | MC_MuxRxFlow | violated | does the channel go on after a stop? Not if a command of the modem crosses the clearing of `rx_fc_off` in the shared byte |
| `tx` | MC_MuxTx | holds | do frames stay whole and bytes in order, under flow control and faults? |
| `session` | MC_MuxSession | holds | one reader per pty, close downs and assertions followed through, ptys reopened? |
| `wifi` | MC_WifiCommands | holds | does every event reach a live command, and is nothing released twice or left over? |
| `gps` | MC_GpsSession | holds | is the wake lock balanced, are reports true and cleanup in order, does every call return? |
| `gpsstop` | MC_GpsSession | violated | does `stop` return when MNLD has died? No: it polls `start_flag` for ever |
| `epo` | MC_GpsEpo | holds | does the file hold the right pieces in order, do retries go on in place, does a download settle? |
| `nmea` | MC_GpsNmea | holds | does a report hold the satellites of one second, and is nothing held back? |
| `at` | MC_GpsAt | holds | does a sample go to room that is not freed, and does a test left alone end? |

`PROJECT.json` quotes, under "findings", the comment, log line or usage text that the
code contradicts, with the lines that do it. Findings without a run were met while
modelling; each says by which constants or in which states of a run it can be seen.

### Fairness

Threads are pthreads: a thread that can run is run, so each thread's own actions have
weak fairness, taken together (a thread has one position). Not fair are the things
nobody owes the program: spurious wakeups, faults, hang-ups, frames the modem sends
unasked, leaving the muxing state. `watch_lock` is a mutex for which `main()` comes back
only after a sleep of five seconds; the other callers get it in the end, hence strong
fairness for them (`HelperCalls`, `AsmCalls`). In `MuxRxFlow` the thread that found its
pty hung up goes on to ask for another one, and the callers of `watchdog()` to open it
(`AskReopen`, `Watchdog`); the fairness of `ThWrite` stands for an application that reads its
pty, in `MuxTx` that of the writes for a modem
that reads the line.

`GpsSession`: the framework's thread inside a call, `gps_state_thread`, the EPO thread
and MNLD go on. `epoll_wait` is asked for fewer events than descriptors are registered
(line 3781), but the kernel hands out the ready ones in turn, so the control socket, the
NMEA device and MNLD's socket have weak fairness each. MNLD serves its
commands and, while it runs, writes sentences. The framework need not call anything.
`GpsEpo`: the thread and its timer. `GpsAt`: reads go on to end, and two seconds pass;
no fairness for commands. `bits` has no temporal property. `gpsstop` fails under the
fairness of `gps`. `WifiCommands` and `GpsNmea` are checked for safety only: the driver
owes no answer and the device no text.

## 5. Proofs

TLAPS proves, for every value of the constants that satisfies the named assumptions of
each module:

`MuxRing_proofs` holds the lemmas about the ring on which the proofs about both parsers
rest: each step of the serial reader and of the wait loop, and the taking of one byte,
keep `RingInv`; and the lemmas for the refinement: the unread bytes are a slice of the
line (`UnreadIsSlice`), so that a step which changes neither count is a stutter of the
queue (`QueueStays`), the count of copied bytes is a `Put` (`QueuePuts`), and taking n
bytes a `Take(n)` (`QueueTakes`).

`MuxRxAdv_proofs` (`TypeCorrect`, `RingIsAlwaysQueue`, `WakeupsAreKept`,
`RingImplementsQueue`): for every size of the ring, alphabet, set of lines and checksum.
`RingIsQueue` is not inductive: it speaks of the published bytes only, and the copy runs
before the count. The strengthening `Inv` adds where `writep` stands relative to `readp`
for each position of the reader, that the `Filled` slots, published or copied, hold the
bytes of the line in order, that a `read()` returns no more than was free, and that
`rdbuf` holds exactly the bytes of the line between `consumed + datacount` and `sent`.
The lemmas about positions in the ring (`WrapAgain`, `AheadOfWrap`) carry the step of
`RdCopy`. The two statements about wakeups need `WakeInv` in addition: when bytes are
published and `newdataready` is still 0 while the assembler tests or waits, the reader
is just about to set it.

`FramesInOrder`, in the same module, is `DeliveredInOrder` for whatever frames, bytes
and ring: over an undamaged line the parser delivers the frames that were sent, in
order, and drops none. The property says where the parser is only when it has just
delivered a frame, so it is not inductive. `FramesInv` says it at every byte: between
two frames, `consumed` is where the next encoded frame starts; inside one, `adv_data` is
the first characters of its contents and `consumed` lies behind their encodings, one
further when the escape of the next character has been read (`Parsed`). From the ring's
invariant the current byte is the next one of the line (`CurrentOfLine`), so that
`InsideIsNext` can say what it is: the flag when the frame is complete, otherwise the
escape, the complement or the character itself. No case is left in which the parser
would skip, give up or drop. That frames lie one behind the other on the line comes from
lemmas in `MuxRing_proofs` about a sequence made of parts (`FlattenConcat`, `PartLies`):
the library defines `FlattenSeq` by recursion over the sequence, and `SetInduction`, an
induction over a set of numbers rather than an operator, is what makes it accessible.

`MuxRxBasic_proofs` (`BasicTypeCorrect`, `BasicRingIsQueue`, `BasicWakeupsAreKept`,
`BasicRingImplementsQueue`): for every ring, frame length, N1 and checksum. In addition
to `RingInv` the invariant says that the copied count never exceeds `datacount` while
the analysis runs, and that a verdict takes no more than is there (`VerdictInv`);
`TakeOffInv` is the step that takes a whole frame. A wakeup counts as lost only for
bytes beyond `local_datacount`: a partial frame rightly waits.

`BasicFramesInOrder`, in the same module, is `DeliveredInOrder` of the basic mode, for
whatever frames, bytes, lengths and ring. Its invariant `FramesInv` is simpler than that
of the advanced mode, since a frame stays in the ring until all of it has been seen:
`consumed` is where a frame starts, or one behind it, and between the verdict and the
step that carries it out the verdict is that frame (`Behind`). The work is in the
analysis, which reads through copies of the counters while the reader goes on writing
(`InSight`), and finds every field at the offset it computes from the length field
(`Analysed`): the frame is not too long, and once all of it is there it is sound. So the
recursion never starts on an undamaged line and `asserted` stays FALSE.

`LengthSurvives`, in the same module, is about the length field of the basic mode
(`LengthField` as `write_frame` builds it, `LengthOf` as the parser reads it, both in
`MuxRxBasic`): all fifteen bits go through unchanged.

`MuxRxFlow_proofs` (`FlowTypeCorrect`, `OneWriterAtATime`, `ListNeverShared`,
`PtyStream`, `ListStaysBounded`, `OffIsTurnedOn`: all the safety properties of the run
`flow`): for every number of frames, frame lengths, watermark and any set of retry
threads. The code has no flag that says "a thread pushes": `rx_fc_off` does that work.
`IInv` therefore adds to `OnePusher` that `rx_fc_off` is set while a thread pushes or is
about to be created, in the byte and in every copy of it that some thread has loaded and
will store (`OffWhilePushing`): the lost updates on the byte can set the flag again,
which the run `bits` shows to be harmful, but never clear it. `Direct => NobodyPushes`
covers the assembler's way from the decision to write directly to the creation of the
thread. On `IInv` rest, in this order:

- `WaitInv`: a list that is not empty has flow control on, in the byte and in every
  loaded copy, except while the assembler is telling the modem so; a thread that is about
  to turn it off has seen the list empty, and no frame can have joined since.
- `CountInv`: `rx_fl_total` is never less than the bytes in the list, and a second frame
  joined only below the watermark. (`rx_fl_total` is not reduced while frames are taken
  off, so it is no count of the list.)
- `StreamInv`: what was accepted is what was written, then what the writer of the moment
  has in hand, then the list, with a case for each place where the frame in hand may be.
  A closed channel writes nothing, nor does one that is hung up, and what was written
  stays a prefix.
- `QuietInv`: without commands of the modem every store of the flag byte stores what is
  there, but for the bit it is for. This is why `OffHasPusher` has the premise `Quiet`.

The prover cannot instantiate an induction theorem, but it can use that `<` on the
numbers is well-founded: a set of numbers that contains 0 and the successor of each of
its members contains all of them (`SetInduction`), and a set can be named by a property.
What `FlattenSeq` does to `Append` and `Tail` is proved this way, and with it every
statement about streams of bytes.

`MuxTx_proofs` (`TxTypeCorrect`, `FramesStayWhole`, `StopsAfterOneRead`,
`ChannelBytesKept`: all the safety properties of the run `tx`): for every number of
channels, frame size and number of retries. `FramesWhole` speaks of the line; what makes
it inductive is who holds `write_frame_lock`: a thread inside `write_frame` does
(`Owned`), and what stands on the line unfinished comes from the holder (`TailOwned`).
After a fault the thread has left `write_frame` and the lock keeps its name for good,
which is why a half frame is never followed by another thread's. `Carried` bounds the
bytes that a frame may hold by those read and not yet written. `ReadDue` covers the one
read that a thread has already decided on when its channel is stopped.
`ChannelBytesKept` adds `OrderInv`: what stands on the line is composed of the pieces of
the frame of the thread that holds the lock (`LineComposed`), so that the byte stream of
a channel grows by exactly that frame when it is closed; the frame continues what the
modem has got (`Continues`); and `SendDue`, `Untried` and `FaultStops` tie the count of
bytes written to the stream over the error returns. Its hypothesis is `Retries > 1`
(`GSM0710_WRITE_RETRIES` is 5): with a single try the bytes of the frame that met the
fault would be counted as written and never sent.

`MuxSession_proofs` (`OneReaderPerPty`, `WaitEndsAnswered`): for every number of
channels. `OneReader` is for the first session (assumption `FirstSession`), since the
second one refutes it (section 3).
`FirstSetup` says that nobody is inside `watchdog()` while `watch_lock` is free and that
no channel waits to be reopened before the RIL daemon is started. `Descriptors`: each
channel has one thread if it has a descriptor and none otherwise; channels are allocated
one after the other; one that waits to be reopened has no descriptor until `watchdog()`
has just given it one. `LeastChannel` justifies the search for the next channel without
a descriptor. The disjunct `pty_trouble` covers a pty that could not be opened, after
which the property promises nothing. A stale thread that reads the new
descriptor closes it and leaves its reader without one (`StaleRead`), so that the counts
agree again. `DiscsAnswered` is for any number of sessions:
`DiscInv` says that while `close_devices` waits, a channel that was sent DISC and still
has a descriptor keeps `disc_ua_pending`: only the answer to the DISC resets that on an
open channel, and whatever closes the channel takes the descriptor too. Nobody opens one
meanwhile, because only `watchdog()` does and it keeps `watch_lock`.

`WifiCommands_proofs` (`RefsAreExact`, `WorkedOnStaysLive`, `HandlersStayLive`,
`TypesHold`: the three properties of the run `wifi`): for any number of objects, size of
the command table and of the handler array, and any requests refused. All need `~Overlap`,
`HandlersStayLive` also `"scan" \notin MayRefuse`; both are what the code gets wrong
(section 3). The argument has four layers, and each rests on those before it:

- `CountInv`: `RefsCountUsers` speaks of moments when nobody is inside the table.
  `Account` holds always: it counts for each object an owner (the part of the table in
  use, the thread that is about to enter it or took it out, or nobody when it was lost)
  and the handling of its event. `OneOwner` says that an object has one owner, `TableInv`
  that the used part of the table holds each command once, also between the `memmove` and
  the count.
- `RunInv`: why `start()` may go on without a lock after its command is in the table.
  Only the event loop could end it meanwhile, only if it is an RTT command, and an RTT
  command has no handler before the last step of its `start()`.
- `PlanInv`: the shape of what `start()` and `cancel()` have still to do (a start asks
  first and registers afterwards, a cancel reaches every unregistration whatever fails),
  and that the framework knows an id once.
- `Handlers`: each handler has a class, an owner of its command, and somebody who will
  remove it: the framework that knows the id, or the call under way. No event has two
  handlers, which is why removing the first one removes the right one.

`Gps_proofs` extends `GpsSession`, `GpsEpo`, `GpsAt` and `GpsNmea`, which share no
variable.

Sessions (`WakeLockIsBalanced`, `LastReportHolds`, `CleanupKeepsOrder`,
`StartedIsTrue`, `OnlyStoredAreCalled`: all the safety properties of the run `gps`):
for any number of sessions, starts, datagrams under way and messages of MNLD, and any
faults but `"early"` (`Orderly`), which the code does not handle (section 3). The two
threads interleave between the steps of their scripts, so the invariant `IInv` says
first where each thread is: at step i of script f, at step j of script h (`At`). On
these places rest

- `Session`: a session that is up, or on its way, is in exactly one place: the datagram
  MNL_CMD_START, MNLD, the datagram that MNLD died, or the script of that datagram. This
  is what keeps a session from being ended twice, and it needs that neither datagram is
  under way twice (`Once`).
- `Stopping` and `EpoEnds`: when the latches M_STOP and M_THREAD_EXIT can be set, which
  is why none is left for the next session; `Quitting`: QUIT is the last command in the
  socket pair.
- `Wake`: the wake lock as a function of the two places and `start_flag`.
- `Told`: what `sta` and `seen` are at each place. A start's reports may mix with the
  icon's; with MNLD's end they cannot.
- `Agreed`: without a fault `started` will be what the last command under way says
  (`Heading`), which is what the framework asked for last, and a thread that begins finds
  it cleared. That a stop is always sent before the thread is told to quit is the reason.
- `Stored`: an interface is marked open after its structure was filled in, and MNLD asks
  only for what was stored.

EPO (`FileInOrder`, `DownloadResumes`): for any length of a download, period, number of
retries and of days, under `EpoOrderly`, that is `Overlap = FALSE` and
`Truncated = FALSE`, as in the run `epo`; each of them refutes the properties when TRUE
(section 3). `Resumed`: the file holds the pieces that the counter counts, and one more
while a piece is checked. `Following`: no piece starts later than the server's present
data would have it, so that a piece appended starts where the one before ended, or
later, when the server has published since; that is what the check finds out.

AT test (`SamplesHaveRoom`): for every length of a test and every waiting time, commands
of both sides in any order, MNLD out of reach or the HAL not initialised at any of them,
and any number of sets in a read; nothing is assumed but the types of the constants.
`Live` adds to the property that a signal test which has begun is a signal test: the
reader ends only what some start made room for. A start makes room before it sets a mode
or a state (`StartKeeps`), and a stop either gets through, and then forgets mode and
state with the room, or changes neither (`StopKeeps`).

NMEA reader (`NothingLeftBehind`): for whatever satellites are in view, sizes of a line,
a sentence and the list, reporting interval, and cutting of the text into reads, with
nothing assumed about how late the reader is. A read ends with its last character, and
that one either is parsed with the mark set, after which `Located` and `Reported` have
emptied what was collected, or leaves a line begun, or belongs to a line that is lost
(`AddcSettles`). What makes this a proof are the two loops, over the characters of a
read and over the satellites of a sentence: that they run to any length (`FeedsExist`,
`UpdatesExist`) and keep the entries of the reader (`ReadSettles`,
`AllUpdatedKeepsFields`) is by induction over their counters. `NmeaInv` adds that only
pieces of sentences are written and collected.

Only model-checked: `WholeView` of `GpsNmea`, which needs what the loop over the
satellites computes and not only what it leaves alone, and which is false for a reader
that is late by more than a second; of the two receive paths `OnlySentFrames` and
`LossIsLocal`, which are about particular damaged lines of the MC modules, with checksums
that never match by accident; and liveness,
which is out of the prover's reach under fairness, as are ENABLED and RECURSIVE
operators. `TypeOK` of `MuxTx` leaves out `got`, the ghost of the bytes received; its
type is in `OrderInv`.

## 6. Not modelled

- Contents of messages: AT commands of the modem, checksums as arithmetic (an operator
  decides), signal bits of MSC other than flow control, port names; netlink attributes
  and results of the Wi-Fi HAL; coordinates and times of fixes.
- gsm0710muxd: the emulation of a socket line and the unit-test builds (`__MUX_UT__`);
  SIGTERM against SIGUSR2 and the alarm; `fsync` of the pty; the VT channel (number 0
  here: no frames are dropped for it in the model). The assembler of the first session
  survives a reset; the model has it (`asm[s]` per session), the runs have one session.
- wifi_hal: `wifi_initialize`, `wifi_cleanup` and the start and end of the event loop;
  `requestEvent`, which has no caller; one-shot
  queries, which register nothing.
- GPS HAL: `delete_aiding_data`, `set_position_mode`, `inject_*` and the AGPS calls,
  which only send a datagram; the SMS air test, which has no caller; MNLD itself, a
  closed program, of which each model holds what the HAL relies on.
- Exhaustion of memory. Several places of the code use the result of `malloc` unchecked.
- `liblights`, `libbt-vendor`, `atv`, `power`, `audio`, `memtrack`, `libxlog`,
  `libcorkscrew`, `wpa_supplicant`, `gps/libepos`: for the reasons in section 1.
