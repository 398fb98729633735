# HopToDesk for Windows XP: a verification project

HopToDesk is a remote-desktop program: one machine is controlled (the *host*),
another one controls it (the *viewer*).  This directory holds TLA+ models of the
program's concurrent core, the TLC configurations that check them on small
instances, and theorems about them that TLAPS checks for every instance.  All
paths below are relative to `src/src/` unless they say otherwise.

Run from this directory:

    tlc -workers 2 -config HostSession_portable.cfg HostSession
    tlc -workers 2 -config MCTemporaryPassword_headless.cfg MCTemporaryPassword
    tlc -workers 2 -config Terminal_programs.cfg Terminal
    tlc -workers 2 -config MCSessions.cfg MCSessions
    tlc -workers 2 -config MCRendezvous.cfg MCRendezvous
    tlapm HostSession_proofs.tla
    tlapm Sessions_proofs.tla

and so on for the other `.cfg` files and `*_proofs.tla` modules.  Four runs,
`MCTemporaryPassword_revived.cfg`, `MCTemporaryPassword_madeup.cfg`,
`Terminal_stuck.cfg` and `MCFileDownload_lost.cfg`, end in a counterexample on
purpose (sections 3.2, 3.3, 3.4).

## 1. Inventory

### 1.1 The system's parts

| Part | Code | State it keeps | Operations |
| --- | --- | --- | --- |
| Host session | `server.rs` | one thread per connection; `login_attempt`, `tfa_attempts`, `approval_cm_session`, the permissions of the session | handshake, login loop, approval, invitation, Switch Sides, second factor, permission gate, session loops, cleanup |
| Connection manager (CM) | `cm.rs`, `ui/cm.html` | a process per connection with the owner's dialog; `CM_ACCEPTED`, `CM_REJECTED`, `CM_DISCONNECT`, `CM_RESPONDED`, `CM_INVITE` | 200 ms timer, the buttons, the close of the window |
| Runtime directory | `cm.rs` 14-118 | files named after the connection | the only channel between host thread, dialog and tray |
| Tray watcher | `tray.rs` | the set of announcements already dealt with | looks every 500 ms, opens dialogs for the service |
| Installer, service | `install.rs` | files and services of the installation | install, uninstall, service start (both sweep the runtime directory) |
| Second factor | `auth_2fa.rs` | TOTP secret in the settings | enrol, verify |
| Configuration | `config.rs`, `ui_handler.rs`, `main.rs` | one file shared by service, window and command line | load (with retries), save, generation of the identity |
| Temporary password | `server.rs` 861-895 | failures in a row against the password on disk | count, rotate |
| Video and input loop | `server.rs` 938-1454, `input.rs`, `capture.rs`, `vpx.rs` | owner of the mouse, held keys, blocked input (global); display, clipboard, permissions (per session) | one turn: read messages, act, send a frame, look at the mailboxes |
| Privacy mode | `privacy.rs` | a window thread, `THREAD_ID`, `SWITCH`, `CAPTURE_LAYERED` | turn on with a time limit, turn off |
| Framed stream | `network.rs`, `crypto.rs` | two sequence numbers | send, receive with a read limit |
| File transfer | `file_transfer.rs`, `server.rs` 1978-2644, `remote.rs` | jobs on both sides | list, send, receive, digest, cancel, resume |
| Terminal | `terminal_service.rs` | a shell, three threads, two bounded channels per terminal | open, input, resize, pump, shut down |
| Signalling | `signal.rs`, `websocket.rs` | the state of the connection to the signal server, one incoming session | register, connect request, relay, health check |
| TURN relay | `turn.rs` | allocation and its lifetime | allocate, permit, refresh |
| Viewer | `client.rs`, `remote.rs`, `remote_handler.rs` | `ClientState`, queues to the window, the input stream | connection race, login, receive loop, uploads |
| File clipboard | `clipboard_file.rs`, `clipboard.rs` | global receive state, offered files | offer, request, answer, drop |
| Dashboard, HTTP, MCP, recording | `dashboard.rs`, `tls_client.rs`, `wininet.rs`, `mcp_server.rs`, `recording.rs` | settings | request and answer |
| Window toolkit | `src/wireui-xp` | a replacement of the Sciter engine | layout, style, script |

### 1.2 How they interact

* Signalling (or the direct listener, or a relay) hands a TCP stream to a new
  **host thread**, which owns the connection to the end.
* The host thread announces the connection by an **info file** and, unless it
  runs inside the Windows service, starts the **CM process**.  In the service
  the **tray** of the logged-on user sees the info file and starts it.
* The CM answers with an `accepted` or a `rejected` file, which the host thread
  polls: every turn of the approval wait, every turn of the invitation wait, and
  through `cm_disconnect_requested` at the top of a session loop, every 500 ms
  if the loop gets there (a turn of the terminal's loop may not end).  The host
  answers with `connected` and `ended`.
* Settings, chat, permissions and dashboard links travel through further
  one-slot files between the same two processes.
* The configuration file is shared by service, window and command line: each
  loads it whole, changes a field and saves it whole.
* Sessions of one host process share the mouse owner, the input block, the
  privacy window and the clipboard.

### 1.3 What is hard, and what makes each part correct

| Part | Hard behaviour | It is correct when |
| --- | --- | --- |
| Login | two parties are awaited at once, deadlines race answers, five ways in, two counters | nobody is served without a password, a token or the owner's word; every wait ends; attempts are limited |
| CM | acts in two halves of a tick, closes by button or frame, can be killed | a refusal stays one; one dialog per connection; the dialog goes when the connection does |
| Tray, service | restarts with live connections around | no dialog twice, none left over |
| Configuration, password | load-modify-save by three processes, reads that fail | a rotated password stays out; a save loses nothing it did not mean to change |
| Session loops | sessions share the mouse, the keyboard, privacy | what a session leaves behind is nobody else's, and nothing stays blocked |
| Privacy | a thread starts and ends under time limits | what the caller is told is what the screen shows, and it can be turned off |
| Stream | time limits inside a frame | messages arrive whole, in order, or the stream ends |
| Files, clipboard, terminal | jobs and channels at their limits | the copy equals the original or is not called done; nobody waits on everybody |
| Signalling, race | lost and late messages, losers of a race | one session per request, and the wait ends |

`PROJECT.json` lists every part under `components` and every hazard, at its
line, under `hazards`.

## 2. What is modelled

### 2.1 `HostSession`: a connection from the first byte to the last

`HostSession` models the thread that runs `run_session_public`, the CM process,
the tray watcher and the files between them.  Accesses to the directory that
another party can tell apart are separate steps, so that it may act in between;
everything else a handler does is in one action.

| State | In the code |
| --- | --- |
| `pc[c]` | the place in `run_session_public` (login loop, approval wait, invitation wait, 2FA loop, gate, session loop, cleanup) |
| `attempts`, `codes` | `login_attempt`, `tfa_attempts` |
| `approval` | `approval_cm_session` is `Some` |
| `granted`, `twofa` | what let the viewer in; what `get_2fa_secret` and `verify_code` said |
| `files[c]` | which of the files info, accepted, rejected, connected, ended, invite exist |
| `cm[c]` | the process: starting, running (between ticks), acting (between the halves of a tick), closing and withdrawing (after `run_app` returned), exited |
| `flags[c]`, `responded`, `inviteHeld` | the static flags of the buttons, `CM_RESPONDED`, `CM_INVITE` |
| `clicked` | history: the owner pressed Accept in this dialog |
| `hostUp`, `trayUp`, `spawned` | the processes, and the watcher's set |

Actions carry the names of what happens (`LoginEmptyPassword`,
`ApprovalAccepted`, `CmTickActs`, ...); `PROJECT.json` maps each to its lines.
The viewer's messages are inputs; those that leave the state alone are
stuttering steps.

A session is one of two kinds.  The loops of most (`session`) come back to their
top every turn.  The terminal's (`terminal`) leaves it for a `turn`, in which it
handles a message and pumps, and which need not end: a close, a second open or
a shutdown waits in `join` (`terminal_service.rs` 75-79), and the pump empties
the channels without a limit (534).  On its way out it drops its terminals
(`dropping`), with the same joins.  Why a join hangs is the subject of
`Terminal`; here it only may.

Spawning a process may fail, as it may in the code, where
only the log tells.

Deadlines are actions that may happen at any time while the thread waits: the
model has no clock, so whatever it shows holds for every speed of the clock.

### 2.2 `AccessGate`: the promise

`AccessGate` is what a reader of the product's description expects: the gate of
a connection is shut, opens at most once, only for a viewer with a basis (a
password, a token, or the owner's agreement given before) and a second factor
that is off or verified, and once closed stays closed.  `HostSession` defines
the mapping (`gateBar`, `basisBar`) and `GateSpec`; that it implements
`AccessGate` is checked by TLC and proved.

### 2.3 `TemporaryPassword`: the configuration file and the password in it

`TemporaryPassword` models everybody who loads or saves `HopToDesk.toml` because
of a password: host threads (at a login, at the rotation), the main window (its
start, its timer, the two commands that save) and `hoptodesk --password`.  A load
and the save that follows it are separate steps, since the file is locked only
while it is written (`write_config_file` opens it with `share_mode(0)`).

| State | In the code |
| --- | --- |
| `file` | the fields `password` and `permanent_password` on disk |
| `pc[t]`, `copy[t]` | the place of a host thread between login and rotation, and its `current_cfg`, `cfg_now` or `cfg` |
| `attempts`, `holder` | the static `ATTEMPTS` of `count_temporary_password_attempt`, and who holds its mutex |
| `ui` | `AppState.config`, the window's copy |
| `cli` | a running `hoptodesk --password` and the configuration it has loaded |
| `unattended` | the option `unattended-access` |
| `drawn` | how many temporary passwords exist; the next one is `drawn + 1` |
| `session`, `wrong`, `spared`, `madeUp`, `overtaken` | history: the password on disk at a session's login; wrong guesses in a row at each password; passwords to which the code gives no limit of guesses (section 3.2); passwords made up by failed reads; who holds a load that another save has overtaken |

`Load` and `Save` are `Config::load` and `Config::save` with their failures: a
load whose retries give up returns a made-up password and the mark
`read_failed`; a save of a marked copy does nothing; a save that fails is only
logged.  Passwords are numbered, which assumes that six random characters do
not repeat.  A password given on the command line counts as a new one.

### 2.4 `Terminal`: a shell, three threads and the loop that serves them

`Terminal` models the host thread inside `run_terminal_loop`, the two readers
and the writer that `spawn_terminal` starts, and the shell with a program it may
leave behind.  A thread's look at the flag, its wait and what it does after are
separate steps.

| State | In the code |
| --- | --- |
| `pc`, `after` | the place in one turn of the loop: reading a message, spawning, the four parts of `pump_outputs` (emptying the channel, polling the process, sending what was taken, telling of the end), joining; what follows a send or the joins |
| `open`, `exiting` | the entry of `sessions`; the flag of the same name, set together with the drop of `input_tx` |
| `shell`, `program` | `child`; a program that has inherited the pipes |
| `written`, `read`, `reader` | each pipe, how much of it was read, and the place of its reader |
| `queued`, `taken` | the output channel as the history of what was put in, and how much the loop has taken out; the channel holds the difference, at most `Capacity` |
| `shown` | how much of it the viewer was sent |
| `lines`, `writer` | the input channel and its thread |
| `status` | what the viewer was last told of the terminal |

The send to the viewer may fail, which ends the loop.

A chunk carries its pipe and its number there, so that a lost, doubled or
overtaken one shows.  The loop serves a map of terminals one after the other;
the model has one, which may be opened again while it is open.  A message of
keys yields an echo and any number of finished lines: the line editor between
keys and lines is not modelled, nor are the console calls behind Ctrl-C, after
which the shell goes on or has ended.

### 2.5 `PrivacyMode`: a window over the screen

`PrivacyMode` models `privacy.rs` and the places of the session loop that call
it.  Every privacy window has a thread; sessions and window threads share
`THREAD_ID`, `CAPTURE_LAYERED` and `TURNED_OFF_LOCALLY`.

| State | In the code |
| --- | --- |
| `session`, `made` | a session between messages, in one of the two waits of `turn_on` (`draining` up to 1 s, `waiting` up to 5 s), or over; the thread it waits for |
| `window`, `quit` | a window thread from its start through `create_privacy_window`, the message loop and the end; whether it has been told to quit |
| `threadId`, `captureLayered`, `offLocally` | the three statics |
| `told` | what the viewer last heard |
| `late` | history: a wait of `turn_on` has met its limit |

`SWITCH` is not a variable: it is held exactly while a session is in one of the
two waits.  A limit may strike at any moment of a wait.

### 2.6 `SharedInput`: mouse and keyboard among sessions

`SharedInput` models `claim_mouse` (a load, then a store), the injection that
follows, the keys each session thread remembers in `HELD_VKS` and
`HELD_SCANCODES`, `BlockInput` of Windows, the rights that the owner gives and
takes and the view-only switch of the viewer, and what `SessionEndGuard` does
one step after the other.  `raced` is history: two claims overlapped and one
store hid the other.  `release_mouse_owner` clears the owner and sends no
button-up (`server.rs` 949-951): a button that was down when its session ended
stays down, in the model as in the code.  Positions, the wheel and the lock of
the screen after a session are left out.

### 2.7 `FileDownload`, `FileUpload`: files in either direction

`FileDownload` has the window with its timer tick and its modal question, the
one element the answer goes through (`#ft-send-confirm`), the actions on their
way to the host, the host's jobs under `id * 1000 + file_num`, the announcement
of each file, and the blocks.  `FileUpload` has the window, the thread of each
job, the network thread that sends the `Receive` for it, and the host's
`write_jobs`.

| State | In the code |
| --- | --- |
| `tree` | what lies below the path of each job, chosen at the start |
| `ui` | what the window shows of a job: none, active, finished, failed |
| `known`, `offset`, `doneCount`, `drained`, `ticking`, `answer`, `cancel` | `FT_JOBS` with its counters, the responses of the tick under way, the elements of the page |
| `sendJobs`, `writeJobs` | the host's maps of the same names |
| `toHost`, `toViewer`, `actionsOut` | what is on its way, in order |
| `dest` | what is in each destination: the old content, or blocks of the source |
| `agreed`, `skipped`, `unwritten`, `shrunk`, `lost`, `unread`, `dropped` | history: what the user said and what failed, by file |

The properties name the cases in which the code gives no more, and nothing
else is excused:

* a download never ends if its list is empty, or holds an empty folder or a file
  gone by the time it is announced, if an answer was lost (section 3.4), or if
  the source became shorter;
* empty files are never created; a block that the viewer fails to write is only
  logged, and the job is still shown as finished;
* an upload ends with "finished" although a file could not be read to its end;
  its blocks are dropped if they overtake the `Receive`, since only a sleep of
  300 ms (`remote.rs` 1295) keeps them behind it;
* an upload replaces an old file without a question, and cancelling it stops
  neither its thread nor the host;
* a list may have more entries than `Stride`, which stands for the 1000 of the
  key `id * 1000 + file_num`: such an entry has the key of one of the next job's.
  A confirmation then reaches the other job's file, which is overwritten on the
  consent for the first; a block of an upload is written into the other job's
  file, and a `Done` ends the other job.  `Clashing` and `Clashes` are exactly the
  files and the jobs to which this can happen; without them
  `OverwriteOnlyWithConsent`, `DownloadFaithful`, `DownloadEnds`, `UploadFaithful`
  and `UploadEnds` all fail in the run below.

The refusal of unsafe names, resuming from an offset (this viewer never asks
for it), browsing, renaming and removing are left out.

### 2.8 `ClipboardFiles`: files copied here and pasted there

`ClipboardFiles` models `clipboard_file.rs` between a viewer whose user copies
or drops files and the host, which fetches them at once: the list, the names, and
then one question at a time for the size and the content of each file.

| State | In the code |
| --- | --- |
| `lists` | what has been copied; the last is `CLIP_FILES` |
| `recv` | `RECV_STATE`: the list, the current file, its offset, whether a size or content is awaited, and the folder |
| `folders`, `pasted` | the folders `hoptodesk_clip_*` and the one on the host's clipboard |
| `enabled` | the owner lets the clipboard through |
| `toHost`, `toViewer` | answers and questions on their way |
| `disturbed`, `spoiled` | history: copies that met another one, a refusal or a reset; files that could not be read or written |

`RECV_STATE` is one for the process and stays after the last file.  No answer
says which question it is for.  A copy made while another one is fetched
therefore makes two chains of questions run over one state: content may be taken
for a size and a size for content, and the fetch may ask past the end of a file
for ever, for an empty answer is not an error.  The model has all of it, with
content in units of the length of a size, so that each can be taken for the
other; `PasteFaithful` and `PasteEnds` excuse exactly such copies (`disturbed`),
and with them an answer to an old question that meets the state of a new copy:
of that they say nothing.  An unsafe name makes the host refuse the whole list,
silently.  That creating an empty file fails, which the code ignores
(`clipboard_file.rs` 583), is not modelled.

Only this direction is there: to a list from the host the viewer's program only
says that it has heard.  It is assumed that putting a folder onto the clipboard
succeeds and that two folders, named after milliseconds, differ.  The waits of a
drop and the text clipboard are left out.

### 2.9 `FramedStream`: messages in a stream of bytes

`FramedStream` models one direction of `network.rs`: the writer frames and seals
each message with its number, the reader reads a first byte, the rest of the
header, the body, and opens it with its own number.  A read may meet its limit
(1 to 500 ms in the session loops) before any byte, and what has been read of the
frame is gone; a write may meet its limit (10 s) after any byte, and callers
ignore the error (as in `client.rs` 998).  Bytes are places in the
stream; what a body says that does not begin and end with a message is not
modelled: encrypted it opens as nothing, in the clear it is garbage.  A header
that does not lie where one was written may say any length.

The handshake that switches the key on, the smaller limit before the login
(`PRE_LOGIN_MAX_FRAME_LEN`) and lengths beyond 2^30 - 1 are left out.

### 2.10 `Rendezvous`: how a viewer gets a stream

`Rendezvous` models the viewer's `open_peer_stream` with its race, the host's
signalling loop, and the TURN server as the viewer sees it.

| State | In the code |
| --- | --- |
| `online`, `breaks` | the host's connection to the signal server and its losses |
| `inbox` | what the server has for the host |
| `waiting` | the viewer for whose relay `handle_relay_connection` awaits `RelayReady` |
| `listener`, `relayed` | the listener that each request opens; the host's end of a relay |
| `stage`, `attempt`, `replies`, `target` | the viewer: its requests, the answers and the listener it was told of |
| `direct`, `turn` | the two connections that race |
| `unlucky`, `swallowed` | history: whom a limit or a network has failed; whose message the waiting host has read away |

While it waits for one relay the host reads every other message away, and it
takes the `RelayReady` of any viewer for the one it waits for (`signal.rs`
545-566).  What a session of the winning stream does
is not there: a listener's session sees the end of its stream and goes, which a
terminal's that hangs in a join (section 3.3) would not.
The health check, yielding to the service, the option stop-service,
the slot `incoming_session`, the choice between several TURN servers and the
STUN messages are left out.

### 2.11 `Sessions`, `MCSessions`: what sessions do, composed

`Sessions` composes `PrivacyMode` with instances of `SharedInput`,
`FileDownload`, `FileUpload`, `ClipboardFiles` and `FramedStream`, for any
sessions, keys, folders and messages.  The six share no variable: in the code,
too, none of them reads or writes the state of another, apart from
`SessionEndGuard`, which serves the first two in an order that neither notices.
A behaviour of all is then an interleaving of one of each, and a property of one
can neither be gained nor lost by the steps of another.  So the run takes the six
one by one: `scene` is chosen at the start, and only the steps of that scene are
taken.  `MCSessions` adds the folders and lists of the run.

### 2.12 Proof modules

The modules `*_proofs` hold the theorems, see section 4.

## 3. Runs

### 3.1 A connection and its gate

| Run | Asks | Bounds |
| --- | --- | --- |
| `host_portable` | The host spawns its dialogs itself. Types and counters; which connections leave their announcement behind; every wait of the login ends; a refusal ends the session, unless a terminal's hangs in a turn, and is never turned round; the gate is that of `AccessGate` | one connection, 5 logins, 5 codes (the limits of the code) |
| `host_service` | The tray opens the dialogs; service and tray crash, restart and sweep at any time. Nobody is served without consent; one dialog per connection; dialogs close | the same |

*Why one connection.*  Connections do not share files, dialogs or counters;
they share only `hostUp`, `trayUp` and `spawned`, of which a connection reads
its own element.  Every interaction of the model is between the parties of one
connection.  The theorems hold for any set of connections.

*Deadlock* is not checked: when the connection is over and the dialog closed,
the system has stopped, as it should.

*Fairness.*  `FairSpec` assumes that the host thread, once its deadline has
passed, looks at it (the waits of the login do so on every turn and every read in
them has a time limit), that cleanup runs on, and that the CM timer ticks.  For
the rejected file it assumes strong fairness: a loop that comes to its top again
and again with the file there sees it, for it looks every 500 ms.  Nothing is
assumed of the turns of a terminal's loop, nor of the joins when it drops its
terminals: both may last for ever.  Nothing is assumed of the viewer, the owner,
the tray, or the second-factor loop either, whose reads are limited but whose
number of turns is not.

*What the properties leave open on purpose.*
`StrayAnnouncementOnlyAfterApproval` says exactly which connections leave a
dialog behind that still shows a viewer: the ones let in from an open dialog
whose second factor or gate then failed, since those returns skip
`cleanup_cm_files`.  `RefusalEndsSession` has a way out for the installer, which
wipes the directory under a live host, and one for a terminal session that
stays in one turn for ever: its loop looks for the file between turns only
(`terminal_service.rs` 409-411), and section 3.3 shows that a turn can hang.  That
a session which has left its loop is also cleaned up is not claimed, for the same
reason.

### 3.2 The temporary password

All of them run `MCTemporaryPassword`, with two failures in a row instead of ten
and one permanent password besides none.

| Run | Asks | Bounds |
| --- | --- | --- |
| `password_headless` | No window. Types; wrong guesses in a row at a password are limited; a session's password dies with it | 2 threads, 4 passwords |
| `password_window` | With the window. The same limit of guesses; the permanent password is lost only to an overlap of load and save | 1 thread, 3 passwords |
| `password_failing` | No window, a file that fails. What a failed read made up is never saved | 2 threads, 4 passwords |
| `password_revived` | With the window, does a session's password stay out? *Violated* | 1 thread, 3 passwords |
| `password_made_up` | With the window and failing reads, does a made-up password stay out? *Violated* | 1 thread, 3 passwords |

*What the two violations say.*  The rotation at a session's end announces
"Password rotated" (`server.rs` 893), and a read that fails announces that what
it returns "will not be saved" (`config.rs` 174).  The window breaks both.  It
saves its whole copy of the configuration, and brings that copy up to date only
every ten seconds: setting the permanent password within that time writes the
rotated password back.  And the timer copies only the password out of a load,
not the mark `read_failed` that came with it.

*How many guesses.*  `MAX_CONSECUTIVE_FAILURES` suggests that ten wrong guesses
change the password.  The counter is kept for one password at a time, so each
host thread that has loaded a password before its replacement can set the
counter back once when it comes to count: `GuessesAreLimited` gives the bound,
ten for each thread, and TLC reaches it.  Guesses are counted in a row: a login
with the right password forgets the failures before it, as the code does.  The
property is no limit for every password, since the code has none for two kinds of
them, which `spared` collects and `GuessesAreLimited` leaves out:

* with unattended access, a full counter starts anew and the password stays
  (`server.rs` 886-888), so that it may be guessed at without end;
* a save that writes a replaced password back into the file, as the window may
  (`password_revived`), gives it a counter that starts anew.

It says nothing either of a file that cannot be read or written: then a rotation
does not reach the disk.

*Bounds.*  Two threads are the least that can overlap in the counter, and the
command line is a third actor in every run.  With two failures in a row the
counter has a value below its limit and reaches the limit; with four passwords
the guess bound of 4 is reached and a rotation overtakes another.  When the
passwords run out, steps that need a new one stop.  `wrong` stops counting one
above the bound that the property gives.  Threads are interchangeable: the runs
with two of them use that symmetry.

*Fairness.*  None: all properties are of safety, and the owner, the viewers, the
window and the command line may stop at any time.

*Deadlock* is not checked: the bound on passwords ends every behaviour.

### 3.3 A terminal

| Run | Asks | Bounds |
| --- | --- | --- |
| `terminal_programs` | Types and the channel's limit; no output is lost or overtaken on its way through the channel; what was taken out is sent before the next message is read and before the news of the end, also when a send fails or the shell dies between the two; the end of the shell is noticed; a shutdown ends unless it is stuck in one of two named ways | channel of 1, 2 chunks on each pipe, 1 message of keys, programs that outlive the shell |
| `terminal_stuck` | Does every shutdown end? *Violated* | channel of 2, 3 chunks on each pipe, no keys, no such programs |

*What the violation says.*  The loop announces that it is "killing" the
terminals it drops (`terminal_service.rs` 640), and to do so joins their
readers.  A reader that has found the channel full waits for room, which only
the loop can make: neither goes on, and the connection is never cleaned up.
`ShutdownEndsOrIsStuck` shows that this, and a program that keeps the pipes
after the shell was killed, are the only ways for a shutdown not to end.

*Bounds.*  A channel of one is full after one chunk, so that both readers and
the echo compete for room, and two chunks on each pipe are enough for one to
overtake another.  A new terminal starts with fresh counts, so the bounds are
for each terminal and not for the whole run.

*Fairness.*  `FairSpec` assumes that the loop takes its steps (its reads have a
limit of 50 ms) and that each thread which can go on does.  It assumes nothing
of the viewer, the shell and its programs, nor that a write to the shell
returns.  `ExitIsNoticed` needs the bound on output: the code empties the channel
without a limit, and readers that keep filling it would hold the loop.

*Deadlock* is not checked: the loop may be over, and the stuck shutdown is what
the two properties are about.

### 3.4 What sessions do, and how they begin

| Run | Asks | Bounds |
| --- | --- | --- |
| `sessions` | The screen: a cover can be lifted, the capture fits it, a viewer is not misled, the last session lifts it. Input: no key is stuck, a drag keeps its owner, nothing stays behind. Files: what is shown as finished is there, nothing is overwritten without consent, jobs end. Clipboard: what is pasted is what was copied, and can be pasted in the end. Stream: messages come out in order | two sessions, two window threads, one key; two jobs of up to two entries of up to two blocks, the second entry of the first with the key of the other job's file (`Stride` is 1); two copies of up to two entries; two messages with headers of one and two bytes |
| `rendezvous` | One stream for each viewer; an attempt succeeds unless a limit or a network has failed this viewer, or a message of its was read away; what a race leaves on the host goes away | two viewers, of which one asks twice, one loss of the signal server |
| `download_lost` | Is every answer of the user acted on? *Violated* | one job, two files that exist already |

*What the violation says.*  The window asks about every file that exists
already ("Choose No to skip this file", `ui/remote.html` 987) and puts the
answer into one hidden element (988), which the timer reads after it has dealt
with all the announcements it had drained.  Of two questions in one tick the
first answer is overwritten: the host neither sends nor skips that file, and the
job never ends.

*Bounds.*  Two sessions are the least that share anything; with two window
threads an old window goes while a new one comes.  The lists of files
(`SmallFetches`, `SmallUploads`, `SmallCopies`) are chosen so that each special case
of the code is there: a path that does not exist, an empty list, an empty folder,
an empty file, a file that exists already, two questions at once, a file of two
blocks, an unsafe name, a list without any file.  At most two messages are on
their way to the viewer of a download or the host of an upload; a sender then
waits, as it would for a full socket.  Two messages are enough for one to be
read out of step with the other; bodies of one, two and three bytes have the
shortest header, the next one, and a length that the reader refuses.
`MaxCopies = 2` lets a copy overtake another.  In `rendezvous` the first viewer
may ask again while a listener of its first request is still there, and the
second one is what the host's wait reads away.

*Fairness.*  Window threads run (Windows schedules them).  Of a download: the
timer ticks and the host's loop takes messages and sends blocks.  Of an upload:
the network thread, the window and the host run, and the thread of the upload,
which waits for the lock of the stream, gets it in the end.  That is strong
fairness and stands for a mutex that starves nobody for ever.  Of the clipboard:
both loops read what has arrived.  Of the rendezvous: every thread runs, every
wait has its limit, and the host connects again.  Of users one thing is assumed:
the question of a download is modal, and its user answers it in the end
(`ViewerStep`, which is weakly fair, includes the answer); without that no
download with a question ends.  What they answer, and whatever else users,
viewers and failures do, is never fair.

*What the excuses leave out.*  `CaptureFitsCover`, `CoverCanBeLifted`,
`ViewerNotMisled` and `CoverIsLifted` speak of runs in which no wait of `turn_on` met its limit
(`~late`): what an old thread does after it (`privacy.rs` 77) is excused.
`DragKeepsItsOwner` excuses two claims of which one store hid the other (`raced`),
the race in `claim_mouse` itself.  `AttemptSucceeds` excuses the viewers whose
request or news the waiting host has read away (`swallowed`).  In each of these
the code does fail, and the properties say that nothing else goes wrong.  The
hazards they leave uncovered are listed as such in `PROJECT.json`.

*Deadlock* is not checked in the three runs: sessions, jobs and attempts end.

## 4. Proofs

### 4.1 The gate

`HostSession_proofs` assumes only `ConstantsAssumption` (the two limits are
positive, `Service` is Boolean) and nothing of `Conns`, not even that it is
finite.

* **`IInv`** = `TypeOK`, `CountersHaveRoom`, `AcceptanceIsTheOwners`,
  `GrantedOnTheWay`.  `TypeOK` is not inductive: the counters need to know that
  a thread which may count once more is below its limit.  Consent is not
  inductive either: it rests on a chain from the button through the flag of the
  dialog and the accepted file to the host thread, and `AcceptanceIsTheOwners`
  states every link.
* **`DInv`** = what is true of a connection before it is announced and before
  its dialog opens, that only the service has a tray, and that a rejection is
  the last word a dialog writes.  It carries the facts about dialogs.

From them: `TypeCorrectness`, `Consent`, `Refinement` (each step of
`HostSession` is a step of `AccessGate` or a stutter), `StrayAnnouncement`,
`OneDialog`, `Refusal`.

*Only model-checked*: `LoginTerminates`, `RefusalEndsSession`, `DialogCloses`
(liveness under fairness is out of the prover's reach).

### 4.2 The temporary password

`TemporaryPassword_proofs` assumes only `PasswordAssumption`: positive limits, a
finite set of threads that are neither "cli" nor "ui", two switches.  Its
invariant `IInv` has five parts:

* `TypeOK`;
* `DrawnSoFar`: no password on disk, in the window or among the made-up ones is
  numbered above `drawn`.  A password that is drawn is therefore none of them;
* `LoadsAreFresh`: a load no save has overtaken still agrees with the file in
  the permanent password.  `PermanentPassword` follows from it;
* `NewestIsOnDisk`: without window and failures, nobody holds a password newer
  than the one on disk, and a thread that has rotated had an older one.  Every
  save then writes a new password, which is why `SessionPassword` holds although
  rotations overtake each other.  It is the invariant the window breaks;
* `NothingMadeUpOnDisk`.  `NothingMadeUp` follows from it.

`SessionPassword` and `NothingMadeUp` assume `~Window`, and `SessionPassword` a
file that does not fail: without these hypotheses the runs `password_revived`
and `password_made_up` refute them.

`GuessLimitHolds` (`GuessesAreLimited`) assumes a file that does not fail, and
needs a second invariant, `GInv`, which counts:

* `HolderRotates`: the mutex of the counter is held by one thread, which is on
  its way to a new password;
* `OnDisk`: of the password on disk, the wrong guesses and the room that the
  counter still leaves are within the bound, and the counter may have been set
  back once for each thread that has let go of a replaced password;
* `OffDisk`: a password that is not on disk can only be guessed by the threads
  that hold a copy of it, `Guessing(p)`; its wrong guesses and the number of those
  threads stay within the bound.

A thread that counts with a replaced password sets the shared counter back, which
gives the others `MaxFailures - 1` guesses more, but it lets go of its copy while
it does so: that is the sum over threads that bounds the guesses by
`GuessLimit`.  The threads must be finitely many; the library's facts about
cardinality (`FS_Subset`, `FS_RemoveElement`, `FS_Union`) do the counting.

Both ask nothing of the passwords in `spared`, to which `GuessesAreLimited` gives
no limit (section 3.2).

### 4.3 The terminal

`Terminal_proofs` assumes only `TerminalAssumption`: a channel that holds
something, and numbers for the bounds.  Its invariant `IInv` has four parts:

* `TypeOK`, with the limit of the channel;
* `Numbered`, which is `OutputInOrder` with the counting named: the chunk at a
  place has the number of chunks of its pipe up to there;
* `ReadIsQueuedOrHeld`: what a reader has read is what it has put into the
  channel, and one chunk more while it waits for room.  `OutputInOrder` is not
  inductive without it: it says which number the next chunk gets;
* `SendsInOrder`, which is `TakenIsShown` and what it rests on while the loop is
  between taking and sending: without a terminal, and when the loop is about to
  tell of the end, nothing has yet to be sent; a terminal that was reported as
  closed is being joined, so that no chunk is taken from it any more; and only a
  send and the joins have somewhere to return to.  The shell may die, and the send
  may fail, between any two of these steps.

From them `TypeCorrectness`, `Order` and `Shown`, for any capacity and any
amount of output.  Two lemmas about counts in a sequence (`CountAppended`,
`NumberedAppended`) carry the argument; the rest shows which steps touch the
channel.

*Only model-checked*: `ExitIsNoticed` and `ShutdownEndsOrIsStuck` (liveness).

### 4.4 The screen

The first part of `Sessions_proofs` is about `PrivacyMode` (`Sessions` extends it)
and assumes only `PrivacyAssumption` (no thread is 0).  The
invariant `IInv` is `TypeOK`, what a session that has not begun was told, and, as
long as no wait of `turn_on` has met its limit, `Orderly`: there is one switch
at a time, the thread that `THREAD_ID` names is the one whose window is there,
the maker of a window waits for it, and the capture leaves layered windows out
from before a window until after it.  None of its parts is inductive without the
others: that `THREAD_ID` names the right thread rests on the caller having waited
for the last one to go.  `CanBeLifted`, `Capture` and `Truthful` follow.  The
hypothesis `~late` is needed: after a limit an old thread may clear the number of
a new one (`privacy.rs` 77).

*Only model-checked*: `CoverIsLifted` (liveness).

### 4.5 Mouse and keyboard

The second part of `Sessions_proofs` is about `SharedInput` and assumes
`InputAssumption`.  Its `InputIInv` adds to the three
properties that the owner and the blocker live, that who holds the button began
by pressing it, `ClaimIsLegal` (a claim that was let in saw a mouse that was free or its own), and
`EndedHoldsNoKey` (a session whose keys have been released holds none any more).  From it `InputKeyboard`, `InputDrag` and `InputEnds`, for any
sessions and keys.

### 4.6 The stream

The third part of `Sessions_proofs` is about `FramedStream` and assumes
`StreamAssumption`: every length that is sent has a shortest header.  Its
`StreamIInv` has four parts:

* `TypeOK`;
* `FramesAreLaid`: frames lie one behind the other, none longer than its header
  says, and are numbered in that order;
* `NumbersAgree`: encrypted, the reader has opened as many as it has received,
  and received them in order.  It is what a lost place cannot break, since a body
  opens only with its own number;
* `InPlace`: as long as nothing was torn, every frame is whole, and the reader is
  inside the frame behind the last one it has received, with the head and the
  length of that one.

`InPlace` is not inductive without `FramesAreLaid`: that the reader sees the
right header needs that no other frame begins at the same place (`TheFrame`).
`StreamInStep` is `StreamKeepsItsPlace`, for any lengths of headers and bodies and any
number of messages.

### 4.7 Downloads

`FileDownload_proofs` assumes `DownloadAssumption`: finitely many jobs, which are
numbers, a stride of at least one, and folders that are lists of entries.
Nothing bounds the jobs, the entries, the blocks of a file or the stride, so
that keys of two jobs may clash.  Its `IInv` has parts of three kinds.

*Who has been asked what.*  `AskedOnce` (a job is asked for once),
`NothingAhead` (nothing is said of a job whose `Send` is still under way),
`ListsComeFirst` (its list comes before all else), `AboutFiles` (announced,
answered and sent are only files of the list), `WindowAgrees` (what the window
shows of a job that is known, or being cancelled), `OneTurnEach` (a file has one
question or one answer on its way), `HeldBack` (a file whose key does not clash is
not begun while its answer is on its way), `SkipsAreChosen`.

*The content.*

* `BlocksFlow`: of a file that was not skipped, failed to be written or clashes,
  the blocks on their way are those from the viewer's offset to the host's, in
  order, each once; nothing follows the end of the file; and what was written is
  the first `offset` blocks of it.  A confirmation sets the host's offset back to
  zero (`server.rs` 2401-2406).  That this repeats no block rests on `HeldBack`,
  and `HeldBack` on `OneTurnEach`.  When the list arrives the viewer sets its
  offset to zero (`remote.rs` 1013-1042), which `ListsComeFirst` shows to be no
  change.
* `EndsOnce`: an end (`Done` or `Error`) is said when the host's job goes away, so
  a file has a job or an end on its way, never both and never two ends.
* `EndsAreCounted`: `doneCount` and the number of files that are still open are
  together no more than the entries of the list.  The window shows a job as
  finished when the count reaches the length of the list; then no file of it is
  open, and by `BlocksFlow` a file that is not open has all its blocks written.
  The invariant does not say that every entry is counted: folders never are,
  which is why such a download does not end (section 2.7).

*Consent.*  `ConsentCarries`: whatever may lead to a write, an answer in the slot
or on its way, a confirmed job, a block, is about a file the user has agreed to
lose, that was not there, or that clashes.

From them `TypeCorrect`, `DownloadIsFaithful` and `OverwritesAreAgreed`.  The
induction over the sequences on their way uses a few lemmas about tails and
appended sequences (`TailOf` and the like), and one lemma, `Emits`, about what
every step of the host may add to `toViewer`: so the parts that only concern the
order of messages are shown once for all of them.

*Only model-checked*: `DownloadEnds` (liveness).

### 4.8 Uploads

`FileUpload_proofs` assumes `UploadAssumption`: jobs are numbers, the stride is at
least one, the queue to the host has room for one message, and a list has at most
`MaxEntries` entries, which may be more than the stride.  Neither the number of
jobs nor the blocks of a file are bounded.  The proof is not that of section 4.7
over again: nothing is asked and nothing confirmed, the thread of a job does not
wait for its announcement, and what the host says at the end is the only thing the
window learns.  `IInv` has eight parts beside `TypeOK`:

* `ThreadsAreSound`: a thread is at an entry of its list, with no more blocks sent
  than the file has, or behind the last entry;
* `MessagesAreSound`, `JobsAreSound`: what is on its way, and what the host keeps,
  is of jobs that were begun and files of their lists, and a file is written no
  further on than where it ends so far;
* `ReceivedOnce`: a job is announced once, and the host has no file of it before.
  A second announcement would set the offsets back to zero (`server.rs`
  2230-2265) in the middle of the blocks;
* `ReceivedAtOnce`: if the host has one file of a job that does not clash, it has
  all, so that a block can only overtake the announcement, never half of it;
* `DoneIsLast`: behind the `Done` of a thread nothing of that job is on its way to
  the host but, if it was overtaken, the announcement;
* `EndsAreLast`: when the host has said `Done` of a job that does not clash, or the
  window shows it as finished, the thread has nothing more to say and no error
  follows; the host's files of a job are open until then, unless something
  went wrong with it;
* `BlocksFlow`: of a file that does not clash, was read to its end, met no error and
  no cancel, and had no block dropped, the blocks on their way are those between the
  host's offset and the thread's, in order and each once, and the host has the ones
  before.

`BlocksFlow` is what `UploadFaithful` needs: a finished upload has a thread behind
its last entry and, by `EndsAreLast`, no block on its way, so that the host's offset
is the size of the file.  It is not inductive alone.  The step that could break it is
the host's turn.  A block of the file must be written, not ignored and not failed
(`HeadIsWritten`): an ignored one would be of a file that is closed, and
`EndsAreLast` says that a closed file has no block on its way.  And a block of
another file must leave this one alone (`OwnKey`, `WritesOnlyItsOwn`), which is where
the clash of the keys `id * 1000 + file_num` enters.  From the invariant `TypeCorrect` and `UploadIsFaithful`.

*Only model-checked*: `UploadEnds` (liveness).

### 4.9 Pasted files

`ClipboardFiles_proofs` assumes `ClipboardAssumption`: what is copied is a list of
entries that is not empty.  Nothing bounds the lists, the sizes or the number of
copies.  No answer of the protocol says which question it is for
(`clipboard_file.rs` 534), so that the invariant has to say what the messages
do not:

* `Shape`: the state of the host belongs to a folder whose list has the same
  names, and stands at a file of it;
* `NamesAreCopies`: names that are on their way are of the latest copy, or of one
  that was disturbed, and then the latest was, too;
* `OneAtATime`: while nothing has met the latest copy, one message is on its way
  at most.  This is what stands in for a number in the answer;
* `Chain`: while nothing has met the latest copy and something about content is on
  its way, the host's state is of that copy, its folder is not pasted yet and holds
  every file before the one it stands at, the first `offset` units of that one and
  nothing behind it, and the message is the question the state stands at or the
  answer to it;
* `OldLeftAlone`: about a state that an earlier, undisturbed copy has left behind
  nothing is asked or answered, so that its folder stays what it was when it was
  pasted.

`PasteFaithful` is not inductive without `Chain` (that the folder is complete when
`advance_to_next_file` puts it on the clipboard) and `OldLeftAlone` (that nobody
writes to it after that).  From them `TypeCorrect` and `PasteIsFaithful`.

*Only model-checked*: `PasteEnds` (liveness).

### 4.10 The composition

The last part of `Sessions_proofs` shows that each behaviour of the composed
specification is one of `PrivacyMode`, one of `SharedInput`, one of
`FileDownload`, one of `FileUpload`, one of `ClipboardFiles` and one of
`FramedStream` (`Composition`), and carries their theorems over: `Types`,
`Keyboard`, `Drag`, `Ends`, `Downloads`, `Overwrites`, `Uploads`, `Pastes`,
`InStep`.  `Composition` is a lemma and no result about the code: it follows from
the shape of `SessionsNext`.  That the parts may be composed in this way, because
in the code none touches the state of another, is what section 2.11 argues.  Its only assumption is
`SessionsAssumption`, the assumptions of the parts.

### 4.11 The rendezvous

`Rendezvous_proofs` assumes `RendezvousAssumption`.  The invariant is `TypeOK`,
that nothing is connected before the race, that the listener behind a direct
stream serves it, and `OneStream`.  From it `SingleStream` and
`DirectStreamIsServed`, for any viewers, numbers of requests and losses.

*Only model-checked*: `AttemptSucceeds` and `NothingLeftOnHost` (liveness).

### 4.12 What is only model-checked

Every invariant that a passing run checks is also proved, and so is every action
property, for every value of the constants.  What stays with TLC are the
liveness properties named above, since fairness is out of the prover's reach:
they hold for the bounds of section 3.

## 5. What is not modelled

* **Data.** The content of messages, the cryptography, the arithmetic of TOTP,
  the video (capture, encoding, pacing), the recording and everything that is one
  system call.
* **The identity** (its generation on a first start, import, `--changeid`) and the
  rest of the configuration store.  A crash in the middle of a save would need the
  file in pieces; a save is one step here.
* **Mailboxes.** Permissions, chat and dashboard link travel in files of one slot,
  which are overwritten and lost without anybody's promise that they are not; the
  models take a permission as an input that may change at any time.
* **Host beside tray.** `HostSession` fixes for a run who opens the dialogs; a
  portable host that outlives an installation, with a tray beside it, is left out.
* **Switch Sides tokens** are an input of the login: `take_switch_sides` reads a
  file and then removes it, so that two connections may use one token.
* **Port forwarding**: two copies between two sockets; nothing is shared but the
  end of either.
* **The terminal's line editor**, and more than one terminal in a session.
* **Signalling** beyond section 2.10, and the viewer's side of the login.
* **Dashboard, HTTP, MCP server**: request and answer, nothing kept in between.
* **Tables and toolkit.** 46 translation tables in `src/src/lang/` and the window
  toolkit in `src/wireui-xp` are most of the repository's lines.  The tables have no
  behaviour.  The toolkit is independent of the protocol, and a handler of a page is
  one step of a model.

`PROJECT.json` lists these under `components` with their reasons, and under
`hazards` those that no property covers, each with the reason.
