---------------------------- MODULE HostSession ----------------------------
(***************************************************************************)
(* One incoming connection on the machine being controlled, from the first *)
(* byte to the last: the host thread that runs run_session_public, the     *)
(* connection-manager (CM) process that asks the owner of the machine, and *)
(* the runtime directory through which the two talk.                       *)
(*                                                                         *)
(* The host thread and the CM process share nothing but the presence of    *)
(* files named after the connection: "info" announces it, "accepted" and   *)
(* "rejected" are the owner's answers, "connected" and "ended" the host's  *)
(* news, "invite" marks an invitation.  Accesses that the other side could *)
(* tell apart are steps of their own, so that it may act between them.     *)
(*                                                                         *)
(* Messages of the viewer are inputs: any message may arrive whenever the  *)
(* host reads.  Messages that leave the state alone (keepalives, malformed *)
(* frames, a wrong password while the CM is open) are stuttering steps.    *)
(*                                                                         *)
(* An operator whose name ends in _Slip is a plausible mistake in the      *)
(* definition that follows it; no specification uses it.                   *)
(***************************************************************************)
EXTENDS Naturals, FiniteSets

CONSTANTS
    Conns,              \* the connections that may arrive
    MaxLoginAttempts,   \* LoginRequests a viewer gets (5 in the code)
    MaxTwoFaAttempts,   \* 2FA codes a viewer gets (5 in the code)
    Service             \* TRUE: the host is the Windows service, whose dialogs
                        \* the tray of the logged-on user opens

ASSUME ConstantsAssumption ==
    /\ MaxLoginAttempts \in Nat \ {0}
    /\ MaxTwoFaAttempts \in Nat \ {0}
    /\ Service \in BOOLEAN

VARIABLES
    hostUp,     \* the process that serves connections is running
    pc,         \* where the thread of each connection is
    attempts,   \* login_attempt
    codes,      \* tfa_attempts
    approval,   \* the connections whose approval_cm_session is Some
    granted,    \* what the login rests on
    twofa,      \* what get_2fa_secret answered, and whether a code was verified
    files,      \* the files of each connection in the runtime directory
    cm,         \* the CM process of each connection
    flags,      \* the buttons pressed since its last timer tick
    responded,  \* the connections whose dialog has CM_RESPONDED set
    inviteHeld, \* the connections whose dialog holds an invitation in CM_INVITE
    clicked,    \* history: the connections whose dialog saw the owner press Accept
    trayUp,     \* the tray of the logged-on user is running
    spawned     \* the connections its watcher has dealt with

hostVars == <<hostUp, pc, attempts, codes, approval, granted, twofa>>
cmVars   == <<cm, flags, responded, inviteHeld, clicked>>
trayVars == <<trayUp, spawned>>
vars     == <<hostVars, files, cmVars, trayVars>>

FileKinds == {"info", "accepted", "rejected", "connected", "ended", "invite"}
Grants    == {"none", "password", "approved", "switch", "invited"}

\* Where a thread waits for the viewer or for the owner's answer.
Waiting == {"handshake", "login", "approval", "invite", "auth2fa"}

\* The top of a session's loop, where it looks for the rejected file: that of
\* the terminal service and that of every other kind of session.
SessionLoops == {"session", "terminal"}

\* Where the owner's machine is at the viewer's disposal.  "turn" is the rest of
\* a turn of the terminal's loop: it may shut a terminal down, or empty the
\* output of one that never stops, and need not come to an end (see Terminal).
Serving == {"opening", "turn"} \cup SessionLoops

\* Where the thread is on its way out through cleanup_cm_files.  "dropping" is
\* the terminal service shutting down the terminals it has left.
Leaving == {"dropping", "cleanup", "ending"}

PCs == {"idle", "granted", "gate", "done", "crashed"} \cup Waiting \cup Serving \cup Leaving

Dialogs == {"none", "starting", "running", "acting", "closing", "withdrawing", "exited"}
Buttons == {"accept", "reject", "disconnect"}

TypeOK ==
    /\ hostUp \in BOOLEAN
    /\ pc \in [Conns -> PCs]
    /\ attempts \in [Conns -> 0 .. MaxLoginAttempts]
    /\ codes \in [Conns -> 0 .. MaxTwoFaAttempts]
    /\ approval \in SUBSET Conns
    /\ granted \in [Conns -> Grants]
    /\ twofa \in [Conns -> {"unread", "off", "required", "verified"}]
    /\ files \in [Conns -> SUBSET FileKinds]
    /\ cm \in [Conns -> Dialogs]
    /\ flags \in [Conns -> SUBSET Buttons]
    /\ responded \in SUBSET Conns
    /\ inviteHeld \in SUBSET Conns
    /\ clicked \in SUBSET Conns
    /\ trayUp \in BOOLEAN
    /\ spawned \in SUBSET Conns

Init ==
    /\ hostUp = TRUE
    /\ pc = [c \in Conns |-> "idle"]
    /\ attempts = [c \in Conns |-> 0]
    /\ codes = [c \in Conns |-> 0]
    /\ approval = {}
    /\ granted = [c \in Conns |-> "none"]
    /\ twofa = [c \in Conns |-> "unread"]
    /\ files = [c \in Conns |-> {}]
    /\ cm = [c \in Conns |-> "none"]
    /\ flags = [c \in Conns |-> {}]
    /\ responded = {}
    /\ inviteHeld = {}
    /\ clicked = {}
    /\ trayUp = Service
    /\ spawned = {}

Goto(c, from, to) ==
    /\ pc[c] = from
    /\ pc' = [pc EXCEPT ![c] = to]

-----------------------------------------------------------------------------
(* The runtime directory. *)

WriteFiles(c, fs) == files' = [files EXCEPT ![c] = @ \cup fs]
RemoveFiles(c, fs) == files' = [files EXCEPT ![c] = @ \ fs]

\* Any answer counts as a yes.
CmAccepted_Slip(c) == files[c] \cap {"accepted", "rejected"} # {}

\* check_cm_response looks for the accepted file first.
CmAccepted(c) == "accepted" \in files[c]
CmRejected(c) == "accepted" \notin files[c] /\ "rejected" \in files[c]

\* spawn_cm_process: the service leaves the dialog to the tray; otherwise the
\* process starts, or the spawn fails and nothing but the log tells.
SpawnCmProcess(c) ==
    IF Service THEN UNCHANGED cm
    ELSE \/ cm' = [cm EXCEPT ![c] = "starting"]
         \/ UNCHANGED cm

-----------------------------------------------------------------------------
(* Handshake and login. *)

AcceptConnection(c) ==
    /\ hostUp
    /\ Goto(c, "idle", "handshake")
    /\ UNCHANGED <<hostUp, attempts, codes, approval, granted, twofa, files, cmVars, trayVars>>

HandshakeDone(c) ==
    /\ Goto(c, "handshake", "login")
    /\ UNCHANGED <<hostUp, attempts, codes, approval, granted, twofa, files, cmVars, trayVars>>

\* A read or a write fails, or the read times out after 30 s.
HandshakeFails(c) ==
    /\ Goto(c, "handshake", "done")
    /\ UNCHANGED <<hostUp, attempts, codes, approval, granted, twofa, files, cmVars, trayVars>>

\* login_deadline, looked at in every turn of the login loop.
LoginDeadline(c) ==
    /\ Goto(c, "login", "done")
    /\ UNCHANGED <<hostUp, attempts, codes, approval, granted, twofa, files, cmVars, trayVars>>

\* The viewer goes away, or presents a Switch Sides token that is refused.
LoginAbandoned(c) ==
    /\ Goto(c, "login", "done")
    /\ UNCHANGED <<hostUp, attempts, codes, approval, granted, twofa, files, cmVars, trayVars>>

LoginRightPassword(c) ==
    /\ Goto(c, "login", "granted")
    /\ attempts' = [attempts EXCEPT ![c] = @ + 1]
    /\ granted' = [granted EXCEPT ![c] = "password"]
    /\ UNCHANGED <<hostUp, codes, approval, twofa, files, cmVars, trayVars>>

\* The attempts are not limited.
LoginWrongPassword_Slip(c) ==
    /\ pc[c] = "login"
    /\ attempts' = [attempts EXCEPT ![c] = @ + 1]
    /\ UNCHANGED <<hostUp, pc, codes, approval, granted, twofa, files, cmVars, trayVars>>

\* The error reply may fail to go out, which ends the thread as well.
LoginWrongPassword(c) ==
    /\ pc[c] = "login"
    /\ attempts' = [attempts EXCEPT ![c] = @ + 1]
    /\ \/ attempts[c] + 1 < MaxLoginAttempts /\ UNCHANGED pc
       \/ pc' = [pc EXCEPT ![c] = "done"]
    /\ UNCHANGED <<hostUp, codes, approval, granted, twofa, files, cmVars, trayVars>>

\* An empty password asks the owner: the CM dialog opens on the info file.
LoginEmptyPassword(c) ==
    /\ Goto(c, "login", "approval")
    /\ attempts' = [attempts EXCEPT ![c] = @ + 1]
    /\ approval' = approval \cup {c}
    /\ WriteFiles(c, {"info"})
    /\ SpawnCmProcess(c)
    /\ UNCHANGED <<hostUp, codes, granted, twofa, flags, responded, inviteHeld, clicked, trayVars>>

\* take_switch_sides found the token this machine recorded for that peer.
SwitchSidesAccepted(c) ==
    /\ Goto(c, "login", "granted")
    /\ granted' = [granted EXCEPT ![c] = "switch"]
    /\ UNCHANGED <<hostUp, attempts, codes, approval, twofa, files, cmVars, trayVars>>

\* An invitation: the marker goes in before the info file that announces it.
InviteReceived(c) ==
    /\ Goto(c, "login", "invite")
    /\ WriteFiles(c, {"invite", "info"})
    /\ SpawnCmProcess(c)
    /\ UNCHANGED <<hostUp, attempts, codes, approval, granted, twofa,
                   flags, responded, inviteHeld, clicked, trayVars>>

-----------------------------------------------------------------------------
(* Waiting for the owner. *)

\* The deadline is looked at only when the owner has answered.
ApprovalDeadline_Slip(c) ==
    /\ CmAccepted(c) \/ CmRejected(c)
    /\ Goto(c, "approval", "cleanup")
    /\ UNCHANGED <<hostUp, attempts, codes, approval, granted, twofa, files, cmVars, trayVars>>

ApprovalDeadline(c) ==
    /\ Goto(c, "approval", "cleanup")
    /\ UNCHANGED <<hostUp, attempts, codes, approval, granted, twofa, files, cmVars, trayVars>>

ApprovalViewerLeft(c) ==
    /\ Goto(c, "approval", "cleanup")
    /\ UNCHANGED <<hostUp, attempts, codes, approval, granted, twofa, files, cmVars, trayVars>>

\* The viewer sends the right password while the dialog is open.
ApprovalRightPassword(c) ==
    /\ Goto(c, "approval", "granted")
    /\ granted' = [granted EXCEPT ![c] = "password"]
    /\ WriteFiles(c, {"connected"})
    /\ UNCHANGED <<hostUp, attempts, codes, approval, twofa, cmVars, trayVars>>

ApprovalAccepted(c) ==
    /\ CmAccepted(c)
    /\ Goto(c, "approval", "granted")
    /\ granted' = [granted EXCEPT ![c] = "approved"]
    /\ WriteFiles(c, {"connected"})
    /\ UNCHANGED <<hostUp, attempts, codes, approval, twofa, cmVars, trayVars>>

ApprovalRejected(c) ==
    /\ CmRejected(c)
    /\ Goto(c, "approval", "cleanup")
    /\ UNCHANGED <<hostUp, attempts, codes, approval, granted, twofa, files, cmVars, trayVars>>

\* The deadline passes or the inviter goes away: declined, whatever is on disk.
InviteDeadline(c) ==
    /\ Goto(c, "invite", "cleanup")
    /\ UNCHANGED <<hostUp, attempts, codes, approval, granted, twofa, files, cmVars, trayVars>>

InviteAnswered(c) ==
    /\ Goto(c, "invite", "cleanup")
    /\ \/ CmAccepted(c) /\ granted' = [granted EXCEPT ![c] = "invited"]
       \/ CmRejected(c) /\ UNCHANGED granted
    /\ UNCHANGED <<hostUp, attempts, codes, approval, twofa, files, cmVars, trayVars>>

-----------------------------------------------------------------------------
(* Second factor and permissions. *)

\* Whom the owner let in is not asked for a code.
ReadTwoFa_Slip(c) ==
    /\ \/ /\ Goto(c, "granted", "gate")
          /\ twofa' = IF c \in approval THEN twofa ELSE [twofa EXCEPT ![c] = "off"]
       \/ Goto(c, "granted", "auth2fa") /\ twofa' = [twofa EXCEPT ![c] = "required"]
    /\ UNCHANGED <<hostUp, attempts, codes, approval, granted, files, cmVars, trayVars>>

\* get_2fa_secret reads the settings as they are now.
ReadTwoFa(c) ==
    /\ \/ Goto(c, "granted", "gate") /\ twofa' = [twofa EXCEPT ![c] = "off"]
       \/ Goto(c, "granted", "auth2fa") /\ twofa' = [twofa EXCEPT ![c] = "required"]
    /\ UNCHANGED <<hostUp, attempts, codes, approval, granted, files, cmVars, trayVars>>

TwoFaRightCode(c) ==
    /\ Goto(c, "auth2fa", "gate")
    /\ codes' = [codes EXCEPT ![c] = @ + 1]
    /\ twofa' = [twofa EXCEPT ![c] = "verified"]
    /\ UNCHANGED <<hostUp, attempts, approval, granted, files, cmVars, trayVars>>

TwoFaWrongCode(c) ==
    /\ pc[c] = "auth2fa"
    /\ codes' = [codes EXCEPT ![c] = @ + 1]
    /\ \/ codes[c] + 1 < MaxTwoFaAttempts /\ UNCHANGED pc
       \/ pc' = [pc EXCEPT ![c] = "done"]
    /\ UNCHANGED <<hostUp, attempts, approval, granted, twofa, files, cmVars, trayVars>>

\* The viewer is silent for 60 s or gone, or "2FA Required" cannot be sent.  The
\* thread returns at once: the files of an approval dialog stay behind.
TwoFaAbandoned(c) ==
    /\ Goto(c, "auth2fa", "done")
    /\ UNCHANGED <<hostUp, attempts, codes, approval, granted, twofa, files, cmVars, trayVars>>

\* The session type is switched off in the settings, or a reply cannot be sent:
\* here too the thread returns and leaves the files of an approval dialog.
GateDenied(c) ==
    /\ Goto(c, "gate", "done")
    /\ UNCHANGED <<hostUp, attempts, codes, approval, granted, twofa, files, cmVars, trayVars>>

\* PeerInfo is out.  An approval dialog is kept, otherwise one is announced.
GatePassed(c) ==
    /\ IF c \in approval
       THEN (\E loop \in SessionLoops : Goto(c, "gate", loop)) /\ UNCHANGED files
       ELSE Goto(c, "gate", "opening") /\ WriteFiles(c, {"info"})
    /\ UNCHANGED <<hostUp, attempts, codes, approval, granted, twofa, cmVars, trayVars>>

OpenDialog(c) ==
    /\ \E loop \in SessionLoops : Goto(c, "opening", loop)
    /\ WriteFiles(c, {"connected"})
    /\ SpawnCmProcess(c)
    /\ UNCHANGED <<hostUp, attempts, codes, approval, granted, twofa,
                   flags, responded, inviteHeld, clicked, trayVars>>

-----------------------------------------------------------------------------
(* The session and its end. *)

\* The loop is left, whatever the reason; the terminal service takes its
\* terminals down before run_session_public goes on.
LeaveLoop(c) ==
    \/ Goto(c, "session", "cleanup")
    \/ Goto(c, "terminal", "dropping")

\* The viewer closes, an error, or the sides are switched.
SessionEnds(c) ==
    /\ LeaveLoop(c) \/ Goto(c, "turn", "dropping")
    /\ UNCHANGED <<hostUp, attempts, codes, approval, granted, twofa, files, cmVars, trayVars>>

\* The session asks check_cm_response, for which an acceptance comes first.
SessionDisconnectedByCm_Slip(c) ==
    /\ CmRejected(c)
    /\ LeaveLoop(c)
    /\ UNCHANGED <<hostUp, attempts, codes, approval, granted, twofa, files, cmVars, trayVars>>

\* cm_disconnect_requested, asked at the top of every loop each 500 ms.
SessionDisconnectedByCm(c) ==
    /\ "rejected" \in files[c]
    /\ LeaveLoop(c)
    /\ UNCHANGED <<hostUp, attempts, codes, approval, granted, twofa, files, cmVars, trayVars>>

\* The terminal service handles a message and pumps the output of its terminals.
TerminalTurn(c) ==
    /\ Goto(c, "terminal", "turn")
    /\ UNCHANGED <<hostUp, attempts, codes, approval, granted, twofa, files, cmVars, trayVars>>

\* Every join has come back and the pump found the channels empty.
TerminalTurnEnds(c) ==
    /\ Goto(c, "turn", "terminal")
    /\ UNCHANGED <<hostUp, attempts, codes, approval, granted, twofa, files, cmVars, trayVars>>

\* sessions.clear(), or the map dropped on an error: the last join is back.
TerminalsDropped(c) ==
    /\ Goto(c, "dropping", "cleanup")
    /\ UNCHANGED <<hostUp, attempts, codes, approval, granted, twofa, files, cmVars, trayVars>>

\* The announcement is forgotten.
CleanupCmFiles_Slip(c) ==
    /\ Goto(c, "cleanup", "ending")
    /\ RemoveFiles(c, FileKinds \ {"info"})
    /\ UNCHANGED <<hostUp, attempts, codes, approval, granted, twofa, cmVars, trayVars>>

CleanupCmFiles(c) ==
    /\ Goto(c, "cleanup", "ending")
    /\ RemoveFiles(c, FileKinds)
    /\ UNCHANGED <<hostUp, attempts, codes, approval, granted, twofa, cmVars, trayVars>>

SignalCmEnded(c) ==
    /\ Goto(c, "ending", "done")
    /\ WriteFiles(c, {"ended"})
    /\ UNCHANGED <<hostUp, attempts, codes, approval, granted, twofa, cmVars, trayVars>>

\* The host process dies: its threads are gone, the files and the dialogs stay.
HostCrash ==
    /\ hostUp
    /\ hostUp' = FALSE
    /\ pc' = [c \in Conns |-> IF pc[c] \in {"idle", "done"} THEN pc[c] ELSE "crashed"]
    /\ UNCHANGED <<attempts, codes, approval, granted, twofa, files, cmVars, trayVars>>

\* run_service_workload starts with cleanup_runtime_dir.
HostRestart ==
    /\ Service
    /\ ~hostUp
    /\ hostUp' = TRUE
    /\ files' = [c \in Conns |-> {}]
    /\ UNCHANGED <<pc, attempts, codes, approval, granted, twofa, cmVars, trayVars>>

\* An installation sweeps the directory as well, whoever is being served: the
\* service it starts does, and then install_me itself.
InstallerSweeps ==
    /\ files' = [c \in Conns |-> {}]
    /\ UNCHANGED <<hostVars, cmVars, trayVars>>

-----------------------------------------------------------------------------
(* The tray of the logged-on user, for the service. *)

\* The watcher opens a dialog for an info file it has not seen before.
TrayNotices(c) ==
    /\ trayUp
    /\ c \notin spawned
    /\ "info" \in files[c]
    /\ spawned' = spawned \cup {c}
    /\ \/ cm' = [cm EXCEPT ![c] = "starting"]
       \/ UNCHANGED cm
    /\ UNCHANGED <<hostVars, files, flags, responded, inviteHeld, clicked, trayUp>>

TrayStops ==
    /\ trayUp
    /\ trayUp' = FALSE
    /\ UNCHANGED <<hostVars, files, cmVars, spawned>>

\* A starting watcher knows nothing.
TrayStarts_Slip ==
    /\ Service
    /\ ~trayUp
    /\ trayUp' = TRUE
    /\ spawned' = {}
    /\ UNCHANGED <<hostVars, files, cmVars>>

\* A starting watcher counts what it finds as dealt with.
TrayStarts ==
    /\ Service
    /\ ~trayUp
    /\ trayUp' = TRUE
    /\ spawned' = {c \in Conns : "info" \in files[c]}
    /\ UNCHANGED <<hostVars, files, cmVars>>

-----------------------------------------------------------------------------
(* The CM process and the owner in front of it. *)

CmStart(c) ==
    /\ cm[c] = "starting"
    /\ cm' = [cm EXCEPT ![c] = "running"]
    /\ inviteHeld' = IF "invite" \in files[c] THEN inviteHeld \cup {c} ELSE inviteHeld
    /\ UNCHANGED <<hostVars, files, flags, responded, clicked, trayVars>>

\* Only the ended signal closes the dialog.
CmTickLooks_Slip(c) ==
    /\ cm[c] = "running"
    /\ IF "ended" \in files[c]
       THEN RemoveFiles(c, {"ended"}) /\ cm' = [cm EXCEPT ![c] = "exited"]
       ELSE UNCHANGED files /\ cm' = [cm EXCEPT ![c] = "acting"]
    /\ UNCHANGED <<hostVars, flags, responded, inviteHeld, clicked, trayVars>>

\* First half of a timer tick: is this dialog still wanted?
CmTickLooks(c) ==
    /\ cm[c] = "running"
    /\ \/ /\ "ended" \in files[c]
          /\ RemoveFiles(c, {"ended"})
          /\ cm' = [cm EXCEPT ![c] = "exited"]
       \/ /\ "ended" \notin files[c]
          /\ cm' = [cm EXCEPT ![c] = IF "info" \in files[c] THEN "acting" ELSE "exited"]
          /\ UNCHANGED files
    /\ UNCHANGED <<hostVars, flags, responded, inviteHeld, clicked, trayVars>>

\* What the second half of a tick leaves in the directory.
AnswerFiles(c) ==
    LET accepted == IF "accept" \in flags[c] THEN files[c] \cup {"accepted"} ELSE files[c]
    IN  IF "reject" \in flags[c] THEN accepted \cup {"rejected"}
        ELSE IF "disconnect" \in flags[c] THEN (accepted \ {"accepted"}) \cup {"rejected"}
        ELSE accepted

\* The dialog stays open on a rejection and still offers Accept.
CmTickActs_Slip(c) ==
    /\ cm[c] = "acting"
    /\ flags' = [flags EXCEPT ![c] = {}]
    /\ files' = [files EXCEPT ![c] = AnswerFiles(c)]
    /\ cm' = [cm EXCEPT ![c] = "running"]
    /\ responded' = IF "accept" \in flags[c] THEN responded \cup {c} ELSE responded
    /\ UNCHANGED <<hostVars, inviteHeld, clicked, trayVars>>

\* Second half of a timer tick: act on the buttons, then on the host's news.
CmTickActs(c) ==
    /\ cm[c] = "acting"
    /\ flags' = [flags EXCEPT ![c] = {}]
    /\ IF c \in inviteHeld /\ "accept" \in flags[c]
       THEN /\ WriteFiles(c, {"accepted"})
            /\ cm' = [cm EXCEPT ![c] = "exited"]
            /\ inviteHeld' = inviteHeld \ {c}
            /\ UNCHANGED responded
       ELSE /\ files' = [files EXCEPT ![c] = AnswerFiles(c)]
            /\ cm' = [cm EXCEPT ![c] =
                        IF flags[c] \cap {"reject", "disconnect"} # {} THEN "exited" ELSE "running"]
            /\ responded' =
                 IF flags[c] \cap {"accept", "reject"} # {} \/ "connected" \in files[c]
                 THEN responded \cup {c} ELSE responded
            /\ UNCHANGED inviteHeld
    /\ UNCHANGED <<hostVars, clicked, trayVars>>

\* Accept is on show until the dialog knows that the viewer is in.
PressAccept(c) ==
    /\ cm[c] = "running"
    /\ c \notin responded
    /\ flags' = [flags EXCEPT ![c] = @ \cup {"accept"}]
    /\ clicked' = clicked \cup {c}
    /\ UNCHANGED <<hostVars, files, cm, responded, inviteHeld, trayVars>>

\* Dismiss (before) and Disconnect (after) raise their flag and close the
\* window; the window may close before or after the next tick.
PressRefuse(c) ==
    /\ cm[c] = "running"
    /\ flags' = [flags EXCEPT ![c] = @ \cup {IF c \in responded THEN "disconnect" ELSE "reject"}]
    /\ UNCHANGED <<hostVars, files, cm, responded, inviteHeld, clicked, trayVars>>

\* The window is closed, by those buttons or by its frame: run_app returns.
CmWindowCloses(c) ==
    /\ cm[c] = "running"
    /\ cm' = [cm EXCEPT ![c] = IF c \in responded THEN "closing" ELSE "withdrawing"]
    /\ UNCHANGED <<hostVars, files, flags, responded, inviteHeld, clicked, trayVars>>

CmDropsAcceptance(c) ==
    /\ cm[c] = "closing"
    /\ cm' = [cm EXCEPT ![c] = "withdrawing"]
    /\ RemoveFiles(c, {"accepted"})
    /\ UNCHANGED <<hostVars, flags, responded, inviteHeld, clicked, trayVars>>

CmWritesRejection(c) ==
    /\ cm[c] = "withdrawing"
    /\ cm' = [cm EXCEPT ![c] = "exited"]
    /\ WriteFiles(c, {"rejected"})
    /\ UNCHANGED <<hostVars, flags, responded, inviteHeld, clicked, trayVars>>

\* The CM process is killed, without a word to the host.
CmKilled(c) ==
    /\ cm[c] \notin {"none", "exited"}
    /\ cm' = [cm EXCEPT ![c] = "exited"]
    /\ UNCHANGED <<hostVars, files, flags, responded, inviteHeld, clicked, trayVars>>

-----------------------------------------------------------------------------

LoginStep(c) ==
    \/ AcceptConnection(c) \/ HandshakeDone(c) \/ HandshakeFails(c)
    \/ LoginDeadline(c) \/ LoginAbandoned(c) \/ LoginRightPassword(c)
    \/ LoginWrongPassword(c) \/ LoginEmptyPassword(c) \/ SwitchSidesAccepted(c)
    \/ InviteReceived(c)

OwnerStep(c) ==
    \/ ApprovalDeadline(c) \/ ApprovalViewerLeft(c) \/ ApprovalRightPassword(c)
    \/ ApprovalAccepted(c) \/ ApprovalRejected(c) \/ InviteDeadline(c) \/ InviteAnswered(c)

GateStep(c) ==
    \/ ReadTwoFa(c) \/ TwoFaRightCode(c) \/ TwoFaWrongCode(c) \/ TwoFaAbandoned(c)
    \/ GateDenied(c) \/ GatePassed(c) \/ OpenDialog(c)

SessionStep(c) ==
    \/ SessionEnds(c) \/ SessionDisconnectedByCm(c) \/ TerminalTurn(c) \/ TerminalTurnEnds(c)
    \/ TerminalsDropped(c) \/ CleanupCmFiles(c) \/ SignalCmEnded(c)

HostStep(c) == LoginStep(c) \/ OwnerStep(c) \/ GateStep(c) \/ SessionStep(c)

CmStep(c) ==
    \/ TrayNotices(c) \/ CmStart(c) \/ CmTickLooks(c) \/ CmTickActs(c)
    \/ PressAccept(c) \/ PressRefuse(c) \/ CmWindowCloses(c)
    \/ CmDropsAcceptance(c) \/ CmWritesRejection(c) \/ CmKilled(c)

Next ==
    \/ \E c \in Conns : HostStep(c) \/ CmStep(c)
    \/ HostCrash \/ HostRestart \/ InstallerSweeps \/ TrayStops \/ TrayStarts

Spec == Init /\ [][Next]_vars

(* The loops of the login look at their deadline on each turn and read with  *)
(* a time limit, and the thread runs straight on once it opens the dialog    *)
(* and once it cleans up; the CM process has a timer of 200 ms. A session's  *)
(* loop looks for the rejected file at its top only, so a terminal's is fair *)
(* to it when it comes round again and again (SF), and nothing makes a turn  *)
(* of it, or the last shutdown of its terminals, come to an end. Nothing is  *)
(* assumed of the viewer, of the owner, of the tray, or of the second        *)
(* factor, which waits for ever on a viewer that keeps sending other         *)
(* messages.                                                                 *)
Fairness ==
    \A c \in Conns :
        /\ WF_vars(LoginDeadline(c))
        /\ WF_vars(ApprovalDeadline(c))
        /\ WF_vars(InviteDeadline(c))
        /\ WF_vars(OpenDialog(c))
        /\ SF_vars(SessionDisconnectedByCm(c))
        /\ WF_vars(CleanupCmFiles(c))
        /\ WF_vars(SignalCmEnded(c))
        /\ WF_vars(CmStart(c))
        /\ WF_vars(CmTickLooks(c))
        /\ WF_vars(CmTickActs(c))
        /\ WF_vars(CmDropsAcceptance(c))
        /\ WF_vars(CmWritesRejection(c))

FairSpec == Spec /\ Fairness

-----------------------------------------------------------------------------
(* Properties. *)

\* Whoever is served came in on a password, on a Switch Sides token or on the
\* owner's word, the owner pressed Accept in this very connection's dialog if
\* it was on their word (so was every invitation answered with yes), and the
\* second factor was off or verified.  The word travels through the accepted
\* file, which two processes write and remove (server.rs, cm.rs).
ConsentBeforeSession ==
    \A c \in Conns :
        /\ granted[c] \in {"approved", "invited"} => c \in clicked
        /\ pc[c] \in Serving => /\ granted[c] \in {"password", "approved", "switch"}
                                /\ twofa[c] \in {"off", "verified"}

\* A finished connection leaves its announcement behind, and with it a dialog
\* that says the viewer is connected, only when the owner or a password had
\* let the viewer in from an open dialog and the login failed after that.
StrayAnnouncementOnlyAfterApproval ==
    \A c \in Conns :
        pc[c] = "done" /\ "info" \in files[c] => c \in approval /\ granted[c] # "none"

\* No connection ever gets a second dialog, whoever opens it and however often
\* the tray is restarted.
OneDialogPerConnection ==
    [][\A c \in Conns : cm[c] \notin {"none", "starting"} => cm'[c] # "starting"]_vars

\* A refusal the host has yet to read is not turned into an acceptance.
RefusalIsFinal ==
    [][\A c \in Conns : pc[c] = "approval" /\ CmRejected(c) => ~CmAccepted(c)']_vars

\* The login, the owner's dialog and an invitation do not last for ever,
\* whatever the viewer sends and whether or not the owner answers.
LoginTerminates ==
    \A c \in Conns :
        pc[c] \in {"login", "approval", "invite"}
            ~> pc[c] \notin {"login", "approval", "invite"}

\* Closing the dialog or pressing Disconnect ends the session, unless an
\* installation wipes the request away before the loop looks for it, or the
\* session is a terminal's and hangs for ever in one turn of its loop, which
\* looks for the request between turns only (terminal_service.rs).
RefusalEndsSession ==
    \A c \in Conns :
        pc[c] \in Serving /\ "rejected" \in files[c]
            ~> pc[c] \notin Serving \/ "rejected" \notin files[c] \/ [](pc[c] = "turn")

\* Once the connection is over and its announcement is gone, be it that the
\* host cleaned up or that a restarted service swept the directory, the
\* dialog goes away by itself.
DialogCloses ==
    \A c \in Conns :
        pc[c] \in {"done", "crashed"} /\ "info" \notin files[c] ~> cm[c] \in {"none", "exited"}

-----------------------------------------------------------------------------
(* The promise kept: the gate of a connection in terms of its thread. *)

GateOf(at) ==
    IF at \in Serving THEN "open"
    ELSE IF at \in Leaving \cup {"done", "crashed"} THEN "closed"
    ELSE "shut"

\* An invitation that was answered with yes admits nobody to this machine.
BasisOf(grant) == IF grant = "invited" THEN "none" ELSE grant

gateBar  == [c \in Conns |-> GateOf(pc[c])]
basisBar == [c \in Conns |-> BasisOf(granted[c])]

Gate == INSTANCE AccessGate WITH
    gate <- gateBar, basis <- basisBar, factor <- twofa, agreed <- clicked

\* HostSession implements AccessGate.
GateSpec == Gate!Spec
=============================================================================
