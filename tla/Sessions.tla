------------------------------ MODULE Sessions ------------------------------
(***************************************************************************)
(* What viewers do with a host they have a session with: they cover its    *)
(* screen (PrivacyMode), use its mouse and keyboard (SharedInput), fetch   *)
(* files (FileDownload), send them (FileUpload) and paste them             *)
(* (ClipboardFiles), and all of it over a stream (FramedStream).  None of  *)
(* the six reads or writes what another one keeps, so that a behaviour of  *)
(* all is an interleaving of one of each; a run explores the six one by    *)
(* one, the scene chosen at the start.                                     *)
(***************************************************************************)
EXTENDS PrivacyMode

CONSTANTS
    Keys,                                   \* of SharedInput
    Jobs, Stride, NotThere, Nothing, MaxEntries, MaxQueue,
    FetchTrees,                             \* what may be fetched (FileDownload)
    SendTrees,                              \* what may be sent (FileUpload)
    CopiedLists, MaxSize, MaxCopies,        \* of ClipboardFiles
    Limits, MaxLen, Sizes, MaxFrames        \* of FramedStream

VARIABLES
    scene,
    place, event, allowed, viewOnly, held, pressed, owner, button, blocker, raced,
    fetchTree, fetchUi, known, offset, doneCount, drained, ticking, answer, cancel,
    actions, responses, sendJobs, shrunk, fetched, agreed, skipped, unwritten, lost,
    sendTree, sendUi, thread, actionsOut, toHost, toViewer, writeJobs, sent, unread, dropped,
    lists, answers, questions, enabled, recv, folders, pasted, disturbed, spoiled,
    encrypted, sendSeq, frames, start, pos, head, body, recvSeq, received, over, torn

inputVars == <<place, event, allowed, viewOnly, held, pressed, owner, button, blocker, raced>>
fetchVars == <<fetchTree, fetchUi, known, offset, doneCount, drained, ticking, answer, cancel,
               actions, responses, sendJobs, shrunk, fetched, agreed, skipped, unwritten, lost>>
sendVars  == <<sendTree, sendUi, thread, actionsOut, toHost, toViewer, writeJobs, sent, unread,
               dropped>>
pasteVars == <<lists, answers, questions, enabled, recv, folders, pasted, disturbed, spoiled>>
frameVars == <<encrypted, sendSeq, frames, start, pos, head, body, recvSeq, received, over, torn>>
allVars   == <<vars, inputVars, fetchVars, sendVars, pasteVars, frameVars, scene>>

Input == INSTANCE SharedInput WITH session <- place

Fetch == INSTANCE FileDownload WITH
    Trees <- FetchTrees, tree <- fetchTree, ui <- fetchUi, dest <- fetched,
    toHost <- actions, toViewer <- responses

Send == INSTANCE FileUpload WITH
    Trees <- SendTrees, tree <- sendTree, ui <- sendUi, dest <- sent

Paste == INSTANCE ClipboardFiles WITH
    Lists <- CopiedLists,
    toHost <- answers, toViewer <- questions

Stream == INSTANCE FramedStream

ASSUME SessionsAssumption ==
    /\ Input!InputAssumption
    /\ Fetch!DownloadAssumption
    /\ Send!UploadAssumption
    /\ Paste!ClipboardAssumption
    /\ Stream!StreamAssumption

SessionsInit ==
    /\ scene \in {"screen", "input", "fetch", "send", "paste", "stream"}
    /\ Init
    /\ Input!Init
    /\ Fetch!Init
    /\ Send!Init
    /\ Paste!Init
    /\ Stream!Init
    /\ scene # "paste"  => enabled
    /\ scene # "stream" => encrypted
    /\ scene # "fetch" => fetchTree = CHOOSE t \in FetchTrees : TRUE
    /\ scene # "send"  => sendTree = CHOOSE t \in SendTrees : TRUE

Others(scenes) == UNCHANGED <<scenes, scene>>

SessionsNext ==
    \/ scene = "screen" /\ Next
       /\ Others(<<inputVars, fetchVars, sendVars, pasteVars, frameVars>>)
    \/ scene = "input" /\ Input!Next
       /\ Others(<<vars, fetchVars, sendVars, pasteVars, frameVars>>)
    \/ scene = "fetch" /\ Fetch!Next
       /\ Others(<<vars, inputVars, sendVars, pasteVars, frameVars>>)
    \/ scene = "send" /\ Send!Next
       /\ Others(<<vars, inputVars, fetchVars, pasteVars, frameVars>>)
    \/ scene = "paste" /\ Paste!Next
       /\ Others(<<vars, inputVars, fetchVars, sendVars, frameVars>>)
    \/ scene = "stream" /\ Stream!Next
       /\ Others(<<vars, inputVars, fetchVars, sendVars, pasteVars>>)

\* The fairness of the modules, each in its own scene.
SessionsFairness ==
    /\ Fairness
    /\ WF_fetchVars(scene = "fetch" /\ Fetch!ViewerStep)
    /\ WF_fetchVars(scene = "fetch" /\ Fetch!HostTurn)
    /\ WF_fetchVars(scene = "fetch" /\ Fetch!HostPumps)
    /\ WF_sendVars(scene = "send" /\ Send!NetworkFlushes)
    /\ WF_sendVars(scene = "send" /\ Send!WindowHears)
    /\ WF_sendVars(scene = "send" /\ Send!HostTurn)
    /\ \A j \in Jobs : SF_sendVars(scene = "send" /\ Send!ThreadStep(j))
    /\ WF_pasteVars(scene = "paste" /\ Paste!ViewerAnswers)
    /\ WF_pasteVars(scene = "paste" /\ Paste!HostTurn)

SessionsSpec == SessionsInit /\ [][SessionsNext]_allVars /\ SessionsFairness

\* Every variable of the six has its type.
TypesOK ==
    TypeOK /\ Input!TypeOK /\ Fetch!TypeOK /\ Send!TypeOK /\ Paste!TypeOK /\ Stream!TypeOK

\* No key is stuck: one that is down is remembered by a session that will
\* release it (input.rs, HELD_VKS, HELD_SCANCODES).
NoKeyStuck == Input!NoKeyStuck

\* A drag is not torn from the session that began it (server.rs, claim_mouse).
DragKeepsItsOwner == Input!DragKeepsItsOwner

\* A session that has ended neither owns the mouse nor blocks the input nor keeps
\* a key down; of a mouse button nothing is said (server.rs, SessionEndGuard).
EndedLetsGo == Input!EndedLetsGo

\* A download shown as finished has every file as it is on the host, with the
\* exceptions FileDownload names (remote.rs, process_file_responses).
DownloadFaithful == Fetch!DownloadFaithful

\* Nothing is overwritten here without the user's consent (remote.rs, the
\* question a Digest leads to).
OverwriteOnlyWithConsent == Fetch!OverwriteOnlyWithConsent

\* Every download comes to an end that the window shows, with the exceptions
\* FileDownload names (server.rs, send_pending_blocks).
DownloadEnds == Fetch!DownloadEnds

\* An upload shown as finished has every file on the host as it is here, with
\* the exceptions FileUpload names (server.rs, write_jobs).
UploadFaithful == Send!UploadFaithful

\* Every upload comes to an end that the window shows, with the exceptions
\* FileUpload names (server.rs, handle_file_response_server).
UploadEnds == Send!UploadEnds

\* What can be pasted at the host is what was copied at the viewer, with the
\* exceptions ClipboardFiles names (clipboard_file.rs, RECV_STATE).
PasteFaithful == Paste!PasteFaithful

\* What was copied can be pasted in the end, with the exceptions ClipboardFiles
\* names (clipboard_file.rs, advance_to_next_file).
PasteEnds == Paste!PasteEnds

\* The stream delivers what was sent, in order, and does not end on its own
\* unless a time limit was met inside a frame (network.rs, read_frame).
StreamKeepsItsPlace == Stream!StreamKeepsItsPlace
=============================================================================
