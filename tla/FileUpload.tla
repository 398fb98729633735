----------------------------- MODULE FileUpload -----------------------------
(***************************************************************************)
(* Files and folders sent to the controlled machine.                       *)
(*                                                                         *)
(* The window's timer lists what is below the path, queues the list        *)
(* (Receive) for the network thread, and starts a thread for the job.      *)
(* That thread sleeps 300 ms and then sends every block and a last Done    *)
(* through the stream itself: nothing makes it wait for the Receive, and   *)
(* nothing tells it that the job was cancelled or has failed.  The host    *)
(* writes what comes for a file it has been told of, and answers the Done. *)
(*                                                                         *)
(* The stream keeps its order and does not break here; the destinations of *)
(* two jobs differ.                                                        *)
(*                                                                         *)
(* An operator whose name ends in _Slip is a plausible mistake in the      *)
(* definition that follows it; no specification uses it.                   *)
(***************************************************************************)
EXTENDS Integers, SequencesExt

CONSTANTS
    Jobs,       \* the numbers the window gives to its jobs
    Stride,     \* the host files entry f of job j under j * Stride + f (1000)
    Trees,      \* bound: what may be found below the paths of the jobs
    MaxEntries, \* bound: the entries of a list, more than Stride among them
    MaxQueue    \* bound: messages on their way to the host

\* An entry is an empty folder ("name/") or a file; old: the host has it already.
Entries == [kind : {"folder", "file"}, size : Nat, old : BOOLEAN]

\* What is assumed of the constants; MCSessions checks it.
UploadAssumption ==
    /\ Jobs \subseteq Nat
    /\ Stride \in Nat \ {0}
    /\ Trees \subseteq [Jobs -> Seq(Entries)]
    /\ MaxEntries \in Nat \ {0}
    /\ \A t \in Trees, j \in Jobs : Len(t[j]) <= MaxEntries
    /\ MaxQueue \in Nat \ {0}

Slots == 1 .. MaxEntries            \* file_num is one less
Files == Jobs \X Slots
Key(j, f) == j * Stride + f - 1

VARIABLES
    tree,       \* what is below the path of each job
    ui,         \* what the window shows of each job
    thread,     \* where the thread of each job is
    actionsOut, \* file_actions_out: the Receives the network thread has to send
    toHost,     \* what is on its way to the host
    toViewer,   \* what is on its way to the viewer
    writeJobs,  \* write_jobs of the host, by key
    dest,       \* what is in each destination: Old, or blocks of the source
    unread,     \* the files the thread could not read to their end
    dropped     \* the files a message of which came before the Receive

viewerVars == <<ui, thread, actionsOut>>
pastVars   == <<unread, dropped>>
vars == <<tree, viewerVars, toHost, toViewer, writeJobs, dest, pastVars>>

\* What a file holds: units, named after where they come from, or the old content.
Units == Nat \X Nat \X Nat
Old   == <<0, 0, 0>>
IsFile(j, f) == f \in DOMAIN tree[j] /\ tree[j][f].kind = "file"
Source(j, f) == [i \in 1 .. tree[j][f].size |-> <<j, f, i>>]

Message(type, j, f, data) == [type |-> type, id |-> j, file |-> f, data |-> data]
Messages == [type : {"Receive", "Block", "Done", "Error"}, id : Jobs, file : Slots \cup {0}, data : Seq(Units)]

TypeOK ==
    /\ tree \in Trees
    /\ ui \in [Jobs -> {"none", "active", "finished", "failed"}]
    /\ thread \in [Jobs -> [at : {"none", "asleep", "sending", "over"}, file : Nat, block : Nat]]
    /\ actionsOut \in Seq(Jobs)
    /\ toHost \in Seq(Messages)
    /\ toViewer \in Seq(Messages)
    /\ \A k \in DOMAIN writeJobs :
        /\ writeJobs[k] \in [id : Jobs, file : Slots, offset : Nat, done : BOOLEAN]
        /\ k = Key(writeJobs[k].id, writeJobs[k].file)
    /\ dest \in [Files -> Seq(Units)]
    /\ unread \subseteq Files
    /\ dropped \subseteq Files

Init ==
    /\ tree \in Trees
    /\ ui = [j \in Jobs |-> "none"]
    /\ thread = [j \in Jobs |-> [at |-> "none", file |-> 1, block |-> 0]]
    /\ actionsOut = <<>>
    /\ toHost = <<>>
    /\ toViewer = <<>>
    /\ writeJobs = <<>>
    /\ dest = [x \in Files |-> IF IsFile(x[1], x[2]) /\ tree[x[1]][x[2]].old THEN <<Old>> ELSE <<>>]
    /\ unread = {}
    /\ dropped = {}

-----------------------------------------------------------------------------
(* The viewer: its window, its network thread, a thread for every job. *)

\* SendFiles of poll_ft_flags: with nothing in the list, nothing is done.
Asks(j) ==
    /\ ui[j] = "none"
    /\ \A i \in Jobs : i < j => ui[i] # "none"
    /\ ui' = [ui EXCEPT ![j] = "active"]
    /\ IF tree[j] = <<>>
       THEN UNCHANGED <<thread, actionsOut>>
       ELSE /\ actionsOut' = Append(actionsOut, j)
            /\ thread' = [thread EXCEPT ![j].at = "asleep"]
    /\ UNCHANGED <<tree, toHost, toViewer, writeJobs, dest, pastVars>>

\* The host's Cancel handler drops what it sends, not what it receives.
Cancels(j) ==
    /\ ui[j] = "active"
    /\ ui' = [ui EXCEPT ![j] = "failed"]
    /\ UNCHANGED <<tree, thread, actionsOut, toHost, toViewer, writeJobs, dest, pastVars>>

\* A turn of the network thread begins with the actions that wait.
NetworkFlushes ==
    /\ actionsOut # <<>>
    /\ actionsOut' = <<>>
    /\ toHost' = toHost \o [i \in DOMAIN actionsOut |-> Message("Receive", actionsOut[i], 0, <<>>)]
    /\ UNCHANGED <<tree, ui, thread, toViewer, writeJobs, dest, pastVars>>

ThreadAt(j, at)     == thread[j].at = at
CurrentFile(j)      == thread[j].file
NextFile(j)         == [thread EXCEPT ![j].file = @ + 1, ![j].block = 0]

ThreadWakes(j) ==
    /\ ThreadAt(j, "asleep")
    /\ thread' = [thread EXCEPT ![j].at = "sending"]
    /\ UNCHANGED <<tree, ui, actionsOut, toHost, toViewer, writeJobs, dest, pastVars>>

\* The next block of the file.
ThreadSends(j) ==
    LET f == CurrentFile(j)
        b == thread[j].block IN
    /\ ThreadAt(j, "sending")
    /\ IsFile(j, f)
    /\ b < tree[j][f].size
    /\ Len(toHost) < MaxQueue
    /\ toHost' = Append(toHost, Message("Block", j, f, << <<j, f, b + 1>> >>))
    /\ thread' = [thread EXCEPT ![j].block = b + 1]
    /\ UNCHANGED <<tree, ui, actionsOut, toViewer, writeJobs, dest, pastVars>>

\* An empty folder, the end of a file, or a read that fails: the next one.
ThreadGoesOn(j) ==
    LET f == CurrentFile(j) IN
    /\ ThreadAt(j, "sending")
    /\ f \in DOMAIN tree[j]
    /\ thread' = NextFile(j)
    /\ unread' = IF IsFile(j, f) /\ thread[j].block < tree[j][f].size
                 THEN unread \cup {<<j, f>>}
                 ELSE unread
    /\ UNCHANGED <<tree, ui, actionsOut, toHost, toViewer, writeJobs, dest, dropped>>

\* One Done, in the name of the last entry.
ThreadEnds(j) ==
    /\ ThreadAt(j, "sending")
    /\ CurrentFile(j) > Len(tree[j])
    /\ Len(toHost) < MaxQueue
    /\ toHost' = Append(toHost, Message("Done", j, Len(tree[j]), <<>>))
    /\ thread' = [thread EXCEPT ![j].at = "over"]
    /\ UNCHANGED <<tree, ui, actionsOut, toViewer, writeJobs, dest, pastVars>>

\* jobDone and jobError: a job that the window calls failed stays so.
WindowHears ==
    /\ toViewer # <<>>
    /\ LET m == Head(toViewer) IN
        ui' = [ui EXCEPT ![m.id] = IF m.type = "Error" THEN "failed"
                                   ELSE IF @ = "active" THEN "finished" ELSE @]
    /\ toViewer' = Tail(toViewer)
    /\ UNCHANGED <<tree, thread, actionsOut, toHost, writeJobs, dest, pastVars>>

-----------------------------------------------------------------------------
(* The host. *)

Next1 == Head(toHost)
HostTakes(type) ==
    /\ toHost # <<>>
    /\ Next1.type = type
    /\ toHost' = Tail(toHost)
    /\ UNCHANGED <<tree, viewerVars, unread>>

\* Receive: a write job for every file of the list; empty folders are made.
HostReceive ==
    LET j    == Next1.id
        keys == {Key(j, f) : f \in {g \in DOMAIN tree[j] : IsFile(j, g)}} IN
    /\ HostTakes("Receive")
    /\ writeJobs' = [k \in DOMAIN writeJobs \cup keys |->
                        IF k \in keys
                        THEN [id |-> j, file |-> k - j * Stride + 1, offset |-> 0, done |-> FALSE]
                        ELSE writeJobs[k]]
    /\ UNCHANGED <<toViewer, dest, dropped>>

\* write_file_block: the first block truncates.
Written(old, at, data) == SubSeq(old, 1, at) \o data

BlockKey    == Key(Next1.id, Next1.file)
BlockFile   == <<Next1.id, Next1.file>>
JobFile     == <<writeJobs[BlockKey].id, writeJobs[BlockKey].file>>
Received(j) == \E k \in DOMAIN writeJobs : writeJobs[k].id = j
Writable    == BlockKey \in DOMAIN writeJobs /\ ~writeJobs[BlockKey].done

HostWrites_Slip ==
    /\ HostTakes("Block")
    /\ Writable
    /\ dest' = [dest EXCEPT ![JobFile] = @ \o Next1.data]
    /\ writeJobs' = [writeJobs EXCEPT ![BlockKey].offset = @ + Len(Next1.data)]
    /\ UNCHANGED <<toViewer, dropped>>
HostWrites ==
    /\ HostTakes("Block")
    /\ Writable
    /\ dest' = [dest EXCEPT ![JobFile] = Written(@, writeJobs[BlockKey].offset, Next1.data)]
    /\ writeJobs' = [writeJobs EXCEPT ![BlockKey].offset = @ + Len(Next1.data)]
    /\ UNCHANGED <<toViewer, dropped>>

HostWriteFails ==
    /\ HostTakes("Block")
    /\ Writable
    /\ writeJobs' = [writeJobs EXCEPT ![BlockKey].done = TRUE]
    /\ toViewer' = Append(toViewer, Message("Error", Next1.id, Next1.file, <<>>))
    /\ UNCHANGED <<dest, dropped>>

\* A block for a file that is done with, or that the host has not been told of.
HostIgnores ==
    /\ HostTakes("Block")
    /\ ~Writable
    /\ dropped' = IF Received(Next1.id) THEN dropped ELSE dropped \cup {BlockFile}
    /\ UNCHANGED <<toViewer, writeJobs, dest>>

\* The job a Done is for: its own, or any of the same number still open.
DoneKeys_Slip == {BlockKey} \cap DOMAIN writeJobs
DoneKeys ==
    IF BlockKey \in DOMAIN writeJobs
    THEN {BlockKey}
    ELSE {k \in DOMAIN writeJobs : writeJobs[k].id = Next1.id /\ ~writeJobs[k].done}

HostDone ==
    /\ HostTakes("Done")
    /\ IF DoneKeys = {}
       THEN /\ dropped' = IF Received(Next1.id) THEN dropped ELSE dropped \cup {BlockFile}
            /\ UNCHANGED <<toViewer, writeJobs>>
       ELSE \E k \in DoneKeys :
            /\ writeJobs' = [writeJobs EXCEPT ![k].done = TRUE]
            /\ toViewer' = Append(toViewer, Message("Done", writeJobs[k].id, writeJobs[k].file, <<>>))
            /\ UNCHANGED dropped
    /\ UNCHANGED dest

-----------------------------------------------------------------------------
ThreadStep(j) ==
    \/ ThreadWakes(j)
    \/ ThreadSends(j)
    \/ ThreadGoesOn(j)
    \/ ThreadEnds(j)

HostTurn ==
    \/ HostReceive
    \/ HostWrites
    \/ HostWriteFails
    \/ HostIgnores
    \/ HostDone

Next ==
    \/ \E j \in Jobs : Asks(j) \/ Cancels(j) \/ ThreadStep(j)
    \/ NetworkFlushes
    \/ WindowHears
    \/ HostTurn

Spec == Init /\ [][Next]_vars

\* Every thread runs, and a thread that waits for room in the stream gets its turn.
Fairness ==
    /\ WF_vars(NetworkFlushes)
    /\ WF_vars(WindowHears)
    /\ WF_vars(HostTurn)
    /\ \A j \in Jobs : SF_vars(ThreadStep(j))

FairSpec == Spec /\ Fairness

-----------------------------------------------------------------------------
\* The host has one key for an entry of this job and one of another: blocks of
\* one may go into a file of the other, and the Done of one end the other.
KeysOf(j)  == {Key(j, f) : f \in DOMAIN tree[j]}
Clashes(j) == \E i \in Jobs \ {j} :
    ui[i] # "none" /\ ui[j] # "none" /\ KeysOf(i) \cap KeysOf(j) # {}

\* An upload that the window shows as finished has every file on the host as
\* it is here, but for the empty ones, for those that could not be read to
\* their end (only the log says so), for those whose blocks overtook the
\* Receive, and for jobs that clash (remote.rs, the upload thread; server.rs,
\* write_jobs).
UploadFaithful ==
    \A j \in Jobs : ui[j] = "finished" /\ ~Clashes(j) =>
        \A f \in DOMAIN tree[j] :
            IsFile(j, f) /\ tree[j][f].size > 0 /\ <<j, f>> \notin unread \cup dropped
                => dest[<<j, f>>] = Source(j, f)

\* What keeps an upload from ever ending: no file in the list, or a Done, or
\* blocks of the last file, that came before the Receive.
Stranded(j) ==
    \/ \A f \in DOMAIN tree[j] : ~IsFile(j, f)
    \/ <<j, Len(tree[j])>> \in dropped
    \/ Clashes(j)

\* Every upload comes to an end that the window shows, an empty folder at the
\* end of the list or not.
UploadEnds == \A j \in Jobs : ui[j] = "active" ~> ui[j] \in {"finished", "failed"} \/ Stranded(j)
=============================================================================
