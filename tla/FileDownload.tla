---------------------------- MODULE FileDownload ----------------------------
(***************************************************************************)
(* Files and folders fetched from the controlled machine.                  *)
(*                                                                         *)
(* The viewer's window asks for a path under a job number of its own.  The *)
(* host lists what is below the path, announces every file (Digest), and   *)
(* sends the blocks of a file when the viewer has confirmed it: at once    *)
(* when the destination is not there, otherwise after the user's answer.   *)
(* The window's script is busy during the question, its timer ticks are    *)
(* dropped, and the answer goes into one hidden element that the next tick *)
(* reads: what a tick has drained is dealt with to its end before.         *)
(*                                                                         *)
(* The stream between the two keeps its order and does not break here; the *)
(* destinations of two jobs differ.  The host's turn is split in two: it   *)
(* takes one message, and it sends one block of every confirmed file.      *)
(*                                                                         *)
(* An operator whose name ends in _Slip is a plausible mistake in the      *)
(* definition that follows it; no specification uses it.                   *)
(***************************************************************************)
EXTENDS Integers, SequencesExt

CONSTANTS
    Jobs,       \* the numbers the window gives to its jobs
    Stride,     \* the host files entry f of job j under j * Stride + f (1000)
    NotThere,   \* a path that does not exist
    Trees,      \* bound: what may be found below the paths of the jobs
    Nothing,    \* an empty slot, no job
    MaxEntries, \* bound: the entries of a list, more than Stride among them
    MaxQueue    \* bound: messages on their way to the viewer

\* An entry is an empty folder ("name/"), a file that is gone by the time it
\* is announced, or a file of some blocks; old: the destination exists.
Entries == [kind : {"folder", "gone", "file"}, size : Nat, old : BOOLEAN]

\* What is assumed of the constants; MCSessions checks it.
DownloadAssumption ==
    /\ Jobs \subseteq Nat /\ IsFiniteSet(Jobs) /\ Nothing \notin Jobs
    /\ Stride \in Nat \ {0}
    /\ NotThere \notin Seq(Entries)
    /\ Trees \subseteq [Jobs -> Seq(Entries) \cup {NotThere}]
    /\ MaxEntries \in Nat \ {0}
    /\ \A t \in Trees, j \in Jobs : t[j] # NotThere => Len(t[j]) <= MaxEntries
    /\ MaxQueue \in Nat \ {0}

Slots == 1 .. MaxEntries            \* file_num is one less
Files == Jobs \X Slots
Key(j, f) == j * Stride + f - 1

VARIABLES
    tree,       \* what is below the path of each job
    ui,         \* what the window shows of each job
    known,      \* the jobs in FT_JOBS
    offset,     \* offsets: what the viewer has written of each file
    doneCount,  \* done_count of each job
    drained,    \* the responses this tick has drained and not yet dealt with
    ticking,    \* the timer callback runs
    answer,     \* #ft-send-confirm
    cancel,     \* #ft-cancel-job
    toHost,     \* file_actions_out and what is on its way
    toViewer,   \* what is on its way to the viewer, file_responses
    sendJobs,   \* send_jobs of the host, by key
    shrunk,     \* the sources that have become shorter than announced
    dest,       \* what is in each destination: Old, or blocks of the source
    agreed,     \* the files whose overwriting the user agreed to
    skipped,    \* the files the user chose to skip
    unwritten,  \* the files a block of which the viewer failed to write
    lost        \* the files whose answer was overwritten by the next one

windowVars == <<ui, answer, cancel>>
jobVars    == <<known, offset, doneCount>>
tickVars   == <<drained, ticking>>
hostVars   == <<sendJobs, shrunk>>
pastVars   == <<agreed, skipped, unwritten, lost>>
vars == <<tree, windowVars, jobVars, tickVars, toHost, toViewer, hostVars, dest, pastVars>>

Old == 0
There(j)     == tree[j] # NotThere
Listed(j)    == IF There(j) THEN DOMAIN tree[j] ELSE {}
IsFile(j, f) == f \in Listed(j) /\ tree[j][f].kind = "file"

Messages ==
    [type : {"Dir", "Digest", "Block", "Done", "Error"}, id : Jobs, file : Slots, data : Seq(Nat)]
Actions == [type : {"Send", "Confirm", "Skip", "Cancel"}, id : Jobs, file : Slots]

\* The one way to go through some numbers in ascending order.
Ascending(S) == {s \in SetToSeqs(S) : \A i, k \in DOMAIN s : i < k => s[i] < s[k]}

Response(type, j, f, data) == [type |-> type, id |-> j, file |-> f, data |-> data]
Action(type, j, f)         == [type |-> type, id |-> j, file |-> f]

TypeOK ==
    /\ tree \in Trees
    /\ ui \in [Jobs -> {"none", "queued", "active", "finished", "failed"}]
    /\ known \subseteq Jobs
    /\ offset \in [Files -> Nat]
    /\ doneCount \in [Jobs -> Nat]
    /\ drained \in Nat
    /\ ticking \in BOOLEAN
    /\ answer \in {Nothing} \cup Actions
    /\ cancel \in {Nothing} \cup Jobs
    /\ toHost \in Seq(Actions)
    /\ toViewer \in Seq(Messages)
    /\ drained <= Len(toViewer)
    /\ \A k \in DOMAIN sendJobs :
        /\ sendJobs[k] \in [id : Jobs, file : Slots, offset : Nat, confirmed : BOOLEAN]
        /\ k = Key(sendJobs[k].id, sendJobs[k].file)
    /\ shrunk \subseteq Files
    /\ dest \in [Files -> Seq(Nat)]
    /\ agreed \subseteq Files
    /\ skipped \subseteq Files
    /\ unwritten \subseteq Files
    /\ lost \subseteq Files

Init ==
    /\ tree \in Trees
    /\ ui = [j \in Jobs |-> "none"]
    /\ known = {}
    /\ offset = [x \in Files |-> 0]
    /\ doneCount = [j \in Jobs |-> 0]
    /\ drained = 0
    /\ ticking = FALSE
    /\ answer = Nothing
    /\ cancel = Nothing
    /\ toHost = <<>>
    /\ toViewer = <<>>
    /\ sendJobs = <<>>
    /\ shrunk = {}
    /\ dest = [x \in Files |-> IF IsFile(x[1], x[2]) /\ tree[x[1]][x[2]].old THEN <<Old>> ELSE <<>>]
    /\ agreed = {}
    /\ skipped = {}
    /\ unwritten = {}
    /\ lost = {}

-----------------------------------------------------------------------------
(* The viewer's window. *)

\* sendFiles: jobs are numbered as they come.
Asks(j) ==
    /\ ~ticking
    /\ ui[j] = "none"
    /\ \A i \in Jobs : i < j => ui[i] # "none"
    /\ ui' = [ui EXCEPT ![j] = "queued"]
    /\ UNCHANGED <<tree, answer, cancel, jobVars, tickVars, toHost, toViewer, hostVars, dest, pastVars>>

\* The cross beside a job: the window calls it cancelled at once.
Cancels(j) ==
    /\ ~ticking
    /\ ui[j] = "active"
    /\ cancel' = j
    /\ ui' = [ui EXCEPT ![j] = "failed"]
    /\ UNCHANGED <<tree, answer, jobVars, tickVars, toHost, toViewer, hostVars, dest, pastVars>>

\* process_file_responses begins: it drains the queue.
Tick ==
    /\ ~ticking
    /\ ticking' = TRUE
    /\ drained' = Len(toViewer)
    /\ UNCHANGED <<tree, windowVars, jobVars, toHost, toViewer, hostVars, dest, pastVars>>

\* The next response that the tick has drained.
Next1 == Head(toViewer)
Takes(type) ==
    /\ drained > 0
    /\ Next1.type = type
    /\ drained' = drained - 1
    /\ toViewer' = Tail(toViewer)
    /\ UNCHANGED <<tree, ticking, cancel, hostVars>>

\* The list of a known job: empty folders are made; the files start at zero.
TakesDir ==
    /\ Takes("Dir")
    /\ offset' = [x \in Files |-> IF x[1] = Next1.id THEN 0 ELSE offset[x]]
    /\ UNCHANGED <<ui, answer, known, doneCount, toHost, dest, pastVars>>

\* overrideFileConfirm: the user answers; the slot holds one answer.
Answers(j, f, skip) ==
    /\ answer' = Action(IF skip THEN "Skip" ELSE "Confirm", j, f)
    /\ lost' = IF answer = Nothing THEN lost ELSE lost \cup {<<answer.id, answer.file>>}
    /\ agreed' = IF skip THEN agreed ELSE agreed \cup {<<j, f>>}
    /\ skipped' = IF skip THEN skipped \cup {<<j, f>>} ELSE skipped
    /\ UNCHANGED <<toHost, unwritten>>

\* A file of a job that is known and has no destination yet needs no answer.
TakesDigest ==
    LET j == Next1.id
        f == Next1.file IN
    /\ Takes("Digest")
    /\ IF j \in known /\ dest[<<j, f>>] = <<>>
       THEN /\ toHost' = Append(toHost, Action("Confirm", j, f))
            /\ UNCHANGED <<answer, pastVars>>
       ELSE \E skip \in BOOLEAN : Answers(j, f, skip)
    /\ UNCHANGED <<ui, jobVars, dest>>

\* write_file_block: the first block truncates, an empty one does nothing.
Written(old, at, data) ==
    IF data = <<>> THEN old ELSE SubSeq(old, 1, at) \o data

TakesBlock ==
    LET x    == <<Next1.id, Next1.file>>
        data == Next1.data IN
    /\ Takes("Block")
    /\ IF Next1.id \in known
       THEN \/ /\ dest' = [dest EXCEPT ![x] = Written(@, offset[x], data)]
               /\ offset' = [offset EXCEPT ![x] = @ + Len(data)]
               /\ UNCHANGED unwritten
            \/ /\ data # <<>>       \* logged, and nothing else
               /\ unwritten' = unwritten \cup {x}
               /\ UNCHANGED <<dest, offset>>
       ELSE UNCHANGED <<dest, offset, unwritten>>
    /\ UNCHANGED <<ui, answer, known, doneCount, toHost, agreed, skipped, lost>>

\* Whether a Done is the last of its job: every entry counts.
AllDone_Slip(j) == j \in known => doneCount[j] + 1 >= Len(tree[j]) - 1
AllDone(j) == j \in known => doneCount[j] + 1 >= Len(tree[j])

TakesDone ==
    LET j == Next1.id IN
    /\ Takes("Done")
    /\ doneCount' = [doneCount EXCEPT ![j] = IF j \in known THEN @ + 1 ELSE @]
    /\ known' = IF AllDone(j) THEN known \ {j} ELSE known
    /\ ui' = [ui EXCEPT ![j] = IF AllDone(j) /\ @ = "active" THEN "finished" ELSE @]
    /\ UNCHANGED <<answer, offset, toHost, dest, pastVars>>

\* jobError: the window is through with the job, FT_JOBS is not.
TakesError ==
    /\ Takes("Error")
    /\ ui' = [ui EXCEPT ![Next1.id] = "failed"]
    /\ UNCHANGED <<answer, jobVars, toHost, dest, pastVars>>

\* poll_ft_flags: new jobs, then a cancellation, then an answer.
Polls ==
    LET queued == {j \in Jobs : ui[j] = "queued"} IN
    /\ ticking
    /\ drained = 0
    /\ \E asked \in Ascending(queued) :
        toHost' = toHost
                  \o [i \in DOMAIN asked |-> Action("Send", asked[i], 1)]
                  \o (IF cancel = Nothing THEN <<>> ELSE <<Action("Cancel", cancel, 1)>>)
                  \o (IF answer = Nothing THEN <<>> ELSE <<answer>>)
    /\ ui' = [j \in Jobs |-> IF j \in queued THEN "active" ELSE ui[j]]
    /\ known' = known \cup queued
    /\ cancel' = Nothing
    /\ answer' = Nothing
    /\ ticking' = FALSE
    /\ UNCHANGED <<tree, offset, doneCount, drained, toViewer, hostVars, dest, pastVars>>

-----------------------------------------------------------------------------
(* The host. *)

HostTakes(type) ==
    /\ toHost # <<>>
    /\ Head(toHost).type = type
    /\ toHost' = Tail(toHost)
    /\ UNCHANGED <<tree, windowVars, jobVars, tickVars, shrunk, dest, pastVars>>

Without(jobs, keys) == [k \in DOMAIN jobs \ keys |-> jobs[k]]

\* The job for the file that is filed under k.
NewJob_Slip(j, k) == [id |-> j, file |-> k - j * Stride, offset |-> 0, confirmed |-> FALSE]
NewJob(j, k) == [id |-> j, file |-> k - j * Stride + 1, offset |-> 0, confirmed |-> FALSE]

\* Send: the list, and an announcement and a job for every file in it.
HostSend ==
    LET j     == Head(toHost).id
        files == {f \in Listed(j) : IsFile(j, f)}
        keys  == {Key(j, f) : f \in files} IN
    /\ HostTakes("Send")
    /\ IF There(j)
       THEN /\ \E order \in Ascending(files) :
                toViewer' = toViewer \o <<Response("Dir", j, 1, <<>>)>>
                            \o [i \in DOMAIN order |-> Response("Digest", j, order[i], <<>>)]
            /\ sendJobs' = [k \in DOMAIN sendJobs \cup keys |->
                               IF k \in keys THEN NewJob(j, k) ELSE sendJobs[k]]
       ELSE /\ toViewer' = Append(toViewer, Response("Error", j, 1, <<>>))
            /\ UNCHANGED sendJobs

\* SendConfirm with an offset, which this viewer always gives as zero.
HostConfirm ==
    LET k == Key(Head(toHost).id, Head(toHost).file) IN
    /\ HostTakes("Confirm")
    /\ sendJobs' = IF k \in DOMAIN sendJobs
                   THEN [sendJobs EXCEPT ![k].confirmed = TRUE, ![k].offset = 0]
                   ELSE sendJobs
    /\ UNCHANGED toViewer

\* SendConfirm with skip: done, and the viewer is told.
HostSkip_Slip ==
    /\ HostTakes("Skip")
    /\ sendJobs' = Without(sendJobs, {Key(Head(toHost).id, Head(toHost).file)})
    /\ UNCHANGED toViewer
HostSkip ==
    LET k == Key(Head(toHost).id, Head(toHost).file) IN
    /\ HostTakes("Skip")
    /\ sendJobs' = Without(sendJobs, {k})
    /\ toViewer' = IF k \in DOMAIN sendJobs
                   THEN Append(toViewer, Response("Done", sendJobs[k].id, sendJobs[k].file, <<>>))
                   ELSE toViewer

HostCancel ==
    /\ HostTakes("Cancel")
    /\ sendJobs' = Without(sendJobs, {k \in DOMAIN sendJobs : sendJobs[k].id = Head(toHost).id})
    /\ UNCHANGED toViewer

\* Which jobs send_pending_blocks looks at.
Pending_Slip == DOMAIN sendJobs
Pending == {k \in DOMAIN sendJobs : sendJobs[k].confirmed}

Job(k)   == sendJobs[k]
Whole(k) == Job(k).offset >= tree[Job(k).id][Job(k).file].size

\* The block of a file from its offset on: its end may have moved.
Block(k) == IF <<Job(k).id, Job(k).file>> \in shrunk THEN <<>> ELSE <<Job(k).offset + 1>>

\* send_pending_blocks: for every confirmed file, in any order, its next block,
\* or an error when it cannot be read, or Done.
HostPumps ==
    /\ Pending # {}
    /\ Len(toViewer) < MaxQueue
    /\ \E broken \in SUBSET {k \in Pending : ~Whole(k)}, order \in SetToSeqs(Pending) :
        LET type(k) == IF Whole(k) THEN "Done" ELSE IF k \in broken THEN "Error" ELSE "Block"
            data(k) == IF type(k) = "Block" THEN Block(k) ELSE <<>>
            said    == [i \in DOMAIN order |-> Response(type(order[i]), Job(order[i]).id,
                                                         Job(order[i]).file, data(order[i]))]
        IN  /\ toViewer' = toViewer \o said
            /\ sendJobs' = [k \in {l \in DOMAIN sendJobs : l \in Pending => type(l) = "Block"} |->
                               IF k \in Pending
                               THEN [Job(k) EXCEPT !.offset = @ + Len(data(k))]
                               ELSE Job(k)]
    /\ UNCHANGED <<tree, windowVars, jobVars, tickVars, toHost, shrunk, dest, pastVars>>

\* Another program cuts a file short that has been announced.
SourceShrinks(k) ==
    /\ k \in DOMAIN sendJobs
    /\ ~Whole(k)
    /\ shrunk' = shrunk \cup {<<Job(k).id, Job(k).file>>}
    /\ UNCHANGED <<tree, windowVars, jobVars, tickVars, toHost, toViewer, sendJobs, dest, pastVars>>

-----------------------------------------------------------------------------
ViewerStep ==
    \/ Tick
    \/ TakesDir
    \/ TakesDigest
    \/ TakesBlock
    \/ TakesDone
    \/ TakesError
    \/ Polls

HostTurn ==
    \/ HostSend
    \/ HostConfirm
    \/ HostSkip
    \/ HostCancel

Next ==
    \/ \E j \in Jobs : Asks(j) \/ Cancels(j)
    \/ ViewerStep
    \/ HostTurn
    \/ HostPumps
    \/ \E k \in DOMAIN sendJobs : SourceShrinks(k)

Spec == Init /\ [][Next]_vars

\* The timer ticks, the user answers, the stream carries, and the host's loop
\* comes to every job.
Fairness ==
    /\ WF_vars(ViewerStep)
    /\ WF_vars(HostTurn)
    /\ WF_vars(HostPumps)

FairSpec == Spec /\ Fairness

-----------------------------------------------------------------------------
Source(j, f) == [i \in 1 .. tree[j][f].size |-> i]

\* The files for which the host has one key together with a file of another job:
\* what is said of one it may take for the other.
Clashing ==
    {x \in Files : \E y \in Files \ {x} :
        /\ IsFile(x[1], x[2]) /\ IsFile(y[1], y[2])
        /\ Key(x[1], x[2]) = Key(y[1], y[2])
        /\ ui[x[1]] # "none" /\ ui[y[1]] # "none"}

\* A download that the window shows as finished has every file of the folder
\* as it is on the host, but for the files the user skipped, those the viewer
\* failed to write (which only its log says), the empty ones, which are never
\* created, and those that clash (remote.rs, process_file_responses).
DownloadFaithful ==
    \A j \in Jobs : ui[j] = "finished" =>
        \A f \in Listed(j) :
            IsFile(j, f) /\ tree[j][f].size > 0 /\ <<j, f>> \notin skipped \cup unwritten \cup Clashing
                => dest[<<j, f>>] = Source(j, f)

\* What was in a destination stays there until the user has agreed to lose it,
\* whatever is cancelled, skipped or fails meanwhile, unless the file clashes:
\* then the consent to lose the other one is enough.
OverwriteOnlyWithConsent ==
    \A x \in Files :
        IsFile(x[1], x[2]) /\ tree[x[1]][x[2]].old /\ x \notin agreed \cup Clashing => dest[x] = <<Old>>

\* An answer to the question whether to overwrite a file is acted on: as long
\* as the host holds the file back, the answer is in the slot or on its way
\* (remote.html, overrideFileConfirm: "Choose No to skip this file.").
AnswersAreHeard ==
    \A x \in agreed \cup skipped :
        LET k == Key(x[1], x[2]) IN
        k \in DOMAIN sendJobs /\ ~sendJobs[k].confirmed =>
            \E a \in ({answer} \ {Nothing}) \cup Range(toHost) :
                a \in {Action("Confirm", x[1], x[2]), Action("Skip", x[1], x[2])}

\* What keeps a job from ever ending: an entry that nobody will call done, an
\* empty list, an answer that got lost, a source that became shorter, a clash.
Stranded(j) ==
    \/ There(j) /\ (tree[j] = <<>> \/ \E f \in Listed(j) : ~IsFile(j, f))
    \/ \E f \in Slots : <<j, f>> \in lost \cup shrunk \cup Clashing

\* Every download comes to an end that the window shows.
DownloadEnds == \A j \in Jobs : ui[j] = "active" ~> ui[j] \in {"finished", "failed"} \/ Stranded(j)
=============================================================================
