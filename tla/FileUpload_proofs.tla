------------------------- MODULE FileUpload_proofs -------------------------
(***************************************************************************)
(* Proofs about FileUpload, for any set of jobs, any lists and any stride  *)
(* of the keys: type correctness, and that an upload shown as finished is  *)
(* faithful.  That uploads end (UploadEnds) is left to TLC.                *)
(*                                                                         *)
(* The argument has three threads.  The blocks of a file that nothing has  *)
(* gone wrong with are on their way in order, from what the host has of it *)
(* to what the thread has sent (BlocksFlow).  The Done of a job is said    *)
(* behind all its blocks, and the host answers it when it has taken it     *)
(* (DoneIsLast, EndsAreLast), so that a job the window hears the end of    *)
(* has nothing on its way any more.  And what is said of one job touches   *)
(* no file of another, as long as their keys do not clash (OwnKey).        *)
(***************************************************************************)
EXTENDS FileUpload, TLAPS

-----------------------------------------------------------------------------
(* Sequences: what is left of one, and what is put behind one.                 *)

Grows(q, q1) == \A i \in DOMAIN q : i \in DOMAIN q1 /\ q1[i] = q[i]
Fresh(q, q1) == DOMAIN q1 \ DOMAIN q

LEMMA TailOf ==
    ASSUME NEW S, NEW s \in Seq(S), s # <<>>
    PROVE  /\ Tail(s) \in Seq(S)
           /\ 1 \in DOMAIN s /\ Head(s) = s[1] /\ s[1] \in S
           /\ \A i \in DOMAIN Tail(s) : i \in Nat /\ i + 1 \in DOMAIN s /\ Tail(s)[i] = s[i + 1]
           /\ \A i \in DOMAIN s : i # 1 => i - 1 \in DOMAIN Tail(s) /\ Tail(s)[i - 1] = s[i]
OBVIOUS

LEMMA AppendOf ==
    ASSUME NEW S, NEW s \in Seq(S), NEW e \in S
    PROVE  /\ Append(s, e) \in Seq(S)
           /\ Grows(s, Append(s, e))
           /\ \A i \in DOMAIN s : i \in Nat /\ i < Len(s) + 1
           /\ Len(s) + 1 \in DOMAIN Append(s, e) /\ Append(s, e)[Len(s) + 1] = e
           /\ \A i \in DOMAIN Append(s, e) : i \in DOMAIN s \/ i = Len(s) + 1
BY DEF Grows

-----------------------------------------------------------------------------
(* Lists and keys.                                                             *)

LEMMA ListsAreShort ==
    ASSUME UploadAssumption, TypeOK, NEW j \in Jobs
    PROVE  /\ tree[j] \in Seq(Entries)
           /\ Len(tree[j]) \in Nat
           /\ DOMAIN tree[j] = 1 .. Len(tree[j])
           /\ DOMAIN tree[j] \subseteq Slots
           /\ \A f \in DOMAIN tree[j] : tree[j][f].size \in Nat
<1>1. tree[j] \in Seq(Entries) /\ Len(tree[j]) <= MaxEntries
  BY DEF UploadAssumption, TypeOK
<1>2. \A f \in DOMAIN tree[j] : tree[j][f] \in Entries
  BY <1>1
<1>3. Len(tree[j]) \in Nat /\ DOMAIN tree[j] = 1 .. Len(tree[j])
  BY <1>1
<1>4. DOMAIN tree[j] \subseteq Slots
  BY <1>1, <1>3 DEF Slots, UploadAssumption
<1> QED
  BY <1>1, <1>2, <1>3, <1>4 DEF Entries

LEMMA FilesAndKeys ==
    ASSUME UploadAssumption
    PROVE  /\ \A j \in Jobs, f \in Slots : Key(j, f) \in Int /\ <<j, f>> \in Files
           /\ \A j \in Jobs, f, g \in Slots : Key(j, f) = Key(j, g) => f = g
           /\ \A j \in Jobs, f \in Slots : Key(j, f) - j * Stride + 1 = f
<1>1. /\ Slots \subseteq Nat
      /\ \A j \in Jobs : j * Stride \in Int
  BY DEF UploadAssumption, Slots
<1>2. \A j \in Jobs, f \in Slots : Key(j, f) \in Int /\ Key(j, f) - j * Stride + 1 = f
  BY <1>1 DEF Key
<1>3. \A j \in Jobs, f, g \in Slots : Key(j, f) = Key(j, g) => f = g
  BY <1>1 DEF Key
<1> QED
  BY <1>2, <1>3 DEF Files

\* A file of a list has its place among the files and the keys.
LEMMA FilesAreListed ==
    ASSUME UploadAssumption, TypeOK, NEW j \in Jobs, NEW f, IsFile(j, f)
    PROVE  /\ f \in DOMAIN tree[j] /\ f \in Slots /\ f \in Nat /\ <<j, f>> \in Files
           /\ tree[j][f].size \in Nat
           /\ Key(j, f) \in KeysOf(j)
<1>1. f \in DOMAIN tree[j]
  BY DEF IsFile
<1>2. Slots \subseteq Nat
  BY DEF Slots, UploadAssumption
<1> QED
  BY <1>1, <1>2, ListsAreShort, FilesAndKeys DEF KeysOf

-----------------------------------------------------------------------------
(* The invariant.                                                              *)

Asked(j) == ui[j] # "none"

\* The block m is one of the file x; which one.
IsBlockOf(m, x) == m.type = "Block" /\ m.id = x[1] /\ m.file = x[2]
Number(m)       == m.data[1][3]

\* Something has been said to have gone wrong with the job, or the user has
\* cancelled it.
Errs(m, j) == m.type = "Error" /\ m.id = j
Bad(j)     == ui[j] = "failed" \/ \E i \in DOMAIN toViewer : Errs(toViewer[i], j)

\* The host has taken all that the thread will ever say.
Over(j) ==
    /\ ThreadAt(j, "over")
    /\ \A i \in DOMAIN toHost : toHost[i].id = j => toHost[i].type = "Receive"

\* A thread is at an entry of its list or behind the last one.
ThreadsAreSound ==
    \A j \in Jobs :
        /\ CurrentFile(j) \in 1 .. Len(tree[j]) + 1
        /\ ~ThreadAt(j, "none") => Asked(j) /\ tree[j] # <<>>
        /\ ThreadAt(j, "none") \/ ThreadAt(j, "asleep") => CurrentFile(j) = 1 /\ thread[j].block = 0
        /\ ThreadAt(j, "over") => CurrentFile(j) > Len(tree[j])
        /\ thread[j].block # 0 => /\ IsFile(j, CurrentFile(j))
                                  /\ thread[j].block <= tree[j][CurrentFile(j)].size

\* What is on its way is about jobs that were begun and files of their lists.
SaidToHost(m) ==
    /\ Asked(m.id)
    /\ m.type # "Error"
    /\ m.type = "Block" => /\ IsFile(m.id, m.file)
                           /\ m.data = << <<m.id, m.file, Number(m)>> >>
                           /\ Number(m) \in Nat
    /\ m.type = "Done" => m.file = Len(tree[m.id]) /\ m.file # 0
SaidToViewer(m) == Asked(m.id) /\ m.type \in {"Done", "Error"}
MessagesAreSound ==
    /\ \A i \in DOMAIN actionsOut : Asked(actionsOut[i])
    /\ \A i \in DOMAIN toHost : SaidToHost(toHost[i])
    /\ \A i \in DOMAIN toViewer : SaidToViewer(toViewer[i])

\* The host writes files of jobs that were begun, and behind what they hold.
JobIsSound(w) ==
    /\ Asked(w.id)
    /\ IsFile(w.id, w.file)
    /\ w.offset <= Len(dest[<<w.id, w.file>>])
JobsAreSound == \A k \in DOMAIN writeJobs : JobIsSound(writeJobs[k])

\* A job is announced once, and has no file at the host before.
Announces(m, j) == m.type = "Receive" /\ m.id = j
ReceivedOnce ==
    /\ \A i, k \in DOMAIN actionsOut : i # k => actionsOut[i] # actionsOut[k]
    /\ \A j \in Jobs : \A i, k \in DOMAIN toHost :
          Announces(toHost[i], j) /\ Announces(toHost[k], j) => i = k
    /\ \A i \in DOMAIN actionsOut :
          /\ ~Received(actionsOut[i])
          /\ \A k \in DOMAIN toHost : ~Announces(toHost[k], actionsOut[i])
    /\ \A i \in DOMAIN toHost : toHost[i].type = "Receive" => ~Received(toHost[i].id)

\* With one file of a job the host is told of all.
ReceivedAtOnce ==
    \A j \in Jobs : ~Clashes(j) /\ Received(j) =>
        \A f \in DOMAIN tree[j] : IsFile(j, f) => Key(j, f) \in DOMAIN writeJobs

\* The thread says nothing behind its Done.
DoneIsLast ==
    \A i \in DOMAIN toHost : toHost[i].type = "Done" =>
        /\ ThreadAt(toHost[i].id, "over")
        /\ \A k \in DOMAIN toHost :
              k > i /\ toHost[k].id = toHost[i].id => toHost[k].type = "Receive"

\* The host says nothing behind its Done, and says it when nothing more will come;
\* a file is closed then, or after an error.
EndsAreLast ==
    \A j \in Jobs : ~Clashes(j) =>
        /\ \A i \in DOMAIN toViewer : toViewer[i].type = "Done" /\ toViewer[i].id = j =>
              /\ Over(j)
              /\ \A k \in DOMAIN toViewer : k > i => ~Errs(toViewer[k], j)
        /\ ui[j] = "finished" =>
              /\ Over(j)
              /\ \A k \in DOMAIN toViewer : ~Errs(toViewer[k], j)
        /\ \A k \in DOMAIN writeJobs :
              writeJobs[k].id = j /\ writeJobs[k].done => Over(j) \/ Bad(j)

\* How much of a file the host has, and how much of it was sent.
HasJob(x) == LET k == Key(x[1], x[2]) IN k \in DOMAIN writeJobs /\ writeJobs[k].id = x[1]
Offset(x) == IF HasJob(x) THEN writeJobs[Key(x[1], x[2])].offset ELSE 0
SentOf(x) ==
    IF x[2] < CurrentFile(x[1])
    THEN tree[x[1]][x[2]].size
    ELSE IF x[2] = CurrentFile(x[1]) THEN thread[x[1]].block ELSE 0

\* The files whose content must arrive in order and complete.
Sound(x) ==
    /\ IsFile(x[1], x[2])
    /\ ~Clashes(x[1])
    /\ ~Bad(x[1])
    /\ x \notin unread \cup dropped

\* The blocks on their way are those between the host's offset and the thread's,
\* in order, and the host has the ones before.
Flow(x) ==
    /\ Offset(x) <= SentOf(x)
    /\ \A n \in Offset(x) + 1 .. SentOf(x) :
          \E i \in DOMAIN toHost : IsBlockOf(toHost[i], x) /\ Number(toHost[i]) = n
    /\ \A i \in DOMAIN toHost :
          IsBlockOf(toHost[i], x) => Number(toHost[i]) \in Offset(x) + 1 .. SentOf(x)
    /\ \A i, k \in DOMAIN toHost :
          i < k /\ IsBlockOf(toHost[i], x) /\ IsBlockOf(toHost[k], x)
              => Number(toHost[i]) < Number(toHost[k])
    /\ Offset(x) > 0 => dest[x] = [n \in 1 .. Offset(x) |-> <<x[1], x[2], n>>]

BlocksFlow == \A x \in Files : Sound(x) => Flow(x)

IInv ==
    /\ TypeOK
    /\ ThreadsAreSound
    /\ MessagesAreSound
    /\ JobsAreSound
    /\ ReceivedOnce
    /\ ReceivedAtOnce
    /\ DoneIsLast
    /\ EndsAreLast
    /\ BlocksFlow

-----------------------------------------------------------------------------
(* What the steps do to the queues.                                            *)

LEMMA HostTakesShifts ==
    ASSUME TypeOK, NEW type, HostTakes(type)
    PROVE  /\ 1 \in DOMAIN toHost /\ Next1 = toHost[1] /\ Next1 \in Messages
           /\ Next1.type = type /\ Next1.id \in Jobs
           /\ toHost' \in Seq(Messages)
           /\ \A i \in DOMAIN toHost' :
                 i \in Nat /\ i + 1 \in DOMAIN toHost /\ toHost'[i] = toHost[i + 1]
           /\ \A i \in DOMAIN toHost :
                 i # 1 => i - 1 \in DOMAIN toHost' /\ toHost'[i - 1] = toHost[i]
           /\ tree' = tree /\ ui' = ui /\ thread' = thread /\ actionsOut' = actionsOut
           /\ unread' = unread
<1>1. toHost \in Seq(Messages) /\ toHost # <<>> /\ toHost' = Tail(toHost)
  BY DEF TypeOK, HostTakes
<1>2. Next1 = toHost[1] /\ Next1 \in Messages /\ Next1.type = type
  BY <1>1, TailOf DEF HostTakes, Next1
<1>3. Next1.id \in Jobs
  BY <1>2 DEF Messages
<1> QED
  BY <1>1, <1>2, <1>3, TailOf DEF HostTakes, viewerVars

LEMMA HostTurnTakes ==
    ASSUME HostTurn
    PROVE  \E type \in {"Receive", "Block", "Done"} : HostTakes(type)
BY DEF HostTurn, HostReceive, HostWrites, HostWriteFails, HostIgnores, HostDone

\* The network thread sends an announcement for each job that waits.
LEMMA FlushesSay ==
    ASSUME TypeOK, NetworkFlushes
    PROVE  /\ toHost' \in Seq(Messages)
           /\ Grows(toHost, toHost')
           /\ \A i \in Fresh(toHost, toHost') :
                 /\ i \in Nat /\ i - Len(toHost) \in DOMAIN actionsOut
                 /\ toHost'[i] = Message("Receive", actionsOut[i - Len(toHost)], 0, <<>>)
<1> DEFINE A == [i \in DOMAIN actionsOut |-> Message("Receive", actionsOut[i], 0, <<>>)]
<1>1. toHost \in Seq(Messages) /\ toHost' = toHost \o A /\ actionsOut \in Seq(Jobs)
  BY DEF TypeOK, NetworkFlushes
<1>2. A \in Seq(Messages)
  <2>1. <<>> \in Seq(Units)
    OBVIOUS
  <2>2. \A i \in DOMAIN actionsOut : A[i] \in Messages
    BY <1>1, <2>1 DEF Message, Messages
  <2> QED
    BY <1>1, <2>2
<1>3. DOMAIN A = DOMAIN actionsOut
  OBVIOUS
<1>4. \A i \in DOMAIN A : A[i] = Message("Receive", actionsOut[i], 0, <<>>)
  OBVIOUS
<1> HIDE DEF A
<1>5. /\ toHost' \in Seq(Messages) /\ Grows(toHost, toHost')
      /\ \A i \in Fresh(toHost, toHost') :
            i \in Nat /\ i - Len(toHost) \in DOMAIN A /\ toHost'[i] = A[i - Len(toHost)]
  BY <1>1, <1>2 DEF Grows, Fresh
<1> QED
  BY <1>3, <1>4, <1>5

\* A thread puts one message behind the others.
LEMMA ThreadSays ==
    ASSUME TypeOK, NEW m \in Messages, toHost' = Append(toHost, m)
    PROVE  /\ toHost' \in Seq(Messages)
           /\ Grows(toHost, toHost')
           /\ Len(toHost) + 1 \in DOMAIN toHost' /\ toHost'[Len(toHost) + 1] = m
           /\ \A i \in DOMAIN toHost : i \in Nat /\ i < Len(toHost) + 1
           /\ \A i \in DOMAIN toHost' : i \in DOMAIN toHost \/ i = Len(toHost) + 1
BY AppendOf DEF TypeOK

LEMMA BlockIsMessage ==
    ASSUME UploadAssumption, TypeOK, NEW j \in Jobs, NEW f, IsFile(j, f), NEW b \in Nat
    PROVE  LET m == Message("Block", j, f, << <<j, f, b>> >>) IN
           m \in Messages /\ IsBlockOf(m, <<j, f>>) /\ Number(m) = b
<1>1. j \in Nat /\ f \in Slots /\ f \in Nat
  BY FilesAreListed DEF UploadAssumption
<1>2. <<j, f, b>> \in Units
  BY <1>1 DEF Units
<1>3. << <<j, f, b>> >> \in Seq(Units)
  BY <1>2
<1> QED
  BY <1>1, <1>3 DEF Message, Messages, IsBlockOf, Number

LEMMA ThreadSendsSays ==
    ASSUME UploadAssumption, TypeOK, NEW j \in Jobs, ThreadSends(j)
    PROVE  LET m == Message("Block", j, CurrentFile(j),
                            << <<j, CurrentFile(j), thread[j].block + 1>> >>) IN
           /\ m \in Messages /\ toHost' = Append(toHost, m)
           /\ m.type = "Block" /\ m.id = j /\ m.file = CurrentFile(j)
           /\ m.data = << <<j, CurrentFile(j), thread[j].block + 1>> >>
           /\ IsBlockOf(m, <<j, CurrentFile(j)>>) /\ Number(m) = thread[j].block + 1
<1>1. thread[j].block \in Nat /\ IsFile(j, CurrentFile(j))
  BY DEF TypeOK, ThreadSends
<1> QED
  BY <1>1, BlockIsMessage DEF ThreadSends, Message

LEMMA ThreadEndsSays ==
    ASSUME UploadAssumption, TypeOK, NEW j \in Jobs, ThreadEnds(j)
    PROVE  LET m == Message("Done", j, Len(tree[j]), <<>>) IN
           /\ m \in Messages /\ toHost' = Append(toHost, m)
           /\ m.type = "Done" /\ m.id = j /\ m.file = Len(tree[j])
<1>1. Len(tree[j]) \in Nat /\ DOMAIN tree[j] = 1 .. Len(tree[j]) /\ DOMAIN tree[j] \subseteq Slots
  BY ListsAreShort
<1>2. Len(tree[j]) \in Slots \cup {0}
  BY <1>1
<1>3. <<>> \in Seq(Units)
  OBVIOUS
<1> QED
  BY <1>2, <1>3 DEF ThreadEnds, Message, Messages

\* Every step leaves toHost alone, or puts something behind it, or takes its head.
LEMMA WhoSpeaks ==
    ASSUME Next
    PROVE  \/ UNCHANGED toHost
           \/ NetworkFlushes
           \/ \E j \in Jobs : ThreadSends(j)
           \/ \E j \in Jobs : ThreadEnds(j)
           \/ HostTurn
<1>1. \A j \in Jobs : Asks(j) \/ Cancels(j) \/ ThreadWakes(j) \/ ThreadGoesOn(j) => UNCHANGED toHost
  BY DEF Asks, Cancels, ThreadWakes, ThreadGoesOn
<1>2. WindowHears => UNCHANGED toHost
  BY DEF WindowHears
<1> QED
  BY <1>1, <1>2 DEF Next, ThreadStep

\* What the host says is an error about the block it has failed to write, or an end.
LEMMA HostAnswers ==
    ASSUME UploadAssumption, TypeOK, JobsAreSound, MessagesAreSound, HostTurn
    PROVE  /\ toViewer' \in Seq(Messages)
           /\ Grows(toViewer, toViewer')
           /\ \A i \in Fresh(toViewer, toViewer') :
                 /\ i = Len(toViewer) + 1
                 /\ \/ HostWriteFails /\ Errs(toViewer'[i], Next1.id)
                    \/ HostDone /\ \E k \in DoneKeys :
                         /\ toViewer'[i].type = "Done"
                         /\ toViewer'[i].id = writeJobs[k].id
                         /\ writeJobs' = [writeJobs EXCEPT ![k].done = TRUE]
           /\ HostWriteFails => /\ Len(toViewer) + 1 \in DOMAIN toViewer'
                                /\ Errs(toViewer'[Len(toViewer) + 1], Next1.id)
<1>1. toViewer \in Seq(Messages) /\ <<>> \in Seq(Units)
  BY DEF TypeOK
<1>2. CASE HostWriteFails
  <2> DEFINE m == Message("Error", Next1.id, Next1.file, <<>>)
  <2>1. Next1 \in Messages
    BY <1>2, HostTakesShifts DEF HostWriteFails
  <2>2. m \in Messages /\ Errs(m, Next1.id)
    BY <1>1, <2>1 DEF Message, Messages, Errs
  <2>3. toViewer' = Append(toViewer, m)
    BY <1>2 DEF HostWriteFails
  <2> HIDE DEF m
  <2>4. /\ toViewer' \in Seq(Messages) /\ Grows(toViewer, toViewer')
        /\ Len(toViewer) + 1 \in DOMAIN toViewer' /\ toViewer'[Len(toViewer) + 1] = m
        /\ \A i \in DOMAIN toViewer' : i \in DOMAIN toViewer \/ i = Len(toViewer) + 1
    BY <1>1, <2>2, <2>3, AppendOf
  <2> QED
    BY <1>2, <2>2, <2>4 DEF Fresh
<1>3. CASE HostDone /\ toViewer' # toViewer
  <2>1. PICK k \in DoneKeys :
           /\ writeJobs' = [writeJobs EXCEPT ![k].done = TRUE]
           /\ toViewer' = Append(toViewer, Message("Done", writeJobs[k].id, writeJobs[k].file, <<>>))
    BY <1>3 DEF HostDone
  <2> DEFINE m == Message("Done", writeJobs[k].id, writeJobs[k].file, <<>>)
  <2>2. k \in DOMAIN writeJobs
    BY DEF DoneKeys
  <2>3. writeJobs[k].id \in Jobs /\ writeJobs[k].file \in Slots
    BY <2>2 DEF TypeOK
  <2>4. m \in Messages /\ m.type = "Done" /\ m.id = writeJobs[k].id
    BY <1>1, <2>3 DEF Message, Messages
  <2>5. toViewer' = Append(toViewer, m)
    BY <2>1
  <2> HIDE DEF m
  <2>6. /\ toViewer' \in Seq(Messages) /\ Grows(toViewer, toViewer')
        /\ Len(toViewer) + 1 \in DOMAIN toViewer' /\ toViewer'[Len(toViewer) + 1] = m
        /\ \A i \in DOMAIN toViewer' : i \in DOMAIN toViewer \/ i = Len(toViewer) + 1
    BY <1>1, <2>4, <2>5, AppendOf
  <2>7. ~HostWriteFails
    BY <1>3 DEF HostDone, HostWriteFails, HostTakes
  <2> QED
    BY <1>3, <2>1, <2>4, <2>6, <2>7 DEF Fresh
<1>4. CASE toViewer' = toViewer
  <2>1. ~HostWriteFails
    <3>1. ASSUME HostWriteFails
          PROVE  FALSE
      <4>1. Next1 \in Messages
        BY <3>1, HostTakesShifts DEF HostWriteFails
      <4>2. Message("Error", Next1.id, Next1.file, <<>>) \in Messages
        BY <1>1, <4>1 DEF Message, Messages
      <4>3. toViewer' = Append(toViewer, Message("Error", Next1.id, Next1.file, <<>>))
        BY <3>1 DEF HostWriteFails
      <4>4. Len(toViewer') = Len(toViewer) + 1
        BY <1>1, <4>2, <4>3
      <4> QED
        BY <1>1, <1>4, <4>4
    <3> QED
      BY <3>1
  <2> QED
    BY <1>1, <1>4, <2>1 DEF Grows, Fresh
<1>5. HostReceive \/ HostWrites \/ HostIgnores => toViewer' = toViewer
  BY DEF HostReceive, HostWrites, HostIgnores
<1> QED
  BY <1>2, <1>3, <1>4, <1>5 DEF HostTurn

LEMMA WindowTakes ==
    ASSUME TypeOK, WindowHears
    PROVE  /\ 1 \in DOMAIN toViewer /\ Head(toViewer) = toViewer[1] /\ toViewer[1] \in Messages
           /\ toViewer[1].id \in Jobs
           /\ toViewer' \in Seq(Messages)
           /\ \A i \in DOMAIN toViewer' :
                 i \in Nat /\ i + 1 \in DOMAIN toViewer /\ toViewer'[i] = toViewer[i + 1]
           /\ \A i \in DOMAIN toViewer :
                 i # 1 => i - 1 \in DOMAIN toViewer' /\ toViewer'[i - 1] = toViewer[i]
           /\ ui' = [ui EXCEPT ![toViewer[1].id] =
                        IF toViewer[1].type = "Error" THEN "failed"
                        ELSE IF @ = "active" THEN "finished" ELSE @]
<1>1. toViewer \in Seq(Messages) /\ toViewer # <<>> /\ toViewer' = Tail(toViewer)
  BY DEF TypeOK, WindowHears
<1>2. Head(toViewer) = toViewer[1] /\ toViewer[1] \in Messages
  BY <1>1, TailOf
<1>3. toViewer[1].id \in Jobs
  BY <1>2 DEF Messages
<1>4. ui' = [ui EXCEPT ![toViewer[1].id] =
                IF toViewer[1].type = "Error" THEN "failed"
                ELSE IF @ = "active" THEN "finished" ELSE @]
  <2> HIDE <1>3
  <2> QED
    BY <1>2 DEF WindowHears
<1> QED
  BY <1>1, <1>2, <1>3, <1>4, TailOf

LEMMA WhoAnswers ==
    ASSUME Next
    PROVE  UNCHANGED toViewer \/ WindowHears \/ HostTurn
<1>1. \A j \in Jobs : Asks(j) \/ Cancels(j) \/ ThreadStep(j) => UNCHANGED toViewer
  BY DEF Asks, Cancels, ThreadStep, ThreadWakes, ThreadSends, ThreadGoesOn, ThreadEnds
<1>2. NetworkFlushes => UNCHANGED toViewer
  BY DEF NetworkFlushes
<1> QED
  BY <1>1, <1>2 DEF Next

-----------------------------------------------------------------------------
(* What never goes back.                                                       *)

LEMMA PastStays ==
    ASSUME Next
    PROVE  tree' = tree /\ unread \subseteq unread' /\ dropped \subseteq dropped'
<1>1. \A j \in Jobs : Asks(j) \/ Cancels(j) \/ ThreadStep(j) =>
         tree' = tree /\ unread \subseteq unread' /\ dropped' = dropped
  BY DEF Asks, Cancels, ThreadStep, ThreadWakes, ThreadSends, ThreadGoesOn, ThreadEnds, pastVars
<1>2. NetworkFlushes \/ WindowHears => tree' = tree /\ unread' = unread /\ dropped' = dropped
  BY DEF NetworkFlushes, WindowHears, pastVars
<1>3. HostTurn => tree' = tree /\ unread' = unread /\ dropped \subseteq dropped'
  BY DEF HostTurn, HostReceive, HostWrites, HostWriteFails, HostIgnores, HostDone, HostTakes
<1> QED
  BY <1>1, <1>2, <1>3 DEF Next

\* The window shows a job from the moment it is asked for, and a failure for good.
LEMMA WindowStays ==
    ASSUME TypeOK, Next, NEW j \in Jobs
    PROVE  /\ Asked(j) => Asked(j)'
           /\ ui[j] = "failed" => ui'[j] = "failed"
           /\ ui'[j] # ui[j] => (\E i \in Jobs : Asks(i) \/ Cancels(i)) \/ WindowHears
<1>1. ui \in [Jobs -> {"none", "active", "finished", "failed"}]
  BY DEF TypeOK
<1>2. \A i \in Jobs : Asks(i) \/ Cancels(i) =>
         /\ Asked(j) => Asked(j)'
         /\ ui[j] = "failed" => ui'[j] = "failed"
  BY <1>1 DEF Asks, Cancels, Asked
<1>3. WindowHears =>
         /\ Asked(j) => Asked(j)'
         /\ ui[j] = "failed" => ui'[j] = "failed"
  BY <1>1, WindowTakes DEF Asked
<1>4. ((\E i \in Jobs : ThreadStep(i)) \/ NetworkFlushes \/ HostTurn) => ui' = ui
  BY DEF ThreadStep, ThreadWakes, ThreadSends, ThreadGoesOn, ThreadEnds, NetworkFlushes,
         HostTurn, HostReceive, HostWrites, HostWriteFails, HostIgnores, HostDone, HostTakes,
         viewerVars
<1> QED
  BY <1>2, <1>3, <1>4 DEF Next, Asked

LEMMA ClashesStay ==
    ASSUME TypeOK, Next, NEW j \in Jobs, Clashes(j)
    PROVE  Clashes(j)'
<1>1. tree' = tree
  BY PastStays
<1>2. PICK i \in Jobs \ {j} :
         ui[i] # "none" /\ ui[j] # "none" /\ KeysOf(i) \cap KeysOf(j) # {}
  BY DEF Clashes
<1>3. ui'[i] # "none" /\ ui'[j] # "none"
  BY <1>2, WindowStays DEF Asked
<1>4. KeysOf(i)' = KeysOf(i) /\ KeysOf(j)' = KeysOf(j)
  BY <1>1 DEF KeysOf, Key
<1> QED
  BY <1>2, <1>3, <1>4 DEF Clashes

LEMMA ThreadMoves ==
    ASSUME TypeOK, Next, NEW j \in Jobs
    PROVE  \/ thread'[j] = thread[j]
           \/ Asks(j) /\ tree[j] # <<>> /\ thread' = [thread EXCEPT ![j].at = "asleep"]
           \/ ThreadStep(j)
<1>1. thread \in [Jobs -> [at : {"none", "asleep", "sending", "over"}, file : Nat, block : Nat]]
  BY DEF TypeOK
<1>2. \A i \in Jobs : Asks(i) => \/ thread' = thread
                                 \/ tree[i] # <<>> /\ thread' = [thread EXCEPT ![i].at = "asleep"]
  BY DEF Asks
<1>3. \A i \in Jobs : ThreadStep(i) /\ i # j => thread'[j] = thread[j]
  BY <1>1 DEF ThreadStep, ThreadWakes, ThreadSends, ThreadGoesOn, ThreadEnds, NextFile
<1>4. (\E i \in Jobs : Cancels(i)) \/ NetworkFlushes \/ WindowHears \/ HostTurn => thread' = thread
  BY DEF Cancels, NetworkFlushes, WindowHears,
         HostTurn, HostReceive, HostWrites, HostWriteFails, HostIgnores, HostDone, HostTakes,
         viewerVars
<1>5. \A i \in Jobs : Asks(i) /\ i # j => thread'[j] = thread[j]
  BY <1>1, <1>2
<1> QED
  BY <1>2, <1>3, <1>4, <1>5 DEF Next

LEMMA ThreadStaysOver ==
    ASSUME TypeOK, ThreadsAreSound, Next, NEW j \in Jobs, ThreadAt(j, "over")
    PROVE  ThreadAt(j, "over")' /\ ~ThreadStep(j)
<1>1. thread[j].at = "over"
  BY DEF ThreadAt
<1>2. ~ThreadStep(j) /\ ~Asks(j)
  BY <1>1 DEF ThreadStep, ThreadWakes, ThreadSends, ThreadGoesOn, ThreadEnds, ThreadAt, Asks,
              ThreadsAreSound, Asked
<1> QED
  BY <1>1, <1>2, ThreadMoves DEF ThreadAt

LEMMA OverStays ==
    ASSUME UploadAssumption, TypeOK, ThreadsAreSound, Next, NEW j \in Jobs, Over(j)
    PROVE  Over(j)'
<1>1. ThreadAt(j, "over")
  BY DEF Over
<1>2. ThreadAt(j, "over")' /\ ~ThreadStep(j)
  BY <1>1, ThreadStaysOver
<1>3. toHost \in Seq(Messages)
  BY DEF TypeOK
<1>4. ASSUME NEW i \in DOMAIN toHost', toHost'[i].id = j
      PROVE  toHost'[i].type = "Receive"
  <2>1. CASE UNCHANGED toHost
    BY <1>4, <2>1 DEF Over
  <2>2. CASE NetworkFlushes
    <3>1. CASE i \in DOMAIN toHost
      BY <1>4, <2>2, <3>1, FlushesSay DEF Over, Grows
    <3>2. CASE i \notin DOMAIN toHost
      BY <1>4, <2>2, <3>2, FlushesSay DEF Fresh, Message
    <3> QED
      BY <3>1, <3>2
  <2>3. ASSUME NEW k \in Jobs, ThreadSends(k) \/ ThreadEnds(k)
        PROVE  toHost'[i].type = "Receive"
    <3>1. k # j
      BY <1>2, <2>3 DEF ThreadStep
    <3>2. PICK m \in Messages : toHost' = Append(toHost, m) /\ m.id = k
      BY <2>3, ThreadSendsSays, ThreadEndsSays
    <3>3. i \in DOMAIN toHost /\ toHost'[i] = toHost[i]
      BY <1>4, <3>1, <3>2, ThreadSays DEF Grows
    <3> QED
      BY <1>4, <3>3 DEF Over
  <2>4. CASE HostTurn
    BY <1>4, <2>4, HostTurnTakes, HostTakesShifts DEF Over
  <2> QED
    BY <2>1, <2>2, <2>3, <2>4, WhoSpeaks
<1> QED
  BY <1>2, <1>4 DEF Over

LEMMA BadStays ==
    ASSUME UploadAssumption, TypeOK, MessagesAreSound, JobsAreSound, Next, NEW j \in Jobs, Bad(j)
    PROVE  Bad(j)'
<1>1. CASE ui[j] = "failed"
  BY <1>1, WindowStays DEF Bad
<1>2. ASSUME NEW i \in DOMAIN toViewer, Errs(toViewer[i], j)
      PROVE  Bad(j)'
  <2>1. CASE UNCHANGED toViewer
    BY <1>2, <2>1 DEF Bad
  <2>2. CASE WindowHears
    <3>1. CASE i = 1
      <4>1. ui \in [Jobs -> {"none", "active", "finished", "failed"}]
        BY DEF TypeOK
      <4>2. ui'[j] = "failed"
        BY <1>2, <2>2, <3>1, <4>1, WindowTakes DEF Errs
      <4> QED
        BY <4>2 DEF Bad
    <3>2. CASE i # 1
      BY <1>2, <2>2, <3>2, WindowTakes DEF Bad
    <3> QED
      BY <3>1, <3>2
  <2>3. CASE HostTurn
    BY <1>2, <2>3, HostAnswers DEF Bad, Grows
  <2> QED
    BY <2>1, <2>2, <2>3, WhoAnswers
<1> QED
  BY <1>1, <1>2 DEF Bad

\* As long as the keys of a job do not clash, they are of no other job.
LEMMA OwnKey ==
    ASSUME NEW j \in Jobs, ~Clashes(j), Asked(j), NEW i \in Jobs, Asked(i),
           NEW k, k \in KeysOf(i), k \in KeysOf(j)
    PROVE  i = j
BY DEF Clashes, Asked

\* Jobs of the host under a key of a job that does not clash are its own, and of
\* the entry the key belongs to.
LEMMA OwnJob ==
    ASSUME UploadAssumption, TypeOK, JobsAreSound, NEW j \in Jobs, ~Clashes(j), Asked(j),
           NEW f \in DOMAIN tree[j], Key(j, f) \in DOMAIN writeJobs
    PROVE  writeJobs[Key(j, f)].id = j /\ writeJobs[Key(j, f)].file = f /\ HasJob(<<j, f>>)
<1> DEFINE k == Key(j, f)
           w == writeJobs[k]
<1>1. w.id \in Jobs /\ w.file \in Slots /\ k = Key(w.id, w.file)
  BY DEF TypeOK
<1>2. Asked(w.id) /\ IsFile(w.id, w.file)
  BY DEF JobsAreSound, JobIsSound
<1>3. k \in KeysOf(w.id) /\ k \in KeysOf(j)
  BY <1>1, <1>2, FilesAreListed DEF KeysOf
<1>4. w.id = j
  BY <1>1, <1>2, <1>3, OwnKey
<1>5. f \in Slots
  BY ListsAreShort
<1>6. w.file = f
  BY <1>1, <1>4, <1>5, FilesAndKeys
<1> QED
  BY <1>4, <1>6 DEF HasJob

-----------------------------------------------------------------------------
(* Types.                                                                      *)

\* What the host finds under the key of a block, and where it writes it.
LEMMA BlockGoesTo ==
    ASSUME UploadAssumption, TypeOK, MessagesAreSound, JobsAreSound, HostTakes("Block"), Writable
    PROVE  LET w == writeJobs[BlockKey] IN
           /\ BlockKey \in DOMAIN writeJobs
           /\ JobFile = <<w.id, w.file>> /\ JobFile \in Files
           /\ w.id \in Jobs /\ w.file \in Slots /\ w.offset \in Nat /\ w.done \in BOOLEAN
           /\ BlockKey = Key(w.id, w.file)
           /\ JobIsSound(w)
           /\ Next1.data = << <<Next1.id, Next1.file, Number(Next1)>> >>
           /\ dest[JobFile] \in Seq(Units) /\ w.offset <= Len(dest[JobFile])
           /\ <<Next1.id, Next1.file, Number(Next1)>> \in Units
<1>1. BlockKey \in DOMAIN writeJobs
  BY DEF Writable
<1> DEFINE w == writeJobs[BlockKey]
<1>2. /\ w.id \in Jobs /\ w.file \in Slots /\ w.offset \in Nat /\ w.done \in BOOLEAN
      /\ BlockKey = Key(w.id, w.file)
  BY <1>1 DEF TypeOK
<1>3. JobFile = <<w.id, w.file>> /\ JobFile \in Files
  BY <1>2 DEF JobFile, Files
<1>4. JobIsSound(w)
  BY <1>1 DEF JobsAreSound
<1>5. dest[JobFile] \in Seq(Units) /\ w.offset <= Len(dest[JobFile])
  BY <1>3, <1>4 DEF TypeOK, JobIsSound
<1>6. /\ 1 \in DOMAIN toHost /\ Next1 = toHost[1] /\ Next1.type = "Block" /\ Next1 \in Messages
  BY HostTakesShifts
<1>7. Next1.data = << <<Next1.id, Next1.file, Number(Next1)>> >>
  BY <1>6 DEF MessagesAreSound, SaidToHost
<1>8. Next1.data \in Seq(Units)
  BY <1>6 DEF Messages
<1>9. <<Next1.id, Next1.file, Number(Next1)>> \in Units
  BY <1>7, <1>8
<1> QED
  BY <1>1, <1>2, <1>3, <1>4, <1>5, <1>7, <1>9

LEMMA PutBehind ==
    ASSUME NEW S, NEW a \in Seq(S), NEW u \in S
    PROVE  /\ a \o <<u>> \in Seq(S)
           /\ Len(a \o <<u>>) = Len(a) + 1
           /\ \A n \in 1 .. Len(a) : (a \o <<u>>)[n] = a[n]
           /\ (a \o <<u>>)[Len(a) + 1] = u
<1>1. a \o <<u>> = Append(a, u)
  OBVIOUS
<1> QED
  BY <1>1

\* A block is put where the last one ended.
LEMMA WrittenIs ==
    ASSUME NEW S, NEW old \in Seq(S), NEW at \in Nat, at <= Len(old), NEW u \in S
    PROVE  /\ Written(old, at, <<u>>) \in Seq(S)
           /\ Len(Written(old, at, <<u>>)) = at + 1
           /\ \A n \in 1 .. at : Written(old, at, <<u>>)[n] = old[n]
           /\ Written(old, at, <<u>>)[at + 1] = u
<1> DEFINE a == SubSeq(old, 1, at)
<1>1. a \in Seq(S) /\ Len(a) = at
  OBVIOUS
<1>2. \A n \in 1 .. at : a[n] = old[n]
  OBVIOUS
<1>3. Written(old, at, <<u>>) = a \o <<u>>
  BY DEF Written
<1> HIDE DEF a
<1>4. /\ a \o <<u>> \in Seq(S) /\ Len(a \o <<u>>) = at + 1
      /\ \A n \in 1 .. at : (a \o <<u>>)[n] = a[n]
      /\ (a \o <<u>>)[at + 1] = u
  BY <1>1, PutBehind
<1> QED
  BY <1>2, <1>3, <1>4

WriteJob == [id : Jobs, file : Slots, offset : Nat, done : BOOLEAN]

\* The announcement opens k for a file of the job.
Opens(k) ==
    /\ HostReceive
    /\ \E f \in DOMAIN tree[Next1.id] :
          /\ IsFile(Next1.id, f)
          /\ k = Key(Next1.id, f)
          /\ writeJobs'[k] = [id |-> Next1.id, file |-> f, offset |-> 0, done |-> FALSE]

\* The step writes to the file of k, or closes it.
WritesTo(k) == HostWrites /\ k = BlockKey
Closes(k)   == (HostWriteFails /\ k = BlockKey) \/ (HostDone /\ k \in DoneKeys)

LEMMA ReceiveOpens ==
    ASSUME UploadAssumption, TypeOK, HostReceive
    PROVE  /\ DOMAIN writeJobs \subseteq DOMAIN writeJobs'
           /\ \A f \in DOMAIN tree[Next1.id] :
                 IsFile(Next1.id, f) => /\ Key(Next1.id, f) \in DOMAIN writeJobs'
                                        /\ Opens(Key(Next1.id, f))
           /\ \A k \in DOMAIN writeJobs' :
                 Opens(k) \/ (k \in DOMAIN writeJobs /\ writeJobs'[k] = writeJobs[k])
<1> DEFINE j    == Next1.id
           keys == {Key(j, f) : f \in {g \in DOMAIN tree[j] : IsFile(j, g)}}
           new(k) == [id |-> j, file |-> k - j * Stride + 1, offset |-> 0, done |-> FALSE]
<1>1. writeJobs' = [k \in DOMAIN writeJobs \cup keys |-> IF k \in keys THEN new(k) ELSE writeJobs[k]]
  BY DEF HostReceive
<1>2. j \in Jobs
  BY HostTakesShifts DEF HostReceive
<1>3. ASSUME NEW f \in DOMAIN tree[j], IsFile(j, f)
      PROVE  Key(j, f) \in DOMAIN writeJobs' /\ Opens(Key(j, f))
  <2>1. Key(j, f) \in keys /\ Key(j, f) - j * Stride + 1 = f
    BY <1>2, <1>3, FilesAreListed, FilesAndKeys
  <2>2. new(Key(j, f)) = [id |-> j, file |-> f, offset |-> 0, done |-> FALSE]
    BY <2>1
  <2> HIDE DEF keys, new
  <2>3. Key(j, f) \in DOMAIN writeJobs' /\ writeJobs'[Key(j, f)] = new(Key(j, f))
    BY <1>1, <2>1
  <2> QED
    BY <1>3, <2>2, <2>3 DEF Opens
<1>4. ASSUME NEW k \in DOMAIN writeJobs'
      PROVE  Opens(k) \/ (k \in DOMAIN writeJobs /\ writeJobs'[k] = writeJobs[k])
  <2>1. CASE k \in keys
    BY <1>3, <2>1
  <2>2. CASE k \notin keys
    <3> HIDE DEF keys, new
    <3> QED
      BY <1>1, <2>2
  <2> QED
    BY <2>1, <2>2
<1>5. DOMAIN writeJobs \subseteq DOMAIN writeJobs'
  <2> HIDE DEF keys, new
  <2> QED
    BY <1>1
<1> QED
  BY <1>3, <1>4, <1>5

\* What a step makes of the write jobs of the host: they are opened, one at a
\* time is written to or closed, and none is forgotten.
LEMMA JobsMove ==
    ASSUME UploadAssumption, TypeOK, MessagesAreSound, JobsAreSound, Next
    PROVE  /\ DOMAIN writeJobs \subseteq DOMAIN writeJobs'
           /\ \A k \in DOMAIN writeJobs' :
                 \/ Opens(k)
                 \/ /\ k \in DOMAIN writeJobs
                    /\ writeJobs'[k] \in WriteJob
                    /\ writeJobs'[k].id = writeJobs[k].id
                    /\ writeJobs'[k].file = writeJobs[k].file
                    /\ WritesTo(k) => writeJobs'[k].offset = writeJobs[k].offset + 1
                    /\ ~WritesTo(k) => writeJobs'[k].offset = writeJobs[k].offset
                    /\ ~Closes(k) => writeJobs'[k].done = writeJobs[k].done
<1> DEFINE Good(k) ==
       /\ k \in DOMAIN writeJobs
       /\ writeJobs'[k] \in WriteJob
       /\ writeJobs'[k].id = writeJobs[k].id
       /\ writeJobs'[k].file = writeJobs[k].file
       /\ WritesTo(k) => writeJobs'[k].offset = writeJobs[k].offset + 1
       /\ ~WritesTo(k) => writeJobs'[k].offset = writeJobs[k].offset
       /\ ~Closes(k) => writeJobs'[k].done = writeJobs[k].done
<1> SUFFICES /\ DOMAIN writeJobs \subseteq DOMAIN writeJobs'
             /\ \A k \in DOMAIN writeJobs' : Opens(k) \/ Good(k)
  OBVIOUS
<1>1. \A k \in DOMAIN writeJobs :
         /\ writeJobs[k] \in WriteJob /\ writeJobs[k].offset \in Nat
         /\ writeJobs[k] = [id |-> writeJobs[k].id, file |-> writeJobs[k].file,
                            offset |-> writeJobs[k].offset, done |-> writeJobs[k].done]
  BY DEF TypeOK, WriteJob
<1>2. CASE HostWrites
  <2>1. /\ BlockKey \in DOMAIN writeJobs /\ Next1.data = << <<Next1.id, Next1.file, Number(Next1)>> >>
    BY <1>2, BlockGoesTo DEF HostWrites
  <2>2. Len(Next1.data) = 1
    BY <2>1
  <2>3. writeJobs' = [writeJobs EXCEPT ![BlockKey].offset = @ + 1]
    BY <1>2, <2>2 DEF HostWrites
  <2>4. DOMAIN writeJobs' = DOMAIN writeJobs
    BY <2>3
  <2>5. ASSUME NEW k \in DOMAIN writeJobs
        PROVE  Good(k)
    <3>1. CASE k = BlockKey
      <4>1. writeJobs'[k] = [writeJobs[k] EXCEPT !.offset = @ + 1]
        BY <2>1, <2>3, <3>1
      <4>2. writeJobs'[k] \in WriteJob /\ writeJobs'[k].offset = writeJobs[k].offset + 1
        BY <1>1, <4>1 DEF WriteJob
      <4> QED
        BY <1>1, <1>2, <3>1, <4>1, <4>2 DEF WritesTo
    <3>2. CASE k # BlockKey
      BY <1>1, <2>3, <3>2 DEF WritesTo
    <3> QED
      BY <3>1, <3>2
  <2> QED
    BY <2>4, <2>5
<1>3. ASSUME NEW b \in DOMAIN writeJobs, Closes(b), ~HostWrites,
             writeJobs' = [writeJobs EXCEPT ![b].done = TRUE]
      PROVE  DOMAIN writeJobs \subseteq DOMAIN writeJobs' /\ \A k \in DOMAIN writeJobs' : Good(k)
  <2>1. DOMAIN writeJobs' = DOMAIN writeJobs
    BY <1>3
  <2>2. ASSUME NEW k \in DOMAIN writeJobs
        PROVE  Good(k)
    <3>1. CASE k = b
      <4>1. writeJobs'[k] = [writeJobs[k] EXCEPT !.done = TRUE]
        BY <1>3, <3>1
      <4>2. writeJobs'[k] \in WriteJob
        BY <1>1, <4>1 DEF WriteJob
      <4> QED
        BY <1>1, <1>3, <3>1, <4>1, <4>2 DEF WritesTo
    <3>2. CASE k # b
      BY <1>1, <1>3, <3>2 DEF WritesTo
    <3> QED
      BY <3>1, <3>2
  <2> QED
    BY <2>1, <2>2
<1>4. CASE HostWriteFails
  <2>1. BlockKey \in DOMAIN writeJobs /\ Closes(BlockKey) /\ ~HostWrites
    BY <1>4 DEF HostWriteFails, Writable, Closes, HostWrites
  <2> QED
    BY <1>3, <1>4, <2>1 DEF HostWriteFails
<1>5. CASE HostDone /\ writeJobs' # writeJobs
  <2>1. PICK k \in DoneKeys : writeJobs' = [writeJobs EXCEPT ![k].done = TRUE]
    BY <1>5 DEF HostDone
  <2>2. k \in DOMAIN writeJobs /\ Closes(k) /\ ~HostWrites
    BY <1>5, <2>1 DEF DoneKeys, Closes, HostDone, HostWrites, HostTakes
  <2> QED
    BY <1>3, <2>1, <2>2
<1>6. CASE HostReceive
  <2>1. ASSUME NEW k \in DOMAIN writeJobs, writeJobs'[k] = writeJobs[k]
        PROVE  Good(k)
    BY <1>1, <1>6, <2>1 DEF WritesTo, HostReceive, HostWrites, HostTakes
  <2> QED
    BY <1>6, <2>1, ReceiveOpens
<1>7. CASE writeJobs' = writeJobs /\ ~HostWrites
  BY <1>1, <1>7 DEF WritesTo
<1>8. \A j \in Jobs : Asks(j) \/ Cancels(j) \/ ThreadStep(j) => writeJobs' = writeJobs
  BY DEF Asks, Cancels, ThreadStep, ThreadWakes, ThreadSends, ThreadGoesOn, ThreadEnds
<1>9. NetworkFlushes \/ WindowHears \/ HostIgnores => writeJobs' = writeJobs
  BY DEF NetworkFlushes, WindowHears, HostIgnores
<1>10. HostTurn \/ writeJobs' = writeJobs
  BY <1>8, <1>9 DEF Next
<1> HIDE DEF Good
<1> QED
  BY <1>2, <1>4, <1>5, <1>6, <1>7, <1>9, <1>10 DEF HostTurn

LEMMA OpensJob ==
    ASSUME UploadAssumption, TypeOK, NEW k, Opens(k)
    PROVE  LET w == writeJobs'[k] IN
           /\ Next1.id \in Jobs /\ Next1.type = "Receive" /\ Next1 = toHost[1] /\ 1 \in DOMAIN toHost
           /\ w \in WriteJob /\ k = Key(w.id, w.file)
           /\ w.id = Next1.id /\ IsFile(w.id, w.file) /\ w.offset = 0 /\ w.done = FALSE
           /\ k \in KeysOf(w.id)
<1>1. PICK f \in DOMAIN tree[Next1.id] :
         /\ IsFile(Next1.id, f) /\ k = Key(Next1.id, f)
         /\ writeJobs'[k] = [id |-> Next1.id, file |-> f, offset |-> 0, done |-> FALSE]
  BY DEF Opens
<1>2. HostTakes("Receive")
  BY DEF Opens, HostReceive
<1>3. Next1.id \in Jobs /\ Next1.type = "Receive" /\ Next1 = toHost[1] /\ 1 \in DOMAIN toHost
  BY <1>2, HostTakesShifts
<1>4. f \in Slots /\ Key(Next1.id, f) \in KeysOf(Next1.id)
  BY <1>1, <1>3, FilesAreListed
<1> QED
  BY <1>1, <1>3, <1>4 DEF WriteJob

\* Files change only where a block is written.
LEMMA DestMoves ==
    ASSUME UploadAssumption, TypeOK, MessagesAreSound, JobsAreSound, Next
    PROVE  /\ dest' \in [Files -> Seq(Units)]
           /\ \A x \in Files :
                 /\ ~(HostWrites /\ x = JobFile) => dest'[x] = dest[x]
                 /\ HostWrites /\ x = JobFile =>
                       /\ dest'[x] = Written(dest[x], writeJobs[BlockKey].offset,
                                             << <<Next1.id, Next1.file, Number(Next1)>> >>)
                       /\ Len(dest'[x]) = writeJobs[BlockKey].offset + 1
<1>1. dest \in [Files -> Seq(Units)]
  BY DEF TypeOK
<1>2. CASE HostWrites
  <2> DEFINE u   == <<Next1.id, Next1.file, Number(Next1)>>
             at  == writeJobs[BlockKey].offset
             new == Written(dest[JobFile], at, <<u>>)
  <2>1. /\ JobFile \in Files /\ Next1.data = <<u>> /\ u \in Units
        /\ dest[JobFile] \in Seq(Units) /\ at \in Nat /\ at <= Len(dest[JobFile])
    BY <1>2, BlockGoesTo DEF HostWrites
  <2>2. dest' = [dest EXCEPT ![JobFile] = new]
    BY <1>2, <2>1 DEF HostWrites
  <2>3. new \in Seq(Units) /\ Len(new) = at + 1
    BY <2>1, WrittenIs
  <2> HIDE DEF new, at, u
  <2>4. dest' \in [Files -> Seq(Units)] /\ dest'[JobFile] = new
        /\ \A x \in Files : x # JobFile => dest'[x] = dest[x]
    BY <1>1, <2>1, <2>2, <2>3
  <2> QED
    BY <1>2, <2>3, <2>4 DEF new, at, u
<1>3. CASE ~HostWrites
  <2>1. dest' = dest
    <3>1. \A j \in Jobs : Asks(j) \/ Cancels(j) \/ ThreadStep(j) => dest' = dest
      BY DEF Asks, Cancels, ThreadStep, ThreadWakes, ThreadSends, ThreadGoesOn, ThreadEnds
    <3>2. NetworkFlushes \/ WindowHears => dest' = dest
      BY DEF NetworkFlushes, WindowHears
    <3>3. HostReceive \/ HostWriteFails \/ HostIgnores \/ HostDone => dest' = dest
      BY DEF HostReceive, HostWriteFails, HostIgnores, HostDone
    <3> QED
      BY <1>3, <3>1, <3>2, <3>3 DEF Next, HostTurn
  <2> QED
    BY <1>1, <1>3, <2>1
<1> QED
  BY <1>2, <1>3

LEMMA ThreadTypes ==
    ASSUME UploadAssumption, TypeOK, Next
    PROVE  thread' \in [Jobs -> [at : {"none", "asleep", "sending", "over"}, file : Nat, block : Nat]]
<1> DEFINE State == [at : {"none", "asleep", "sending", "over"}, file : Nat, block : Nat]
<1>1. /\ thread \in [Jobs -> State]
      /\ \A i \in Jobs : /\ thread[i].file \in Nat /\ thread[i].block \in Nat
                         /\ thread[i].file + 1 \in Nat /\ thread[i].block + 1 \in Nat
  BY DEF TypeOK
<1>2. ASSUME NEW i \in Jobs, Asks(i) \/ ThreadWakes(i)
      PROVE  thread' \in [Jobs -> State]
  BY <1>1, <1>2 DEF Asks, ThreadWakes
<1>3. ASSUME NEW i \in Jobs, ThreadSends(i) \/ ThreadEnds(i)
      PROVE  thread' \in [Jobs -> State]
  BY <1>1, <1>3 DEF ThreadSends, ThreadEnds
<1>4. ASSUME NEW i \in Jobs, ThreadGoesOn(i)
      PROVE  thread' \in [Jobs -> State]
  BY <1>1, <1>4 DEF ThreadGoesOn, NextFile
<1>5. (\E i \in Jobs : Cancels(i)) \/ NetworkFlushes \/ WindowHears \/ HostTurn => thread' = thread
  BY DEF Cancels, NetworkFlushes, WindowHears,
         HostTurn, HostReceive, HostWrites, HostWriteFails, HostIgnores, HostDone, HostTakes,
         viewerVars
<1> QED
  BY <1>1, <1>2, <1>3, <1>4, <1>5 DEF Next, ThreadStep

LEMMA PastTypes ==
    ASSUME UploadAssumption, TypeOK, MessagesAreSound, Next
    PROVE  unread' \subseteq Files /\ dropped' \subseteq Files
<1>1. unread \subseteq Files /\ dropped \subseteq Files
  BY DEF TypeOK
<1>2. ASSUME NEW j \in Jobs, ThreadGoesOn(j)
      PROVE  unread' \subseteq Files /\ dropped' = dropped
  BY <1>1, <1>2, FilesAreListed DEF ThreadGoesOn
<1>3. ASSUME HostIgnores \/ HostDone
      PROVE  dropped' \subseteq Files /\ unread' = unread
  <2>1. /\ Next1 = toHost[1] /\ 1 \in DOMAIN toHost /\ Next1 \in Messages /\ Next1.id \in Jobs
        /\ Next1.type \in {"Block", "Done"} /\ unread' = unread
    BY <1>3, HostTakesShifts DEF HostIgnores, HostDone
  <2>2. Next1.file \in Slots
    <3>1. SaidToHost(Next1)
      BY <2>1 DEF MessagesAreSound
    <3>2. Next1.file # 0 \/ IsFile(Next1.id, Next1.file)
      BY <2>1, <3>1 DEF SaidToHost
    <3>3. Next1.file \in Slots \cup {0}
      BY <2>1 DEF Messages
    <3> QED
      BY <2>1, <3>2, <3>3, FilesAreListed
  <2>3. BlockFile \in Files
    BY <2>1, <2>2 DEF BlockFile, Files
  <2> QED
    BY <1>1, <1>3, <2>1, <2>3 DEF HostIgnores, HostDone
<1>4. HostReceive \/ HostWrites \/ HostWriteFails => unread' = unread /\ dropped' = dropped
  BY DEF HostReceive, HostWrites, HostWriteFails, HostTakes
<1>5. NetworkFlushes \/ WindowHears => unread' = unread /\ dropped' = dropped
  BY DEF NetworkFlushes, WindowHears, pastVars
<1>6. \A j \in Jobs : Asks(j) \/ Cancels(j) \/ ThreadWakes(j) \/ ThreadSends(j) \/ ThreadEnds(j)
         => unread' = unread /\ dropped' = dropped
  BY DEF Asks, Cancels, ThreadWakes, ThreadSends, ThreadEnds, pastVars
<1> QED
  BY <1>1, <1>2, <1>3, <1>4, <1>5, <1>6 DEF Next, ThreadStep, HostTurn

LEMMA ToHostTypes ==
    ASSUME UploadAssumption, TypeOK, Next
    PROVE  toHost' \in Seq(Messages)
<1>1. toHost \in Seq(Messages)
  BY DEF TypeOK
<1>2. ASSUME NEW j \in Jobs, ThreadSends(j) \/ ThreadEnds(j)
      PROVE  toHost' \in Seq(Messages)
  <2>1. PICK m \in Messages : toHost' = Append(toHost, m)
    BY <1>2, ThreadSendsSays, ThreadEndsSays
  <2> QED
    BY <2>1, ThreadSays
<1> QED
  BY <1>1, <1>2, WhoSpeaks, FlushesSay, HostTurnTakes, HostTakesShifts

LEMMA StepTypes ==
    ASSUME UploadAssumption, TypeOK, MessagesAreSound, JobsAreSound, Next
    PROVE  TypeOK'
<1>1. tree' \in Trees
  BY PastStays DEF TypeOK
<1>2. ui' \in [Jobs -> {"none", "active", "finished", "failed"}]
  <2>1. ui \in [Jobs -> {"none", "active", "finished", "failed"}]
    BY DEF TypeOK
  <2>2. \A j \in Jobs : Asks(j) \/ Cancels(j) => ui' \in [Jobs -> {"none", "active", "finished", "failed"}]
    BY <2>1 DEF Asks, Cancels
  <2>3. WindowHears => ui' \in [Jobs -> {"none", "active", "finished", "failed"}]
    BY <2>1, WindowTakes
  <2>4. (\E i \in Jobs : ThreadStep(i)) \/ NetworkFlushes \/ HostTurn => ui' = ui
    BY DEF ThreadStep, ThreadWakes, ThreadSends, ThreadGoesOn, ThreadEnds, NetworkFlushes,
           HostTurn, HostReceive, HostWrites, HostWriteFails, HostIgnores, HostDone, HostTakes,
           viewerVars
  <2> QED
    BY <2>1, <2>2, <2>3, <2>4 DEF Next
<1>3. actionsOut' \in Seq(Jobs)
  <2>1. actionsOut \in Seq(Jobs)
    BY DEF TypeOK
  <2>2. \A j \in Jobs : Asks(j) => actionsOut' \in Seq(Jobs)
    BY <2>1 DEF Asks
  <2>3. NetworkFlushes => actionsOut' \in Seq(Jobs)
    BY DEF NetworkFlushes
  <2>4. (\E i \in Jobs : Cancels(i) \/ ThreadStep(i)) \/ WindowHears \/ HostTurn => actionsOut' = actionsOut
    BY DEF ThreadStep, ThreadWakes, ThreadSends, ThreadGoesOn, ThreadEnds, Cancels, WindowHears,
           HostTurn, HostReceive, HostWrites, HostWriteFails, HostIgnores, HostDone, HostTakes,
           viewerVars
  <2> QED
    BY <2>1, <2>2, <2>3, <2>4 DEF Next
<1>4. toViewer' \in Seq(Messages)
  BY WhoAnswers, WindowTakes, HostAnswers DEF TypeOK
<1>5. ASSUME NEW k \in DOMAIN writeJobs'
      PROVE  writeJobs'[k] \in WriteJob /\ k = Key(writeJobs'[k].id, writeJobs'[k].file)
  <2>1. CASE Opens(k)
    BY <2>1, OpensJob
  <2>2. CASE ~Opens(k)
    <3>1. /\ k \in DOMAIN writeJobs /\ writeJobs'[k] \in WriteJob
          /\ writeJobs'[k].id = writeJobs[k].id /\ writeJobs'[k].file = writeJobs[k].file
      BY <1>5, <2>2, JobsMove
    <3>2. k = Key(writeJobs[k].id, writeJobs[k].file)
      BY <3>1 DEF TypeOK
    <3> QED
      BY <3>1, <3>2
  <2> QED
    BY <2>1, <2>2
<1>6. \A k \in DOMAIN writeJobs' :
         /\ writeJobs'[k] \in [id : Jobs, file : Slots, offset : Nat, done : BOOLEAN]
         /\ k = Key(writeJobs'[k].id, writeJobs'[k].file)
  BY <1>5 DEF WriteJob
<1>7. dest' \in [Files -> Seq(Units)]
  BY DestMoves
<1>8. /\ thread' \in [Jobs -> [at : {"none", "asleep", "sending", "over"}, file : Nat, block : Nat]]
      /\ toHost' \in Seq(Messages) /\ unread' \subseteq Files /\ dropped' \subseteq Files
  BY ThreadTypes, ToHostTypes, PastTypes
<1>9. /\ Files' = Files /\ Messages' = Messages /\ Units' = Units /\ Slots' = Slots
      /\ \A j, f : Key(j, f)' = Key(j, f)
  BY DEF Files, Messages, Units, Slots, Key
<1> QED
  BY <1>1, <1>2, <1>3, <1>4, <1>6, <1>7, <1>8 DEF TypeOK, Files, Messages, Units, Slots, Key

-----------------------------------------------------------------------------
(* Every part of the invariant is kept.                                        *)

LEMMA ThreadsStep ==
    ASSUME UploadAssumption, TypeOK, ThreadsAreSound, Next
    PROVE  ThreadsAreSound'
<1>1. tree' = tree
  BY PastStays
<1> SUFFICES ASSUME NEW j \in Jobs
             PROVE  /\ CurrentFile(j)' \in 1 .. Len(tree[j]) + 1
                    /\ ~ThreadAt(j, "none")' => Asked(j)' /\ tree[j] # <<>>
                    /\ ThreadAt(j, "none")' \/ ThreadAt(j, "asleep")'
                          => CurrentFile(j)' = 1 /\ thread'[j].block = 0
                    /\ ThreadAt(j, "over")' => CurrentFile(j)' > Len(tree[j])
                    /\ thread'[j].block # 0 =>
                          /\ IsFile(j, CurrentFile(j)')
                          /\ thread'[j].block <= tree[j][CurrentFile(j)'].size
  BY <1>1 DEF ThreadsAreSound, IsFile
<1>2. /\ CurrentFile(j) \in 1 .. Len(tree[j]) + 1
      /\ ~ThreadAt(j, "none") => Asked(j) /\ tree[j] # <<>>
      /\ ThreadAt(j, "none") \/ ThreadAt(j, "asleep") => CurrentFile(j) = 1 /\ thread[j].block = 0
      /\ ThreadAt(j, "over") => CurrentFile(j) > Len(tree[j])
      /\ thread[j].block # 0 => /\ IsFile(j, CurrentFile(j))
                                /\ thread[j].block <= tree[j][CurrentFile(j)].size
  BY DEF ThreadsAreSound
<1>3. Asked(j) => Asked(j)'
  BY WindowStays
<1>4. CASE thread'[j] = thread[j]
  BY <1>2, <1>3, <1>4 DEF CurrentFile, ThreadAt
<1>5. /\ thread \in [Jobs -> [at : {"none", "asleep", "sending", "over"}, file : Nat, block : Nat]]
      /\ thread[j].file \in Nat /\ thread[j].block \in Nat
      /\ ui \in [Jobs -> {"none", "active", "finished", "failed"}]
      /\ Len(tree[j]) \in Nat /\ DOMAIN tree[j] = 1 .. Len(tree[j])
  BY ListsAreShort DEF TypeOK
<1>6. CASE Asks(j) /\ tree[j] # <<>> /\ thread' = [thread EXCEPT ![j].at = "asleep"]
  <2>1. Asked(j)' /\ thread[j].at = "none"
    <3>1. ui[j] = "none" /\ ui' = [ui EXCEPT ![j] = "active"]
      BY <1>6 DEF Asks
    <3> QED
      BY <1>2, <1>5, <3>1 DEF Asked, ThreadAt
  <2>2. thread'[j].at = "asleep" /\ thread'[j].file = thread[j].file /\ thread'[j].block = thread[j].block
    BY <1>5, <1>6
  <2> QED
    BY <1>2, <1>6, <2>1, <2>2 DEF CurrentFile, ThreadAt
<1>7. CASE ThreadWakes(j)
  <2>1. /\ thread'[j].at = "sending" /\ thread'[j].file = thread[j].file
        /\ thread'[j].block = thread[j].block
    BY <1>5, <1>7 DEF ThreadWakes
  <2> QED
    BY <1>2, <1>3, <1>7, <2>1 DEF CurrentFile, ThreadAt, ThreadWakes
<1>8. CASE ThreadSends(j)
  <2>1. /\ thread'[j].at = "sending" /\ thread'[j].file = thread[j].file
        /\ thread'[j].block = thread[j].block + 1
        /\ IsFile(j, CurrentFile(j)) /\ thread[j].block < tree[j][CurrentFile(j)].size
    BY <1>5, <1>8 DEF ThreadSends, ThreadAt
  <2>2. tree[j][CurrentFile(j)].size \in Nat
    BY <2>1, FilesAreListed
  <2>3. thread'[j].block <= tree[j][CurrentFile(j)].size
    BY <1>5, <2>1, <2>2
  <2> QED
    BY <1>2, <1>3, <1>8, <2>1, <2>3 DEF CurrentFile, ThreadAt, ThreadSends
<1>9. CASE ThreadGoesOn(j)
  <2>1. /\ thread'[j].at = "sending" /\ thread'[j].file = thread[j].file + 1
        /\ thread'[j].block = 0 /\ CurrentFile(j) \in DOMAIN tree[j]
    BY <1>5, <1>9 DEF ThreadGoesOn, ThreadAt, NextFile
  <2>2. CurrentFile(j)' \in 1 .. Len(tree[j]) + 1
    BY <1>5, <2>1 DEF CurrentFile
  <2> QED
    BY <1>2, <1>3, <1>9, <2>1, <2>2 DEF ThreadAt, ThreadGoesOn
<1>10. CASE ThreadEnds(j)
  <2>1. /\ thread'[j].at = "over" /\ thread'[j].file = thread[j].file
        /\ thread'[j].block = thread[j].block /\ CurrentFile(j) > Len(tree[j])
    BY <1>5, <1>10 DEF ThreadEnds, ThreadAt
  <2> QED
    BY <1>2, <1>3, <1>10, <2>1 DEF CurrentFile, ThreadAt, ThreadEnds
<1> QED
  BY <1>4, <1>6, <1>7, <1>8, <1>9, <1>10, ThreadMoves DEF ThreadStep

LEMMA MessagesStep ==
    ASSUME UploadAssumption, TypeOK, ThreadsAreSound, MessagesAreSound, JobsAreSound, Next
    PROVE  MessagesAreSound'
<1> DEFINE AskedNow(j) == ui'[j] # "none"
           ToHost(m) ==
               /\ AskedNow(m.id)
               /\ m.type # "Error"
               /\ m.type = "Block" => /\ IsFile(m.id, m.file)
                                      /\ m.data = << <<m.id, m.file, Number(m)>> >>
                                      /\ Number(m) \in Nat
               /\ m.type = "Done" => m.file = Len(tree[m.id]) /\ m.file # 0
           ToViewer(m) == AskedNow(m.id) /\ m.type \in {"Done", "Error"}
<1>1. tree' = tree
  BY PastStays
<1>2. \A j \in Jobs : Asked(j) => AskedNow(j)
  BY WindowStays DEF Asked
<1>3. ASSUME NEW m \in Messages, SaidToHost(m)
      PROVE  ToHost(m)
  <2>1. m.id \in Jobs
    BY DEF Messages
  <2> QED
    BY <1>2, <1>3, <2>1 DEF SaidToHost
<1>4. ASSUME NEW m \in Messages, SaidToViewer(m)
      PROVE  ToViewer(m)
  <2>1. m.id \in Jobs
    BY DEF Messages
  <2> QED
    BY <1>2, <1>4, <2>1 DEF SaidToViewer
<1>5. \A i \in DOMAIN toHost : toHost[i] \in Messages /\ ToHost(toHost[i])
  BY <1>3 DEF MessagesAreSound, TypeOK
<1>6. \A i \in DOMAIN toViewer : toViewer[i] \in Messages /\ ToViewer(toViewer[i])
  BY <1>4 DEF MessagesAreSound, TypeOK
<1>7. ASSUME NEW i \in DOMAIN actionsOut'
      PROVE  AskedNow(actionsOut'[i])
  <2>1. \A k \in DOMAIN actionsOut : actionsOut[k] \in Jobs /\ AskedNow(actionsOut[k])
    BY <1>2 DEF MessagesAreSound, TypeOK
  <2>2. ASSUME NEW j \in Jobs, Asks(j)
        PROVE  AskedNow(actionsOut'[i])
    <3>1. AskedNow(j)
      BY <2>2 DEF Asks, Asked, TypeOK
    <3>2. CASE actionsOut' = actionsOut
      BY <1>7, <2>1, <3>2
    <3>3. CASE actionsOut' = Append(actionsOut, j)
      <4>1. actionsOut \in Seq(Jobs)
        BY DEF TypeOK
      <4>2. (i \in DOMAIN actionsOut /\ actionsOut'[i] = actionsOut[i]) \/ actionsOut'[i] = j
        BY <1>7, <3>3, <4>1, AppendOf DEF Grows
      <4> QED
        BY <2>1, <3>1, <4>2
    <3> QED
      BY <2>2, <3>2, <3>3 DEF Asks
  <2>3. NetworkFlushes => actionsOut' = <<>>
    BY DEF NetworkFlushes
  <2>4. (\E j \in Jobs : Cancels(j) \/ ThreadStep(j)) \/ WindowHears \/ HostTurn => actionsOut' = actionsOut
    BY DEF ThreadStep, ThreadWakes, ThreadSends, ThreadGoesOn, ThreadEnds, Cancels, WindowHears,
           HostTurn, HostReceive, HostWrites, HostWriteFails, HostIgnores, HostDone, HostTakes,
           viewerVars
  <2> QED
    BY <1>7, <2>1, <2>2, <2>3, <2>4 DEF Next
<1>8. ASSUME NEW i \in DOMAIN toHost'
      PROVE  ToHost(toHost'[i])
  <2>1. CASE UNCHANGED toHost
    BY <1>5, <1>8, <2>1
  <2>2. CASE NetworkFlushes
    <3>1. CASE i \in DOMAIN toHost
      BY <1>5, <2>2, <3>1, FlushesSay DEF Grows
    <3>2. CASE i \notin DOMAIN toHost
      <4>1. PICK k \in DOMAIN actionsOut : toHost'[i] = Message("Receive", actionsOut[k], 0, <<>>)
        BY <1>8, <2>2, <3>2, FlushesSay DEF Fresh
      <4>2. actionsOut[k] \in Jobs /\ AskedNow(actionsOut[k])
        BY <1>2 DEF TypeOK, MessagesAreSound
      <4> QED
        BY <4>1, <4>2 DEF Message
    <3> QED
      BY <3>1, <3>2
  <2>3. ASSUME NEW j \in Jobs, ThreadSends(j)
        PROVE  ToHost(toHost'[i])
    <3> DEFINE m == Message("Block", j, CurrentFile(j),
                            << <<j, CurrentFile(j), thread[j].block + 1>> >>)
    <3>1. /\ m \in Messages /\ toHost' = Append(toHost, m)
          /\ m.type = "Block" /\ m.id = j /\ m.file = CurrentFile(j)
          /\ m.data = << <<j, CurrentFile(j), thread[j].block + 1>> >>
          /\ Number(m) = thread[j].block + 1
      BY <2>3, ThreadSendsSays
    <3>2. thread[j].block + 1 \in Nat /\ IsFile(j, CurrentFile(j)) /\ Asked(j)
      <4>1. thread[j].block \in Nat
        BY DEF TypeOK
      <4>2. ThreadAt(j, "sending") /\ IsFile(j, CurrentFile(j))
        BY <2>3 DEF ThreadSends
      <4> QED
        BY <4>1, <4>2 DEF ThreadsAreSound, ThreadAt
    <3>3. SaidToHost(m)
      <4> HIDE DEF m
      <4> QED
        BY <3>1, <3>2 DEF SaidToHost
    <3> HIDE DEF m
    <3>4. (i \in DOMAIN toHost /\ toHost'[i] = toHost[i]) \/ toHost'[i] = m
      BY <1>8, <3>1, ThreadSays DEF Grows
    <3> QED
      BY <1>3, <1>5, <3>1, <3>3, <3>4
  <2>4. ASSUME NEW j \in Jobs, ThreadEnds(j)
        PROVE  ToHost(toHost'[i])
    <3> DEFINE m == Message("Done", j, Len(tree[j]), <<>>)
    <3>1. /\ m \in Messages /\ toHost' = Append(toHost, m)
          /\ m.type = "Done" /\ m.id = j /\ m.file = Len(tree[j])
      BY <2>4, ThreadEndsSays
    <3>2. Asked(j) /\ Len(tree[j]) # 0
      <4>1. Asked(j) /\ tree[j] # <<>>
        BY <2>4 DEF ThreadEnds, ThreadsAreSound, ThreadAt
      <4>2. tree[j] \in Seq(Entries)
        BY ListsAreShort
      <4> QED
        BY <4>1, <4>2
    <3> HIDE DEF m
    <3>3. SaidToHost(m)
      BY <3>1, <3>2 DEF SaidToHost
    <3>4. (i \in DOMAIN toHost /\ toHost'[i] = toHost[i]) \/ toHost'[i] = m
      BY <1>8, <3>1, ThreadSays DEF Grows
    <3> QED
      BY <1>3, <1>5, <3>1, <3>3, <3>4
  <2>5. CASE HostTurn
    BY <1>5, <1>8, <2>5, HostTurnTakes, HostTakesShifts
  <2> QED
    BY <2>1, <2>2, <2>3, <2>4, <2>5, WhoSpeaks
<1>9. ASSUME NEW i \in DOMAIN toViewer'
      PROVE  ToViewer(toViewer'[i])
  <2>1. CASE UNCHANGED toViewer
    BY <1>6, <1>9, <2>1
  <2>2. CASE WindowHears
    BY <1>6, <1>9, <2>2, WindowTakes
  <2>3. CASE HostTurn
    <3>1. CASE i \in DOMAIN toViewer
      BY <1>6, <2>3, <3>1, HostAnswers DEF Grows
    <3>2. CASE i \notin DOMAIN toViewer
      <4>1. \/ HostWriteFails /\ Errs(toViewer'[i], Next1.id)
            \/ \E k \in DoneKeys : toViewer'[i].type = "Done" /\ toViewer'[i].id = writeJobs[k].id
        BY <1>9, <2>3, <3>2, HostAnswers DEF Fresh
      <4>2. Next1.id \in Jobs /\ Asked(Next1.id)
        BY <2>3, HostTurnTakes, HostTakesShifts DEF MessagesAreSound, SaidToHost
      <4>3. \A k \in DoneKeys : writeJobs[k].id \in Jobs /\ Asked(writeJobs[k].id)
        BY DEF DoneKeys, JobsAreSound, JobIsSound, TypeOK
      <4> QED
        BY <1>2, <4>1, <4>2, <4>3 DEF Errs
    <3> QED
      BY <3>1, <3>2
  <2> QED
    BY <2>1, <2>2, <2>3, WhoAnswers
<1>10. \A i \in DOMAIN toHost' : SaidToHost(toHost[i])'
  BY <1>1, <1>8 DEF SaidToHost, Asked, IsFile, Number
<1> QED
  BY <1>7, <1>9, <1>10 DEF MessagesAreSound, SaidToViewer, Asked

LEMMA JobsStep ==
    ASSUME UploadAssumption, TypeOK, TypeOK', MessagesAreSound, JobsAreSound, Next
    PROVE  JobsAreSound'
<1> SUFFICES ASSUME NEW k \in DOMAIN writeJobs'
             PROVE  LET w == writeJobs'[k] IN
                    /\ ui'[w.id] # "none"
                    /\ IsFile(w.id, w.file)
                    /\ w.offset <= Len(dest'[<<w.id, w.file>>])
  BY PastStays DEF JobsAreSound, JobIsSound, Asked, IsFile
<1>1. CASE Opens(k)
  <2>1. /\ Next1.id \in Jobs /\ Next1 = toHost[1] /\ 1 \in DOMAIN toHost
        /\ writeJobs'[k] \in WriteJob /\ writeJobs'[k].id = Next1.id
        /\ IsFile(writeJobs'[k].id, writeJobs'[k].file) /\ writeJobs'[k].offset = 0
    BY <1>1, OpensJob
  <2>2. Asked(Next1.id)
    BY <2>1 DEF MessagesAreSound, SaidToHost
  <2>3. ui'[Next1.id] # "none"
    BY <2>1, <2>2, WindowStays DEF Asked
  <2>4. <<writeJobs'[k].id, writeJobs'[k].file>> \in Files
    BY <2>1 DEF WriteJob, Files
  <2>5. dest'[<<writeJobs'[k].id, writeJobs'[k].file>>] \in Seq(Units)
    BY <2>4, DestMoves
  <2> QED
    BY <2>1, <2>3, <2>5
<1>2. CASE ~Opens(k)
  <2>1. /\ k \in DOMAIN writeJobs /\ writeJobs'[k] \in WriteJob
        /\ writeJobs'[k].id = writeJobs[k].id /\ writeJobs'[k].file = writeJobs[k].file
        /\ WritesTo(k) => writeJobs'[k].offset = writeJobs[k].offset + 1
        /\ ~WritesTo(k) => writeJobs'[k].offset = writeJobs[k].offset
    BY <1>2, JobsMove
  <2>2. JobIsSound(writeJobs[k]) /\ writeJobs[k].id \in Jobs
    BY <2>1 DEF JobsAreSound, TypeOK
  <2>3. ui'[writeJobs[k].id] # "none"
    BY <2>2, WindowStays DEF Asked, JobIsSound
  <2> DEFINE x == <<writeJobs[k].id, writeJobs[k].file>>
  <2>4. x \in Files /\ k = Key(writeJobs[k].id, writeJobs[k].file)
    BY <2>1 DEF WriteJob, Files, TypeOK
  <2>5. CASE WritesTo(k)
    <3>1. x = JobFile
      BY <2>5 DEF WritesTo, JobFile
    <3>2. Len(dest'[x]) = writeJobs[k].offset + 1
      BY <2>4, <2>5, <3>1, DestMoves DEF WritesTo
    <3>3. writeJobs[k].offset \in Nat
      BY <2>1 DEF TypeOK
    <3> QED
      BY <2>1, <2>2, <2>3, <2>5, <3>2, <3>3 DEF JobIsSound
  <2>6. CASE ~WritesTo(k)
    <3>1. ~(HostWrites /\ x = JobFile)
      <4>1. ASSUME HostWrites, x = JobFile
            PROVE  FALSE
        <5>1. BlockKey = Key(writeJobs[BlockKey].id, writeJobs[BlockKey].file)
          BY <4>1, BlockGoesTo DEF HostWrites
        <5>2. k = BlockKey
          BY <2>4, <4>1, <5>1 DEF JobFile
        <5> QED
          BY <2>6, <4>1, <5>2 DEF WritesTo
      <4> QED
        BY <4>1
    <3>2. dest'[x] = dest[x]
      BY <2>4, <3>1, DestMoves
    <3> QED
      BY <2>1, <2>2, <2>3, <2>6, <3>2 DEF JobIsSound
  <2> QED
    BY <2>5, <2>6
<1> QED
  BY <1>1, <1>2

LEMMA ReceivedMoves ==
    ASSUME UploadAssumption, TypeOK, MessagesAreSound, JobsAreSound, Next, NEW j, Received(j)'
    PROVE  Received(j) \/ (HostReceive /\ Announces(toHost[1], j))
<1>1. PICK k \in DOMAIN writeJobs' : writeJobs'[k].id = j
  BY DEF Received
<1>2. CASE Opens(k)
  BY <1>1, <1>2, OpensJob DEF Opens, Announces
<1>3. CASE ~Opens(k)
  BY <1>1, <1>3, JobsMove DEF Received
<1> QED
  BY <1>2, <1>3

LEMMA ActionsMove ==
    ASSUME TypeOK, Next
    PROVE  \/ actionsOut' = actionsOut /\ ~NetworkFlushes
           \/ \E j \in Jobs : Asks(j) /\ actionsOut' = Append(actionsOut, j)
           \/ NetworkFlushes /\ actionsOut' = <<>>
<1>1. \A j \in Jobs : Asks(j) => actionsOut' = actionsOut \/ actionsOut' = Append(actionsOut, j)
  BY DEF Asks
<1>2. NetworkFlushes => actionsOut' = <<>>
  BY DEF NetworkFlushes
<1>3. (\E j \in Jobs : Cancels(j) \/ ThreadStep(j)) \/ WindowHears \/ HostTurn => actionsOut' = actionsOut
  BY DEF ThreadStep, ThreadWakes, ThreadSends, ThreadGoesOn, ThreadEnds, Cancels, WindowHears,
         HostTurn, HostReceive, HostWrites, HostWriteFails, HostIgnores, HostDone, HostTakes,
         viewerVars
<1> QED
  BY <1>1, <1>2, <1>3 DEF Next

\* Where an announcement on its way comes from.
LEMMA AnnouncesMove ==
    ASSUME UploadAssumption, TypeOK, Next, NEW j \in Jobs, NEW i \in DOMAIN toHost',
           Announces(toHost'[i], j)
    PROVE  \/ i \in DOMAIN toHost /\ toHost'[i] = toHost[i] /\ ~HostTurn
           \/ HostTurn /\ i \in Nat /\ i + 1 \in DOMAIN toHost /\ toHost'[i] = toHost[i + 1]
              /\ i + 1 # 1
           \/ NetworkFlushes /\ i \notin DOMAIN toHost
              /\ i - Len(toHost) \in DOMAIN actionsOut /\ actionsOut[i - Len(toHost)] = j
<1>1. toHost \in Seq(Messages) /\ toHost' \in Seq(Messages)
  BY ToHostTypes DEF TypeOK
<1>2. CASE HostTurn
  <2>1. i \in Nat /\ i + 1 \in DOMAIN toHost /\ toHost'[i] = toHost[i + 1]
    BY <1>2, HostTurnTakes, HostTakesShifts
  <2>2. i # 0
    BY <1>1
  <2> QED
    BY <1>2, <2>1, <2>2
<1>3. CASE NetworkFlushes
  <2>1. ~HostTurn
    BY <1>3, HostTurnTakes DEF NetworkFlushes, HostTakes, viewerVars
  <2>2. CASE i \in DOMAIN toHost
    BY <1>3, <2>1, <2>2, FlushesSay DEF Grows
  <2>3. CASE i \notin DOMAIN toHost
    <3>1. /\ i - Len(toHost) \in DOMAIN actionsOut
          /\ toHost'[i] = Message("Receive", actionsOut[i - Len(toHost)], 0, <<>>)
      BY <1>3, <2>3, FlushesSay DEF Fresh
    <3> QED
      BY <1>3, <2>3, <3>1 DEF Announces, Message
  <2> QED
    BY <2>2, <2>3
<1>4. ASSUME NEW k \in Jobs, ThreadSends(k) \/ ThreadEnds(k), ~HostTurn
      PROVE  i \in DOMAIN toHost /\ toHost'[i] = toHost[i]
  <2>1. PICK m \in Messages : toHost' = Append(toHost, m) /\ m.type # "Receive"
    BY <1>4, ThreadSendsSays, ThreadEndsSays
  <2>2. Grows(toHost, toHost') /\ (i \in DOMAIN toHost \/ toHost'[i] = m)
    BY <2>1, ThreadSays
  <2> QED
    BY <2>1, <2>2 DEF Grows, Announces
<1> QED
  BY <1>2, <1>3, <1>4, WhoSpeaks

LEMMA ReceivedOnceStep ==
    ASSUME UploadAssumption, TypeOK, TypeOK', MessagesAreSound, JobsAreSound, ReceivedOnce, Next
    PROVE  ReceivedOnce'
<1>1. /\ toHost \in Seq(Messages) /\ toHost' \in Seq(Messages)
      /\ actionsOut \in Seq(Jobs) /\ actionsOut' \in Seq(Jobs)
  BY DEF TypeOK
<1>2. /\ \A i, k \in DOMAIN actionsOut : i # k => actionsOut[i] # actionsOut[k]
      /\ \A j \in Jobs : \A i, k \in DOMAIN toHost :
            Announces(toHost[i], j) /\ Announces(toHost[k], j) => i = k
      /\ \A i \in DOMAIN actionsOut :
            /\ ~Received(actionsOut[i])
            /\ \A k \in DOMAIN toHost : ~Announces(toHost[k], actionsOut[i])
      /\ \A i \in DOMAIN toHost : toHost[i].type = "Receive" => ~Received(toHost[i].id)
  BY DEF ReceivedOnce
<1>3. ASSUME NEW j \in Jobs, Asks(j)
      PROVE  /\ \A i \in DOMAIN actionsOut : actionsOut[i] # j
             /\ ~Received(j)
             /\ \A i \in DOMAIN toHost : ~Announces(toHost[i], j)
             /\ toHost' = toHost /\ ~HostTurn /\ ~HostReceive
  <2>1. ~Asked(j) /\ toHost' = toHost
    BY <1>3 DEF Asks, Asked
  <2>2. ~HostTurn /\ ~HostReceive
    <3>1. thread' # thread \/ ui' # ui
      BY <1>3 DEF Asks, TypeOK
    <3> QED
      BY <1>3, <2>1, HostTurnTakes, HostTakesShifts DEF HostTurn, Asks, TypeOK
  <2> QED
    BY <2>1, <2>2 DEF MessagesAreSound, SaidToHost, Announces, Received, JobsAreSound, JobIsSound
<1>4. ASSUME NEW i \in DOMAIN actionsOut', NEW k \in DOMAIN actionsOut', i # k
      PROVE  actionsOut'[i] # actionsOut'[k]
  <2>1. CASE actionsOut' = actionsOut
    BY <1>2, <1>4, <2>1
  <2>2. ASSUME NEW j \in Jobs, Asks(j), actionsOut' = Append(actionsOut, j)
        PROVE  actionsOut'[i] # actionsOut'[k]
    <3>1. /\ Grows(actionsOut, actionsOut') /\ actionsOut'[Len(actionsOut) + 1] = j
          /\ \A l \in DOMAIN actionsOut' : l \in DOMAIN actionsOut \/ l = Len(actionsOut) + 1
      BY <1>1, <2>2, AppendOf
    <3> QED
      BY <1>2, <1>3, <1>4, <2>2, <3>1 DEF Grows
  <2>3. CASE actionsOut' = <<>>
    BY <2>3
  <2> QED
    BY <2>1, <2>2, <2>3, ActionsMove
<1>5. ASSUME NEW j \in Jobs, NEW i \in DOMAIN toHost', NEW k \in DOMAIN toHost',
             Announces(toHost'[i], j), Announces(toHost'[k], j)
      PROVE  i = k
  <2>1. i \in Nat /\ k \in Nat /\ Len(toHost) \in Nat
    BY <1>1
  <2>2. CASE HostTurn
    <3>1. /\ i + 1 \in DOMAIN toHost /\ Announces(toHost[i + 1], j)
          /\ k + 1 \in DOMAIN toHost /\ Announces(toHost[k + 1], j)
      BY <1>5, <2>2, HostTurnTakes, HostTakesShifts
    <3> QED
      BY <1>2, <2>1, <3>1
  <2>3. CASE i \in DOMAIN toHost /\ toHost'[i] = toHost[i] /\ k \in DOMAIN toHost /\ toHost'[k] = toHost[k]
    BY <1>2, <1>5, <2>3
  <2>4. CASE /\ i - Len(toHost) \in DOMAIN actionsOut /\ actionsOut[i - Len(toHost)] = j
             /\ k - Len(toHost) \in DOMAIN actionsOut /\ actionsOut[k - Len(toHost)] = j
    <3>1. i - Len(toHost) = k - Len(toHost)
      BY <1>2, <2>4
    <3> QED
      BY <2>1, <3>1
  <2>5. \A a, b \in DOMAIN toHost' :
           ~(/\ a \in DOMAIN toHost /\ Announces(toHost[a], j)
             /\ b - Len(toHost) \in DOMAIN actionsOut /\ actionsOut[b - Len(toHost)] = j)
    BY <1>2
  <2> QED
    BY <1>5, <2>2, <2>3, <2>4, <2>5, AnnouncesMove
<1>6. ASSUME NEW i \in DOMAIN actionsOut'
      PROVE  /\ ~Received(actionsOut[i])'
             /\ \A k \in DOMAIN toHost' : ~Announces(toHost'[k], actionsOut'[i])
  <2>1. PICK j \in Jobs : j = actionsOut'[i]
    BY <1>1
  <2>2. CASE actionsOut' = actionsOut /\ ~NetworkFlushes
    <3>1. ~Received(j) /\ \A k \in DOMAIN toHost : ~Announces(toHost[k], j)
      BY <1>2, <2>1, <2>2
    <3>2. ~Received(j)'
      <4>1. HostReceive => 1 \in DOMAIN toHost
        BY HostTakesShifts DEF HostReceive
      <4> QED
        BY <3>1, <4>1, ReceivedMoves
    <3>3. \A k \in DOMAIN toHost' : ~Announces(toHost'[k], j)
      BY <2>2, <3>1, AnnouncesMove
    <3> QED
      BY <2>1, <3>2, <3>3 DEF Received
  <2>3. ASSUME NEW a \in Jobs, Asks(a), actionsOut' = Append(actionsOut, a)
        PROVE  /\ ~Received(j)'
               /\ \A k \in DOMAIN toHost' : ~Announces(toHost'[k], j)
    <3>1. j = a \/ \E l \in DOMAIN actionsOut : j = actionsOut[l]
      BY <1>1, <2>1, <2>3, AppendOf DEF Grows
    <3>2. ~Received(j) /\ \A k \in DOMAIN toHost : ~Announces(toHost[k], j)
      BY <1>2, <1>3, <2>3, <3>1
    <3>3. toHost' = toHost /\ ~HostReceive
      BY <1>3, <2>3
    <3> QED
      BY <3>2, <3>3, ReceivedMoves
  <2>4. CASE actionsOut' = <<>>
    BY <1>6, <2>4
  <2> QED
    BY <2>1, <2>2, <2>3, <2>4, ActionsMove DEF Received
<1>7. ASSUME NEW i \in DOMAIN toHost', toHost'[i].type = "Receive"
      PROVE  ~Received(toHost[i].id)'
  <2>1. PICK j \in Jobs : j = toHost'[i].id
    <3>1. toHost'[i] \in Messages
      BY <1>1
    <3> QED
      BY <3>1 DEF Messages
  <2>2. Announces(toHost'[i], j)
    BY <1>7, <2>1 DEF Announces
  <2>3. ~Received(j)
    <3>1. CASE \E k \in DOMAIN toHost : toHost'[i] = toHost[k]
      BY <1>2, <2>2, <3>1 DEF Announces
    <3>2. CASE \E k \in DOMAIN actionsOut : actionsOut[k] = j
      BY <1>2, <3>2
    <3> QED
      BY <2>2, <3>1, <3>2, AnnouncesMove
  <2>4. ~(HostReceive /\ Announces(toHost[1], j))
    <3>1. ASSUME HostReceive, Announces(toHost[1], j)
          PROVE  FALSE
      <4>1. 1 \in DOMAIN toHost /\ HostTurn /\ ~NetworkFlushes
        BY <3>1, HostTakesShifts DEF HostReceive, HostTurn, NetworkFlushes, TypeOK
      <4>2. i + 1 \in DOMAIN toHost /\ Announces(toHost[i + 1], j) /\ i + 1 # 1
        BY <2>2, <4>1, AnnouncesMove
      <4> QED
        BY <1>2, <3>1, <4>1, <4>2
    <3> QED
      BY <3>1
  <2>5. ~Received(j)'
    BY <2>3, <2>4, ReceivedMoves
  <2> QED
    BY <2>1, <2>5 DEF Received
<1> QED
  BY <1>4, <1>5, <1>6, <1>7 DEF ReceivedOnce, Announces

LEMMA ReceivedAtOnceStep ==
    ASSUME UploadAssumption, TypeOK, MessagesAreSound, JobsAreSound, ReceivedAtOnce, Next
    PROVE  ReceivedAtOnce'
<1> SUFFICES ASSUME NEW j \in Jobs, ~Clashes(j)', Received(j)',
                    NEW f \in DOMAIN tree[j], IsFile(j, f)
             PROVE  Key(j, f) \in DOMAIN writeJobs'
  BY PastStays DEF ReceivedAtOnce, IsFile, Key
<1>1. ~Clashes(j)
  BY ClashesStay
<1>2. CASE Received(j)
  BY <1>1, <1>2, JobsMove DEF ReceivedAtOnce
<1>3. CASE HostReceive /\ Announces(toHost[1], j)
  BY <1>3, ReceiveOpens, HostTakesShifts DEF HostReceive, Announces
<1> QED
  BY <1>2, <1>3, ReceivedMoves

LEMMA DoneIsLastStep ==
    ASSUME UploadAssumption, TypeOK, TypeOK', ThreadsAreSound, DoneIsLast, Next
    PROVE  DoneIsLast'
<1>1. toHost \in Seq(Messages) /\ toHost' \in Seq(Messages)
  BY DEF TypeOK
<1> SUFFICES ASSUME NEW i \in DOMAIN toHost', toHost'[i].type = "Done", NEW j \in Jobs, j = toHost'[i].id
             PROVE  /\ ThreadAt(j, "over")'
                    /\ \A k \in DOMAIN toHost' :
                          k > i /\ toHost'[k].id = j => toHost'[k].type = "Receive"
  <2>1. \A a \in DOMAIN toHost' : toHost'[a] \in Messages
    BY <1>1
  <2>2. \A a \in DOMAIN toHost' : toHost'[a].id \in Jobs
    BY <2>1 DEF Messages
  <2> QED
    BY <2>2 DEF DoneIsLast, ThreadAt
\* A Done that was there before.
<1>2. ASSUME NEW a \in DOMAIN toHost, toHost[a].type = "Done", toHost[a].id = j
      PROVE  /\ ThreadAt(j, "over") /\ ThreadAt(j, "over")' /\ ~ThreadStep(j)
             /\ \A k \in DOMAIN toHost : k > a /\ toHost[k].id = j => toHost[k].type = "Receive"
  <2>1. /\ ThreadAt(j, "over")
        /\ \A k \in DOMAIN toHost : k > a /\ toHost[k].id = j => toHost[k].type = "Receive"
    BY <1>2 DEF DoneIsLast
  <2> QED
    BY <2>1, ThreadStaysOver
<1>3. CASE UNCHANGED toHost
  BY <1>2, <1>3
<1>4. CASE NetworkFlushes
  <2>1. /\ Grows(toHost, toHost')
        /\ \A k \in DOMAIN toHost' : k \in DOMAIN toHost \/ toHost'[k].type = "Receive"
    BY <1>4, FlushesSay DEF Fresh, Message
  <2>2. i \in DOMAIN toHost /\ toHost[i].type = "Done" /\ toHost[i].id = j
    BY <2>1 DEF Grows
  <2> QED
    BY <1>2, <2>1, <2>2 DEF Grows
<1>5. ASSUME NEW s \in Jobs, ThreadSends(s) \/ ThreadEnds(s)
      PROVE  /\ ThreadAt(j, "over")'
             /\ \A k \in DOMAIN toHost' : k > i /\ toHost'[k].id = j => toHost'[k].type = "Receive"
  <2>1. PICK m \in Messages : toHost' = Append(toHost, m) /\ m.id = s /\ (m.type = "Done" => ThreadEnds(s))
    <3>1. CASE ThreadSends(s)
      <4>1. \E m \in Messages : toHost' = Append(toHost, m) /\ m.id = s /\ m.type = "Block"
        BY <3>1, ThreadSendsSays
      <4> QED
        BY <4>1
    <3>2. CASE ThreadEnds(s)
      BY <3>2, ThreadEndsSays
    <3> QED
      BY <1>5, <3>1, <3>2
  <2>2. /\ Grows(toHost, toHost') /\ toHost'[Len(toHost) + 1] = m
        /\ \A k \in DOMAIN toHost : k \in Nat /\ k < Len(toHost) + 1
        /\ \A k \in DOMAIN toHost' : k \in DOMAIN toHost \/ k = Len(toHost) + 1
    BY <2>1, ThreadSays
  <2>3. CASE i \in DOMAIN toHost
    <3>1. toHost[i].type = "Done" /\ toHost[i].id = j
      BY <2>2, <2>3 DEF Grows
    <3>2. s # j
      BY <1>2, <1>5, <2>3, <3>1 DEF ThreadStep
    <3> QED
      BY <1>2, <2>1, <2>2, <2>3, <3>1, <3>2 DEF Grows
  <2>4. CASE i = Len(toHost) + 1
    <3>1. ThreadEnds(j)
      BY <2>1, <2>2, <2>4
    <3>2. ThreadAt(j, "over")'
      <4>1. j \in DOMAIN thread /\ thread' = [thread EXCEPT ![j].at = "over"]
        BY <3>1 DEF ThreadEnds, TypeOK
      <4>2. thread'[j] = [thread[j] EXCEPT !.at = "over"]
        BY <4>1
      <4>3. thread[j] \in [at : {"none", "asleep", "sending", "over"}, file : Nat, block : Nat]
        BY DEF TypeOK
      <4> QED
        BY <4>2, <4>3 DEF ThreadAt
    <3>3. \A k \in DOMAIN toHost' : ~(k > i)
      BY <2>2, <2>4
    <3> QED
      BY <3>2, <3>3
  <2> QED
    BY <2>2, <2>3, <2>4
<1>6. CASE HostTurn
  <2>1. \A k \in DOMAIN toHost' : k \in Nat /\ k + 1 \in DOMAIN toHost /\ toHost'[k] = toHost[k + 1]
    BY <1>6, HostTurnTakes, HostTakesShifts
  <2>2. toHost[i + 1].type = "Done" /\ toHost[i + 1].id = j
    BY <2>1
  <2>3. \A k \in DOMAIN toHost' : k > i => k + 1 > i + 1
    BY <2>1
  <2> QED
    BY <1>2, <2>1, <2>2, <2>3
<1> QED
  BY <1>3, <1>4, <1>5, <1>6, WhoSpeaks

\* A Done ends a file of the job it is of, if the keys of that do not clash, and
\* it is the last word of the thread.
LEMMA DoneEnds ==
    ASSUME UploadAssumption, TypeOK, ThreadsAreSound, MessagesAreSound, JobsAreSound, DoneIsLast,
           Next, HostDone, NEW k \in DoneKeys, NEW j \in Jobs, writeJobs[k].id = j, ~Clashes(j)
    PROVE  Over(j)'
<1>1. /\ 1 \in DOMAIN toHost /\ Next1 = toHost[1] /\ Next1.type = "Done" /\ Next1.id \in Jobs
      /\ \A i \in DOMAIN toHost' : i \in Nat /\ i + 1 \in DOMAIN toHost /\ toHost'[i] = toHost[i + 1]
  BY HostTakesShifts DEF HostDone
<1>2. SaidToHost(Next1)
  BY <1>1 DEF MessagesAreSound
<1>3. k \in DOMAIN writeJobs
  BY DEF DoneKeys
<1>4. JobIsSound(writeJobs[k]) /\ k = Key(j, writeJobs[k].file)
  BY <1>3 DEF JobsAreSound, TypeOK
<1>5. k \in KeysOf(j) /\ Asked(j)
  BY <1>4, FilesAreListed DEF JobIsSound
<1>6. Next1.id = j
  <2>1. CASE k = BlockKey
    <3>1. Next1.file \in DOMAIN tree[Next1.id]
      <4>1. Next1.file = Len(tree[Next1.id]) /\ Next1.file # 0
        BY <1>1, <1>2 DEF SaidToHost
      <4> QED
        BY <1>1, <4>1, ListsAreShort
    <3>2. k \in KeysOf(Next1.id) /\ Asked(Next1.id)
      BY <1>2, <2>1, <3>1 DEF BlockKey, KeysOf, SaidToHost
    <3> QED
      BY <1>1, <1>5, <3>2, OwnKey
  <2>2. CASE k # BlockKey
    BY <2>2 DEF DoneKeys
  <2> QED
    BY <2>1, <2>2
<1>7. /\ ThreadAt(j, "over")
      /\ \A i \in DOMAIN toHost : i > 1 /\ toHost[i].id = j => toHost[i].type = "Receive"
  BY <1>1, <1>6 DEF DoneIsLast
<1>8. ThreadAt(j, "over")'
  BY <1>7, ThreadStaysOver
<1>9. \A i \in DOMAIN toHost' : i + 1 > 1
  <2>1. toHost' \in Seq(Messages)
    BY ToHostTypes
  <2> QED
    BY <2>1
<1> QED
  BY <1>1, <1>7, <1>8, <1>9 DEF Over

\* A block that the host fails to write is of a job that is not over, and closes
\* only files of that job, if its keys do not clash.
LEMMA FailureIsEarly ==
    ASSUME UploadAssumption, TypeOK, MessagesAreSound, JobsAreSound, HostWriteFails
    PROVE  /\ ~Over(Next1.id) /\ Next1.id \in Jobs
           /\ \A j \in Jobs : ~Clashes(j) /\ writeJobs[BlockKey].id = j => Next1.id = j
<1>1. /\ 1 \in DOMAIN toHost /\ Next1 = toHost[1] /\ Next1.type = "Block" /\ Next1.id \in Jobs
  BY HostTakesShifts DEF HostWriteFails
<1>2. SaidToHost(Next1)
  BY <1>1 DEF MessagesAreSound
<1>3. ~Over(Next1.id)
  BY <1>1 DEF Over
<1>4. ASSUME NEW j \in Jobs, ~Clashes(j), writeJobs[BlockKey].id = j
      PROVE  Next1.id = j
  <2>1. IsFile(Next1.id, Next1.file) /\ Asked(Next1.id)
    BY <1>1, <1>2 DEF SaidToHost
  <2>2. BlockKey \in KeysOf(Next1.id)
    BY <1>1, <2>1, FilesAreListed DEF BlockKey
  <2>3. /\ BlockKey = Key(j, writeJobs[BlockKey].file) /\ JobIsSound(writeJobs[BlockKey])
    BY <1>4, BlockGoesTo DEF HostWriteFails
  <2>4. BlockKey \in KeysOf(j) /\ Asked(j)
    BY <1>4, <2>3, FilesAreListed DEF JobIsSound
  <2> QED
    BY <1>1, <1>4, <2>1, <2>2, <2>4, OwnKey
<1> QED
  BY <1>1, <1>3, <1>4

LEMMA EndsAreLastStep ==
    ASSUME UploadAssumption, TypeOK, TypeOK', ThreadsAreSound, MessagesAreSound, JobsAreSound,
           DoneIsLast, EndsAreLast, Next
    PROVE  EndsAreLast'
<1> SUFFICES ASSUME NEW j \in Jobs, ~Clashes(j)'
             PROVE  /\ \A i \in DOMAIN toViewer' : toViewer'[i].type = "Done" /\ toViewer'[i].id = j =>
                          /\ Over(j)'
                          /\ \A k \in DOMAIN toViewer' : k > i => ~Errs(toViewer'[k], j)
                    /\ ui'[j] = "finished" =>
                          /\ Over(j)'
                          /\ \A k \in DOMAIN toViewer' : ~Errs(toViewer'[k], j)
                    /\ \A k \in DOMAIN writeJobs' :
                          writeJobs'[k].id = j /\ writeJobs'[k].done => Over(j)' \/ Bad(j)'
  BY DEF EndsAreLast, Errs
<1>1. ~Clashes(j)
  BY ClashesStay
<1>2. /\ \A i \in DOMAIN toViewer : toViewer[i].type = "Done" /\ toViewer[i].id = j =>
            /\ Over(j)
            /\ \A k \in DOMAIN toViewer : k > i => ~Errs(toViewer[k], j)
      /\ ui[j] = "finished" =>
            /\ Over(j)
            /\ \A k \in DOMAIN toViewer : ~Errs(toViewer[k], j)
      /\ \A k \in DOMAIN writeJobs :
            writeJobs[k].id = j /\ writeJobs[k].done => Over(j) \/ Bad(j)
  BY <1>1 DEF EndsAreLast
<1>3. Over(j) => Over(j)'
  BY OverStays
<1>4. /\ toViewer \in Seq(Messages) /\ toViewer' \in Seq(Messages)
      /\ ui \in [Jobs -> {"none", "active", "finished", "failed"}]
  BY DEF TypeOK
\* What the host says new.
<1>5. ASSUME HostTurn
      PROVE  /\ Grows(toViewer, toViewer')
             /\ \A k \in DOMAIN toViewer' : k \in DOMAIN toViewer \/ k = Len(toViewer) + 1
             /\ \A k \in DOMAIN toViewer' : k \notin DOMAIN toViewer =>
                   /\ toViewer'[k].type = "Done" /\ toViewer'[k].id = j => Over(j)' /\ ~Errs(toViewer'[k], j)
                   /\ Errs(toViewer'[k], j) => ~Over(j)
  <2>1. ASSUME NEW k \in DOMAIN toViewer', k \notin DOMAIN toViewer
        PROVE  /\ k = Len(toViewer) + 1
               /\ toViewer'[k].type = "Done" /\ toViewer'[k].id = j => Over(j)' /\ ~Errs(toViewer'[k], j)
               /\ Errs(toViewer'[k], j) => ~Over(j)
    <3>1. /\ k = Len(toViewer) + 1
          /\ \/ HostWriteFails /\ Errs(toViewer'[k], Next1.id)
             \/ HostDone /\ \E d \in DoneKeys :
                  toViewer'[k].type = "Done" /\ toViewer'[k].id = writeJobs[d].id
      BY <1>5, <2>1, HostAnswers DEF Fresh
    <3>2. CASE HostWriteFails /\ Errs(toViewer'[k], Next1.id)
      BY <3>1, <3>2, FailureIsEarly DEF Errs
    <3>3. CASE HostDone /\ \E d \in DoneKeys :
                  toViewer'[k].type = "Done" /\ toViewer'[k].id = writeJobs[d].id
      BY <1>1, <3>1, <3>3, DoneEnds DEF Errs
    <3> QED
      BY <3>1, <3>2, <3>3
  <2> QED
    BY <1>5, <2>1, HostAnswers
<1>6. ASSUME NEW i \in DOMAIN toViewer', toViewer'[i].type = "Done", toViewer'[i].id = j
      PROVE  Over(j)' /\ \A k \in DOMAIN toViewer' : k > i => ~Errs(toViewer'[k], j)
  <2>1. CASE UNCHANGED toViewer
    BY <1>2, <1>3, <1>6, <2>1
  <2>2. CASE WindowHears
    <3>1. \A k \in DOMAIN toViewer' : k \in Nat /\ k + 1 \in DOMAIN toViewer /\ toViewer'[k] = toViewer[k + 1]
      BY <2>2, WindowTakes
    <3>2. \A k \in DOMAIN toViewer' : k > i => k + 1 > i + 1
      BY <3>1
    <3> QED
      BY <1>2, <1>3, <1>6, <3>1, <3>2
  <2>3. CASE HostTurn
    <3>1. CASE i \in DOMAIN toViewer
      <4>1. toViewer[i].type = "Done" /\ toViewer[i].id = j
        BY <1>5, <1>6, <2>3, <3>1 DEF Grows
      <4>2. Over(j) /\ \A k \in DOMAIN toViewer : k > i => ~Errs(toViewer[k], j)
        BY <1>2, <3>1, <4>1
      <4> QED
        BY <1>3, <1>5, <2>3, <4>2 DEF Grows
    <3>2. CASE i \notin DOMAIN toViewer
      <4>1. i = Len(toViewer) + 1 /\ Over(j)'
        BY <1>5, <1>6, <2>3, <3>2
      <4>2. \A k \in DOMAIN toViewer' : ~(k > i)
        BY <1>4, <1>5, <2>3, <4>1
      <4> QED
        BY <4>1, <4>2
    <3> QED
      BY <3>1, <3>2
  <2> QED
    BY <2>1, <2>2, <2>3, WhoAnswers
<1>7. ASSUME ui'[j] = "finished"
      PROVE  Over(j)' /\ \A k \in DOMAIN toViewer' : ~Errs(toViewer'[k], j)
  <2>1. CASE WindowHears
    <3>1. /\ 1 \in DOMAIN toViewer
          /\ \A k \in DOMAIN toViewer' : k \in Nat /\ k + 1 \in DOMAIN toViewer /\ toViewer'[k] = toViewer[k + 1]
          /\ toViewer[1].id \in Jobs
          /\ ui' = [ui EXCEPT ![toViewer[1].id] =
                        IF toViewer[1].type = "Error" THEN "failed"
                        ELSE IF @ = "active" THEN "finished" ELSE @]
      BY <2>1, WindowTakes
    <3>2. ui[j] = "finished" \/ (toViewer[1].type # "Error" /\ toViewer[1].id = j)
      BY <1>4, <1>7, <3>1
    <3>3. CASE ui[j] = "finished"
      BY <1>2, <1>3, <3>1, <3>3
    <3>4. CASE toViewer[1].type # "Error" /\ toViewer[1].id = j
      <4>1. toViewer[1].type = "Done"
        BY <3>1, <3>4 DEF MessagesAreSound, SaidToViewer
      <4>2. Over(j) /\ \A k \in DOMAIN toViewer : k > 1 => ~Errs(toViewer[k], j)
        BY <1>2, <3>1, <3>4, <4>1
      <4>3. \A k \in DOMAIN toViewer' : k + 1 > 1
        BY <1>4
      <4> QED
        BY <1>3, <3>1, <4>2, <4>3
    <3> QED
      BY <3>2, <3>3, <3>4
  <2>2. CASE ~WindowHears
    <3>1. ui[j] = "finished"
      <4>1. \A i \in Jobs : Asks(i) \/ Cancels(i) => ui'[j] = ui[j] \/ ui'[j] \in {"active", "failed"}
        BY <1>4 DEF Asks, Cancels
      <4> QED
        BY <1>7, <2>2, <4>1, WindowStays
    <3>2. Over(j) /\ \A k \in DOMAIN toViewer : ~Errs(toViewer[k], j)
      BY <1>2, <3>1
    <3>3. CASE UNCHANGED toViewer
      BY <1>3, <3>2, <3>3
    <3>4. CASE HostTurn
      BY <1>3, <1>5, <3>2, <3>4 DEF Grows
    <3> QED
      BY <2>2, <3>3, <3>4, WhoAnswers
  <2> QED
    BY <2>1, <2>2
<1>8. ASSUME NEW k \in DOMAIN writeJobs', writeJobs'[k].id = j, writeJobs'[k].done
      PROVE  Over(j)' \/ Bad(j)'
  <2>1. ~Opens(k)
    BY <1>8, OpensJob
  <2>2. k \in DOMAIN writeJobs /\ writeJobs[k].id = j /\ (~Closes(k) => writeJobs[k].done)
    BY <1>8, <2>1, JobsMove
  <2>3. CASE writeJobs[k].done
    BY <1>2, <1>3, <2>2, <2>3, BadStays
  <2>4. CASE HostWriteFails /\ k = BlockKey
    <3>1. Next1.id = j /\ HostTurn
      BY <1>1, <2>2, <2>4, FailureIsEarly DEF HostTurn
    <3> QED
      BY <2>4, <3>1, HostAnswers DEF Bad, Errs
  <2>5. CASE HostDone /\ k \in DoneKeys
    BY <1>1, <2>2, <2>5, DoneEnds
  <2> QED
    BY <2>2, <2>3, <2>4, <2>5 DEF Closes
<1> QED
  BY <1>6, <1>7, <1>8

-----------------------------------------------------------------------------
(* Blocks arrive in order.                                                     *)

\* What is on its way of x has only moved d places.
MovesBy(x, d) ==
    /\ \A i \in DOMAIN toHost' : IsBlockOf(toHost'[i], x) =>
          i \in Nat /\ i + d \in DOMAIN toHost /\ toHost'[i] = toHost[i + d]
    /\ \A i \in DOMAIN toHost : IsBlockOf(toHost[i], x) =>
          i \in Nat /\ i - d \in DOMAIN toHost' /\ toHost'[i - d] = toHost[i]

LEMMA FlowMoves ==
    ASSUME NEW x \in Files, Flow(x), NEW d \in {0, 1}, MovesBy(x, d),
           Offset(x)' = Offset(x), SentOf(x)' = SentOf(x),
           Offset(x) > 0 => dest'[x] = dest[x]
    PROVE  Flow(x)'
<1> DEFINE o == Offset(x)
           s == SentOf(x)
<1>1. ASSUME NEW n \in o + 1 .. s
      PROVE  \E i \in DOMAIN toHost' : IsBlockOf(toHost'[i], x) /\ Number(toHost'[i]) = n
  <2>1. PICK i \in DOMAIN toHost : IsBlockOf(toHost[i], x) /\ Number(toHost[i]) = n
    BY DEF Flow
  <2> QED
    BY <2>1 DEF MovesBy
<1>2. ASSUME NEW i \in DOMAIN toHost', IsBlockOf(toHost'[i], x)
      PROVE  Number(toHost'[i]) \in o + 1 .. s
  BY <1>2 DEF MovesBy, Flow
<1>3. ASSUME NEW i \in DOMAIN toHost', NEW k \in DOMAIN toHost', i < k,
             IsBlockOf(toHost'[i], x), IsBlockOf(toHost'[k], x)
      PROVE  Number(toHost'[i]) < Number(toHost'[k])
  <2>1. /\ i \in Nat /\ i + d \in DOMAIN toHost /\ toHost'[i] = toHost[i + d]
        /\ k \in Nat /\ k + d \in DOMAIN toHost /\ toHost'[k] = toHost[k + d]
    BY <1>3 DEF MovesBy
  <2>2. i + d < k + d
    BY <1>3, <2>1
  <2> QED
    BY <1>3, <2>1, <2>2 DEF Flow
<1> HIDE DEF o, s
<1>4. /\ o <= s
      /\ o > 0 => dest'[x] = [n \in 1 .. o |-> <<x[1], x[2], n>>]
  BY DEF Flow, o, s
<1>5. Offset(x)' = o /\ SentOf(x)' = s
  BY DEF o, s
<1> QED
  BY <1>1, <1>2, <1>3, <1>4, <1>5 DEF Flow, IsBlockOf, Number

\* The step writes to x itself.
WritesFile(x) == HostWrites /\ IsBlockOf(Next1, x)

LEMMA FilesSettled ==
    ASSUME UploadAssumption, TypeOK, NEW x \in Files, IsFile(x[1], x[2])
    PROVE  /\ x = <<x[1], x[2]>> /\ x[1] \in Jobs /\ x[2] \in Slots /\ x[2] \in Nat
           /\ x[2] \in DOMAIN tree[x[1]] /\ Key(x[1], x[2]) \in KeysOf(x[1])
           /\ tree[x[1]][x[2]].size \in Nat
           /\ Offset(x) \in Nat
           /\ SentOf(x) \in Nat
<1>1. x = <<x[1], x[2]>> /\ x[1] \in Jobs
  BY DEF Files
<1>2. /\ x[2] \in Slots /\ x[2] \in Nat /\ x[2] \in DOMAIN tree[x[1]]
      /\ Key(x[1], x[2]) \in KeysOf(x[1]) /\ tree[x[1]][x[2]].size \in Nat
  BY <1>1, FilesAreListed
<1>3. Offset(x) \in Nat
  BY DEF Offset, HasJob, TypeOK
<1>4. thread[x[1]].block \in Nat
  BY <1>1 DEF TypeOK
<1>5. SentOf(x) \in Nat
  BY <1>2, <1>4 DEF SentOf
<1> QED
  BY <1>1, <1>2, <1>3, <1>5

\* Only a block of x is written to x, as long as the keys do not clash.
LEMMA WritesOnlyItsOwn ==
    ASSUME UploadAssumption, TypeOK, MessagesAreSound, JobsAreSound,
           NEW x \in Files, IsFile(x[1], x[2]), ~Clashes(x[1]), HostWrites
    PROVE  /\ HasJob(x) /\ BlockKey = Key(x[1], x[2]) => IsBlockOf(Next1, x)
           /\ IsBlockOf(Next1, x) => HasJob(x) /\ BlockKey = Key(x[1], x[2])
           /\ JobFile = x <=> IsBlockOf(Next1, x)
<1> DEFINE j == x[1]
           f == x[2]
           k == Key(j, f)
<1>1. /\ x = <<j, f>> /\ j \in Jobs /\ f \in Slots /\ f \in DOMAIN tree[j] /\ k \in KeysOf(j)
  BY FilesSettled
<1>2. /\ BlockKey \in DOMAIN writeJobs
      /\ JobFile = <<writeJobs[BlockKey].id, writeJobs[BlockKey].file>>
      /\ BlockKey = Key(writeJobs[BlockKey].id, writeJobs[BlockKey].file)
      /\ writeJobs[BlockKey].file \in Slots
      /\ JobIsSound(writeJobs[BlockKey])
  BY BlockGoesTo DEF HostWrites
<1>3. /\ 1 \in DOMAIN toHost /\ Next1 = toHost[1] /\ Next1.type = "Block" /\ Next1.id \in Jobs
  BY HostTakesShifts DEF HostWrites
<1>4. Asked(Next1.id) /\ IsFile(Next1.id, Next1.file)
  BY <1>3 DEF MessagesAreSound, SaidToHost
<1>5. /\ BlockKey = Key(Next1.id, Next1.file) /\ Next1.file \in Slots
      /\ BlockKey \in KeysOf(Next1.id)
  BY <1>3, <1>4, FilesAreListed DEF BlockKey
<1>6. ASSUME HasJob(x), BlockKey = k
      PROVE  IsBlockOf(Next1, x)
  <2>1. Asked(j)
    BY <1>2, <1>6 DEF HasJob, JobIsSound
  <2>2. Next1.id = j
    BY <1>1, <1>3, <1>4, <1>5, <1>6, <2>1, OwnKey
  <2>3. Next1.file = f
    BY <1>1, <1>5, <1>6, <2>2, FilesAndKeys
  <2> QED
    BY <1>3, <2>2, <2>3 DEF IsBlockOf
<1>7. ASSUME IsBlockOf(Next1, x)
      PROVE  HasJob(x) /\ BlockKey = k /\ JobFile = x
  <2>1. Next1.id = j /\ Next1.file = f /\ BlockKey = k
    BY <1>7 DEF IsBlockOf, BlockKey
  <2>2. writeJobs[k].id = j /\ writeJobs[k].file = f /\ HasJob(<<j, f>>)
    BY <1>1, <1>2, <1>4, <2>1, OwnJob
  <2> QED
    BY <1>1, <1>2, <2>1, <2>2
<1>8. ASSUME JobFile = x
      PROVE  HasJob(x) /\ BlockKey = k
  BY <1>1, <1>2, <1>8 DEF HasJob
<1> QED
  BY <1>6, <1>7, <1>8

\* What the host has of x changes only with a block of x.
LEMMA OffsetMoves ==
    ASSUME UploadAssumption, TypeOK, MessagesAreSound, JobsAreSound, ReceivedOnce, Next,
           NEW x \in Files, IsFile(x[1], x[2]), ~Clashes(x[1])
    PROVE  /\ WritesFile(x) => Offset(x)' = Offset(x) + 1
           /\ ~WritesFile(x) => Offset(x)' = Offset(x) /\ dest'[x] = dest[x]
<1> DEFINE j == x[1]
           f == x[2]
           k == Key(j, f)
<1>1. /\ x = <<j, f>> /\ j \in Jobs /\ f \in Slots /\ f \in DOMAIN tree[j] /\ k \in KeysOf(j)
  BY FilesSettled
<1>2. Offset(x)' = IF k \in DOMAIN writeJobs' /\ writeJobs'[k].id = j THEN writeJobs'[k].offset ELSE 0
  BY DEF Offset, HasJob, Key
<1>3. Offset(x) = IF k \in DOMAIN writeJobs /\ writeJobs[k].id = j THEN writeJobs[k].offset ELSE 0
  BY DEF Offset, HasJob
<1>4. ~WritesFile(x) => dest'[x] = dest[x]
  BY DestMoves, WritesOnlyItsOwn DEF WritesFile
<1>5. CASE Opens(k)
  <2>1. ~WritesFile(x)
    BY <1>5 DEF Opens, HostReceive, WritesFile, HostWrites, HostTakes
  <2>2. /\ Next1.id \in Jobs /\ Next1.type = "Receive" /\ Next1 = toHost[1] /\ 1 \in DOMAIN toHost
        /\ writeJobs'[k].id = Next1.id /\ writeJobs'[k].offset = 0 /\ k \in KeysOf(Next1.id)
    BY <1>5, OpensJob
  <2>3. ~(k \in DOMAIN writeJobs /\ writeJobs[k].id = j)
    <3>1. ASSUME k \in DOMAIN writeJobs, writeJobs[k].id = j
          PROVE  FALSE
      <4>1. Asked(j) /\ Received(j)
        BY <3>1 DEF JobsAreSound, JobIsSound, Received
      <4>2. Asked(Next1.id) /\ ~Received(Next1.id)
        BY <2>2 DEF MessagesAreSound, SaidToHost, ReceivedOnce
      <4>3. Next1.id = j
        BY <1>1, <2>2, <4>1, <4>2, OwnKey
      <4> QED
        BY <4>1, <4>2, <4>3
    <3> QED
      BY <3>1
  <2> QED
    BY <1>2, <1>3, <1>4, <2>1, <2>2, <2>3
<1>6. CASE ~Opens(k) /\ k \in DOMAIN writeJobs
  <2>1. /\ k \in DOMAIN writeJobs' /\ writeJobs'[k].id = writeJobs[k].id
        /\ WritesTo(k) => writeJobs'[k].offset = writeJobs[k].offset + 1
        /\ ~WritesTo(k) => writeJobs'[k].offset = writeJobs[k].offset
    BY <1>6, JobsMove
  <2>2. CASE writeJobs[k].id = j
    <3>1. WritesTo(k) <=> WritesFile(x)
      BY <1>6, <2>2, WritesOnlyItsOwn DEF HasJob, WritesTo, WritesFile
    <3> QED
      BY <1>2, <1>3, <1>4, <1>6, <2>1, <2>2, <3>1
  <2>3. CASE writeJobs[k].id # j
    <3>1. ~WritesFile(x)
      BY <2>3, WritesOnlyItsOwn DEF HasJob, WritesFile
    <3> QED
      BY <1>2, <1>3, <1>4, <2>1, <2>3, <3>1
  <2> QED
    BY <2>2, <2>3
<1>7. CASE k \notin DOMAIN writeJobs /\ ~Opens(k)
  <2>1. k \notin DOMAIN writeJobs'
    BY <1>7, JobsMove
  <2>2. ~WritesFile(x)
    BY <1>7, WritesOnlyItsOwn DEF HasJob, WritesFile
  <2> QED
    BY <1>2, <1>3, <1>4, <1>7, <2>1, <2>2
<1> QED
  BY <1>5, <1>6, <1>7

\* The thread sends one block of x, with the next number, or has no more to send.
LEMMA SentMoves ==
    ASSUME UploadAssumption, TypeOK, ThreadsAreSound, Next,
           NEW x \in Files, IsFile(x[1], x[2]), x \notin unread'
    PROVE  LET j == x[1] IN
           /\ ThreadSends(j) /\ CurrentFile(j) = x[2] =>
                 SentOf(x) = thread[j].block /\ SentOf(x)' = SentOf(x) + 1
           /\ ~(ThreadSends(j) /\ CurrentFile(j) = x[2]) => SentOf(x)' = SentOf(x)
<1> DEFINE j    == x[1]
           f    == x[2]
           size == tree[j][f].size
<1>1. x = <<j, f>> /\ j \in Jobs /\ f \in Nat /\ size \in Nat /\ tree' = tree /\ f \in DOMAIN tree[j]
  BY FilesSettled, PastStays
<1>2. SentOf(x) = IF f < thread[j].file THEN size ELSE IF f = thread[j].file THEN thread[j].block ELSE 0
  BY DEF SentOf, CurrentFile
<1>3. SentOf(x)' = IF f < thread'[j].file THEN size ELSE IF f = thread'[j].file THEN thread'[j].block ELSE 0
  BY <1>1 DEF SentOf, CurrentFile
<1>4. /\ thread \in [Jobs -> [at : {"none", "asleep", "sending", "over"}, file : Nat, block : Nat]]
      /\ thread[j].file \in Nat /\ thread[j].block \in Nat
  BY <1>1 DEF TypeOK
<1>5. CASE thread'[j].file = thread[j].file /\ thread'[j].block = thread[j].block /\ ~ThreadSends(j)
  BY <1>2, <1>3, <1>5
<1>6. CASE ThreadSends(j)
  <2>1. thread'[j].file = thread[j].file /\ thread'[j].block = thread[j].block + 1
    BY <1>1, <1>4, <1>6 DEF ThreadSends
  <2> QED
    BY <1>1, <1>2, <1>3, <1>4, <1>6, <2>1 DEF CurrentFile
<1>7. CASE ThreadGoesOn(j)
  <2>1. thread'[j].file = thread[j].file + 1 /\ thread'[j].block = 0 /\ ~ThreadSends(j)
    <3>1. thread'[j].file = thread[j].file + 1 /\ thread'[j].block = 0
      BY <1>1, <1>4, <1>7 DEF ThreadGoesOn, NextFile
    <3>2. ASSUME ThreadSends(j)
          PROVE  FALSE
      <4>1. thread'[j].file = thread[j].file
        BY <1>1, <1>4, <3>2 DEF ThreadSends
      <4> QED
        BY <1>4, <3>1, <4>1
    <3> QED
      BY <3>1, <3>2
  <2>2. CASE f = thread[j].file
    <3>1. ~(thread[j].block < size)
      <4>1. ASSUME thread[j].block < size
            PROVE  FALSE
        <5>1. unread' = unread \cup {<<j, f>>}
          BY <1>7, <2>2, <4>1 DEF ThreadGoesOn, CurrentFile
        <5> QED
          BY <1>1, <5>1
      <4> QED
        BY <4>1
    <3>2. thread[j].block # 0 => thread[j].block <= size
      BY <1>1, <2>2 DEF ThreadsAreSound, CurrentFile
    <3>3. thread[j].block = size
      BY <1>1, <1>4, <3>1, <3>2
    <3> QED
      BY <1>1, <1>2, <1>3, <1>4, <2>1, <2>2, <3>3
  <2>3. CASE f # thread[j].file
    BY <1>1, <1>2, <1>3, <1>4, <2>1, <2>3
  <2> QED
    BY <2>2, <2>3
<1>8. CASE ThreadWakes(j) \/ ThreadEnds(j)
  <2>1. /\ thread'[j].file = thread[j].file /\ thread'[j].block = thread[j].block
    BY <1>1, <1>4, <1>8 DEF ThreadWakes, ThreadEnds
  <2>2. ~ThreadSends(j)
    <3>1. ASSUME ThreadSends(j)
          PROVE  FALSE
      <4>1. thread'[j].block = thread[j].block + 1
        BY <1>1, <1>4, <3>1 DEF ThreadSends
      <4> QED
        BY <1>4, <2>1, <4>1
    <3> QED
      BY <3>1
  <2> QED
    BY <1>5, <2>1, <2>2
<1>9. CASE ~ThreadStep(j)
  <2>1. /\ thread'[j].file = thread[j].file /\ thread'[j].block = thread[j].block
    BY <1>1, <1>4, <1>9, ThreadMoves
  <2> QED
    BY <1>5, <1>9, <2>1 DEF ThreadStep
<1> QED
  BY <1>6, <1>7, <1>8, <1>9 DEF ThreadStep

\* A file that is sound was sound, and is not the one a step fails with.
LEMMA SoundMoves ==
    ASSUME UploadAssumption, TypeOK, ThreadsAreSound, MessagesAreSound, JobsAreSound, Next,
           NEW x \in Files, Sound(x)'
    PROVE  /\ Sound(x) /\ IsFile(x[1], x[2]) /\ ~Clashes(x[1]) /\ ~Bad(x[1])
           /\ ~Bad(x[1])' /\ x \notin unread' \cup dropped'
<1>1. x[1] \in Jobs
  BY DEF Files
<1>2. tree' = tree /\ unread \subseteq unread' /\ dropped \subseteq dropped'
  BY PastStays
<1>3. IsFile(x[1], x[2])' /\ ~Clashes(x[1])' /\ ~Bad(x[1])' /\ x \notin unread' \cup dropped'
  BY DEF Sound
<1>4. IsFile(x[1], x[2])
  BY <1>2, <1>3 DEF IsFile
<1>5. ~Clashes(x[1]) /\ ~Bad(x[1])
  BY <1>1, <1>3, ClashesStay, BadStays
<1> QED
  BY <1>2, <1>3, <1>4, <1>5 DEF Sound

\* The next block of x is put behind all that is on its way.
LEMMA FlowSent ==
    ASSUME UploadAssumption, TypeOK, NEW x \in Files, IsFile(x[1], x[2]), Flow(x),
           ThreadSends(x[1]), CurrentFile(x[1]) = x[2],
           SentOf(x) = thread[x[1]].block, SentOf(x)' = SentOf(x) + 1,
           Offset(x)' = Offset(x), dest'[x] = dest[x]
    PROVE  Flow(x)'
<1> DEFINE j == x[1]
           o == Offset(x)
           s == SentOf(x)
           m == Message("Block", j, CurrentFile(j), << <<j, CurrentFile(j), thread[j].block + 1>> >>)
           last == Len(toHost) + 1
<1>1. x = <<j, x[2]>> /\ j \in Jobs /\ o \in Nat /\ s \in Nat
  BY FilesSettled
<1>2. m \in Messages /\ toHost' = Append(toHost, m) /\ IsBlockOf(m, x) /\ Number(m) = s + 1
  BY <1>1, ThreadSendsSays
<1>3. /\ o <= s
      /\ \A n \in o + 1 .. s : \E i \in DOMAIN toHost : IsBlockOf(toHost[i], x) /\ Number(toHost[i]) = n
      /\ \A i \in DOMAIN toHost : IsBlockOf(toHost[i], x) => Number(toHost[i]) \in o + 1 .. s
      /\ \A i, k \in DOMAIN toHost :
            i < k /\ IsBlockOf(toHost[i], x) /\ IsBlockOf(toHost[k], x)
                => Number(toHost[i]) < Number(toHost[k])
      /\ o > 0 => dest'[x] = [n \in 1 .. o |-> <<x[1], x[2], n>>]
  BY DEF Flow
<1>4. Offset(x)' = o /\ SentOf(x)' = s + 1
  OBVIOUS
<1> HIDE DEF o, s, m
<1>5. /\ \A i \in DOMAIN toHost : i \in DOMAIN toHost' /\ toHost'[i] = toHost[i] /\ i \in Nat /\ i < last
      /\ last \in DOMAIN toHost' /\ toHost'[last] = m
      /\ \A i \in DOMAIN toHost' : i \in DOMAIN toHost \/ i = last
  BY <1>2, ThreadSays DEF Grows
<1> HIDE DEF last
<1>6. \A n \in o + 1 .. s + 1 :
         \E i \in DOMAIN toHost' : IsBlockOf(toHost'[i], x) /\ Number(toHost'[i]) = n
  <2>1. \A n \in o + 1 .. s + 1 : n \in o + 1 .. s \/ n = s + 1
    BY <1>1
  <2>2. \A n \in o + 1 .. s :
           \E i \in DOMAIN toHost' : IsBlockOf(toHost'[i], x) /\ Number(toHost'[i]) = n
    BY <1>3, <1>5
  <2> QED
    BY <1>2, <1>5, <2>1, <2>2
<1>7. \A i \in DOMAIN toHost' : IsBlockOf(toHost'[i], x) => Number(toHost'[i]) \in o + 1 .. s + 1
  <2>1. \A n \in o + 1 .. s : n \in o + 1 .. s + 1 /\ n < s + 1
    BY <1>1
  <2>2. s + 1 \in o + 1 .. s + 1
    BY <1>1, <1>3
  <2> QED
    BY <1>2, <1>3, <1>5, <2>1, <2>2
<1>8. ASSUME NEW i \in DOMAIN toHost', NEW k \in DOMAIN toHost', i < k,
             IsBlockOf(toHost'[i], x), IsBlockOf(toHost'[k], x)
      PROVE  Number(toHost'[i]) < Number(toHost'[k])
  <2>1. CASE k \in DOMAIN toHost
    <3>1. i \in DOMAIN toHost
      <4>1. k < last /\ k \in Nat /\ last \in Nat
        BY <1>5, <2>1 DEF last, TypeOK
      <4> QED
        BY <1>5, <1>8, <4>1
    <3> QED
      BY <1>3, <1>5, <1>8, <2>1, <3>1
  <2>2. CASE k = last
    <3>1. i \in DOMAIN toHost
      <4>1. last \in Nat
        BY DEF last, TypeOK
      <4> QED
        BY <1>5, <1>8, <2>2, <4>1
    <3>2. Number(toHost'[i]) \in o + 1 .. s /\ Number(toHost'[k]) = s + 1
      BY <1>2, <1>3, <1>5, <1>8, <2>2, <3>1
    <3> QED
      BY <1>1, <3>2
  <2> QED
    BY <1>5, <2>1, <2>2
<1>9. o <= s + 1
  BY <1>1, <1>3
<1> QED
  BY <1>3, <1>4, <1>6, <1>7, <1>8, <1>9 DEF Flow, IsBlockOf, Number

\* The block that is written is the one that comes next.
LEMMA FlowWritten ==
    ASSUME UploadAssumption, TypeOK, MessagesAreSound, JobsAreSound, Next,
           NEW x \in Files, IsFile(x[1], x[2]), ~Clashes(x[1]), Flow(x),
           WritesFile(x), Offset(x)' = Offset(x) + 1, SentOf(x)' = SentOf(x)
    PROVE  Flow(x)'
<1> DEFINE o == Offset(x)
           s == SentOf(x)
<1>1. x = <<x[1], x[2]>> /\ o \in Nat /\ s \in Nat /\ x[2] \in Nat
  BY FilesSettled
<1>2. /\ o <= s
      /\ \A n \in o + 1 .. s : \E i \in DOMAIN toHost : IsBlockOf(toHost[i], x) /\ Number(toHost[i]) = n
      /\ \A i \in DOMAIN toHost : IsBlockOf(toHost[i], x) => Number(toHost[i]) \in o + 1 .. s
      /\ \A i, k \in DOMAIN toHost :
            i < k /\ IsBlockOf(toHost[i], x) /\ IsBlockOf(toHost[k], x)
                => Number(toHost[i]) < Number(toHost[k])
      /\ o > 0 => dest[x] = [n \in 1 .. o |-> <<x[1], x[2], n>>]
  BY DEF Flow
<1>3. /\ 1 \in DOMAIN toHost /\ Next1 = toHost[1]
      /\ \A i \in DOMAIN toHost' : i \in Nat /\ i + 1 \in DOMAIN toHost /\ toHost'[i] = toHost[i + 1]
      /\ \A i \in DOMAIN toHost : i # 1 => i - 1 \in DOMAIN toHost' /\ toHost'[i - 1] = toHost[i]
  BY HostTakesShifts DEF WritesFile, HostWrites
<1>4. /\ \A i \in DOMAIN toHost : i \in Nat /\ (i # 1 => 1 < i)
      /\ \A i \in DOMAIN toHost' : 1 < i + 1
  <2>1. toHost \in Seq(Messages) /\ toHost' \in Seq(Messages)
    BY ToHostTypes DEF TypeOK
  <2> QED
    BY <2>1
<1>5. IsBlockOf(toHost[1], x)
  BY <1>3 DEF WritesFile
<1>6. dest'[x] = Written(dest[x], o, << <<x[1], x[2], Number(toHost[1])>> >>)
  <2>1. HasJob(x) /\ BlockKey = Key(x[1], x[2]) /\ JobFile = x
    BY WritesOnlyItsOwn DEF WritesFile
  <2>2. writeJobs[BlockKey].offset = o
    BY <2>1 DEF Offset
  <2>3. Next1.id = x[1] /\ Next1.file = x[2]
    BY <1>3, <1>5 DEF IsBlockOf
  <2> QED
    BY <1>3, <2>1, <2>2, <2>3, DestMoves DEF WritesFile
<1>7. dest[x] \in Seq(Units) /\ dest'[x] \in Seq(Units) /\ o <= Len(dest[x])
  <2>1. HasJob(x) /\ BlockKey = Key(x[1], x[2]) /\ JobFile = x
    BY WritesOnlyItsOwn DEF WritesFile
  <2>2. writeJobs[BlockKey].offset = o
    BY <2>1 DEF Offset
  <2> QED
    BY <2>1, <2>2, BlockGoesTo, DestMoves DEF WritesFile, HostWrites
<1>8. Offset(x)' = o + 1 /\ SentOf(x)' = s
  OBVIOUS
<1> HIDE DEF o, s
<1>9. Number(toHost[1]) = o + 1 /\ o + 1 <= s
  <2>1. Number(toHost[1]) \in o + 1 .. s
    BY <1>2, <1>3, <1>5
  <2>2. o + 1 \in o + 1 .. s
    BY <1>1, <2>1
  <2>3. PICK i \in DOMAIN toHost : IsBlockOf(toHost[i], x) /\ Number(toHost[i]) = o + 1
    BY <1>2, <2>2
  <2>4. i # 1 => Number(toHost[1]) < o + 1
    BY <1>2, <1>3, <1>4, <1>5, <2>3
  <2> QED
    BY <1>1, <2>1, <2>2, <2>3, <2>4
<1>10. \A n \in (o + 1) + 1 .. s :
          \E i \in DOMAIN toHost' : IsBlockOf(toHost'[i], x) /\ Number(toHost'[i]) = n
  <2>1. \A n \in (o + 1) + 1 .. s : n \in o + 1 .. s /\ n # o + 1
    BY <1>1
  <2> QED
    BY <1>2, <1>3, <1>9, <2>1
<1>11. ASSUME NEW i \in DOMAIN toHost', IsBlockOf(toHost'[i], x)
       PROVE  Number(toHost'[i]) \in (o + 1) + 1 .. s
  <2>1. Number(toHost'[i]) \in o + 1 .. s /\ o + 1 < Number(toHost'[i])
    BY <1>2, <1>3, <1>4, <1>5, <1>9, <1>11
  <2> QED
    BY <1>1, <2>1
<1>12. ASSUME NEW i \in DOMAIN toHost', NEW k \in DOMAIN toHost', i < k,
              IsBlockOf(toHost'[i], x), IsBlockOf(toHost'[k], x)
       PROVE  Number(toHost'[i]) < Number(toHost'[k])
  <2>1. i + 1 < k + 1
    BY <1>3, <1>12
  <2> QED
    BY <1>2, <1>3, <1>12, <2>1
<1>13. dest'[x] = [n \in 1 .. o + 1 |-> <<x[1], x[2], n>>]
  <2> DEFINE u == <<x[1], x[2], o + 1>>
  <2>1. u \in Units
    <3>1. x[1] \in Nat
      BY DEF Files, UploadAssumption
    <3> QED
      BY <1>1, <3>1 DEF Units
  <2>2. dest'[x] = Written(dest[x], o, <<u>>)
    BY <1>6, <1>9
  <2>3. /\ Len(dest'[x]) = o + 1
        /\ \A n \in 1 .. o : dest'[x][n] = dest[x][n]
        /\ dest'[x][o + 1] = u
    <3> HIDE DEF u
    <3> QED
      BY <1>1, <1>7, <2>1, <2>2, WrittenIs
  <2>4. \A n \in 1 .. o : dest[x][n] = <<x[1], x[2], n>>
    <3>1. CASE o > 0
      BY <1>2, <3>1
    <3>2. CASE ~(o > 0)
      BY <1>1, <3>2
    <3> QED
      BY <3>1, <3>2
  <2>5. \A n \in 1 .. o + 1 : n \in 1 .. o \/ n = o + 1
    BY <1>1
  <2>6. \A n \in 1 .. o + 1 : dest'[x][n] = <<x[1], x[2], n>>
    BY <2>3, <2>4, <2>5
  <2>7. DOMAIN dest'[x] = 1 .. o + 1
    BY <1>7, <2>3
  <2>8. dest'[x] = [n \in DOMAIN dest'[x] |-> dest'[x][n]]
    <3>1. ASSUME NEW S, NEW t \in Seq(S)
          PROVE  t = [n \in DOMAIN t |-> t[n]]
      BY <3>1
    <3> QED
      BY <1>7, <3>1
  <2>9. dest'[x] = [n \in 1 .. o + 1 |-> dest'[x][n]]
    BY <2>7, <2>8
  <2>10. [n \in 1 .. o + 1 |-> dest'[x][n]] = [n \in 1 .. o + 1 |-> <<x[1], x[2], n>>]
    BY <2>6
  <2> QED
    BY <2>9, <2>10
<1> QED
  BY <1>8, <1>9, <1>10, <1>11, <1>12, <1>13 DEF Flow, IsBlockOf, Number

\* The head of the queue, when it is a block of a sound file, is written.
LEMMA HeadIsWritten ==
    ASSUME UploadAssumption, TypeOK, ThreadsAreSound, MessagesAreSound, JobsAreSound,
           ReceivedAtOnce, EndsAreLast, Next, NEW x \in Files, Sound(x)',
           HostTurn, IsBlockOf(Next1, x)
    PROVE  WritesFile(x)
<1> DEFINE j == x[1]
           f == x[2]
           k == Key(j, f)
<1>1. /\ Sound(x) /\ IsFile(j, f) /\ ~Clashes(j) /\ ~Bad(j)
      /\ ~Bad(j)' /\ x \notin unread' \cup dropped'
  BY SoundMoves
<1>2. x = <<j, f>> /\ j \in Jobs /\ f \in Slots /\ f \in DOMAIN tree[j]
  BY <1>1, FilesSettled
<1>3. Next1.type = "Block" /\ Next1.id = j /\ Next1.file = f /\ BlockKey = k /\ BlockFile = x
  BY <1>2 DEF IsBlockOf, BlockKey, BlockFile
<1>4. ~HostReceive /\ ~HostDone
  BY <1>3 DEF HostReceive, HostDone, HostTakes
<1>5. ~HostWriteFails
  <2>1. ASSUME HostWriteFails
        PROVE  Bad(j)'
    BY <1>3, <2>1, HostAnswers DEF Bad, Errs
  <2> QED
    BY <1>1, <2>1
<1>6. ~HostIgnores
  <2>1. ASSUME HostIgnores
        PROVE  FALSE
    <3>1. ~Writable /\ dropped' = IF Received(j) THEN dropped ELSE dropped \cup {x}
      BY <1>3, <2>1 DEF HostIgnores
    <3>2. Received(j)
      BY <1>1, <3>1
    <3>3. k \in DOMAIN writeJobs
      BY <1>1, <1>2, <3>2 DEF ReceivedAtOnce
    <3>4. 1 \in DOMAIN toHost /\ Next1 = toHost[1]
      BY <2>1, HostTakesShifts DEF HostIgnores
    <3>5. Asked(j)
      BY <1>3, <3>4 DEF MessagesAreSound, SaidToHost
    <3>6. writeJobs[k].id = j
      BY <1>1, <1>2, <3>3, <3>5, OwnJob
    <3>7. writeJobs[k].done
      BY <1>3, <3>1, <3>3 DEF Writable
    <3>8. Over(j)
      BY <1>1, <1>2, <3>3, <3>6, <3>7 DEF EndsAreLast
    <3> QED
      BY <1>3, <3>4, <3>8 DEF Over
  <2> QED
    BY <2>1
<1> QED
  BY <1>4, <1>5, <1>6 DEF HostTurn, WritesFile

LEMMA BlocksFlowStep ==
    ASSUME UploadAssumption, IInv, TypeOK', Next
    PROVE  BlocksFlow'
<1>1. /\ TypeOK /\ ThreadsAreSound /\ MessagesAreSound /\ JobsAreSound /\ ReceivedOnce
      /\ ReceivedAtOnce /\ DoneIsLast /\ EndsAreLast /\ BlocksFlow
  BY DEF IInv
<1> SUFFICES ASSUME NEW x \in Files, Sound(x)'
             PROVE  Flow(x)'
  BY DEF BlocksFlow, Files, Slots
<1> DEFINE j == x[1]
<1>2. /\ Sound(x) /\ IsFile(j, x[2]) /\ ~Clashes(j) /\ x \notin unread' \cup dropped'
  BY <1>1, SoundMoves
<1>3. Flow(x) /\ x = <<j, x[2]>> /\ j \in Jobs
  BY <1>1, <1>2, FilesSettled DEF BlocksFlow
<1>4. /\ WritesFile(x) => Offset(x)' = Offset(x) + 1
      /\ ~WritesFile(x) => Offset(x)' = Offset(x) /\ dest'[x] = dest[x]
  BY <1>1, <1>2, OffsetMoves
<1>5. /\ ThreadSends(j) /\ CurrentFile(j) = x[2] =>
            SentOf(x) = thread[j].block /\ SentOf(x)' = SentOf(x) + 1
      /\ ~(ThreadSends(j) /\ CurrentFile(j) = x[2]) => SentOf(x)' = SentOf(x)
  BY <1>1, <1>2, SentMoves
<1>6. toHost \in Seq(Messages) /\ toHost' \in Seq(Messages)
  BY <1>1 DEF TypeOK
<1>7. /\ HostTurn => toHost' = Tail(toHost) /\ toHost # <<>>
      /\ \A i \in Jobs : ThreadSends(i) => Len(toHost') = Len(toHost) + 1
  <2>1. HostTurn => toHost' = Tail(toHost) /\ toHost # <<>>
    BY HostTurnTakes DEF HostTakes
  <2>2. ASSUME NEW i \in Jobs, ThreadSends(i)
        PROVE  Len(toHost') = Len(toHost) + 1
    <3>1. PICK m \in Messages : toHost' = Append(toHost, m)
      BY <1>1, <2>2, ThreadSendsSays
    <3> QED
      BY <1>6, <3>1
  <2> QED
    BY <2>1, <2>2
<1>8. CASE ThreadSends(j) /\ CurrentFile(j) = x[2]
  <2>1. ~WritesFile(x)
    <3>1. ASSUME HostTurn
          PROVE  FALSE
      <4>1. Len(toHost') = Len(toHost) - 1
        BY <1>6, <1>7, <3>1
      <4> QED
        BY <1>3, <1>6, <1>7, <1>8, <4>1
    <3> QED
      BY <3>1 DEF WritesFile, HostTurn
  <2> QED
    BY <1>1, <1>2, <1>3, <1>4, <1>5, <1>8, <2>1, FlowSent
<1>9. CASE WritesFile(x) /\ ~(ThreadSends(j) /\ CurrentFile(j) = x[2])
  BY <1>1, <1>2, <1>3, <1>4, <1>5, <1>9, FlowWritten
<1>10. CASE ~WritesFile(x) /\ ~(ThreadSends(j) /\ CurrentFile(j) = x[2])
  <2>1. \E d \in {0, 1} : MovesBy(x, d)
    <3>1. CASE Grows(toHost, toHost') /\ \A i \in Fresh(toHost, toHost') : ~IsBlockOf(toHost'[i], x)
      <4>1. MovesBy(x, 0)
        BY <1>6, <3>1 DEF MovesBy, Grows, Fresh
      <4> QED
        BY <4>1
    <3>2. CASE UNCHANGED toHost
      BY <3>1, <3>2 DEF Grows, Fresh
    <3>3. CASE NetworkFlushes
      <4>1. Grows(toHost, toHost')
        BY <1>1, <3>3, FlushesSay
      <4>2. ASSUME NEW i \in Fresh(toHost, toHost')
            PROVE  ~IsBlockOf(toHost'[i], x)
        <5>1. toHost'[i] = Message("Receive", actionsOut[i - Len(toHost)], 0, <<>>)
          BY <1>1, <3>3, FlushesSay
        <5>2. toHost'[i].type = "Receive"
          BY <5>1 DEF Message
        <5> QED
          BY <5>2 DEF IsBlockOf
      <4> QED
        BY <3>1, <4>1, <4>2
    <3>4. ASSUME NEW i \in Jobs, ThreadSends(i)
          PROVE  \E d \in {0, 1} : MovesBy(x, d)
      <4>1. PICK m \in Messages : toHost' = Append(toHost, m) /\ m.id = i /\ m.file = CurrentFile(i)
        BY <1>1, <3>4, ThreadSendsSays
      <4>2. ~IsBlockOf(m, x)
        BY <1>10, <3>4, <4>1 DEF IsBlockOf
      <4>3. Grows(toHost, toHost') /\ \A a \in DOMAIN toHost' : a \in DOMAIN toHost \/ toHost'[a] = m
        BY <1>1, <4>1, ThreadSays
      <4> QED
        BY <3>1, <4>2, <4>3 DEF Fresh
    <3>5. ASSUME NEW i \in Jobs, ThreadEnds(i)
          PROVE  \E d \in {0, 1} : MovesBy(x, d)
      <4>1. PICK m \in Messages : toHost' = Append(toHost, m) /\ m.type = "Done"
        BY <1>1, <3>5, ThreadEndsSays
      <4>2. ~IsBlockOf(m, x)
        BY <4>1 DEF IsBlockOf
      <4>3. Grows(toHost, toHost') /\ \A a \in DOMAIN toHost' : a \in DOMAIN toHost \/ toHost'[a] = m
        BY <1>1, <4>1, ThreadSays
      <4> QED
        BY <3>1, <4>2, <4>3 DEF Fresh
    <3>6. CASE HostTurn
      <4>1. /\ 1 \in DOMAIN toHost /\ Next1 = toHost[1]
            /\ \A i \in DOMAIN toHost' : i \in Nat /\ i + 1 \in DOMAIN toHost /\ toHost'[i] = toHost[i + 1]
            /\ \A i \in DOMAIN toHost : i # 1 => i - 1 \in DOMAIN toHost' /\ toHost'[i - 1] = toHost[i]
        BY <1>1, <3>6, HostTurnTakes, HostTakesShifts
      <4>2. ~IsBlockOf(toHost[1], x)
        BY <1>1, <1>10, <3>6, <4>1, HeadIsWritten
      <4>3. \A i \in DOMAIN toHost : i \in Nat
        BY <1>6
      <4>4. MovesBy(x, 1)
        BY <4>1, <4>2, <4>3 DEF MovesBy
      <4> QED
        BY <4>4
    <3> QED
      BY <3>2, <3>3, <3>4, <3>5, <3>6, WhoSpeaks
  <2> QED
    BY <1>3, <1>4, <1>5, <1>10, <2>1, FlowMoves
<1> QED
  BY <1>8, <1>9, <1>10


-----------------------------------------------------------------------------
(* The invariant holds in the beginning and is kept.                           *)

LEMMA InitInvariant ==
    ASSUME UploadAssumption, Init
    PROVE  IInv
<1>1. TypeOK
  <2>1. dest \in [Files -> Seq(Units)]
    <3>1. Old \in Units
      BY DEF Old, Units
    <3>2. <<Old>> \in Seq(Units) /\ <<>> \in Seq(Units)
      BY <3>1
    <3> QED
      BY <3>2 DEF Init
  <2> QED
    BY <2>1 DEF Init, TypeOK
<1>2. /\ toHost = <<>> /\ toViewer = <<>> /\ actionsOut = <<>> /\ writeJobs = <<>>
      /\ \A j \in Jobs : /\ ui[j] = "none" /\ ThreadAt(j, "none")
                         /\ CurrentFile(j) = 1 /\ thread[j].block = 0
  BY DEF Init, ThreadAt, CurrentFile
<1>3. /\ DOMAIN toHost = {} /\ DOMAIN toViewer = {} /\ DOMAIN actionsOut = {}
      /\ DOMAIN writeJobs = {}
  BY <1>2
<1>4. ThreadsAreSound
  <2> SUFFICES ASSUME NEW j \in Jobs
               PROVE  /\ CurrentFile(j) \in 1 .. Len(tree[j]) + 1
                      /\ ThreadAt(j, "none")
                      /\ CurrentFile(j) = 1
                      /\ thread[j].block = 0
    BY DEF ThreadsAreSound, ThreadAt
  <2>1. Len(tree[j]) \in Nat
    BY <1>1, ListsAreShort
  <2> QED
    BY <1>2, <2>1
<1>5. MessagesAreSound
  BY <1>3 DEF MessagesAreSound
<1>6. JobsAreSound
  BY <1>3 DEF JobsAreSound
<1>7. ReceivedOnce
  BY <1>3 DEF ReceivedOnce
<1>8. ReceivedAtOnce
  BY <1>3 DEF ReceivedAtOnce, Received
<1>9. DoneIsLast
  BY <1>3 DEF DoneIsLast
<1>10. EndsAreLast
  BY <1>2, <1>3 DEF EndsAreLast
<1>11. BlocksFlow
  <2> SUFFICES ASSUME NEW x \in Files, Sound(x)
               PROVE  Flow(x)
    BY DEF BlocksFlow
  <2>1. x[1] \in Jobs /\ x[2] \in Nat /\ x[2] \in DOMAIN tree[x[1]]
    BY <1>1, FilesSettled DEF Sound
  <2>2. Offset(x) = 0
    BY <1>3 DEF Offset, HasJob
  <2>3. SentOf(x) = 0
    <3>1. ~(x[2] < 1)
      BY <1>1, <2>1, ListsAreShort
    <3> QED
      BY <1>2, <2>1, <3>1 DEF SentOf
  <2> QED
    BY <1>3, <2>2, <2>3 DEF Flow
<1> QED
  BY <1>1, <1>4, <1>5, <1>6, <1>7, <1>8, <1>9, <1>10, <1>11 DEF IInv

LEMMA StepInvariant ==
    ASSUME UploadAssumption, IInv, [Next]_vars
    PROVE  IInv'
<1>1. /\ TypeOK /\ ThreadsAreSound /\ MessagesAreSound /\ JobsAreSound /\ ReceivedOnce
      /\ ReceivedAtOnce /\ DoneIsLast /\ EndsAreLast
  BY DEF IInv
<1>2. CASE Next
  <2>1. TypeOK'
    BY <1>1, <1>2, StepTypes
  <2>2. ThreadsAreSound'
    BY <1>1, <1>2, ThreadsStep
  <2>3. MessagesAreSound'
    BY <1>1, <1>2, MessagesStep
  <2>4. JobsAreSound'
    BY <1>1, <1>2, <2>1, JobsStep
  <2>5. ReceivedOnce'
    BY <1>1, <1>2, <2>1, ReceivedOnceStep
  <2>6. ReceivedAtOnce'
    BY <1>1, <1>2, ReceivedAtOnceStep
  <2>7. DoneIsLast'
    BY <1>1, <1>2, <2>1, DoneIsLastStep
  <2>8. EndsAreLast'
    BY <1>1, <1>2, <2>1, EndsAreLastStep
  <2>9. BlocksFlow'
    BY <1>2, <2>1, BlocksFlowStep
  <2> QED
    BY <2>1, <2>2, <2>3, <2>4, <2>5, <2>6, <2>7, <2>8, <2>9 DEF IInv
<1>3. CASE UNCHANGED vars
  <2>1. /\ tree' = tree /\ ui' = ui /\ thread' = thread /\ actionsOut' = actionsOut
        /\ toHost' = toHost /\ toViewer' = toViewer /\ writeJobs' = writeJobs
        /\ dest' = dest /\ unread' = unread /\ dropped' = dropped
    BY <1>3 DEF vars, viewerVars, pastVars
  <2>2. /\ TypeOK' /\ ThreadsAreSound' /\ MessagesAreSound' /\ JobsAreSound'
    BY <1>1, <2>1 DEF TypeOK, ThreadsAreSound, MessagesAreSound, JobsAreSound, JobIsSound,
        SaidToHost, SaidToViewer, Asked, ThreadAt, CurrentFile, IsFile
  <2>3. ReceivedOnce' /\ ReceivedAtOnce'
    BY <1>1, <2>1 DEF ReceivedOnce, ReceivedAtOnce, Received, Clashes, KeysOf, IsFile
  <2>4. DoneIsLast' /\ EndsAreLast'
    BY <1>1, <2>1 DEF DoneIsLast, EndsAreLast, Over, Bad, ThreadAt, Clashes, KeysOf
  <2>5. BlocksFlow'
    BY <2>1 DEF IInv, BlocksFlow, Sound, Flow, Offset, SentOf, HasJob, CurrentFile,
        IsFile, Clashes, KeysOf, Bad
  <2> QED
    BY <2>2, <2>3, <2>4, <2>5 DEF IInv
<1> QED
  BY <1>2, <1>3

\* A finished upload has nothing on its way: what the host has is what was sent.
LEMMA InvariantIsEnough ==
    ASSUME UploadAssumption, IInv
    PROVE  UploadFaithful
<1>1. TypeOK /\ ThreadsAreSound /\ MessagesAreSound /\ EndsAreLast /\ BlocksFlow
  BY DEF IInv
<1> SUFFICES ASSUME NEW j \in Jobs, ui[j] = "finished", ~Clashes(j),
                    NEW f \in DOMAIN tree[j], IsFile(j, f), tree[j][f].size > 0,
                    <<j, f>> \notin unread \cup dropped
             PROVE  dest[<<j, f>>] = Source(j, f)
  BY DEF UploadFaithful
<1> DEFINE x == <<j, f>>
           size == tree[j][f].size
<1>2. x \in Files /\ x[1] = j /\ x[2] = f /\ f \in Nat /\ size \in Nat
  BY <1>1, FilesAreListed
<1>3. Over(j) /\ ~Bad(j)
  BY <1>1 DEF EndsAreLast, Bad
<1>4. Sound(x)
  BY <1>2, <1>3 DEF Sound
<1>5. Flow(x) /\ Offset(x) \in Nat /\ SentOf(x) \in Nat
  BY <1>1, <1>2, <1>4, FilesSettled DEF BlocksFlow
<1>6. SentOf(x) = size
  <2>1. f < CurrentFile(j)
    <3>1. CurrentFile(j) > Len(tree[j]) /\ CurrentFile(j) \in 1 .. Len(tree[j]) + 1
      BY <1>1, <1>3 DEF ThreadsAreSound, Over
    <3>2. f \in 1 .. Len(tree[j]) /\ Len(tree[j]) \in Nat
      BY <1>1, ListsAreShort
    <3> QED
      BY <3>1, <3>2
  <2> QED
    BY <1>2, <2>1 DEF SentOf
<1>7. \A i \in DOMAIN toHost : ~IsBlockOf(toHost[i], x)
  BY <1>2, <1>3 DEF Over, IsBlockOf
<1>8. Offset(x) = size
  <2>1. \A n \in Offset(x) + 1 .. SentOf(x) :
           \E i \in DOMAIN toHost : IsBlockOf(toHost[i], x) /\ Number(toHost[i]) = n
    BY <1>5 DEF Flow
  <2>2. Offset(x) <= SentOf(x)
    BY <1>5 DEF Flow
  <2>3. SentOf(x) \notin Offset(x) + 1 .. SentOf(x)
    BY <1>7, <2>1
  <2> QED
    BY <1>5, <1>6, <2>2, <2>3
<1>9. dest[x] = [n \in 1 .. size |-> <<x[1], x[2], n>>]
  BY <1>5, <1>8 DEF Flow
<1> QED
  BY <1>2, <1>9 DEF Source

LEMMA Invariance == ASSUME UploadAssumption PROVE Spec => []IInv
<1>1. Init => IInv
  BY InitInvariant
<1>2. IInv /\ [Next]_vars => IInv'
  BY StepInvariant
<1> QED
  BY <1>1, <1>2, PTL DEF Spec

-----------------------------------------------------------------------------
(* What is proved.                                                             *)

\* Every variable of an upload has its type: the host keeps a file under the key
\* made of its job and its place in the list, and writes behind what it holds
\* only (remote.rs, the upload thread; server.rs, write_jobs).
THEOREM TypeCorrect == ASSUME UploadAssumption PROVE Spec => []TypeOK
<1>1. IInv => TypeOK
  BY DEF IInv
<1> QED
  BY <1>1, Invariance, PTL

\* An upload that the window shows as finished has every file on the host as it
\* is on this machine, whatever the order in which the announcement, the blocks,
\* the answers and the user's Cancel come, and whatever other uploads run beside
\* it; but for the files named in UploadFaithful (remote.rs, the upload thread;
\* server.rs, write_jobs).
THEOREM UploadIsFaithful == ASSUME UploadAssumption PROVE Spec => []UploadFaithful
<1>1. IInv => UploadFaithful
  BY InvariantIsEnough
<1> QED
  BY <1>1, Invariance, PTL

==============================================================================
