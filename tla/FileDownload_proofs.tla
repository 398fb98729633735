------------------------ MODULE FileDownload_proofs ------------------------
(***************************************************************************)
(* Proofs about FileDownload, for any finite set of jobs, any folders and  *)
(* any stride of the keys: type correctness, that a download shown as      *)
(* finished is faithful, and that nothing is overwritten without consent.  *)
(* That downloads end (DownloadEnds) is left to TLC.                       *)
(*                                                                         *)
(* The argument for DownloadFaithful has three threads.  The blocks of a   *)
(* file that nothing has gone wrong with are on their way in order, from   *)
(* the viewer's offset to the host's (BlocksFlow).  The end of a file is   *)
(* said once and after its last block (EndsOnce).  The ends that were      *)
(* heard and the files still open are together no more than the entries of *)
(* the list (EndsAreCounted), so that with the Done that completes the     *)
(* count no file is open any more.  Consent is carried by every answer,    *)
(* job and block from the question to the write (ConsentCarries).          *)
(***************************************************************************)
EXTENDS FileDownload, FiniteSetTheorems, TLAPS

-----------------------------------------------------------------------------
(* Sequences: what is left of one, and what is put behind one.                 *)

LEMMA TailOf ==
    ASSUME NEW S, NEW s \in Seq(S), s # <<>>
    PROVE  /\ Tail(s) \in Seq(S)
           /\ Len(Tail(s)) = Len(s) - 1
           /\ 1 \in DOMAIN s /\ Head(s) = s[1] /\ s[1] \in S
           /\ \A i \in DOMAIN Tail(s) : i + 1 \in DOMAIN s /\ Tail(s)[i] = s[i + 1]
           /\ \A i \in DOMAIN s : i # 1 => i - 1 \in DOMAIN Tail(s) /\ Tail(s)[i - 1] = s[i]
OBVIOUS

\* An order of a finite set goes through each of its elements once.
LEMMA OrderOf ==
    ASSUME NEW S, IsFiniteSet(S), NEW s \in SetToSeqs(S)
    PROVE  /\ s \in Seq(S)
           /\ \A i, k \in DOMAIN s : i # k => s[i] # s[k]
           /\ \A e \in S : \E i \in DOMAIN s : s[i] = e
<1> DEFINE D == 1 .. Cardinality(S)
<1>1. Cardinality(S) \in Nat
  BY FS_CardinalityType
<1>2. s \in [D -> S] /\ \A i, k \in D : i # k => s[i] # s[k]
  BY DEF SetToSeqs
<1>3. s \in Seq(S) /\ DOMAIN s = D
  BY <1>1, <1>2
<1>4. Cardinality(D) = Cardinality(S)
  BY <1>1, FS_Interval
<1>5. s \in Injection(D, S)
  BY <1>2 DEF Injection, IsInjective
<1>6. s \in Surjection(D, S)
  BY <1>4, <1>5, FS_Injection
<1> QED
  BY <1>2, <1>3, <1>6 DEF Surjection

-----------------------------------------------------------------------------
(* Types.                                                                      *)

\* The file a message, an action or a job of the host is about.
FileOf(r) == <<r.id, r.file>>

File(x) == IsFile(x[1], x[2])
Size(x) == tree[x[1]][x[2]].size

LEMMA ListsAreShort ==
    ASSUME DownloadAssumption, TypeOK, NEW j \in Jobs
    PROVE  /\ Listed(j) \subseteq Slots /\ 1 \in Slots
           /\ There(j) => /\ tree[j] \in Seq(Entries)
                          /\ Len(tree[j]) \in Nat
                          /\ Listed(j) = 1 .. Len(tree[j])
           /\ \A f \in Slots : File(<<j, f>>) => There(j) /\ Size(<<j, f>>) \in Nat
<1>1. tree \in Trees /\ tree[j] \in Seq(Entries) \cup {NotThere}
  BY DEF DownloadAssumption, TypeOK
<1>2. There(j) => tree[j] \in Seq(Entries) /\ Len(tree[j]) <= MaxEntries
  BY <1>1 DEF DownloadAssumption, There
<1>3. Listed(j) \subseteq Slots /\ 1 \in Slots
  BY <1>2 DEF Listed, Slots, DownloadAssumption
<1>4. There(j) => Listed(j) = 1 .. Len(tree[j])
  BY <1>2 DEF Listed
<1>5. ASSUME NEW f \in Slots, File(<<j, f>>)
      PROVE  There(j) /\ Size(<<j, f>>) \in Nat
  <2>1. There(j) /\ f \in DOMAIN tree[j]
    BY <1>5 DEF File, IsFile, Listed
  <2>2. tree[j][f] \in Entries
    BY <1>2, <2>1
  <2> QED
    BY <2>1, <2>2 DEF Size, Entries
<1> QED
  BY <1>2, <1>3, <1>4, <1>5

LEMMA FilesAndKeys ==
    ASSUME DownloadAssumption
    PROVE  /\ \A j \in Jobs, f \in Slots : Key(j, f) \in Int /\ <<j, f>> \in Files
           /\ \A j \in Jobs, f, g \in Slots : Key(j, f) = Key(j, g) => f = g
           /\ \A j \in Jobs, f \in Slots : Key(j, f) - j * Stride + 1 = f
           /\ IsFiniteSet({Key(x[1], x[2]) : x \in Files})
<1>1. /\ Slots \subseteq Nat
      /\ \A j \in Jobs : j * Stride \in Int
  BY DEF DownloadAssumption, Slots
<1>2. \A j \in Jobs, f \in Slots : Key(j, f) \in Int /\ Key(j, f) - j * Stride + 1 = f
  BY <1>1 DEF Key
<1>3. \A j \in Jobs, f, g \in Slots : Key(j, f) = Key(j, g) => f = g
  BY <1>1 DEF Key
<1>4. IsFiniteSet(Files)
  <2>1. IsFiniteSet(Slots) /\ IsFiniteSet(Jobs)
    BY FS_Interval DEF Slots, DownloadAssumption
  <2> QED
    BY <2>1, FS_Product DEF Files
<1>5. IsFiniteSet({Key(x[1], x[2]) : x \in Files})
  <2> DEFINE Keys == {Key(x[1], x[2]) : x \in Files}
             key  == [x \in Files |-> Key(x[1], x[2])]
  <2>1. key \in Surjection(Files, Keys)
    BY DEF Surjection
  <2> HIDE DEF key, Keys
  <2>2. IsFiniteSet(Keys)
    BY <1>4, <2>1, FS_Surjection
  <2> QED
    BY <2>2 DEF Keys
<1> QED
  BY <1>2, <1>3, <1>5 DEF Files

-----------------------------------------------------------------------------
(* What the steps do to the queues and to the jobs of the host.                *)

Grows(q, q1) == \A i \in DOMAIN q : i \in DOMAIN q1 /\ q1[i] = q[i]
Fresh(q, q1) == DOMAIN q1 \ DOMAIN q

LEMMA TakesShifts ==
    ASSUME TypeOK, NEW type, Takes(type)
    PROVE  /\ 1 \in DOMAIN toViewer /\ Next1 = toViewer[1] /\ Next1 \in Messages
           /\ Next1.type = type /\ Next1.id \in Jobs /\ Next1.file \in Slots
           /\ FileOf(Next1) \in Files
           /\ toViewer' \in Seq(Messages)
           /\ drained' \in Nat /\ drained' <= Len(toViewer')
           /\ \A i \in DOMAIN toViewer' : i + 1 \in DOMAIN toViewer /\ toViewer'[i] = toViewer[i + 1]
           /\ \A i \in DOMAIN toViewer :
                 i # 1 => i - 1 \in DOMAIN toViewer' /\ toViewer'[i - 1] = toViewer[i]
<1>1. toViewer \in Seq(Messages) /\ drained \in Nat /\ drained <= Len(toViewer)
  BY DEF TypeOK
<1>2. toViewer # <<>> /\ toViewer' = Tail(toViewer) /\ drained' = drained - 1 /\ drained > 0
  BY <1>1 DEF Takes
<1>3. Next1 = toViewer[1] /\ Next1 \in Messages /\ Next1.type = type
  BY <1>1, <1>2, TailOf DEF Next1, Takes
<1>4. Next1.id \in Jobs /\ Next1.file \in Slots /\ FileOf(Next1) \in Files
  BY <1>3 DEF Messages, FileOf, Files
<1>5. drained' \in Nat /\ drained' <= Len(toViewer')
  BY <1>1, <1>2, TailOf
<1> QED
  BY <1>1, <1>2, <1>3, <1>4, <1>5, TailOf

LEMMA HostTakesShifts ==
    ASSUME TypeOK, NEW type, HostTakes(type)
    PROVE  /\ 1 \in DOMAIN toHost /\ Head(toHost) = toHost[1] /\ Head(toHost) \in Actions
           /\ Head(toHost).type = type /\ Head(toHost).id \in Jobs /\ Head(toHost).file \in Slots
           /\ FileOf(Head(toHost)) \in Files
           /\ toHost' \in Seq(Actions)
           /\ \A i \in DOMAIN toHost' : i + 1 \in DOMAIN toHost /\ toHost'[i] = toHost[i + 1]
           /\ \A i \in DOMAIN toHost :
                 i # 1 => i - 1 \in DOMAIN toHost' /\ toHost'[i - 1] = toHost[i]
<1>1. toHost \in Seq(Actions) /\ toHost # <<>> /\ toHost' = Tail(toHost)
  BY DEF TypeOK, HostTakes
<1>2. Head(toHost) = toHost[1] /\ Head(toHost) \in Actions /\ Head(toHost).type = type
  BY <1>1, TailOf DEF HostTakes
<1>3. Head(toHost).id \in Jobs /\ Head(toHost).file \in Slots /\ FileOf(Head(toHost)) \in Files
  BY <1>2 DEF Actions, FileOf, Files
<1> QED
  BY <1>1, <1>2, <1>3, TailOf

\* An answer is one of two actions, and it is asked of a file.
IsAnswer(a) == a.type \in {"Confirm", "Skip"}

LEMMA PollsSays ==
    ASSUME DownloadAssumption, TypeOK, answer # Nothing => IsAnswer(answer), Polls
    PROVE  /\ toHost' \in Seq(Actions) /\ Grows(toHost, toHost')
           /\ \A i \in Fresh(toHost, toHost') :
                 \/ toHost'[i].type = "Send" /\ ui[toHost'[i].id] = "queued"
                 \/ cancel # Nothing /\ toHost'[i] = Action("Cancel", cancel, 1)
                 \/ answer # Nothing /\ toHost'[i] = answer
           /\ \A i, k \in Fresh(toHost, toHost') :
                 i # k => /\ toHost'[i].type = "Send" /\ toHost'[k].type = "Send"
                                  => toHost'[i].id # toHost'[k].id
                          /\ ~(IsAnswer(toHost'[i]) /\ IsAnswer(toHost'[k]))
           /\ \A j \in Jobs : ui[j] = "queued" =>
                 \E i \in DOMAIN toHost' : toHost'[i].type = "Send" /\ toHost'[i].id = j
<1> DEFINE queued == {j \in Jobs : ui[j] = "queued"}
           B == IF cancel = Nothing THEN <<>> ELSE <<Action("Cancel", cancel, 1)>>
           C == IF answer = Nothing THEN <<>> ELSE <<answer>>
<1>1. PICK asked \in Ascending(queued) :
         toHost' = toHost \o [i \in DOMAIN asked |-> Action("Send", asked[i], 1)] \o B \o C
  BY DEF Polls
<1> DEFINE A == [i \in DOMAIN asked |-> Action("Send", asked[i], 1)]
<1>2. /\ asked \in Seq(queued)
      /\ \A i, k \in DOMAIN asked : i # k => asked[i] # asked[k]
      /\ \A j \in queued : \E i \in DOMAIN asked : asked[i] = j
  <2>1. IsFiniteSet(queued)
    BY FS_Subset DEF DownloadAssumption
  <2>2. asked \in SetToSeqs(queued)
    BY <1>1 DEF Ascending
  <2> QED
    BY <2>1, <2>2, OrderOf
<1>3. 1 \in Slots
  BY DEF DownloadAssumption, Slots
<1>4. /\ A \in Seq(Actions)
      /\ \A i \in DOMAIN A : A[i].type = "Send" /\ ui[A[i].id] = "queued"
      /\ \A i, k \in DOMAIN A : i # k => A[i].id # A[k].id
      /\ \A j \in queued : \E i \in DOMAIN A : A[i].id = j
  <2>1. \A j \in queued : Action("Send", j, 1) \in Actions
    BY <1>3 DEF Action, Actions
  <2>2. \A i \in DOMAIN asked : asked[i] \in queued
    BY <1>2
  <2>3. A \in Seq(Actions)
    BY <1>2, <2>1, <2>2
  <2> QED
    BY <1>2, <2>2, <2>3 DEF Action
<1>5. B \in Seq(Actions) /\ \A i \in DOMAIN B : cancel # Nothing /\ B[i] = Action("Cancel", cancel, 1)
  <2>1. CASE cancel = Nothing
    BY <2>1
  <2>2. CASE cancel # Nothing
    <3>1. Action("Cancel", cancel, 1) \in Actions
      BY <1>3, <2>2 DEF TypeOK, Action, Actions
    <3> QED
      BY <2>2, <3>1
  <2> QED
    BY <2>1, <2>2
<1>6. C \in Seq(Actions) /\ (Len(C) = 0 \/ Len(C) = 1) /\ \A i \in DOMAIN C : answer # Nothing /\ C[i] = answer
  <2>1. CASE answer = Nothing
    BY <2>1
  <2>2. CASE answer # Nothing
    BY <2>2 DEF TypeOK
  <2> QED
    BY <2>1, <2>2
<1> DEFINE n == Len(toHost)
<1>7. /\ toHost' \in Seq(Actions)
      /\ \A i \in DOMAIN toHost : i \in DOMAIN toHost' /\ toHost'[i] = toHost[i]
      /\ \A i \in DOMAIN toHost' : i \notin DOMAIN toHost =>
            \/ i - n \in DOMAIN A /\ toHost'[i] = A[i - n]
            \/ toHost'[i] = Action("Cancel", cancel, 1) /\ cancel # Nothing
            \/ i = Len(toHost') /\ answer # Nothing /\ toHost'[i] = answer
      /\ \A i \in DOMAIN A : n + i \in DOMAIN toHost' /\ toHost'[n + i] = A[i]
  <2>1. toHost \in Seq(Actions)
    BY DEF TypeOK
  <2> HIDE DEF A, B, C
  <2>2. toHost' = toHost \o A \o B \o C
    BY <1>1 DEF A, B, C
  <2> DEFINE q1 == toHost \o A
             q2 == q1 \o B
  <2>3. /\ q1 \in Seq(Actions) /\ Len(q1) = n + Len(A)
        /\ \A i \in DOMAIN toHost : i \in DOMAIN q1 /\ q1[i] = toHost[i]
        /\ \A i \in DOMAIN q1 : i \notin DOMAIN toHost => i - n \in DOMAIN A /\ q1[i] = A[i - n]
        /\ \A i \in DOMAIN A : n + i \in DOMAIN q1 /\ q1[n + i] = A[i]
    BY <1>4, <2>1
  <2>4. toHost' = q2 \o C
    BY <2>2
  <2> HIDE DEF q1
  <2>5. /\ q2 \in Seq(Actions)
        /\ \A i \in DOMAIN q1 : i \in DOMAIN q2 /\ q2[i] = q1[i]
        /\ \A i \in DOMAIN q2 : i \notin DOMAIN q1 => q2[i] = Action("Cancel", cancel, 1) /\ cancel # Nothing
    <3>1. \A i \in DOMAIN q2 : i \notin DOMAIN q1 => i - Len(q1) \in DOMAIN B /\ q2[i] = B[i - Len(q1)]
      BY <1>5, <2>3
    <3>2. q2 \in Seq(Actions) /\ \A i \in DOMAIN q1 : i \in DOMAIN q2 /\ q2[i] = q1[i]
      BY <1>5, <2>3
    <3> QED
      BY <1>5, <3>1, <3>2
  <2> HIDE DEF q2
  <2>6. /\ toHost' \in Seq(Actions) /\ Len(toHost') = Len(q2) + Len(C)
        /\ \A i \in DOMAIN q2 : i \in DOMAIN toHost' /\ toHost'[i] = q2[i]
        /\ \A i \in DOMAIN toHost' :
              i \notin DOMAIN q2 => i - Len(q2) \in DOMAIN C /\ toHost'[i] = C[i - Len(q2)]
    BY <1>6, <2>4, <2>5
  <2>7. \A i \in DOMAIN toHost' :
           i \notin DOMAIN q2 => i = Len(toHost') /\ answer # Nothing /\ toHost'[i] = answer
    <3>1. C \in Seq(Actions) /\ q2 \in Seq(Actions) /\ (Len(C) = 0 \/ Len(C) = 1)
      BY <1>6, <2>5
    <3> QED
      BY <1>6, <2>6, <3>1
  <2> QED
    BY <2>3, <2>5, <2>6, <2>7
<1>8. ASSUME NEW i \in Fresh(toHost, toHost'), NEW k \in Fresh(toHost, toHost'), i # k
      PROVE  /\ toHost'[i].type = "Send" /\ toHost'[k].type = "Send" => toHost'[i].id # toHost'[k].id
             /\ ~(IsAnswer(toHost'[i]) /\ IsAnswer(toHost'[k]))
  <2> HIDE DEF A, n
  <2>1. \A l \in Fresh(toHost, toHost') :
           /\ toHost'[l].type = "Send" => l - n \in DOMAIN A /\ toHost'[l] = A[l - n]
           /\ IsAnswer(toHost'[l]) => l = Len(toHost')
    BY <1>4, <1>7 DEF Fresh, IsAnswer, Action
  <2>2. i - n # k - n
    <3>1. i \in Int /\ k \in Int /\ n \in Int
      BY <1>7 DEF Fresh, n, TypeOK
    <3> QED
      BY <1>8, <3>1
  <2> QED
    BY <1>4, <1>8, <2>1, <2>2
<1>9. \A i \in Fresh(toHost, toHost') :
         \/ toHost'[i].type = "Send" /\ ui[toHost'[i].id] = "queued"
         \/ cancel # Nothing /\ toHost'[i] = Action("Cancel", cancel, 1)
         \/ answer # Nothing /\ toHost'[i] = answer
  <2> HIDE DEF A, n
  <2> QED
    BY <1>4, <1>7 DEF Fresh
<1>10. Grows(toHost, toHost')
  BY <1>7 DEF Grows
<1>11. ASSUME NEW j \in Jobs, ui[j] = "queued"
       PROVE  \E i \in DOMAIN toHost' : toHost'[i].type = "Send" /\ toHost'[i].id = j
  <2> HIDE DEF A, n
  <2>1. PICK i \in DOMAIN A : A[i].id = j
    BY <1>4, <1>11
  <2> QED
    BY <1>4, <1>7, <2>1
<1> QED
  BY <1>7, <1>8, <1>9, <1>10, <1>11

\* The host's answer to a request: the list and the announcements, all of them
\* of the job that asked, and a new job for every file.
LEMMA HostSendSays ==
    ASSUME DownloadAssumption, TypeOK, HostSend
    PROVE  LET j == Head(toHost).id IN
           /\ toViewer' \in Seq(Messages) /\ Grows(toViewer, toViewer')
           /\ \A i \in Fresh(toViewer, toViewer') :
                 /\ toViewer'[i].id = j
                 /\ toViewer'[i].type \in {"Dir", "Digest", "Error"}
                 /\ toViewer'[i].type = "Digest" => File(FileOf(toViewer'[i]))
                 /\ toViewer'[i].type = "Error" => ~There(j)
           /\ \A i, k \in Fresh(toViewer, toViewer') :
                 /\ i # k /\ toViewer'[i].type = "Digest" /\ toViewer'[k].type = "Digest"
                       => FileOf(toViewer'[i]) # FileOf(toViewer'[k])
                 /\ toViewer'[i].type = "Dir" => i <= k
                 /\ toViewer'[i].type = "Error" => i = k
<1> DEFINE j     == Head(toHost).id
           files == {f \in Listed(j) : IsFile(j, f)}
           n     == Len(toViewer)
<1>1. j \in Jobs /\ toViewer \in Seq(Messages) /\ 1 \in Slots /\ files \subseteq Slots
  <2>1. j \in Jobs
    BY HostTakesShifts DEF HostSend
  <2> QED
    BY <2>1, ListsAreShort DEF TypeOK
<1>2. CASE ~There(j)
  <2> DEFINE e == Response("Error", j, 1, <<>>)
  <2>1. toViewer' = Append(toViewer, e)
    BY <1>2 DEF HostSend
  <2>2. e \in Messages /\ e.type = "Error" /\ e.id = j
    BY <1>1 DEF Response, Messages
  <2> HIDE DEF e
  <2>3. /\ toViewer' \in Seq(Messages)
        /\ \A i \in DOMAIN toViewer : i \in DOMAIN toViewer' /\ toViewer'[i] = toViewer[i]
        /\ \A i \in DOMAIN toViewer' : i \notin DOMAIN toViewer => i = n + 1 /\ toViewer'[i] = e
    BY <1>1, <2>1, <2>2
  <2>4. \A i \in Fresh(toViewer, toViewer') : i = n + 1 /\ toViewer'[i] = e
    BY <2>3 DEF Fresh
  <2>5. n + 1 <= n + 1
    BY <1>1
  <2> HIDE DEF j, n
  <2> QED
    BY <1>2, <2>2, <2>3, <2>4, <2>5 DEF Grows, j
<1>3. CASE There(j)
  <2> DEFINE D == <<Response("Dir", j, 1, <<>>)>>
  <2>1. PICK order \in Ascending(files) :
           toViewer' = toViewer \o D \o [i \in DOMAIN order |-> Response("Digest", j, order[i], <<>>)]
    BY <1>3 DEF HostSend
  <2> DEFINE G == [i \in DOMAIN order |-> Response("Digest", j, order[i], <<>>)]
             q == toViewer \o D
  <2>2. /\ order \in Seq(files)
        /\ \A i, k \in DOMAIN order : i # k => order[i] # order[k]
    <3>1. IsFiniteSet(files)
      <4>1. IsFiniteSet(Slots)
        BY FS_Interval DEF Slots, DownloadAssumption
      <4> HIDE DEF files
      <4> QED
        BY <1>1, <4>1, FS_Subset
    <3>2. order \in SetToSeqs(files)
      BY <2>1 DEF Ascending
    <3> QED
      BY <3>1, <3>2, OrderOf
  <2>3. D \in Seq(Messages) /\ Len(D) = 1 /\ D[1].type = "Dir" /\ D[1].id = j
    BY <1>1 DEF Response, Messages
  <2>4. /\ G \in Seq(Messages)
        /\ \A i \in DOMAIN G : G[i].type = "Digest" /\ G[i].id = j /\ File(FileOf(G[i]))
        /\ \A i, k \in DOMAIN G : i # k => FileOf(G[i]) # FileOf(G[k])
    <3>1. \A f \in files : Response("Digest", j, f, <<>>) \in Messages
      BY <1>1 DEF Response, Messages
    <3>2. \A i \in DOMAIN order : order[i] \in files
      BY <2>2
    <3>3. G \in Seq(Messages)
      BY <2>2, <3>1, <3>2
    <3>4. \A i \in DOMAIN G : G[i].type = "Digest" /\ G[i].id = j /\ FileOf(G[i]) = <<j, order[i]>>
      BY DEF Response, FileOf
    <3>5. \A i \in DOMAIN order : File(<<j, order[i]>>)
      BY <3>2 DEF File
    <3> QED
      BY <2>2, <3>3, <3>4, <3>5
  <2> HIDE DEF D, G, j, files, n
  <2>5. toViewer' = q \o G
    BY <2>1 DEF G
  <2>6. /\ q \in Seq(Messages) /\ Len(q) = n + 1
        /\ \A i \in DOMAIN toViewer : i \in DOMAIN q /\ q[i] = toViewer[i]
        /\ \A i \in DOMAIN q : i \notin DOMAIN toViewer => i = n + 1 /\ q[i] = D[1]
    <3>1. toViewer \in Seq(Messages) /\ D \in Seq(Messages)
      BY <1>1, <2>3
    <3>2. /\ q \in Seq(Messages) /\ Len(q) = Len(toViewer) + Len(D)
          /\ \A i \in DOMAIN toViewer : i \in DOMAIN q /\ q[i] = toViewer[i]
          /\ \A i \in DOMAIN q : i \notin DOMAIN toViewer =>
                i - Len(toViewer) \in DOMAIN D /\ q[i] = D[i - Len(toViewer)]
      BY <3>1
    <3>3. DOMAIN D = {1} /\ n = Len(toViewer) /\ n \in Nat /\ DOMAIN q \subseteq Nat
      BY <2>3, <3>1, <3>2 DEF n
    <3> HIDE DEF q
    <3>4. \A i \in DOMAIN q : i \notin DOMAIN toViewer => i = n + 1 /\ q[i] = D[1]
      BY <3>2, <3>3
    <3> QED
      BY <2>3, <3>2, <3>3, <3>4
  <2> HIDE DEF q
  <2>7. /\ toViewer' \in Seq(Messages)
        /\ \A i \in DOMAIN q : i \in DOMAIN toViewer' /\ toViewer'[i] = q[i]
        /\ \A i \in DOMAIN toViewer' :
              i \notin DOMAIN q => i - (n + 1) \in DOMAIN G /\ toViewer'[i] = G[i - (n + 1)]
    BY <2>4, <2>5, <2>6
  <2>8. Grows(toViewer, toViewer')
    BY <2>6, <2>7 DEF Grows
  <2>9. \A i \in Fresh(toViewer, toViewer') :
           \/ i = n + 1 /\ toViewer'[i] = D[1]
           \/ /\ i \notin DOMAIN q /\ i - (n + 1) \in DOMAIN G
              /\ toViewer'[i] = G[i - (n + 1)]
    BY <2>6, <2>7 DEF Fresh
  <2>10. \A i \in Fresh(toViewer, toViewer') :
            /\ toViewer'[i].id = j /\ toViewer'[i].type \in {"Dir", "Digest"}
            /\ toViewer'[i].type = "Digest" => /\ File(FileOf(toViewer'[i]))
                                               /\ i - (n + 1) \in DOMAIN G
                                               /\ toViewer'[i] = G[i - (n + 1)]
            /\ toViewer'[i].type = "Dir" => i = n + 1
    BY <2>3, <2>4, <2>9
  <2>11. \A i \in Fresh(toViewer, toViewer') : i \in Int /\ n + 1 <= i
    <3>1. n \in Nat /\ DOMAIN toViewer = 1 .. n
      BY <1>1 DEF n
    <3>2. DOMAIN toViewer' \subseteq Nat \ {0}
      BY <2>7
    <3> QED
      BY <3>1, <3>2 DEF Fresh
  <2>12. n \in Nat
    BY <1>1 DEF n
  <2>13. ASSUME NEW i \in Fresh(toViewer, toViewer'), NEW k \in Fresh(toViewer, toViewer'), i # k,
                toViewer'[i].type = "Digest", toViewer'[k].type = "Digest"
         PROVE  FileOf(toViewer'[i]) # FileOf(toViewer'[k])
    <3>1. i - (n + 1) # k - (n + 1)
      BY <2>11, <2>12, <2>13
    <3> QED
      BY <2>4, <2>10, <2>13, <3>1
  <2>14. \A i, k \in Fresh(toViewer, toViewer') : toViewer'[i].type = "Dir" => i <= k
    BY <2>10, <2>11
  <2> QED
    BY <2>7, <2>8, <2>10, <2>13, <2>14 DEF j
<1> QED
  BY <1>2, <1>3

LEMMA HostSendFiles ==
    ASSUME DownloadAssumption, TypeOK, HostSend
    PROVE  LET j == Head(toHost).id IN
           /\ DOMAIN sendJobs \subseteq DOMAIN sendJobs'
           /\ \A f \in Slots : File(<<j, f>>) =>
                 /\ Key(j, f) \in DOMAIN sendJobs'
                 /\ sendJobs'[Key(j, f)]
                       = [id |-> j, file |-> f, offset |-> 0, confirmed |-> FALSE]
           /\ \A k \in DOMAIN sendJobs' :
                 \/ k \in DOMAIN sendJobs /\ sendJobs'[k] = sendJobs[k]
                 \/ \E f \in Slots : File(<<j, f>>) /\ k = Key(j, f)
<1> DEFINE j     == Head(toHost).id
           files == {f \in Listed(j) : IsFile(j, f)}
           keys  == {Key(j, f) : f \in files}
<1>1. j \in Jobs
  BY HostTakesShifts DEF HostSend
<1>2. CASE ~There(j)
  BY <1>2 DEF HostSend, File, IsFile, Listed
<1>3. CASE There(j)
  <2>1. sendJobs' = [k \in DOMAIN sendJobs \cup keys |-> IF k \in keys THEN NewJob(j, k) ELSE sendJobs[k]]
    BY <1>3 DEF HostSend
  <2>2. files \subseteq Slots /\ \A f \in Slots : File(<<j, f>>) <=> f \in files
    BY <1>1, ListsAreShort DEF File, IsFile
  <2>3. \A f \in files : NewJob(j, Key(j, f)) = [id |-> j, file |-> f, offset |-> 0, confirmed |-> FALSE]
    BY <1>1, <2>2, FilesAndKeys DEF NewJob
  <2> HIDE DEF files, j
  <2> QED
    BY <2>1, <2>2, <2>3 DEF j
<1> QED
  BY <1>2, <1>3

LEMMA JobsAreTyped ==
    ASSUME TypeOK, NEW k \in DOMAIN sendJobs
    PROVE  /\ sendJobs[k] \in [id : Jobs, file : Slots, offset : Nat, confirmed : BOOLEAN]
           /\ sendJobs[k].id \in Jobs /\ sendJobs[k].file \in Slots
           /\ sendJobs[k].offset \in Nat /\ sendJobs[k].confirmed \in BOOLEAN
           /\ k = Key(sendJobs[k].id, sendJobs[k].file)
           /\ FileOf(sendJobs[k]) \in Files
<1>1. /\ sendJobs[k] \in [id : Jobs, file : Slots, offset : Nat, confirmed : BOOLEAN]
      /\ k = Key(sendJobs[k].id, sendJobs[k].file)
  BY DEF TypeOK
<1> QED
  BY <1>1 DEF FileOf, Files

\* Two jobs of the host are not about the same file.
LEMMA OneJobPerFile ==
    ASSUME TypeOK, NEW k \in DOMAIN sendJobs, NEW l \in DOMAIN sendJobs,
           FileOf(sendJobs[k]) = FileOf(sendJobs[l])
    PROVE  k = l
<1>1. k = Key(sendJobs[k].id, sendJobs[k].file) /\ l = Key(sendJobs[l].id, sendJobs[l].file)
  BY JobsAreTyped
<1>2. sendJobs[k].id = sendJobs[l].id /\ sendJobs[k].file = sendJobs[l].file
  BY DEF FileOf
<1> QED
  BY <1>1, <1>2

\* One message for each confirmed file: the next block, or what ends its job.
LEMMA HostPumpsSay ==
    ASSUME DownloadAssumption, TypeOK, HostPumps
    PROVE  /\ toViewer' \in Seq(Messages) /\ Grows(toViewer, toViewer')
           /\ \A i \in Fresh(toViewer, toViewer') : \E k \in Pending :
                 /\ FileOf(toViewer'[i]) = FileOf(sendJobs[k])
                 /\ \/ toViewer'[i].type = "Done" /\ Whole(k) /\ k \notin DOMAIN sendJobs'
                    \/ toViewer'[i].type = "Error" /\ k \notin DOMAIN sendJobs'
                    \/ /\ toViewer'[i].type = "Block" /\ toViewer'[i].data = Block(k)
                       /\ ~Whole(k) /\ k \in DOMAIN sendJobs'
                       /\ sendJobs'[k] = [sendJobs[k] EXCEPT !.offset = @ + Len(Block(k))]
           /\ \A i, l \in Fresh(toViewer, toViewer') :
                 FileOf(toViewer'[i]) = FileOf(toViewer'[l]) => i = l
           /\ \A k \in Pending : \E i \in Fresh(toViewer, toViewer') :
                 FileOf(toViewer'[i]) = FileOf(sendJobs[k])
           /\ DOMAIN sendJobs' \subseteq DOMAIN sendJobs
           /\ \A k \in DOMAIN sendJobs : k \notin Pending =>
                 k \in DOMAIN sendJobs' /\ sendJobs'[k] = sendJobs[k]
<1>1. PICK broken \in SUBSET {k \in Pending : ~Whole(k)}, order \in SetToSeqs(Pending) :
        LET type(k) == IF Whole(k) THEN "Done" ELSE IF k \in broken THEN "Error" ELSE "Block"
            data(k) == IF type(k) = "Block" THEN Block(k) ELSE <<>>
            said    == [i \in DOMAIN order |-> Response(type(order[i]), Job(order[i]).id,
                                                         Job(order[i]).file, data(order[i]))]
        IN  /\ toViewer' = toViewer \o said
            /\ sendJobs' = [k \in {l \in DOMAIN sendJobs : l \in Pending => type(l) = "Block"} |->
                               IF k \in Pending
                               THEN [Job(k) EXCEPT !.offset = @ + Len(data(k))]
                               ELSE Job(k)]
  BY DEF HostPumps
<1> DEFINE type(k) == IF Whole(k) THEN "Done" ELSE IF k \in broken THEN "Error" ELSE "Block"
           data(k) == IF type(k) = "Block" THEN Block(k) ELSE <<>>
           word(k) == Response(type(k), Job(k).id, Job(k).file, data(k))
           said    == [i \in DOMAIN order |-> word(order[i])]
           n       == Len(toViewer)
<1>2. /\ toViewer' = toViewer \o said
      /\ sendJobs' = [k \in {l \in DOMAIN sendJobs : l \in Pending => type(l) = "Block"} |->
                         IF k \in Pending THEN [Job(k) EXCEPT !.offset = @ + Len(data(k))] ELSE Job(k)]
  BY <1>1
<1>3. /\ order \in Seq(Pending)
      /\ \A i, k \in DOMAIN order : i # k => order[i] # order[k]
      /\ \A k \in Pending : \E i \in DOMAIN order : order[i] = k
  <2>1. Pending \subseteq {Key(x[1], x[2]) : x \in Files}
    <3>1. ASSUME NEW k \in DOMAIN sendJobs
          PROVE  \E x \in Files : k = Key(x[1], x[2])
      <4>1. k = Key(FileOf(sendJobs[k])[1], FileOf(sendJobs[k])[2])
        BY JobsAreTyped DEF FileOf
      <4> QED
        BY <4>1, JobsAreTyped
    <3> QED
      BY <3>1 DEF Pending
  <2>2. IsFiniteSet(Pending)
    BY <2>1, FilesAndKeys, FS_Subset
  <2> QED
    BY <1>1, <2>2, OrderOf
<1>4. /\ Pending \subseteq DOMAIN sendJobs
      /\ \A k \in Pending : Block(k) \in Seq(Nat)
  <2>1. ASSUME NEW k \in Pending
        PROVE  Block(k) \in Seq(Nat)
    <3>1. sendJobs[k].offset + 1 \in Nat
      BY JobsAreTyped DEF Pending
    <3> QED
      BY <3>1 DEF Block, Job
  <2> QED
    BY <2>1 DEF Pending
<1>5. \A k \in Pending : /\ word(k) \in Messages /\ FileOf(word(k)) = FileOf(sendJobs[k])
                         /\ word(k).type = type(k) /\ word(k).data = data(k)
  <2>1. ASSUME NEW k \in Pending
        PROVE  word(k) \in Messages
    <3>1. type(k) \in {"Dir", "Digest", "Block", "Done", "Error"} /\ data(k) \in Seq(Nat)
      BY <1>4
    <3>2. Job(k).id \in Jobs /\ Job(k).file \in Slots
      BY <1>4, JobsAreTyped DEF Job
    <3> HIDE DEF type, data
    <3> QED
      BY <3>1, <3>2 DEF Response, Messages
  <2>2. \A k \in Pending : /\ FileOf(word(k)) = FileOf(sendJobs[k])
                           /\ word(k).type = type(k) /\ word(k).data = data(k)
    <3> HIDE DEF type, data
    <3> QED
      BY DEF Response, FileOf, Job
  <2> QED
    BY <2>1, <2>2
<1> HIDE DEF word
<1>6. /\ said \in Seq(Messages)
      /\ \A i \in DOMAIN said : order[i] \in Pending /\ said[i] = word(order[i])
      /\ \A k \in Pending : \E i \in DOMAIN said : said[i] = word(k)
      /\ \A i, k \in DOMAIN said : i # k => order[i] # order[k]
  <2>1. \A i \in DOMAIN order : order[i] \in Pending
    BY <1>3
  <2>2. said \in Seq(Messages)
    BY <1>3, <1>5, <2>1
  <2> QED
    BY <1>3, <2>1, <2>2
<1> HIDE DEF said
<1>7. /\ toViewer' \in Seq(Messages)
      /\ \A i \in DOMAIN toViewer : i \in DOMAIN toViewer' /\ toViewer'[i] = toViewer[i]
      /\ \A i \in DOMAIN said : n + i \in DOMAIN toViewer' /\ toViewer'[n + i] = said[i]
      /\ \A i \in DOMAIN toViewer' :
            i \notin DOMAIN toViewer => i - n \in DOMAIN said /\ toViewer'[i] = said[i - n]
  <2>1. toViewer \in Seq(Messages)
    BY DEF TypeOK
  <2> QED
    BY <1>2, <1>6, <2>1
<1>8. n \in Nat /\ DOMAIN toViewer = 1 .. n /\ DOMAIN said \subseteq Nat \ {0} /\ DOMAIN toViewer' \subseteq Nat
  BY <1>6, <1>7 DEF TypeOK
<1> HIDE DEF n
<1>9. \A i \in Fresh(toViewer, toViewer') : i - n \in DOMAIN said /\ toViewer'[i] = said[i - n]
  BY <1>7 DEF Fresh
<1>10. ASSUME NEW k \in Pending
       PROVE  \E i \in Fresh(toViewer, toViewer') : toViewer'[i] = word(k)
  <2>1. PICK i \in DOMAIN said : said[i] = word(k)
    BY <1>6
  <2>2. n + i \notin DOMAIN toViewer
    BY <1>8
  <2> QED
    BY <1>7, <2>1, <2>2 DEF Fresh
<1>11. ASSUME NEW i \in Fresh(toViewer, toViewer'), NEW l \in Fresh(toViewer, toViewer'),
              FileOf(toViewer'[i]) = FileOf(toViewer'[l])
       PROVE  i = l
  <2>1. order[i - n] \in Pending /\ order[l - n] \in Pending
    BY <1>6, <1>9
  <2>2. FileOf(sendJobs[order[i - n]]) = FileOf(sendJobs[order[l - n]])
    BY <1>5, <1>6, <1>9, <1>11
  <2>3. order[i - n] = order[l - n]
    BY <1>4, <2>1, <2>2, OneJobPerFile
  <2>4. i - n = l - n
    BY <1>6, <1>9, <2>3
  <2>5. i \in Int /\ l \in Int
    BY <1>8 DEF Fresh
  <2> QED
    BY <1>8, <2>4, <2>5
<1>12. /\ DOMAIN sendJobs' = {k \in DOMAIN sendJobs : k \in Pending => type(k) = "Block"}
       /\ \A k \in DOMAIN sendJobs' :
             sendJobs'[k] = IF k \in Pending THEN [sendJobs[k] EXCEPT !.offset = @ + Len(data(k))]
                            ELSE sendJobs[k]
  <2> HIDE DEF type, data
  <2> QED
    BY <1>2 DEF Job
<1>13. ASSUME NEW i \in Fresh(toViewer, toViewer')
       PROVE  \E k \in Pending :
                 /\ FileOf(toViewer'[i]) = FileOf(sendJobs[k])
                 /\ \/ toViewer'[i].type = "Done" /\ Whole(k) /\ k \notin DOMAIN sendJobs'
                    \/ toViewer'[i].type = "Error" /\ k \notin DOMAIN sendJobs'
                    \/ /\ toViewer'[i].type = "Block" /\ toViewer'[i].data = Block(k)
                       /\ ~Whole(k) /\ k \in DOMAIN sendJobs'
                       /\ sendJobs'[k] = [sendJobs[k] EXCEPT !.offset = @ + Len(Block(k))]
  <2>1. PICK k \in Pending : toViewer'[i] = word(k)
    BY <1>6, <1>9
  <2>2. /\ FileOf(toViewer'[i]) = FileOf(sendJobs[k])
        /\ toViewer'[i].type = type(k) /\ toViewer'[i].data = data(k)
    BY <1>5, <2>1
  <2>3. k \in DOMAIN sendJobs' <=> type(k) = "Block"
    BY <1>4, <1>12
  <2>4. type(k) = "Block" => sendJobs'[k] = [sendJobs[k] EXCEPT !.offset = @ + Len(Block(k))]
    BY <1>12, <2>3
  <2>5. CASE Whole(k)
    BY <2>2, <2>3, <2>5
  <2>6. CASE ~Whole(k) /\ k \in broken
    BY <2>2, <2>3, <2>6
  <2>7. CASE ~Whole(k) /\ k \notin broken
    BY <2>2, <2>3, <2>4, <2>7
  <2> QED
    BY <2>5, <2>6, <2>7
<1>14. \A k \in Pending : \E i \in Fresh(toViewer, toViewer') : FileOf(toViewer'[i]) = FileOf(sendJobs[k])
  BY <1>5, <1>10
<1>15. Grows(toViewer, toViewer')
  BY <1>7 DEF Grows
<1>16. \A k \in DOMAIN sendJobs : k \notin Pending => k \in DOMAIN sendJobs' /\ sendJobs'[k] = sendJobs[k]
  BY <1>12
<1> QED
  BY <1>7, <1>11, <1>12, <1>13, <1>14, <1>15, <1>16

-----------------------------------------------------------------------------
(* Types are kept.  A block is written behind what was written before it, so   *)
(* that no offset lies beyond the end of its destination.                      *)

Reached == \A x \in Files : offset[x] <= Len(dest[x])

LEMMA TypeInit ==
    ASSUME DownloadAssumption, Init
    PROVE  TypeOK /\ Reached
<1>1. sendJobs = <<>> /\ DOMAIN sendJobs = {}
  BY DEF Init
<1>2. dest \in [Files -> Seq(Nat)] /\ Reached
  BY DEF Init, Reached, Old
<1>3. toHost \in Seq(Actions) /\ toViewer \in Seq(Messages) /\ Len(toViewer) = 0
  BY DEF Init
<1>4. \A k \in DOMAIN sendJobs : FALSE
  BY <1>1
<1>5. ui \in [Jobs -> {"none", "queued", "active", "finished", "failed"}]
  BY DEF Init
<1>6. offset \in [Files -> Nat] /\ doneCount \in [Jobs -> Nat]
  BY DEF Init
<1>7. drained \in Nat /\ drained <= Len(toViewer)
  BY <1>3 DEF Init
<1>8. /\ tree \in Trees /\ known \subseteq Jobs /\ ticking \in BOOLEAN
      /\ answer \in {Nothing} \cup Actions /\ cancel \in {Nothing} \cup Jobs
      /\ shrunk \subseteq Files /\ agreed \subseteq Files /\ skipped \subseteq Files
      /\ unwritten \subseteq Files /\ lost \subseteq Files
  BY DEF Init
<1> QED
  BY <1>2, <1>3, <1>4, <1>5, <1>6, <1>7, <1>8 DEF TypeOK

LEMMA TypeWindow ==
    ASSUME DownloadAssumption, TypeOK, Reached,
           Polls => toHost' \in Seq(Actions),
           \/ \E j \in Jobs : Asks(j) \/ Cancels(j)
           \/ Tick
           \/ Polls
    PROVE  TypeOK' /\ Reached'
<1>1. CASE \E j \in Jobs : Asks(j) \/ Cancels(j)
  BY <1>1 DEF TypeOK, Reached, Asks, Cancels, jobVars, tickVars, hostVars, pastVars
<1>2. CASE Tick
  BY <1>2 DEF TypeOK, Reached, Tick, windowVars, jobVars, tickVars, hostVars, pastVars
<1>3. CASE Polls
  BY <1>3 DEF TypeOK, Reached, Polls, windowVars, jobVars, tickVars, hostVars, pastVars
<1> QED
  BY <1>1, <1>2, <1>3

LEMMA BlocksConcat ==
    \A s, t \in Seq(Nat) : s \o t \in Seq(Nat) /\ Len(s \o t) = Len(s) + Len(t)
OBVIOUS

\* The block is written from the offset on, and the offset moves to its end.
LEMMA BlockFits ==
    ASSUME NEW old \in Seq(Nat), NEW at \in Nat, at <= Len(old), NEW data \in Seq(Nat)
    PROVE  /\ Written(old, at, data) \in Seq(Nat)
           /\ data # <<>> => Len(Written(old, at, data)) = at + Len(data)
           /\ at + Len(data) <= Len(Written(old, at, data))
<1> DEFINE s == SubSeq(old, 1, at)
<1>1. s \in Seq(Nat) /\ Len(s) = at
  OBVIOUS
<1> HIDE DEF s
<1>2. s \o data \in Seq(Nat) /\ Len(s \o data) = at + Len(data)
  <2>1. s \o data \in Seq(Nat) /\ Len(s \o data) = Len(s) + Len(data)
    BY <1>1, BlocksConcat
  <2> QED
    BY <1>1, <2>1
<1>3. CASE data = <<>>
  BY <1>3 DEF Written
<1>4. CASE data # <<>>
  <2>1. Written(old, at, data) = s \o data
    BY <1>4 DEF Written, s
  <2> QED
    BY <1>2, <2>1
<1> QED
  BY <1>3, <1>4

LEMMA TypeViewer ==
    ASSUME DownloadAssumption, TypeOK, Reached,
           TakesDir \/ TakesDigest \/ TakesBlock \/ TakesDone \/ TakesError
    PROVE  TypeOK' /\ Reached'
<1> DEFINE j == Next1.id
           x == FileOf(Next1)
<1>1. PICK type : Takes(type)
  BY DEF TakesDir, TakesDigest, TakesBlock, TakesDone, TakesError
<1>2. /\ Next1 \in Messages /\ j \in Jobs /\ Next1.file \in Slots /\ x \in Files
      /\ toViewer' \in Seq(Messages) /\ drained' \in Nat /\ drained' <= Len(toViewer')
  BY <1>1, TakesShifts
<1>3. UNCHANGED <<tree, ticking, cancel, sendJobs, shrunk>>
  BY <1>1 DEF Takes, hostVars
<1> HIDE DEF j, x
<1>4. CASE TakesDir
  BY <1>2, <1>3, <1>4 DEF TypeOK, Reached, TakesDir, pastVars
<1>5. CASE TakesDigest
  <2>1. \A t \in {"Confirm", "Skip"} : Action(t, j, Next1.file) \in Actions
    BY <1>2 DEF Action, Actions
  <2>2. <<j, Next1.file>> \in Files
    BY <1>2 DEF Files
  <2>3. UNCHANGED <<ui, known, offset, doneCount, dest>>
    BY <1>5 DEF TakesDigest, jobVars
  <2>4. CASE UNCHANGED <<answer, pastVars>> /\ toHost' = Append(toHost, Action("Confirm", j, Next1.file))
    <3>1. toHost' \in Seq(Actions)
      BY <2>1, <2>4 DEF TypeOK
    <3> QED
      BY <1>2, <1>3, <2>3, <2>4, <3>1 DEF TypeOK, Reached, pastVars
  <2>5. CASE \E skip \in BOOLEAN : Answers(j, Next1.file, skip)
    <3>1. PICK skip \in BOOLEAN : Answers(j, Next1.file, skip)
      BY <2>5
    <3>2. answer' \in Actions /\ toHost' = toHost /\ unwritten' = unwritten
      BY <2>1, <3>1 DEF Answers
    <3>3. lost' \subseteq Files
      <4>1. answer # Nothing => <<answer.id, answer.file>> \in Files
        BY DEF TypeOK, Actions, Files
      <4> QED
        BY <3>1, <4>1 DEF Answers, TypeOK
    <3>4. agreed' \subseteq Files /\ skipped' \subseteq Files
      BY <2>2, <3>1 DEF Answers, TypeOK
    <3> QED
      BY <1>2, <1>3, <2>3, <3>2, <3>3, <3>4 DEF TypeOK, Reached
  <2> QED
    BY <1>5, <2>4, <2>5 DEF TakesDigest, j
<1>6. CASE TakesBlock
  <2> DEFINE data == Next1.data
  <2>1. data \in Seq(Nat)
    BY <1>2 DEF Messages
  <2>2. x = <<Next1.id, Next1.file>>
    BY DEF x, FileOf
  <2>3. UNCHANGED <<ui, answer, known, doneCount, toHost, agreed, skipped, lost>>
    BY <1>6 DEF TakesBlock
  <2>4. CASE UNCHANGED <<dest, offset>> /\ unwritten' \in {unwritten, unwritten \cup {x}}
    BY <1>2, <1>3, <2>3, <2>4 DEF TypeOK, Reached
  <2>5. CASE /\ dest' = [dest EXCEPT ![x] = Written(@, offset[x], data)]
             /\ offset' = [offset EXCEPT ![x] = @ + Len(data)]
             /\ UNCHANGED unwritten
    <3>1. dest[x] \in Seq(Nat) /\ offset[x] \in Nat /\ offset[x] <= Len(dest[x])
      BY <1>2 DEF TypeOK, Reached
    <3> DEFINE w == Written(dest[x], offset[x], data)
    <3>2. w \in Seq(Nat) /\ offset[x] + Len(data) <= Len(w) /\ offset[x] + Len(data) \in Nat
      BY <2>1, <3>1, BlockFits
    <3> HIDE DEF w, data
    <3>3. dest' = [dest EXCEPT ![x] = w] /\ offset' = [offset EXCEPT ![x] = offset[x] + Len(data)]
      BY <2>5 DEF w, data
    <3>4. dest' \in [Files -> Seq(Nat)] /\ offset' \in [Files -> Nat] /\ Reached'
      BY <1>2, <3>2, <3>3 DEF TypeOK, Reached
    <3> QED
      BY <1>2, <1>3, <2>3, <2>5, <3>4 DEF TypeOK
  <2> QED
    BY <1>6, <2>2, <2>4, <2>5 DEF TakesBlock
<1>7. CASE TakesDone
  <2>1. UNCHANGED <<answer, offset, toHost, dest, pastVars>> /\ known' \subseteq known
    BY <1>7 DEF TakesDone
  <2>2. doneCount' \in [Jobs -> Nat]
    <3>1. doneCount' = [doneCount EXCEPT ![j] = IF j \in known THEN @ + 1 ELSE @]
      BY <1>7 DEF TakesDone, j
    <3>2. doneCount \in [Jobs -> Nat]
      BY DEF TypeOK
    <3> QED
      BY <1>2, <3>1, <3>2
  <2>3. ui' \in [Jobs -> {"none", "queued", "active", "finished", "failed"}]
    BY <1>2, <1>7 DEF TakesDone, TypeOK
  <2> QED
    BY <1>2, <1>3, <2>1, <2>2, <2>3 DEF TypeOK, Reached, pastVars
<1>8. CASE TakesError
  BY <1>2, <1>3, <1>8 DEF TypeOK, Reached, TakesError, jobVars, pastVars, j
<1> QED
  BY <1>4, <1>5, <1>6, <1>7, <1>8

\* The jobs of the host keep their types, whatever it does.
LEMMA TypeHost ==
    ASSUME DownloadAssumption, TypeOK, Reached,
           \/ HostTurn
           \/ HostPumps
           \/ \E k \in DOMAIN sendJobs : SourceShrinks(k)
    PROVE  TypeOK' /\ Reached'
<1>1. UNCHANGED <<tree, windowVars, jobVars, tickVars, dest, pastVars>>
  BY DEF HostTurn, HostSend, HostConfirm, HostSkip, HostCancel, HostTakes, HostPumps, SourceShrinks
<1> DEFINE Typed == /\ toHost' \in Seq(Actions)
                    /\ toViewer' \in Seq(Messages) /\ Len(toViewer) <= Len(toViewer')
                    /\ shrunk' \subseteq Files
                    /\ \A k \in DOMAIN sendJobs' :
                          /\ sendJobs'[k] \in [id : Jobs, file : Slots, offset : Nat, confirmed : BOOLEAN]
                          /\ k = Key(sendJobs'[k].id, sendJobs'[k].file)
<1>2. SUFFICES Typed
  BY <1>1 DEF TypeOK, Reached, windowVars, jobVars, tickVars, pastVars
<1>3. ASSUME toViewer' \in Seq(Messages), Grows(toViewer, toViewer')
      PROVE  Len(toViewer) <= Len(toViewer')
  <2>1. toViewer \in Seq(Messages) /\ DOMAIN toViewer \subseteq DOMAIN toViewer'
    BY <1>3 DEF TypeOK, Grows
  <2> QED
    BY <1>3, <2>1
<1>4. ASSUME HostTurn
      PROVE  toHost' \in Seq(Actions) /\ shrunk' = shrunk
  BY <1>4, HostTakesShifts DEF HostTurn, HostSend, HostConfirm, HostSkip, HostCancel, HostTakes
<1>5. CASE HostSend
  <2>1. toHost' \in Seq(Actions) /\ shrunk' \subseteq Files
    BY <1>4, <1>5 DEF HostTurn, TypeOK
  <2>2. toViewer' \in Seq(Messages) /\ Grows(toViewer, toViewer')
    BY <1>5, HostSendSays
  <2>3. ASSUME NEW k \in DOMAIN sendJobs'
        PROVE  /\ sendJobs'[k] \in [id : Jobs, file : Slots, offset : Nat, confirmed : BOOLEAN]
               /\ k = Key(sendJobs'[k].id, sendJobs'[k].file)
    <3> DEFINE j == Head(toHost).id
    <3>1. j \in Jobs
      BY <1>5, HostTakesShifts DEF HostSend
    <3>2. CASE k \in DOMAIN sendJobs /\ sendJobs'[k] = sendJobs[k]
      BY <3>2, JobsAreTyped
    <3>3. CASE \E f \in Slots : File(<<j, f>>) /\ k = Key(j, f)
      <4>1. PICK f \in Slots : File(<<j, f>>) /\ k = Key(j, f)
        BY <3>3
      <4>2. sendJobs'[k] = [id |-> j, file |-> f, offset |-> 0, confirmed |-> FALSE]
        BY <1>5, <4>1, HostSendFiles
      <4> QED
        BY <3>1, <4>1, <4>2
    <3> QED
      BY <1>5, <3>2, <3>3, HostSendFiles
  <2> QED
    BY <1>3, <2>1, <2>2, <2>3
<1>6. CASE HostConfirm
  <2>1. toHost' \in Seq(Actions) /\ shrunk' \subseteq Files /\ toViewer' = toViewer
    BY <1>4, <1>6 DEF HostTurn, TypeOK, HostConfirm
  <2>2. \A k \in DOMAIN sendJobs' :
           /\ k \in DOMAIN sendJobs
           /\ \/ sendJobs'[k] = sendJobs[k]
              \/ sendJobs'[k] = [sendJobs[k] EXCEPT !.confirmed = TRUE, !.offset = 0]
    BY <1>6 DEF HostConfirm
  <2>3. ASSUME NEW k \in DOMAIN sendJobs'
        PROVE  /\ sendJobs'[k] \in [id : Jobs, file : Slots, offset : Nat, confirmed : BOOLEAN]
               /\ k = Key(sendJobs'[k].id, sendJobs'[k].file)
    <3>1. /\ k \in DOMAIN sendJobs
          /\ \/ sendJobs'[k] = sendJobs[k]
             \/ sendJobs'[k] = [sendJobs[k] EXCEPT !.confirmed = TRUE, !.offset = 0]
      BY <2>2
    <3>2. /\ sendJobs[k] \in [id : Jobs, file : Slots, offset : Nat, confirmed : BOOLEAN]
          /\ k = Key(sendJobs[k].id, sendJobs[k].file)
      BY <3>1, JobsAreTyped
    <3>3. CASE sendJobs'[k] = [sendJobs[k] EXCEPT !.confirmed = TRUE, !.offset = 0]
      <4>1. sendJobs'[k] = [id |-> sendJobs[k].id, file |-> sendJobs[k].file,
                            offset |-> 0, confirmed |-> TRUE]
        BY <3>2, <3>3
      <4>2. sendJobs[k].id \in Jobs /\ sendJobs[k].file \in Slots
        BY <3>2
      <4> QED
        BY <3>2, <4>1, <4>2
    <3> QED
      BY <3>1, <3>2, <3>3
  <2> QED
    BY <2>1, <2>3 DEF TypeOK
<1>7. CASE HostSkip
  <2> DEFINE l == Key(Head(toHost).id, Head(toHost).file)
             r == Response("Done", sendJobs[l].id, sendJobs[l].file, <<>>)
  <2>1. toHost' \in Seq(Actions) /\ shrunk' \subseteq Files
    BY <1>4, <1>7 DEF HostTurn, TypeOK
  <2>2. \A k \in DOMAIN sendJobs' : k \in DOMAIN sendJobs /\ sendJobs'[k] = sendJobs[k]
    BY <1>7 DEF HostSkip, Without
  <2>3. l \in DOMAIN sendJobs => r \in Messages
    BY JobsAreTyped DEF Response, Messages
  <2>4. toViewer' = toViewer \/ (toViewer' = Append(toViewer, r) /\ l \in DOMAIN sendJobs)
    BY <1>7 DEF HostSkip
  <2>5. toViewer' \in Seq(Messages) /\ Len(toViewer) <= Len(toViewer')
    <3> HIDE DEF r, l
    <3>1. toViewer \in Seq(Messages)
      BY DEF TypeOK
    <3> QED
      BY <2>3, <2>4, <3>1
  <2> QED
    BY <2>1, <2>2, <2>5 DEF TypeOK
<1>8. CASE HostCancel
  <2>1. toHost' \in Seq(Actions) /\ shrunk' \subseteq Files /\ toViewer' = toViewer
    BY <1>4, <1>8 DEF HostTurn, TypeOK, HostCancel
  <2>2. \A k \in DOMAIN sendJobs' : k \in DOMAIN sendJobs /\ sendJobs'[k] = sendJobs[k]
    BY <1>8 DEF HostCancel, Without
  <2> QED
    BY <2>1, <2>2 DEF TypeOK
<1>9. CASE HostPumps
  <2>1. toHost' = toHost /\ shrunk' = shrunk
    BY <1>9 DEF HostPumps
  <2>2. toViewer' \in Seq(Messages) /\ Grows(toViewer, toViewer')
    BY <1>9, HostPumpsSay
  <2>3. ASSUME NEW k \in DOMAIN sendJobs'
        PROVE  /\ sendJobs'[k] \in [id : Jobs, file : Slots, offset : Nat, confirmed : BOOLEAN]
               /\ k = Key(sendJobs'[k].id, sendJobs'[k].file)
    <3>1. k \in DOMAIN sendJobs
      BY <1>9, HostPumpsSay
    <3>2. CASE k \notin Pending
      BY <1>9, <3>1, <3>2, HostPumpsSay, JobsAreTyped
    <3>3. CASE k \in Pending
      <4>1. PICK i \in Fresh(toViewer, toViewer') : FileOf(toViewer'[i]) = FileOf(sendJobs[k])
        BY <1>9, <3>3, HostPumpsSay
      <4>2. PICK l \in Pending :
               /\ FileOf(toViewer'[i]) = FileOf(sendJobs[l])
               /\ \/ l \notin DOMAIN sendJobs'
                  \/ sendJobs'[l] = [sendJobs[l] EXCEPT !.offset = @ + Len(Block(l))]
        BY <1>9, HostPumpsSay
      <4>3. l = k
        BY <3>1, <4>1, <4>2, OneJobPerFile DEF Pending
      <4>4. Len(Block(k)) \in Nat
        <5>1. Len(<<>>) = 0 /\ Len(<<Job(k).offset + 1>>) = 1
          OBVIOUS
        <5> QED
          BY <5>1 DEF Block
      <4> QED
        BY <3>1, <4>2, <4>3, <4>4, JobsAreTyped
    <3> QED
      BY <3>2, <3>3
  <2> QED
    BY <1>3, <2>1, <2>2, <2>3 DEF TypeOK
<1>10. CASE \E k \in DOMAIN sendJobs : SourceShrinks(k)
  <2>1. PICK k \in DOMAIN sendJobs : SourceShrinks(k)
    BY <1>10
  <2>2. shrunk' = shrunk \cup {FileOf(sendJobs[k])} /\ UNCHANGED <<toHost, toViewer, sendJobs>>
    BY <2>1 DEF SourceShrinks, Job, FileOf
  <2>3. FileOf(sendJobs[k]) \in Files
    BY JobsAreTyped
  <2> QED
    BY <2>2, <2>3 DEF TypeOK
<1> QED
  BY <1>5, <1>6, <1>7, <1>8, <1>9, <1>10 DEF HostTurn

LEMMA TypeStep ==
    ASSUME DownloadAssumption, TypeOK, Reached, answer # Nothing => IsAnswer(answer), Next
    PROVE  TypeOK' /\ Reached'
<1>1. CASE \E j \in Jobs : Asks(j) \/ Cancels(j)
  BY <1>1, TypeWindow DEF Asks, Cancels, Polls
<1>2. CASE Tick
  BY <1>2, TypeWindow DEF Tick, Polls
<1>3. CASE Polls
  BY <1>3, TypeWindow, PollsSays
<1>4. CASE TakesDir \/ TakesDigest \/ TakesBlock \/ TakesDone \/ TakesError
  BY <1>4, TypeViewer
<1>5. CASE HostTurn \/ HostPumps \/ \E k \in DOMAIN sendJobs : SourceShrinks(k)
  BY <1>5, TypeHost
<1> QED
  BY <1>1, <1>2, <1>3, <1>4, <1>5 DEF Next, ViewerStep

-----------------------------------------------------------------------------
(* What never goes back: a job that was asked for, a clash, what the user and  *)
(* the viewer's disk have decided.                                             *)

Asked(j) == ui[j] \notin {"none", "queued"}

\* The host has not yet heard of the job.
Ahead(j) == ~Asked(j) \/ \E i \in DOMAIN toHost : toHost[i].type = "Send" /\ toHost[i].id = j

LEMMA WindowMoves ==
    ASSUME TypeOK, Next, NEW j \in Jobs
    PROVE  \/ ui'[j] = ui[j]
           \/ ui[j] = "none" /\ ui'[j] = "queued"
           \/ ui[j] = "queued" /\ ui'[j] = "active" /\ Polls
           \/ ui'[j] = "failed" /\ ((\E i \in Jobs : Cancels(i)) \/ TakesError)
           \/ ui[j] = "active" /\ ui'[j] = "finished" /\ TakesDone
<1>1. ui \in [Jobs -> {"none", "queued", "active", "finished", "failed"}]
  BY DEF TypeOK
<1>2. CASE \E i \in Jobs : Asks(i)
  BY <1>1, <1>2 DEF Asks
<1>3. CASE \E i \in Jobs : Cancels(i)
  BY <1>1, <1>3 DEF Cancels
<1>4. CASE Tick \/ TakesDir \/ TakesDigest \/ TakesBlock
  BY <1>4 DEF Tick, TakesDir, TakesDigest, TakesBlock, windowVars
<1>5. CASE TakesDone
  BY <1>1, <1>5 DEF TakesDone
<1>6. CASE TakesError
  BY <1>1, <1>6 DEF TakesError
<1>7. CASE Polls
  BY <1>1, <1>7 DEF Polls
<1>8. CASE HostTurn \/ HostPumps \/ \E k \in DOMAIN sendJobs : SourceShrinks(k)
  BY <1>8 DEF HostTurn, HostSend, HostConfirm, HostSkip, HostCancel, HostTakes, HostPumps,
              SourceShrinks, windowVars
<1> QED
  BY <1>2, <1>3, <1>4, <1>5, <1>6, <1>7, <1>8 DEF Next, ViewerStep

LEMMA PastStays ==
    ASSUME TypeOK, Next
    PROVE  /\ tree' = tree
           /\ agreed \subseteq agreed' /\ skipped \subseteq skipped' /\ unwritten \subseteq unwritten'
<1>1. CASE \E j \in Jobs : Asks(j) \/ Cancels(j)
  BY <1>1 DEF Asks, Cancels, pastVars
<1>2. CASE Tick \/ Polls
  BY <1>2 DEF Tick, Polls, pastVars
<1>3. CASE TakesDir \/ TakesDone \/ TakesError
  BY <1>3 DEF TakesDir, TakesDone, TakesError, Takes, pastVars
<1>4. CASE TakesDigest
  BY <1>4 DEF TakesDigest, Takes, Answers, pastVars
<1>5. CASE TakesBlock
  BY <1>5 DEF TakesBlock, Takes
<1>6. CASE HostTurn \/ HostPumps \/ \E k \in DOMAIN sendJobs : SourceShrinks(k)
  BY <1>6 DEF HostTurn, HostSend, HostConfirm, HostSkip, HostCancel, HostTakes, HostPumps,
              SourceShrinks, pastVars
<1> QED
  BY <1>1, <1>2, <1>3, <1>4, <1>5, <1>6 DEF Next, ViewerStep

WillBeAsked(j) == ui'[j] \notin {"none", "queued"}

LEMMA AskedStays ==
    ASSUME TypeOK, Next
    PROVE  /\ \A j \in Jobs : Asked(j) => Asked(j)'
           /\ Clashing \subseteq Clashing'
<1>1. \A j \in Jobs : (Asked(j) => Asked(j)') /\ (ui[j] # "none" => ui'[j] # "none")
  BY WindowMoves DEF Asked
<1>2. tree' = tree
  BY PastStays
<1>3. ASSUME NEW x \in Files, NEW y \in Files \ {x},
             IsFile(x[1], x[2]) /\ IsFile(y[1], y[2]),
             Key(x[1], x[2]) = Key(y[1], y[2]),
             ui[x[1]] # "none" /\ ui[y[1]] # "none"
      PROVE  x \in Clashing'
  <2>1. x[1] \in Jobs /\ y[1] \in Jobs
    BY DEF Files
  <2>2. ui'[x[1]] # "none" /\ ui'[y[1]] # "none"
    BY <1>1, <1>3, <2>1
  <2>3. IsFile(x[1], x[2])' /\ IsFile(y[1], y[2])'
    BY <1>2, <1>3 DEF IsFile, Listed, There
  <2> QED
    BY <1>3, <2>2, <2>3 DEF Clashing
<1> QED
  BY <1>1, <1>3 DEF Clashing

\* Two files of which the host keeps one key, both asked for.
LEMMA Clash ==
    ASSUME DownloadAssumption, NEW x \in Files, NEW y \in Files, x # y,
           File(x), File(y), Key(x[1], x[2]) = Key(y[1], y[2]),
           ui[x[1]] # "none", ui[y[1]] # "none"
    PROVE  x \in Clashing /\ y \in Clashing
BY DEF Clashing, File

-----------------------------------------------------------------------------
(* What the host says of the files it has jobs for: all its steps but the one  *)
(* that makes the jobs.                                                        *)

Emits ==
    /\ toViewer' \in Seq(Messages) /\ Grows(toViewer, toViewer')
    /\ DOMAIN sendJobs' \subseteq DOMAIN sendJobs
    /\ \A k \in DOMAIN sendJobs' : FileOf(sendJobs'[k]) = FileOf(sendJobs[k])
    /\ \A i \in Fresh(toViewer, toViewer') :
          /\ toViewer'[i].type \in {"Block", "Done", "Error"}
          /\ \E k \in DOMAIN sendJobs :
                /\ FileOf(toViewer'[i]) = FileOf(sendJobs[k])
                /\ toViewer'[i].type # "Block" => k \notin DOMAIN sendJobs'
    /\ \A i, l \in Fresh(toViewer, toViewer') :
          FileOf(toViewer'[i]) = FileOf(toViewer'[l]) => i = l

LEMMA ConfirmMarks ==
    ASSUME TypeOK, HostConfirm
    PROVE  /\ DOMAIN sendJobs' = DOMAIN sendJobs
           /\ \A k \in DOMAIN sendJobs :
                 \/ sendJobs'[k] = sendJobs[k]
                 \/ /\ k = Key(Head(toHost).id, Head(toHost).file)
                    /\ sendJobs'[k] = [id |-> sendJobs[k].id, file |-> sendJobs[k].file,
                                       offset |-> 0, confirmed |-> TRUE]
<1> DEFINE l == Key(Head(toHost).id, Head(toHost).file)
<1>1. \/ sendJobs' = sendJobs
      \/ sendJobs' = [sendJobs EXCEPT ![l].confirmed = TRUE, ![l].offset = 0]
  BY DEF HostConfirm
<1>2. ASSUME NEW k \in DOMAIN sendJobs,
             sendJobs' = [sendJobs EXCEPT ![l].confirmed = TRUE, ![l].offset = 0]
      PROVE  \/ sendJobs'[k] = sendJobs[k]
             \/ /\ k = l
                /\ sendJobs'[k] = [id |-> sendJobs[k].id, file |-> sendJobs[k].file,
                                   offset |-> 0, confirmed |-> TRUE]
  <2>1. sendJobs[k] \in [id : Jobs, file : Slots, offset : Nat, confirmed : BOOLEAN]
    BY JobsAreTyped
  <2> HIDE DEF l
  <2>2. \/ sendJobs'[k] = sendJobs[k]
        \/ k = l /\ sendJobs'[k] = [sendJobs[k] EXCEPT !.confirmed = TRUE, !.offset = 0]
    BY <1>2
  <2>3. CASE k = l /\ sendJobs'[k] = [sendJobs[k] EXCEPT !.confirmed = TRUE, !.offset = 0]
    BY <2>1, <2>3
  <2> QED
    BY <2>2, <2>3
<1> QED
  BY <1>1, <1>2

LEMMA EmitsSteps ==
    ASSUME DownloadAssumption, TypeOK,
           \/ HostConfirm
           \/ HostSkip
           \/ HostCancel
           \/ HostPumps
           \/ \E k \in DOMAIN sendJobs : SourceShrinks(k)
    PROVE  Emits
<1>1. toViewer \in Seq(Messages)
  BY DEF TypeOK
<1>2. ASSUME toViewer' = toViewer, DOMAIN sendJobs' \subseteq DOMAIN sendJobs,
             \A k \in DOMAIN sendJobs' : FileOf(sendJobs'[k]) = FileOf(sendJobs[k])
      PROVE  Emits
  BY <1>1, <1>2 DEF Emits, Grows, Fresh
<1>3. CASE HostConfirm
  <2>1. \A k \in DOMAIN sendJobs : FileOf(sendJobs'[k]) = FileOf(sendJobs[k])
    BY <1>3, ConfirmMarks DEF FileOf
  <2> QED
    BY <1>2, <1>3, <2>1, ConfirmMarks DEF HostConfirm
<1>4. CASE HostSkip
  <2> DEFINE l == Key(Head(toHost).id, Head(toHost).file)
             r == Response("Done", sendJobs[l].id, sendJobs[l].file, <<>>)
  <2>1. /\ DOMAIN sendJobs' = DOMAIN sendJobs \ {l}
        /\ \A k \in DOMAIN sendJobs' : sendJobs'[k] = sendJobs[k]
    BY <1>4 DEF HostSkip, Without
  <2>2. CASE l \notin DOMAIN sendJobs
    BY <1>2, <1>4, <2>1, <2>2 DEF HostSkip
  <2>3. CASE l \in DOMAIN sendJobs
    <3>1. toViewer' = Append(toViewer, r)
      BY <1>4, <2>3 DEF HostSkip
    <3>2. r \in Messages /\ r.type = "Done" /\ FileOf(r) = FileOf(sendJobs[l])
      <4> HIDE DEF l
      <4>1. sendJobs[l].id \in Jobs /\ sendJobs[l].file \in Slots
        BY <2>3, JobsAreTyped
      <4> QED
        BY <4>1 DEF Response, Messages, FileOf
    <3> HIDE DEF r, l
    <3>3. /\ toViewer' \in Seq(Messages)
          /\ \A i \in DOMAIN toViewer : i \in DOMAIN toViewer' /\ toViewer'[i] = toViewer[i]
          /\ \A i \in DOMAIN toViewer' :
                i \notin DOMAIN toViewer => i = Len(toViewer) + 1 /\ toViewer'[i] = r
      BY <1>1, <3>1, <3>2
    <3>4. \A i \in Fresh(toViewer, toViewer') : i = Len(toViewer) + 1 /\ toViewer'[i] = r
      BY <3>3 DEF Fresh
    <3>5. Grows(toViewer, toViewer')
      BY <3>3 DEF Grows
    <3>6. \A k \in DOMAIN sendJobs' : FileOf(sendJobs'[k]) = FileOf(sendJobs[k])
      BY <2>1
    <3>7. l \notin DOMAIN sendJobs' /\ DOMAIN sendJobs' \subseteq DOMAIN sendJobs
      BY <2>1 DEF l
    <3>8. \A i \in Fresh(toViewer, toViewer') :
             /\ toViewer'[i].type \in {"Block", "Done", "Error"}
             /\ \E k \in DOMAIN sendJobs :
                   /\ FileOf(toViewer'[i]) = FileOf(sendJobs[k])
                   /\ toViewer'[i].type # "Block" => k \notin DOMAIN sendJobs'
      BY <2>3, <3>2, <3>4, <3>7
    <3> QED
      BY <3>3, <3>4, <3>5, <3>6, <3>7, <3>8 DEF Emits
  <2> QED
    BY <2>2, <2>3
<1>5. CASE HostCancel
  <2>1. DOMAIN sendJobs' \subseteq DOMAIN sendJobs /\ \A k \in DOMAIN sendJobs' : sendJobs'[k] = sendJobs[k]
    BY <1>5 DEF HostCancel, Without
  <2>2. \A k \in DOMAIN sendJobs' : FileOf(sendJobs'[k]) = FileOf(sendJobs[k])
    BY <2>1
  <2> QED
    BY <1>2, <1>5, <2>1, <2>2 DEF HostCancel
<1>6. CASE HostPumps
  <2>1. ASSUME NEW i \in Fresh(toViewer, toViewer')
        PROVE  /\ toViewer'[i].type \in {"Block", "Done", "Error"}
               /\ \E k \in DOMAIN sendJobs :
                     /\ FileOf(toViewer'[i]) = FileOf(sendJobs[k])
                     /\ toViewer'[i].type # "Block" => k \notin DOMAIN sendJobs'
    <3>1. PICK k \in Pending :
             /\ FileOf(toViewer'[i]) = FileOf(sendJobs[k])
             /\ \/ toViewer'[i].type = "Done" /\ k \notin DOMAIN sendJobs'
                \/ toViewer'[i].type = "Error" /\ k \notin DOMAIN sendJobs'
                \/ toViewer'[i].type = "Block"
      BY <1>6, HostPumpsSay
    <3> QED
      BY <3>1 DEF Pending
  <2>2. ASSUME NEW k \in DOMAIN sendJobs'
        PROVE  FileOf(sendJobs'[k]) = FileOf(sendJobs[k])
    <3>1. CASE k \notin Pending
      BY <1>6, <3>1, HostPumpsSay
    <3>2. CASE k \in Pending
      <4>1. PICK i \in Fresh(toViewer, toViewer') : FileOf(toViewer'[i]) = FileOf(sendJobs[k])
        BY <1>6, <3>2, HostPumpsSay
      <4>2. PICK l \in Pending :
               /\ FileOf(toViewer'[i]) = FileOf(sendJobs[l])
               /\ \/ l \notin DOMAIN sendJobs'
                  \/ sendJobs'[l] = [sendJobs[l] EXCEPT !.offset = @ + Len(Block(l))]
        BY <1>6, HostPumpsSay
      <4>3. k \in DOMAIN sendJobs /\ l = k
        BY <3>2, <4>1, <4>2, OneJobPerFile DEF Pending
      <4>4. sendJobs[k] \in [id : Jobs, file : Slots, offset : Nat, confirmed : BOOLEAN]
        BY <4>3, JobsAreTyped
      <4>5. sendJobs'[k] = [sendJobs[k] EXCEPT !.offset = @ + Len(Block(k))]
        BY <4>2, <4>3
      <4>6. sendJobs'[k].id = sendJobs[k].id /\ sendJobs'[k].file = sendJobs[k].file
        BY <4>4, <4>5
      <4> QED
        BY <4>6 DEF FileOf
    <3> QED
      BY <3>1, <3>2
  <2>3. /\ toViewer' \in Seq(Messages) /\ Grows(toViewer, toViewer')
        /\ DOMAIN sendJobs' \subseteq DOMAIN sendJobs
        /\ \A i, l \in Fresh(toViewer, toViewer') :
              FileOf(toViewer'[i]) = FileOf(toViewer'[l]) => i = l
    BY <1>6, HostPumpsSay
  <2> QED
    BY <2>1, <2>2, <2>3 DEF Emits
<1>7. CASE \E k \in DOMAIN sendJobs : SourceShrinks(k)
  <2>1. UNCHANGED <<toViewer, sendJobs>>
    BY <1>7 DEF SourceShrinks
  <2> QED
    BY <1>2, <2>1
<1> QED
  BY <1>3, <1>4, <1>5, <1>6, <1>7

-----------------------------------------------------------------------------
(* The inductive invariant.                                                    *)

HasJob(x)    == \E k \in DOMAIN sendJobs : FileOf(sendJobs[k]) = x
Ending(i, x) == toViewer[i].type \in {"Done", "Error"} /\ FileOf(toViewer[i]) = x
Carries(i, x) == toViewer[i].type = "Block" /\ FileOf(toViewer[i]) = x /\ toViewer[i].data # <<>>

\* The files of a job that the viewer has not yet heard the end of.
OpenFile(x) == HasJob(x) \/ \E i \in DOMAIN toViewer : Ending(i, x)
Open(j)     == {f \in Slots : OpenFile(<<j, f>>)}

\* A job is asked for once, and what goes to the host is about such jobs.
AskedOnce ==
    /\ \A i, k \in DOMAIN toHost :
          toHost[i].type = "Send" /\ toHost[k].type = "Send" /\ toHost[i].id = toHost[k].id => i = k
    /\ \A i \in DOMAIN toHost : Asked(toHost[i].id)
    /\ answer # Nothing => IsAnswer(answer) /\ Asked(answer.id)

\* Nothing is said of a job before the host has heard of it.
NothingAhead == \A j \in Jobs : Ahead(j) =>
    /\ \A i \in DOMAIN toViewer : toViewer[i].id # j
    /\ \A k \in DOMAIN sendJobs : sendJobs[k].id # j
    /\ \A i \in DOMAIN toHost : IsAnswer(toHost[i]) => toHost[i].id # j
    /\ answer # Nothing => answer.id # j
    /\ doneCount[j] = 0
    /\ \A f \in Slots : offset[<<j, f>>] = 0

\* What is announced, answered, sent and done are files of the list.
AboutFiles ==
    /\ \A k \in DOMAIN sendJobs :
          /\ File(FileOf(sendJobs[k]))
          /\ sendJobs[k].offset <= Size(FileOf(sendJobs[k]))
    /\ \A i \in DOMAIN toViewer :
          toViewer[i].type \in {"Digest", "Block", "Done"} => File(FileOf(toViewer[i]))
    /\ \A i \in DOMAIN toHost : IsAnswer(toHost[i]) => File(FileOf(toHost[i]))
    /\ answer # Nothing => File(FileOf(answer))

\* What the window shows of a job, and whether the viewer still writes for it.
WindowAgrees == \A j \in Jobs :
    /\ ui[j] = "active" => j \in known
    /\ ui[j] = "finished" => j \notin known
    /\ cancel = j => ui[j] = "failed"
    /\ \A i \in DOMAIN toHost : toHost[i].type = "Cancel" /\ toHost[i].id = j => ui[j] = "failed"

\* The end of a file is said once, and nothing is left of it at the host then.
EndsOnce ==
    /\ \A k \in DOMAIN sendJobs, i \in DOMAIN toViewer : ~Ending(i, FileOf(sendJobs[k]))
    /\ \A i, k \in DOMAIN toViewer :
          Ending(i, FileOf(toViewer[k])) /\ Ending(k, FileOf(toViewer[k])) => i = k

\* What is done and what is open are together no more than the list holds.
EndsAreCounted == \A j \in Jobs :
    There(j) => doneCount[j] + Cardinality(Open(j)) <= Len(tree[j])

\* There is one question or one answer about a file at a time.
OneTurnEach ==
    /\ \A i, k \in DOMAIN toViewer :
          toViewer[i].type = "Digest" /\ toViewer[k].type = "Digest"
          /\ FileOf(toViewer[i]) = FileOf(toViewer[k]) => i = k
    /\ \A i, k \in DOMAIN toHost :
          IsAnswer(toHost[i]) /\ IsAnswer(toHost[k])
          /\ FileOf(toHost[i]) = FileOf(toHost[k]) => i = k
    /\ \A i \in DOMAIN toViewer, k \in DOMAIN toHost :
          toViewer[i].type = "Digest" /\ IsAnswer(toHost[k]) => FileOf(toViewer[i]) # FileOf(toHost[k])
    /\ answer # Nothing =>
          /\ \A i \in DOMAIN toViewer : toViewer[i].type = "Digest" => FileOf(toViewer[i]) # FileOf(answer)
          /\ \A i \in DOMAIN toHost : IsAnswer(toHost[i]) => FileOf(toHost[i]) # FileOf(answer)

\* The question about a file, or its answer, is on its way.
Unsettled(x) ==
    \/ answer # Nothing /\ FileOf(answer) = x
    \/ \E i \in DOMAIN toHost : IsAnswer(toHost[i]) /\ FileOf(toHost[i]) = x
    \/ \E i \in DOMAIN toViewer : toViewer[i].type = "Digest" /\ FileOf(toViewer[i]) = x

\* The host begins with a file when its answer has come, unless the file clashes.
HeldBack == \A k \in DOMAIN sendJobs :
    /\ ~sendJobs[k].confirmed => sendJobs[k].offset = 0
    /\ sendJobs[k].confirmed /\ FileOf(sendJobs[k]) \notin Clashing => ~Unsettled(FileOf(sendJobs[k]))

SkipsAreChosen ==
    /\ \A i \in DOMAIN toHost : toHost[i].type = "Skip" => FileOf(toHost[i]) \in skipped
    /\ answer # Nothing /\ answer.type = "Skip" => FileOf(answer) \in skipped

\* The list of a job comes before all else that is said of it.
ListsComeFirst == \A i \in DOMAIN toViewer : toViewer[i].type = "Dir" =>
    /\ \A k \in DOMAIN toViewer : toViewer[k].id = toViewer[i].id => i <= k
    /\ \A f \in Slots : offset[<<toViewer[i].id, f>>] = 0

\* The files whose content must arrive in order and complete.
Sound(x) ==
    /\ File(x) /\ x \notin skipped \cup unwritten \cup Clashing
    /\ ui[x[1]] = "active" /\ ~Ahead(x[1])
    /\ \A i \in DOMAIN toViewer : ~(toViewer[i].type = "Error" /\ FileOf(toViewer[i]) = x)

\* How much of a file the host has sent.
SentOf(x) == IF HasJob(x) THEN sendJobs[Key(x[1], x[2])].offset ELSE Size(x)

\* The blocks on their way are those between the viewer's offset and the host's,
\* in order; none comes after the end, and none is left when all is over.
Flow(x) ==
    /\ offset[x] <= SentOf(x)
    /\ \A i \in DOMAIN toViewer : Carries(i, x) =>
          \E d \in offset[x] + 1 .. SentOf(x) : toViewer[i].data = <<d>>
    /\ \A d \in offset[x] + 1 .. SentOf(x) :
          \E i \in DOMAIN toViewer : Carries(i, x) /\ toViewer[i].data = <<d>>
    /\ \A i, k \in DOMAIN toViewer :
          Carries(i, x) /\ Carries(k, x) /\ i < k => toViewer[i].data[1] < toViewer[k].data[1]
    /\ \A i, k \in DOMAIN toViewer : Ending(i, x) /\ Carries(k, x) => k < i
    /\ ~OpenFile(x) => \A i \in DOMAIN toViewer : ~Carries(i, x)
    /\ offset[x] > 0 => dest[x] = [i \in 1 .. offset[x] |-> i]

BlocksFlow == \A x \in Files : Sound(x) => Flow(x)

Consented(x) == x \in agreed \/ ~tree[x[1]][x[2]].old \/ x \in Clashing

\* Blocks are sent of files that may be overwritten; what is there is not empty.
ConsentCarries ==
    /\ \A k \in DOMAIN sendJobs : sendJobs[k].confirmed => Consented(FileOf(sendJobs[k]))
    /\ \A i \in DOMAIN toHost : toHost[i].type = "Confirm" => Consented(FileOf(toHost[i]))
    /\ answer # Nothing /\ answer.type = "Confirm" => Consented(FileOf(answer))
    /\ \A i \in DOMAIN toViewer :
          toViewer[i].type = "Block" /\ toViewer[i].data # <<>> => Consented(FileOf(toViewer[i]))
    /\ \A x \in Files : File(x) /\ tree[x[1]][x[2]].old => dest[x] # <<>>

IInv ==
    /\ TypeOK
    /\ Reached
    /\ AskedOnce
    /\ NothingAhead
    /\ AboutFiles
    /\ WindowAgrees
    /\ EndsOnce
    /\ EndsAreCounted
    /\ OneTurnEach
    /\ HeldBack
    /\ SkipsAreChosen
    /\ ListsComeFirst
    /\ BlocksFlow
    /\ ConsentCarries
    /\ DownloadFaithful
    /\ OverwriteOnlyWithConsent

-----------------------------------------------------------------------------
(* Who speaks in a step.                                                       *)

LEMMA WhoAsks ==
    ASSUME Next
    PROVE  \/ UNCHANGED <<toHost, answer>>
           \/ TakesDigest
           \/ Polls
           \/ HostTurn /\ answer' = answer /\ \E type : HostTakes(type)
<1>1. CASE \E j \in Jobs : Asks(j) \/ Cancels(j)
  BY <1>1 DEF Asks, Cancels
<1>2. CASE Tick \/ TakesDir \/ TakesBlock \/ TakesDone \/ TakesError
  BY <1>2 DEF Tick, TakesDir, TakesBlock, TakesDone, TakesError, windowVars
<1>3. CASE HostTurn
  BY <1>3 DEF HostTurn, HostSend, HostConfirm, HostSkip, HostCancel, HostTakes, windowVars
<1>4. CASE HostPumps \/ \E k \in DOMAIN sendJobs : SourceShrinks(k)
  BY <1>4 DEF HostPumps, SourceShrinks, windowVars
<1> QED
  BY <1>1, <1>2, <1>3, <1>4 DEF Next, ViewerStep

LEMMA WhoTells ==
    ASSUME DownloadAssumption, TypeOK, Next
    PROVE  \/ UNCHANGED <<toViewer, sendJobs>>
           \/ (\E type : Takes(type)) /\ sendJobs' = sendJobs
           \/ HostSend
           \/ Emits
<1>1. CASE \E j \in Jobs : Asks(j) \/ Cancels(j)
  BY <1>1 DEF Asks, Cancels, hostVars
<1>2. CASE Tick \/ Polls
  BY <1>2 DEF Tick, Polls, hostVars
<1>3. CASE TakesDir \/ TakesDigest \/ TakesBlock \/ TakesDone \/ TakesError
  BY <1>3 DEF TakesDir, TakesDigest, TakesBlock, TakesDone, TakesError, Takes, hostVars
<1>4. CASE HostTurn \/ HostPumps \/ \E k \in DOMAIN sendJobs : SourceShrinks(k)
  BY <1>4, EmitsSteps DEF HostTurn
<1> QED
  BY <1>1, <1>2, <1>3, <1>4 DEF Next, ViewerStep

\* What a taken announcement leads to: a confirmation, or an answer in the slot.
LEMMA DigestSays ==
    ASSUME TypeOK, TakesDigest
    PROVE  /\ Next1.type = "Digest" /\ FileOf(Next1) \in Files /\ Next1 = toViewer[1]
           /\ \/ /\ toHost' \in Seq(Actions) /\ Grows(toHost, toHost')
                 /\ \A i \in Fresh(toHost, toHost') :
                       /\ i = Len(toHost) + 1 /\ IsAnswer(toHost'[i]) /\ toHost'[i].type = "Confirm"
                       /\ FileOf(toHost'[i]) = FileOf(Next1)
                 /\ dest[FileOf(Next1)] = <<>>
                 /\ UNCHANGED <<answer, agreed, skipped>>
              \/ /\ toHost' = toHost
                 /\ answer' \in Actions /\ IsAnswer(answer') /\ FileOf(answer') = FileOf(Next1)
                 /\ answer'.type = "Confirm" => FileOf(Next1) \in agreed'
                 /\ answer'.type = "Skip" => FileOf(Next1) \in skipped'
<1> DEFINE x == FileOf(Next1)
<1>1. Next1.type = "Digest" /\ Next1.id \in Jobs /\ Next1.file \in Slots /\ x \in Files /\ Next1 = toViewer[1]
  BY TakesShifts DEF TakesDigest
<1>2. x = <<Next1.id, Next1.file>>
  BY DEF FileOf
<1>3. CASE /\ dest[x] = <<>> /\ UNCHANGED <<answer, pastVars>>
           /\ toHost' = Append(toHost, Action("Confirm", Next1.id, Next1.file))
  <2> DEFINE a == Action("Confirm", Next1.id, Next1.file)
  <2>1. a \in Actions /\ IsAnswer(a) /\ a.type = "Confirm" /\ FileOf(a) = x
    BY <1>1 DEF Action, Actions, IsAnswer, FileOf
  <2>2. toHost' = Append(toHost, a)
    BY <1>3
  <2> HIDE DEF a, x
  <2>3. /\ toHost' \in Seq(Actions)
        /\ \A i \in DOMAIN toHost : i \in DOMAIN toHost' /\ toHost'[i] = toHost[i]
        /\ \A i \in DOMAIN toHost' :
              i \notin DOMAIN toHost => i = Len(toHost) + 1 /\ toHost'[i] = a
    BY <2>1, <2>2 DEF TypeOK
  <2>4. \A i \in Fresh(toHost, toHost') : i = Len(toHost) + 1 /\ toHost'[i] = a
    BY <2>3 DEF Fresh
  <2>5. Grows(toHost, toHost')
    BY <2>3 DEF Grows
  <2>6. \A i \in Fresh(toHost, toHost') :
           /\ i = Len(toHost) + 1 /\ IsAnswer(toHost'[i]) /\ toHost'[i].type = "Confirm"
           /\ FileOf(toHost'[i]) = x
    BY <2>1, <2>4
  <2> QED
    BY <1>1, <1>3, <2>3, <2>5, <2>6 DEF pastVars, x
<1>4. CASE \E skip \in BOOLEAN : Answers(Next1.id, Next1.file, skip)
  <2>1. PICK skip \in BOOLEAN : Answers(Next1.id, Next1.file, skip)
    BY <1>4
  <2> DEFINE a == Action(IF skip THEN "Skip" ELSE "Confirm", Next1.id, Next1.file)
  <2>2. answer' = a /\ toHost' = toHost
    BY <2>1 DEF Answers
  <2>3. a \in Actions /\ IsAnswer(a) /\ FileOf(a) = x /\ (a.type = "Skip" <=> skip)
    BY <1>1 DEF Action, Actions, IsAnswer, FileOf
  <2>4. (skip => x \in skipped') /\ (~skip => x \in agreed')
    BY <1>2, <2>1 DEF Answers
  <2> QED
    BY <1>1, <2>2, <2>3, <2>4
<1> QED
  BY <1>2, <1>3, <1>4 DEF TakesDigest

LEMMA AskedOnceStep ==
    ASSUME DownloadAssumption, IInv, Next
    PROVE  AskedOnce'
<1>1. \A j \in Jobs : Asked(j) => WillBeAsked(j)
  BY AskedStays DEF IInv, Asked, WillBeAsked
<1>2. TypeOK /\ AskedOnce /\ toHost \in Seq(Actions)
  BY DEF IInv, TypeOK
<1>3. \A i \in DOMAIN toHost : toHost[i].id \in Jobs /\ WillBeAsked(toHost[i].id)
  <2>1. \A i \in DOMAIN toHost : toHost[i] \in Actions
    BY <1>2
  <2>2. \A i \in DOMAIN toHost : toHost[i].id \in Jobs
    BY <2>1 DEF Actions
  <2> QED
    BY <1>1, <1>2, <2>2 DEF AskedOnce
<1>4. answer # Nothing => IsAnswer(answer) /\ WillBeAsked(answer.id)
  <2>1. answer # Nothing => answer.id \in Jobs
    BY <1>2 DEF TypeOK, Actions
  <2> QED
    BY <1>1, <1>2, <2>1 DEF AskedOnce
<1>5. CASE UNCHANGED <<toHost, answer>>
  BY <1>2, <1>3, <1>4, <1>5 DEF AskedOnce, IsAnswer, Asked, WillBeAsked
<1>6. CASE TakesDigest
  <2> DEFINE j == Next1.id
  <2>1. j \in Jobs /\ 1 \in DOMAIN toViewer /\ toViewer[1].id = j
    BY <1>2, <1>6, TakesShifts DEF TakesDigest
  <2>2. WillBeAsked(j)
    BY <1>1, <2>1 DEF IInv, NothingAhead, Ahead
  <2>3. CASE /\ Grows(toHost, toHost') /\ answer' = answer
             /\ \A i \in Fresh(toHost, toHost') : IsAnswer(toHost'[i]) /\ FileOf(toHost'[i]) = FileOf(Next1)
    <3>1. \A i \in Fresh(toHost, toHost') : toHost'[i].type # "Send" /\ toHost'[i].id = j
      BY <2>3 DEF IsAnswer, FileOf
    <3>2. \A i \in DOMAIN toHost' : (i \in DOMAIN toHost /\ toHost'[i] = toHost[i]) \/ i \in Fresh(toHost, toHost')
      BY <2>3 DEF Grows, Fresh
    <3>3. \A i \in DOMAIN toHost' : WillBeAsked(toHost'[i].id)
      BY <1>3, <2>2, <3>1, <3>2
    <3>4. \A i, k \in DOMAIN toHost' :
             toHost'[i].type = "Send" /\ toHost'[k].type = "Send" /\ toHost'[i].id = toHost'[k].id => i = k
      BY <1>2, <3>1, <3>2 DEF AskedOnce
    <3> QED
      BY <1>4, <2>3, <3>3, <3>4 DEF AskedOnce, IsAnswer, Asked, WillBeAsked
  <2>4. CASE toHost' = toHost /\ IsAnswer(answer') /\ FileOf(answer') = FileOf(Next1)
    <3>1. answer'.id = j
      BY <2>4 DEF FileOf
    <3> QED
      BY <1>2, <1>3, <2>2, <2>4, <3>1 DEF AskedOnce, IsAnswer, Asked, WillBeAsked
  <2> QED
    BY <1>2, <1>6, <2>3, <2>4, DigestSays
<1>7. CASE Polls
  <2>1. /\ Grows(toHost, toHost')
        /\ \A i \in Fresh(toHost, toHost') :
              \/ toHost'[i].type = "Send" /\ ui[toHost'[i].id] = "queued"
              \/ cancel # Nothing /\ toHost'[i] = Action("Cancel", cancel, 1)
              \/ answer # Nothing /\ toHost'[i] = answer
        /\ \A i, k \in Fresh(toHost, toHost') :
              i # k /\ toHost'[i].type = "Send" /\ toHost'[k].type = "Send" => toHost'[i].id # toHost'[k].id
        /\ toHost' \in Seq(Actions)
    BY <1>4, <1>2, <1>7, PollsSays
  <2>2. \A i \in DOMAIN toHost' : (i \in DOMAIN toHost /\ toHost'[i] = toHost[i]) \/ i \in Fresh(toHost, toHost')
    BY <2>1 DEF Grows, Fresh
  <2>3. answer' = Nothing
    BY <1>7 DEF Polls
  <2>4. \A j \in Jobs : ui[j] = "queued" => WillBeAsked(j)
    BY <1>7, <1>2 DEF Polls, WillBeAsked, TypeOK
  <2>5. cancel # Nothing => WillBeAsked(cancel) /\ Action("Cancel", cancel, 1).id = cancel
                            /\ Action("Cancel", cancel, 1).type # "Send"
    <3>1. cancel # Nothing => cancel \in Jobs /\ ui[cancel] = "failed"
      BY <1>2 DEF TypeOK, IInv, WindowAgrees
    <3>2. cancel # Nothing => cancel \in Jobs /\ Asked(cancel)
      BY <3>1 DEF Asked
    <3> QED
      BY <1>1, <3>2 DEF Action
  <2>6. \A i \in DOMAIN toHost' : toHost'[i].id \in Jobs
    <3>1. \A i \in DOMAIN toHost' : toHost'[i] \in Actions
      BY <2>1
    <3> QED
      BY <3>1 DEF Actions
  <2>7. \A i \in DOMAIN toHost' : WillBeAsked(toHost'[i].id)
    BY <1>3, <1>4, <2>1, <2>2, <2>4, <2>5, <2>6
  <2>8. \A i \in Fresh(toHost, toHost') : toHost'[i].type = "Send" => ui[toHost'[i].id] = "queued"
    BY <1>4, <2>1, <2>5 DEF IsAnswer
  <2>9. \A i \in DOMAIN toHost : ui[toHost[i].id] # "queued"
    BY <1>2 DEF AskedOnce, Asked
  <2>10. \A i, k \in DOMAIN toHost' :
            toHost'[i].type = "Send" /\ toHost'[k].type = "Send" /\ toHost'[i].id = toHost'[k].id => i = k
    BY <1>2, <2>1, <2>2, <2>8, <2>9 DEF AskedOnce
  <2> QED
    BY <2>3, <2>7, <2>10 DEF AskedOnce, Asked, WillBeAsked
<1>8. CASE answer' = answer /\ \E type : HostTakes(type)
  <2>1. \A i \in DOMAIN toHost' : i + 1 \in DOMAIN toHost /\ toHost'[i] = toHost[i + 1] /\ i \in Int
    BY <1>2, <1>8, HostTakesShifts
  <2>2. ASSUME NEW i \in DOMAIN toHost', NEW k \in DOMAIN toHost',
               toHost'[i].type = "Send", toHost'[k].type = "Send", toHost'[i].id = toHost'[k].id
        PROVE  i = k
    <3>1. i + 1 = k + 1
      BY <1>2, <2>1, <2>2 DEF AskedOnce
    <3> QED
      BY <2>1, <3>1
  <2>3. \A i \in DOMAIN toHost' : WillBeAsked(toHost'[i].id)
    BY <1>3, <2>1
  <2> QED
    BY <1>4, <1>8, <2>2, <2>3 DEF AskedOnce, IsAnswer, Asked, WillBeAsked
<1> QED
  BY <1>5, <1>6, <1>7, <1>8, WhoAsks

LEMMA WhoWrites ==
    ASSUME Next
    PROVE  /\ doneCount' = doneCount \/ TakesDone
           /\ known' = known \/ TakesDone \/ Polls
           /\ UNCHANGED <<offset, dest>> \/ TakesDir \/ TakesBlock
<1>1. CASE \E j \in Jobs : Asks(j) \/ Cancels(j)
  BY <1>1 DEF Asks, Cancels, jobVars
<1>2. CASE Tick \/ Polls
  BY <1>2 DEF Tick, Polls, jobVars
<1>3. CASE TakesDir \/ TakesDigest \/ TakesBlock \/ TakesDone \/ TakesError
  BY <1>3 DEF TakesDir, TakesDigest, TakesBlock, TakesDone, TakesError, jobVars
<1>4. CASE HostTurn \/ HostPumps \/ \E k \in DOMAIN sendJobs : SourceShrinks(k)
  BY <1>4 DEF HostTurn, HostSend, HostConfirm, HostSkip, HostCancel, HostTakes, HostPumps,
              SourceShrinks, jobVars
<1> QED
  BY <1>1, <1>2, <1>3, <1>4 DEF Next, ViewerStep

LEMMA AheadEnds ==
    ASSUME DownloadAssumption, IInv, Next, NEW j \in Jobs, Ahead(j)'
    PROVE  Ahead(j) /\ ~(HostSend /\ j = Head(toHost).id)
<1>1. TypeOK /\ AskedOnce
  BY DEF IInv
<1>2. ~Asked(j)' => ~Asked(j)
  BY <1>1, AskedStays
<1>3. CASE toHost' = toHost
  <2>1. ~HostSend
    BY <1>3, <1>1 DEF HostSend, HostTakes, TypeOK
  <2> QED
    BY <1>2, <1>3, <2>1 DEF Ahead
<1>4. CASE TakesDigest
  <2>1. \A i \in DOMAIN toHost' : toHost'[i].type = "Send" => i \in DOMAIN toHost /\ toHost'[i] = toHost[i]
    BY <1>1, <1>4, DigestSays DEF Grows, Fresh, IsAnswer
  <2>2. ~HostSend
    BY <1>1, <1>4 DEF TakesDigest, Takes, HostSend, HostTakes, tickVars, TypeOK
  <2> QED
    BY <1>2, <2>1, <2>2 DEF Ahead
<1>5. CASE Polls
  <2>1. \A i \in DOMAIN toHost' : toHost'[i].type = "Send" =>
           \/ i \in DOMAIN toHost /\ toHost'[i] = toHost[i]
           \/ ui[toHost'[i].id] = "queued"
    <3>1. answer # Nothing => IsAnswer(answer)
      BY <1>1 DEF AskedOnce
    <3> QED
      BY <1>1, <1>5, <3>1, PollsSays DEF Grows, Fresh, IsAnswer, Action
  <2>2. ~HostSend
    BY <1>1, <1>5 DEF Polls, HostSend, HostTakes, tickVars, TypeOK
  <2> QED
    BY <1>2, <2>1, <2>2 DEF Ahead, Asked
<1>6. CASE HostTurn /\ \E type : HostTakes(type)
  <2>1. /\ 1 \in DOMAIN toHost /\ Head(toHost) = toHost[1]
        /\ \A i \in DOMAIN toHost' : i + 1 \in DOMAIN toHost /\ toHost'[i] = toHost[i + 1] /\ i \in Nat \ {0}
    BY <1>1, <1>6, HostTakesShifts
  <2>2. Ahead(j)
    BY <1>2, <2>1 DEF Ahead
  <2>3. ASSUME HostSend, j = Head(toHost).id
        PROVE  FALSE
    <3>1. toHost[1].type = "Send" /\ toHost[1].id = j
      BY <2>1, <2>3 DEF HostSend, HostTakes
    <3>2. Asked(j)'
      <4>1. Asked(j)
        BY <1>1, <2>1, <3>1 DEF AskedOnce
      <4> QED
        BY <1>2, <4>1
    <3>3. PICK i \in DOMAIN toHost' : toHost'[i].type = "Send" /\ toHost'[i].id = j
      BY <3>2 DEF Ahead
    <3>4. i + 1 = 1
      BY <1>1, <2>1, <3>1, <3>3 DEF AskedOnce
    <3> QED
      BY <2>1, <3>3, <3>4
  <2> QED
    BY <2>2, <2>3
<1> QED
  BY <1>3, <1>4, <1>5, <1>6, WhoAsks

LEMMA NothingAheadStep ==
    ASSUME DownloadAssumption, IInv, Next
    PROVE  NothingAhead'
<1> SUFFICES ASSUME NEW j \in Jobs, Ahead(j)'
             PROVE  /\ \A i \in DOMAIN toViewer' : toViewer'[i].id # j
                    /\ \A k \in DOMAIN sendJobs' : sendJobs'[k].id # j
                    /\ \A i \in DOMAIN toHost' : IsAnswer(toHost'[i]) => toHost'[i].id # j
                    /\ answer' # Nothing => answer'.id # j
                    /\ doneCount'[j] = 0
                    /\ \A f \in Slots : offset'[<<j, f>>] = 0
  BY DEF NothingAhead, IsAnswer
<1>1. Ahead(j) /\ ~(HostSend /\ j = Head(toHost).id) /\ TypeOK
  BY AheadEnds DEF IInv
<1>2. /\ \A i \in DOMAIN toViewer : toViewer[i].id # j
      /\ \A k \in DOMAIN sendJobs : sendJobs[k].id # j
      /\ \A i \in DOMAIN toHost : IsAnswer(toHost[i]) => toHost[i].id # j
      /\ answer # Nothing => answer.id # j
      /\ doneCount[j] = 0
      /\ \A f \in Slots : offset[<<j, f>>] = 0
  BY <1>1 DEF IInv, NothingAhead
<1>3. /\ \A i \in DOMAIN toViewer' : toViewer'[i].id # j
      /\ \A k \in DOMAIN sendJobs' : sendJobs'[k].id # j
  <2>1. CASE UNCHANGED <<toViewer, sendJobs>>
    BY <1>2, <2>1
  <2>2. CASE (\E type : Takes(type)) /\ sendJobs' = sendJobs
    BY <1>1, <1>2, <2>2, TakesShifts
  <2>3. CASE HostSend
    <3>1. \A i \in DOMAIN toViewer' :
             (i \in DOMAIN toViewer /\ toViewer'[i] = toViewer[i]) \/ toViewer'[i].id = Head(toHost).id
      BY <1>1, <2>3, HostSendSays DEF Grows, Fresh
    <3>2. \A k \in DOMAIN sendJobs' :
             \/ k \in DOMAIN sendJobs /\ sendJobs'[k] = sendJobs[k]
             \/ sendJobs'[k].id = Head(toHost).id
      <4> DEFINE h == Head(toHost).id
      <4>1. /\ \A f \in Slots : File(<<h, f>>) =>
                  sendJobs'[Key(h, f)] = [id |-> h, file |-> f, offset |-> 0, confirmed |-> FALSE]
            /\ \A k \in DOMAIN sendJobs' :
                  \/ k \in DOMAIN sendJobs /\ sendJobs'[k] = sendJobs[k]
                  \/ \E f \in Slots : File(<<h, f>>) /\ k = Key(h, f)
        BY <1>1, <2>3, HostSendFiles
      <4> HIDE DEF h
      <4>2. ASSUME NEW f \in Slots, File(<<h, f>>)
            PROVE  sendJobs'[Key(h, f)].id = h
        <5>1. sendJobs'[Key(h, f)] = [id |-> h, file |-> f, offset |-> 0, confirmed |-> FALSE]
          BY <4>1, <4>2
        <5> QED
          BY <5>1
      <4>3. \A k \in DOMAIN sendJobs' :
               (k \in DOMAIN sendJobs /\ sendJobs'[k] = sendJobs[k]) \/ sendJobs'[k].id = h
        <5> TAKE k \in DOMAIN sendJobs'
        <5>1. CASE \E f \in Slots : File(<<h, f>>) /\ k = Key(h, f)
          BY <4>2, <5>1
        <5> QED
          BY <4>1, <5>1
      <4> QED
        BY <4>3 DEF h
    <3> QED
      BY <1>1, <1>2, <2>3, <3>1, <3>2
  <2>4. CASE Emits
    <3>1. \A i \in DOMAIN toViewer' :
             \/ i \in DOMAIN toViewer /\ toViewer'[i] = toViewer[i]
             \/ \E k \in DOMAIN sendJobs : FileOf(toViewer'[i]) = FileOf(sendJobs[k])
      BY <2>4 DEF Emits, Grows, Fresh
    <3>2. \A k \in DOMAIN sendJobs' : k \in DOMAIN sendJobs /\ FileOf(sendJobs'[k]) = FileOf(sendJobs[k])
      BY <2>4 DEF Emits
    <3> QED
      BY <1>2, <3>1, <3>2 DEF FileOf
  <2> QED
    BY <1>1, <2>1, <2>2, <2>3, <2>4, WhoTells
<1>4. /\ \A i \in DOMAIN toHost' : IsAnswer(toHost'[i]) => toHost'[i].id # j
      /\ answer' # Nothing => answer'.id # j
  <2>1. CASE UNCHANGED <<toHost, answer>>
    BY <1>2, <2>1
  <2>2. CASE TakesDigest
    <3>1. Next1.id # j
      BY <1>1, <1>2, <2>2, TakesShifts DEF TakesDigest
    <3>2. \A i \in DOMAIN toHost' :
             \/ i \in DOMAIN toHost /\ toHost'[i] = toHost[i]
             \/ FileOf(toHost'[i]) = FileOf(Next1)
      BY <1>1, <2>2, DigestSays DEF Grows, Fresh
    <3>3. answer' = answer \/ FileOf(answer') = FileOf(Next1)
      BY <1>1, <2>2, DigestSays
    <3> QED
      BY <1>2, <3>1, <3>2, <3>3 DEF FileOf
  <2>3. CASE Polls
    <3>1. answer # Nothing => IsAnswer(answer)
      BY DEF IInv, AskedOnce
    <3>2. \A i \in DOMAIN toHost' :
             \/ i \in DOMAIN toHost /\ toHost'[i] = toHost[i]
             \/ ~IsAnswer(toHost'[i])
             \/ answer # Nothing /\ toHost'[i] = answer
      BY <1>1, <2>3, <3>1, PollsSays DEF Grows, Fresh, IsAnswer, Action
    <3> QED
      BY <1>2, <2>3, <3>2 DEF Polls
  <2>4. CASE answer' = answer /\ \E type : HostTakes(type)
    BY <1>1, <1>2, <2>4, HostTakesShifts
  <2> QED
    BY <2>1, <2>2, <2>3, <2>4, WhoAsks
<1>5. doneCount'[j] = 0
  <2>1. CASE TakesDone
    <3>1. Next1.id # j
      BY <1>1, <1>2, <2>1, TakesShifts DEF TakesDone
    <3> QED
      BY <1>1, <1>2, <2>1, <3>1 DEF TakesDone, TypeOK
  <2> QED
    BY <1>2, <2>1, WhoWrites
<1>6. ASSUME NEW f \in Slots
      PROVE  offset'[<<j, f>>] = 0
  <2>1. <<j, f>> \in Files /\ offset \in [Files -> Nat]
    BY <1>1 DEF Files, TypeOK
  <2>2. CASE TakesDir
    BY <1>2, <2>1, <2>2 DEF TakesDir
  <2>3. CASE TakesBlock
    <3>1. Next1.id # j
      BY <1>1, <1>2, <2>3, TakesShifts DEF TakesBlock
    <3>2. <<Next1.id, Next1.file>> # <<j, f>>
      BY <3>1
    <3>3. offset'[<<j, f>>] = offset[<<j, f>>]
      BY <2>1, <2>3, <3>2 DEF TakesBlock
    <3> QED
      BY <1>2, <3>3
  <2> QED
    BY <1>2, <2>2, <2>3, WhoWrites
<1> QED
  BY <1>3, <1>4, <1>5, <1>6

LEMMA NewJobs ==
    ASSUME DownloadAssumption, TypeOK, HostSend, NEW k \in DOMAIN sendJobs'
    PROVE  \/ k \in DOMAIN sendJobs /\ sendJobs'[k] = sendJobs[k]
           \/ \E f \in Slots :
                 /\ File(<<Head(toHost).id, f>>) /\ k = Key(Head(toHost).id, f)
                 /\ FileOf(sendJobs'[k]) = <<Head(toHost).id, f>>
                 /\ sendJobs'[k].offset = 0 /\ sendJobs'[k].confirmed = FALSE
<1> DEFINE h == Head(toHost).id
<1>1. /\ \A f \in Slots : File(<<h, f>>) =>
            sendJobs'[Key(h, f)] = [id |-> h, file |-> f, offset |-> 0, confirmed |-> FALSE]
      /\ \/ k \in DOMAIN sendJobs /\ sendJobs'[k] = sendJobs[k]
         \/ \E f \in Slots : File(<<h, f>>) /\ k = Key(h, f)
  BY HostSendFiles
<1> HIDE DEF h
<1>2. ASSUME NEW f \in Slots, File(<<h, f>>), k = Key(h, f)
      PROVE  /\ FileOf(sendJobs'[k]) = <<h, f>>
             /\ sendJobs'[k].offset = 0 /\ sendJobs'[k].confirmed = FALSE
  <2>1. sendJobs'[k] = [id |-> h, file |-> f, offset |-> 0, confirmed |-> FALSE]
    BY <1>1, <1>2
  <2> QED
    BY <2>1 DEF FileOf
<1>3. CASE \E f \in Slots : File(<<h, f>>) /\ k = Key(h, f)
  BY <1>2, <1>3 DEF h
<1> QED
  BY <1>1, <1>3

LEMMA PumpedJobs ==
    ASSUME DownloadAssumption, TypeOK, HostPumps, NEW k \in DOMAIN sendJobs'
    PROVE  /\ k \in DOMAIN sendJobs
           /\ \/ k \notin Pending /\ sendJobs'[k] = sendJobs[k]
              \/ /\ k \in Pending /\ ~Whole(k)
                 /\ FileOf(sendJobs'[k]) = FileOf(sendJobs[k])
                 /\ sendJobs'[k].confirmed = sendJobs[k].confirmed
                 /\ sendJobs'[k].offset = sendJobs[k].offset + Len(Block(k))
                 /\ \E i \in Fresh(toViewer, toViewer') :
                       /\ FileOf(toViewer'[i]) = FileOf(sendJobs[k])
                       /\ toViewer'[i].type = "Block" /\ toViewer'[i].data = Block(k)
<1>1. k \in DOMAIN sendJobs
  BY HostPumpsSay
<1>2. CASE k \notin Pending
  BY <1>1, <1>2, HostPumpsSay
<1>3. CASE k \in Pending
  <2>1. PICK i \in Fresh(toViewer, toViewer') : FileOf(toViewer'[i]) = FileOf(sendJobs[k])
    BY <1>3, HostPumpsSay
  <2>2. PICK l \in Pending :
           /\ FileOf(toViewer'[i]) = FileOf(sendJobs[l])
           /\ \/ l \notin DOMAIN sendJobs'
              \/ /\ toViewer'[i].type = "Block" /\ toViewer'[i].data = Block(l)
                 /\ ~Whole(l)
                 /\ sendJobs'[l] = [sendJobs[l] EXCEPT !.offset = @ + Len(Block(l))]
    BY HostPumpsSay
  <2>3. l = k
    BY <1>1, <2>1, <2>2, OneJobPerFile DEF Pending
  <2>4. sendJobs[k] \in [id : Jobs, file : Slots, offset : Nat, confirmed : BOOLEAN]
    BY <1>1, JobsAreTyped
  <2>5. sendJobs'[k] = [sendJobs[k] EXCEPT !.offset = @ + Len(Block(k))]
    BY <2>2, <2>3
  <2>6. /\ sendJobs'[k].id = sendJobs[k].id /\ sendJobs'[k].file = sendJobs[k].file
        /\ sendJobs'[k].confirmed = sendJobs[k].confirmed
        /\ sendJobs'[k].offset = sendJobs[k].offset + Len(Block(k))
    BY <2>4, <2>5
  <2>7. FileOf(sendJobs'[k]) = FileOf(sendJobs[k])
    BY <2>6 DEF FileOf
  <2> QED
    BY <1>1, <1>3, <2>1, <2>2, <2>3, <2>6, <2>7
<1> QED
  BY <1>2, <1>3

\* What may become of a job of the host in a step.
LEMMA JobsMove ==
    ASSUME DownloadAssumption, TypeOK, Next, NEW k \in DOMAIN sendJobs'
    PROVE  \/ /\ HostSend
              /\ \E f \in Slots :
                 /\ File(<<Head(toHost).id, f>>) /\ k = Key(Head(toHost).id, f)
                 /\ FileOf(sendJobs'[k]) = <<Head(toHost).id, f>>
                 /\ sendJobs'[k].offset = 0 /\ sendJobs'[k].confirmed = FALSE
           \/ /\ k \in DOMAIN sendJobs /\ FileOf(sendJobs'[k]) = FileOf(sendJobs[k])
              /\ \/ sendJobs'[k] = sendJobs[k]
                 \/ /\ HostConfirm /\ k = Key(Head(toHost).id, Head(toHost).file)
                    /\ sendJobs'[k].offset = 0 /\ sendJobs'[k].confirmed = TRUE
                 \/ /\ HostPumps /\ k \in Pending /\ ~Whole(k)
                    /\ sendJobs'[k].confirmed = sendJobs[k].confirmed
                    /\ sendJobs'[k].offset = sendJobs[k].offset + Len(Block(k))
<1>1. CASE sendJobs' = sendJobs
  BY <1>1
<1>2. CASE HostSend
  BY <1>2, NewJobs
<1>3. CASE HostConfirm
  <2>1. /\ k \in DOMAIN sendJobs
        /\ \/ sendJobs'[k] = sendJobs[k]
           \/ /\ k = Key(Head(toHost).id, Head(toHost).file)
              /\ sendJobs'[k] = [id |-> sendJobs[k].id, file |-> sendJobs[k].file,
                                 offset |-> 0, confirmed |-> TRUE]
    BY <1>3, ConfirmMarks
  <2>2. CASE sendJobs'[k] = [id |-> sendJobs[k].id, file |-> sendJobs[k].file,
                             offset |-> 0, confirmed |-> TRUE]
    <3>1. /\ sendJobs'[k].offset = 0 /\ sendJobs'[k].confirmed = TRUE
          /\ sendJobs'[k].id = sendJobs[k].id /\ sendJobs'[k].file = sendJobs[k].file
      BY <2>2
    <3>2. FileOf(sendJobs'[k]) = FileOf(sendJobs[k])
      BY <3>1 DEF FileOf
    <3>3. k = Key(Head(toHost).id, Head(toHost).file) \/ sendJobs'[k] = sendJobs[k]
      BY <2>1
    <3> QED
      BY <1>3, <2>1, <3>1, <3>2, <3>3
  <2> QED
    BY <2>1, <2>2
<1>4. CASE HostSkip \/ HostCancel
  BY <1>4 DEF HostSkip, HostCancel, Without
<1>5. CASE HostPumps
  BY <1>5, PumpedJobs
<1>6. HostSend \/ HostConfirm \/ HostSkip \/ HostCancel \/ HostPumps \/ sendJobs' = sendJobs
  <2>1. CASE HostTurn
    BY <2>1 DEF HostTurn
  <2>2. CASE \E l \in DOMAIN sendJobs : SourceShrinks(l)
    BY <2>2 DEF SourceShrinks
  <2>3. CASE (\E j \in Jobs : Asks(j) \/ Cancels(j)) \/ Tick \/ Polls
    BY <2>3 DEF Asks, Cancels, Tick, Polls, hostVars
  <2>4. CASE TakesDir \/ TakesDigest \/ TakesBlock \/ TakesDone \/ TakesError
    BY <2>4 DEF TakesDir, TakesDigest, TakesBlock, TakesDone, TakesError, Takes, hostVars
  <2> QED
    BY <2>1, <2>2, <2>3, <2>4 DEF Next, ViewerStep
<1> QED
  BY <1>1, <1>2, <1>3, <1>4, <1>5, <1>6

\* The message at a place of the viewer's queue was there, or the host says it now.
LEMMA TellsMove ==
    ASSUME DownloadAssumption, TypeOK, Next, NEW i \in DOMAIN toViewer'
    PROVE  \/ \E k \in DOMAIN toViewer : toViewer'[i] = toViewer[k]
           \/ HostSend /\ i \in Fresh(toViewer, toViewer')
           \/ Emits /\ i \in Fresh(toViewer, toViewer')
<1>1. CASE \E type : Takes(type)
  BY <1>1, TakesShifts
<1>2. CASE HostSend
  BY <1>2, HostSendSays DEF Grows, Fresh
<1>3. CASE Emits
  BY <1>3 DEF Emits, Grows, Fresh
<1> QED
  BY <1>1, <1>2, <1>3, WhoTells

\* The action at a place of the host's queue was there, or one of three is new.
LEMMA AsksMove ==
    ASSUME DownloadAssumption, TypeOK, answer # Nothing => IsAnswer(answer),
           Next, NEW i \in DOMAIN toHost'
    PROVE  \/ \E k \in DOMAIN toHost : toHost'[i] = toHost[k]
           \/ Polls /\ toHost'[i].type = "Send"
           \/ Polls /\ cancel # Nothing /\ toHost'[i] = Action("Cancel", cancel, 1)
           \/ Polls /\ answer # Nothing /\ toHost'[i] = answer
           \/ /\ TakesDigest /\ toHost'[i].type = "Confirm"
              /\ FileOf(toHost'[i]) = FileOf(Next1) /\ dest[FileOf(Next1)] = <<>>
<1>1. CASE UNCHANGED <<toHost, answer>>
  BY <1>1
<1>2. CASE TakesDigest
  BY <1>2, DigestSays DEF Grows, Fresh
<1>3. CASE Polls
  BY <1>3, PollsSays DEF Grows, Fresh
<1>4. CASE \E type : HostTakes(type)
  BY <1>4, HostTakesShifts
<1> QED
  BY <1>1, <1>2, <1>3, <1>4, WhoAsks

\* The slot for an answer holds what it held, nothing, or the answer given now.
LEMMA AnswerMoves ==
    ASSUME TypeOK, Next, answer' # Nothing
    PROVE  \/ answer' = answer
           \/ /\ TakesDigest /\ IsAnswer(answer') /\ FileOf(answer') = FileOf(Next1)
              /\ answer'.type = "Confirm" => FileOf(Next1) \in agreed'
              /\ answer'.type = "Skip" => FileOf(Next1) \in skipped'
<1>1. CASE TakesDigest
  BY <1>1, DigestSays
<1>2. CASE Polls
  BY <1>2 DEF Polls
<1> QED
  BY <1>1, <1>2, WhoAsks

LEMMA AboutFilesStep ==
    ASSUME DownloadAssumption, IInv, Next
    PROVE  AboutFiles'
<1>1. TypeOK /\ AboutFiles /\ tree' = tree /\ (answer # Nothing => IsAnswer(answer))
  BY PastStays DEF IInv, AskedOnce
<1> SUFFICES
      /\ \A k \in DOMAIN sendJobs' :
            /\ File(FileOf(sendJobs'[k]))
            /\ sendJobs'[k].offset <= Size(FileOf(sendJobs'[k]))
      /\ \A i \in DOMAIN toViewer' :
            toViewer'[i].type \in {"Digest", "Block", "Done"} => File(FileOf(toViewer'[i]))
      /\ \A i \in DOMAIN toHost' : IsAnswer(toHost'[i]) => File(FileOf(toHost'[i]))
      /\ answer' # Nothing => File(FileOf(answer'))
  BY <1>1 DEF AboutFiles, File, IsFile, Listed, There, Size, FileOf, IsAnswer
<1>2. ASSUME NEW k \in DOMAIN sendJobs
      PROVE  /\ File(FileOf(sendJobs[k])) /\ sendJobs[k].offset <= Size(FileOf(sendJobs[k]))
             /\ Size(FileOf(sendJobs[k])) \in Nat
  <2>1. sendJobs[k].id \in Jobs /\ sendJobs[k].file \in Slots
    BY <1>1, JobsAreTyped
  <2> QED
    BY <1>1, <2>1, ListsAreShort DEF AboutFiles, FileOf
<1>3. ASSUME NEW k \in DOMAIN sendJobs'
      PROVE  File(FileOf(sendJobs'[k])) /\ sendJobs'[k].offset <= Size(FileOf(sendJobs'[k]))
  <2>1. CASE HostSend /\ \E f \in Slots :
                /\ File(<<Head(toHost).id, f>>)
                /\ FileOf(sendJobs'[k]) = <<Head(toHost).id, f>>
                /\ sendJobs'[k].offset = 0
    <3>1. PICK f \in Slots : /\ File(<<Head(toHost).id, f>>)
                             /\ FileOf(sendJobs'[k]) = <<Head(toHost).id, f>>
                             /\ sendJobs'[k].offset = 0
      BY <2>1
    <3>2. Head(toHost).id \in Jobs
      BY <1>1, <2>1, HostTakesShifts DEF HostSend
    <3>3. Size(<<Head(toHost).id, f>>) \in Nat
      BY <1>1, <3>1, <3>2, ListsAreShort
    <3> QED
      BY <3>1, <3>3
  <2>2. CASE k \in DOMAIN sendJobs /\ FileOf(sendJobs'[k]) = FileOf(sendJobs[k])
    <3>1. CASE sendJobs'[k] = sendJobs[k]
      BY <1>2, <2>2, <3>1
    <3>2. CASE sendJobs'[k].offset = 0
      BY <1>2, <2>2, <3>2
    <3>3. CASE ~Whole(k) /\ sendJobs'[k].offset = sendJobs[k].offset + Len(Block(k))
      <4>1. Len(Block(k)) \in {0, 1}
        <5>1. Len(<<>>) = 0 /\ Len(<<Job(k).offset + 1>>) = 1
          OBVIOUS
        <5> QED
          BY <5>1 DEF Block
      <4>2. sendJobs[k].offset \in Nat /\ ~(sendJobs[k].offset >= Size(FileOf(sendJobs[k])))
        BY <1>1, <2>2, <3>3, JobsAreTyped DEF Whole, Job, Size, FileOf
      <4> DEFINE size == Size(FileOf(sendJobs[k]))
      <4>3. size \in Nat /\ size = Size(FileOf(sendJobs'[k])) /\ File(FileOf(sendJobs'[k]))
        BY <1>2, <2>2
      <4>4. ~(sendJobs[k].offset >= size)
        BY <4>2
      <4> HIDE DEF size
      <4>5. sendJobs'[k].offset <= size
        <5> DEFINE o == sendJobs[k].offset
                   n == Len(Block(k))
        <5>1. o \in Nat /\ n \in {0, 1} /\ size \in Nat /\ ~(o >= size)
          BY <4>1, <4>2, <4>3, <4>4
        <5>2. sendJobs'[k].offset = o + n
          BY <3>3
        <5> HIDE DEF o, n
        <5> QED
          BY <5>1, <5>2
      <4> QED
        BY <4>3, <4>5
    <3> QED
      BY <1>1, <2>2, <3>1, <3>2, <3>3, JobsMove
  <2> QED
    BY <1>1, <2>1, <2>2, JobsMove
<1>4. ASSUME NEW i \in DOMAIN toViewer', toViewer'[i].type \in {"Digest", "Block", "Done"}
      PROVE  File(FileOf(toViewer'[i]))
  <2>1. CASE \E k \in DOMAIN toViewer : toViewer'[i] = toViewer[k]
    BY <1>1, <1>4, <2>1 DEF AboutFiles
  <2>2. CASE HostSend /\ i \in Fresh(toViewer, toViewer')
    BY <1>1, <1>4, <2>2, HostSendSays
  <2>3. CASE Emits /\ i \in Fresh(toViewer, toViewer')
    BY <1>2, <2>3 DEF Emits
  <2> QED
    BY <1>1, <2>1, <2>2, <2>3, TellsMove
<1>5. ASSUME TakesDigest
      PROVE  File(FileOf(Next1))
  BY <1>1, <1>5, TakesShifts DEF TakesDigest, AboutFiles
<1>6. ASSUME NEW i \in DOMAIN toHost', IsAnswer(toHost'[i])
      PROVE  File(FileOf(toHost'[i]))
  <2>1. CASE \E k \in DOMAIN toHost : toHost'[i] = toHost[k]
    BY <1>1, <1>6, <2>1 DEF AboutFiles
  <2>2. CASE answer # Nothing /\ toHost'[i] = answer
    BY <1>1, <2>2 DEF AboutFiles
  <2>3. CASE TakesDigest /\ FileOf(toHost'[i]) = FileOf(Next1)
    BY <1>5, <2>3
  <2> QED
    BY <1>1, <1>6, <2>1, <2>2, <2>3, AsksMove DEF IsAnswer, Action
<1>7. ASSUME answer' # Nothing
      PROVE  File(FileOf(answer'))
  BY <1>1, <1>5, <1>7, AnswerMoves DEF AboutFiles
<1> QED
  BY <1>3, <1>4, <1>6, <1>7

LEMMA WindowAgreesStep ==
    ASSUME DownloadAssumption, IInv, Next
    PROVE  WindowAgrees'
<1>1. TypeOK /\ WindowAgrees /\ (answer # Nothing => IsAnswer(answer))
  BY DEF IInv, AskedOnce
<1> SUFFICES ASSUME NEW j \in Jobs
             PROVE  /\ ui'[j] = "active" => j \in known'
                    /\ ui'[j] = "finished" => j \notin known'
                    /\ cancel' = j => ui'[j] = "failed"
                    /\ \A i \in DOMAIN toHost' :
                          toHost'[i].type = "Cancel" /\ toHost'[i].id = j => ui'[j] = "failed"
  BY DEF WindowAgrees
<1>2. /\ ui[j] = "active" => j \in known
      /\ ui[j] = "finished" => j \notin known
      /\ cancel = j => ui[j] = "failed"
      /\ \A i \in DOMAIN toHost : toHost[i].type = "Cancel" /\ toHost[i].id = j => ui[j] = "failed"
  BY <1>1 DEF WindowAgrees
<1>3. ui[j] = "failed" => ui'[j] = "failed"
  BY <1>1, WindowMoves
<1>4. ASSUME NEW i \in DOMAIN toHost', toHost'[i].type = "Cancel", toHost'[i].id = j
      PROVE  ui[j] = "failed"
  <2>1. CASE \E k \in DOMAIN toHost : toHost'[i] = toHost[k]
    BY <1>2, <1>4, <2>1
  <2>2. CASE cancel # Nothing /\ toHost'[i] = Action("Cancel", cancel, 1)
    BY <1>2, <1>4, <2>2 DEF Action
  <2> QED
    BY <1>1, <1>4, <2>1, <2>2, AsksMove DEF IsAnswer
<1>5. cancel' = j => ui'[j] = "failed"
  <2>1. CASE \E i \in Jobs : Cancels(i)
    BY <1>1, <1>2, <1>3, <2>1 DEF Cancels, TypeOK
  <2>2. CASE Polls
    BY <2>2 DEF Polls, DownloadAssumption
  <2>3. cancel' = cancel \/ (\E i \in Jobs : Cancels(i)) \/ Polls
    <3>1. CASE \E i \in Jobs : Asks(i)
      BY <3>1 DEF Asks
    <3>2. CASE ViewerStep
      BY <3>2 DEF ViewerStep, Tick, TakesDir, TakesDigest, TakesBlock, TakesDone, TakesError, Takes, windowVars
    <3>3. CASE HostTurn \/ HostPumps \/ \E k \in DOMAIN sendJobs : SourceShrinks(k)
      BY <3>3 DEF HostTurn, HostSend, HostConfirm, HostSkip, HostCancel, HostTakes, HostPumps,
                  SourceShrinks, windowVars
    <3> QED
      BY <3>1, <3>2, <3>3 DEF Next
  <2> QED
    BY <1>2, <1>3, <2>1, <2>2, <2>3
<1>6. (ui'[j] = "active" => j \in known') /\ (ui'[j] = "finished" => j \notin known')
  <2>1. CASE Polls
    BY <1>1, <1>2, <2>1 DEF Polls, TypeOK
  <2>2. CASE TakesDone
    <3>1. Next1.id \in Jobs
      BY <1>1, <2>2, TakesShifts DEF TakesDone
    <3>2. CASE j # Next1.id
      BY <1>1, <1>2, <2>2, <3>1, <3>2 DEF TakesDone, TypeOK
    <3>3. CASE j = Next1.id
      BY <1>1, <1>2, <2>2, <3>1, <3>3 DEF TakesDone, TypeOK
    <3> QED
      BY <3>2, <3>3
  <2>3. CASE known' = known /\ ~Polls /\ ~TakesDone
    BY <1>1, <1>2, <2>3, WindowMoves
  <2> QED
    BY <2>1, <2>2, <2>3, WhoWrites
<1> QED
  BY <1>3, <1>4, <1>5, <1>6

LEMMA SkipsAreChosenStep ==
    ASSUME DownloadAssumption, IInv, Next
    PROVE  SkipsAreChosen'
<1>1. TypeOK /\ SkipsAreChosen /\ skipped \subseteq skipped' /\ (answer # Nothing => IsAnswer(answer))
  BY PastStays DEF IInv, AskedOnce
<1>2. ASSUME NEW i \in DOMAIN toHost', toHost'[i].type = "Skip"
      PROVE  FileOf(toHost'[i]) \in skipped'
  <2>1. CASE \E k \in DOMAIN toHost : toHost'[i] = toHost[k]
    BY <1>1, <1>2, <2>1 DEF SkipsAreChosen
  <2>2. CASE answer # Nothing /\ toHost'[i] = answer
    BY <1>1, <1>2, <2>2 DEF SkipsAreChosen
  <2> QED
    BY <1>1, <1>2, <2>1, <2>2, AsksMove DEF Action
<1>3. ASSUME answer' # Nothing, answer'.type = "Skip"
      PROVE  FileOf(answer') \in skipped'
  BY <1>1, <1>3, AnswerMoves DEF SkipsAreChosen
<1> QED
  BY <1>2, <1>3 DEF SkipsAreChosen, FileOf

\* A question or an answer about a file that was not on its way before is the
\* announcement in the list of a job of which the host had no file.
LEMMA UnsettledMoves ==
    ASSUME DownloadAssumption, IInv, Next, NEW x \in Files, Unsettled(x)'
    PROVE  Unsettled(x) \/ (HostSend /\ x[1] = Head(toHost).id)
<1>1. TypeOK /\ (answer # Nothing => IsAnswer(answer))
  BY DEF IInv, AskedOnce
<1>2. TakesDigest => \E i \in DOMAIN toViewer : toViewer[i].type = "Digest" /\ FileOf(toViewer[i]) = FileOf(Next1)
  BY <1>1, TakesShifts DEF TakesDigest
<1>3. CASE answer' # Nothing /\ FileOf(answer') = x
  BY <1>1, <1>2, <1>3, AnswerMoves DEF Unsettled
<1>4. CASE \E i \in DOMAIN toHost' : IsAnswer(toHost'[i]) /\ FileOf(toHost'[i]) = x
  <2>1. PICK i \in DOMAIN toHost' : IsAnswer(toHost'[i]) /\ FileOf(toHost'[i]) = x
    BY <1>4
  <2> QED
    BY <1>1, <1>2, <2>1, AsksMove DEF Unsettled, IsAnswer, Action
<1>5. CASE \E i \in DOMAIN toViewer' : toViewer'[i].type = "Digest" /\ FileOf(toViewer'[i]) = x
  <2>1. PICK i \in DOMAIN toViewer' : toViewer'[i].type = "Digest" /\ FileOf(toViewer'[i]) = x
    BY <1>5
  <2>2. CASE \E k \in DOMAIN toViewer : toViewer'[i] = toViewer[k]
    BY <2>1, <2>2 DEF Unsettled
  <2>3. CASE HostSend /\ i \in Fresh(toViewer, toViewer')
    <3>1. toViewer'[i].id = Head(toHost).id
      BY <1>1, <2>3, HostSendSays
    <3> QED
      BY <2>1, <2>3, <3>1 DEF FileOf
  <2>4. CASE Emits /\ i \in Fresh(toViewer, toViewer')
    BY <2>1, <2>4 DEF Emits
  <2> QED
    BY <1>1, <2>2, <2>3, <2>4, TellsMove
<1> QED
  BY <1>3, <1>4, <1>5 DEF Unsettled, IsAnswer, FileOf

\* The host takes an answer for a file that does not clash for what it is.
LEMMA AnswerFindsFile ==
    ASSUME DownloadAssumption, IInv, HostConfirm \/ HostSkip,
           NEW k \in DOMAIN sendJobs, k = Key(Head(toHost).id, Head(toHost).file),
           FileOf(sendJobs[k]) \notin Clashing
    PROVE  FileOf(sendJobs[k]) = FileOf(Head(toHost))
<1> DEFINE x == FileOf(sendJobs[k])
           y == FileOf(Head(toHost))
<1>1. TypeOK
  BY DEF IInv
<1>2. /\ 1 \in DOMAIN toHost /\ Head(toHost) = toHost[1] /\ IsAnswer(toHost[1])
      /\ toHost[1].id \in Jobs /\ toHost[1].file \in Slots /\ y \in Files
  BY <1>1, HostTakesShifts DEF HostConfirm, HostSkip, IsAnswer
<1>3. /\ sendJobs[k].id \in Jobs /\ sendJobs[k].file \in Slots /\ x \in Files
      /\ k = Key(sendJobs[k].id, sendJobs[k].file)
  BY <1>1, JobsAreTyped
<1>4. File(x) /\ File(y)
  BY <1>2 DEF IInv, AboutFiles
<1>5. ui[sendJobs[k].id] # "none" /\ ui[toHost[1].id] # "none"
  <2>1. ~Ahead(sendJobs[k].id)
    BY <1>3 DEF IInv, NothingAhead
  <2>2. Asked(toHost[1].id)
    BY <1>2 DEF IInv, AskedOnce
  <2> QED
    BY <2>1, <2>2 DEF Ahead, Asked
<1>6. /\ x[1] = sendJobs[k].id /\ x[2] = sendJobs[k].file
      /\ y[1] = toHost[1].id /\ y[2] = toHost[1].file
  BY <1>2 DEF FileOf
<1> HIDE DEF x, y
<1>7. x # y => x \in Clashing
  BY <1>2, <1>3, <1>4, <1>5, <1>6, Clash
<1> QED
  BY <1>7 DEF x, y

\* A request finds no file of its job at the host.
LEMMA SendIsFirst ==
    ASSUME DownloadAssumption, IInv, HostSend
    PROVE  /\ Head(toHost).id \in Jobs /\ Ahead(Head(toHost).id) /\ Asked(Head(toHost).id)
           /\ \A i \in DOMAIN toViewer : toViewer[i].id # Head(toHost).id
           /\ \A k \in DOMAIN sendJobs : sendJobs[k].id # Head(toHost).id
           /\ \A i \in DOMAIN toHost : IsAnswer(toHost[i]) => toHost[i].id # Head(toHost).id
           /\ answer # Nothing => answer.id # Head(toHost).id
           /\ doneCount[Head(toHost).id] = 0
           /\ \A f \in Slots : offset[<<Head(toHost).id, f>>] = 0
<1>1. /\ 1 \in DOMAIN toHost /\ Head(toHost) = toHost[1] /\ toHost[1].type = "Send"
      /\ Head(toHost).id \in Jobs
  BY HostTakesShifts DEF HostSend, IInv
<1>2. Ahead(Head(toHost).id) /\ Asked(Head(toHost).id)
  BY <1>1 DEF Ahead, IInv, AskedOnce
<1> QED
  BY <1>1, <1>2 DEF IInv, NothingAhead

LEMMA NextJobsTyped ==
    ASSUME TypeOK', NEW k \in DOMAIN sendJobs'
    PROVE  /\ FileOf(sendJobs'[k]) \in Files
           /\ sendJobs'[k].id \in Jobs /\ sendJobs'[k].file \in Slots /\ sendJobs'[k].offset \in Nat
           /\ k = Key(sendJobs'[k].id, sendJobs'[k].file)
<1>1. /\ sendJobs'[k] \in [id : Jobs, file : Slots, offset : Nat, confirmed : BOOLEAN]
      /\ k = Key(sendJobs'[k].id, sendJobs'[k].file)
  BY DEF TypeOK
<1> QED
  BY <1>1 DEF FileOf, Files

LEMMA HeldBackStep ==
    ASSUME DownloadAssumption, IInv, TypeOK', Next
    PROVE  HeldBack'
<1> SUFFICES ASSUME NEW k \in DOMAIN sendJobs', NEW x \in Files, x = FileOf(sendJobs'[k])
             PROVE  /\ ~sendJobs'[k].confirmed => sendJobs'[k].offset = 0
                    /\ sendJobs'[k].confirmed /\ x \notin Clashing' => ~Unsettled(x)'
  <2>1. \A k \in DOMAIN sendJobs' : FileOf(sendJobs'[k]) \in Files
    BY NextJobsTyped
  <2> QED
    BY <2>1 DEF HeldBack, FileOf
<1>1. TypeOK /\ HeldBack
  BY DEF IInv
<1>2. Clashing \subseteq Clashing'
  BY <1>1, AskedStays
<1>3. CASE k \in DOMAIN sendJobs /\ FileOf(sendJobs[k]) = x
  <2>1. Unsettled(x)' => Unsettled(x)
    <3>1. HostSend => x[1] # Head(toHost).id
      BY <1>3, SendIsFirst DEF FileOf
    <3> QED
      BY <3>1, UnsettledMoves
  <2>2. CASE sendJobs'[k] = sendJobs[k]
    BY <1>1, <1>2, <1>3, <2>1, <2>2 DEF HeldBack
  <2>3. CASE HostPumps /\ k \in Pending /\ sendJobs'[k].confirmed = sendJobs[k].confirmed
    BY <1>1, <1>2, <1>3, <2>1, <2>3 DEF HeldBack, Pending
  <2>4. CASE HostConfirm /\ k = Key(Head(toHost).id, Head(toHost).file) /\ sendJobs'[k].offset = 0
    <3>1. SUFFICES ASSUME x \notin Clashing, Unsettled(x)'
                   PROVE  FALSE
      BY <1>2, <2>4
    <3>2. /\ 1 \in DOMAIN toHost /\ IsAnswer(toHost[1]) /\ FileOf(toHost[1]) = x
      <4>1. 1 \in DOMAIN toHost /\ IsAnswer(toHost[1]) /\ Head(toHost) = toHost[1]
        BY <1>1, <2>4, HostTakesShifts DEF HostConfirm, IsAnswer
      <4> QED
        BY <1>3, <2>4, <3>1, <4>1, AnswerFindsFile
    <3>3. OneTurnEach /\ answer' = answer /\ toViewer' = toViewer
      BY <2>4 DEF IInv, HostConfirm, HostTakes, windowVars
    <3>4. ~(answer # Nothing /\ FileOf(answer) = x)
      BY <3>2, <3>3 DEF OneTurnEach
    <3>5. \A i \in DOMAIN toViewer : ~(toViewer[i].type = "Digest" /\ FileOf(toViewer[i]) = x)
      BY <3>2, <3>3 DEF OneTurnEach
    <3>6. ASSUME NEW i \in DOMAIN toHost', IsAnswer(toHost'[i]), FileOf(toHost'[i]) = x
          PROVE  FALSE
      <4>1. i + 1 \in DOMAIN toHost /\ toHost'[i] = toHost[i + 1] /\ i \in Nat \ {0}
        BY <1>1, <2>4, HostTakesShifts DEF HostConfirm
      <4>2. i + 1 = 1
        BY <3>2, <3>3, <3>6, <4>1 DEF OneTurnEach
      <4> QED
        BY <4>1, <4>2
    <3> QED
      BY <3>1, <3>3, <3>4, <3>5, <3>6 DEF Unsettled, IsAnswer, FileOf
  <2> QED
    BY <1>1, <1>3, <2>2, <2>3, <2>4, JobsMove, SendIsFirst DEF FileOf
<1>4. CASE sendJobs'[k].offset = 0 /\ sendJobs'[k].confirmed = FALSE
  BY <1>4
<1> QED
  BY <1>1, <1>3, <1>4, JobsMove

LEMMA BlocksArePumped ==
    ASSUME DownloadAssumption, TypeOK, Next, NEW i \in DOMAIN toViewer', toViewer'[i].type = "Block"
    PROVE  \/ \E k \in DOMAIN toViewer : toViewer'[i] = toViewer[k]
           \/ HostPumps /\ \E k \in Pending : FileOf(toViewer'[i]) = FileOf(sendJobs[k])
<1>1. CASE HostSend /\ i \in Fresh(toViewer, toViewer')
  BY <1>1, HostSendSays
<1>2. CASE HostPumps
  BY <1>2, HostPumpsSay DEF Grows, Fresh
<1>3. CASE HostSkip
  <2> DEFINE l == Key(Head(toHost).id, Head(toHost).file)
             r == Response("Done", sendJobs[l].id, sendJobs[l].file, <<>>)
  <2>1. toViewer' = toViewer \/ (toViewer' = Append(toViewer, r) /\ l \in DOMAIN sendJobs)
    BY <1>3 DEF HostSkip
  <2>2. l \in DOMAIN sendJobs => r \in Messages
    <3> HIDE DEF l
    <3>1. l \in DOMAIN sendJobs => sendJobs[l].id \in Jobs /\ sendJobs[l].file \in Slots
      BY JobsAreTyped
    <3> QED
      BY <3>1 DEF Response, Messages
  <2>3. r.type # "Block"
    BY DEF Response
  <2>4. toViewer \in Seq(Messages)
    BY DEF TypeOK
  <2> HIDE DEF r, l
  <2>5. CASE toViewer' = Append(toViewer, r) /\ r \in Messages
    <3>1. i \in DOMAIN toViewer => toViewer'[i] = toViewer[i]
      BY <2>4, <2>5
    <3>2. i \notin DOMAIN toViewer => toViewer'[i] = r
      BY <2>4, <2>5
    <3> QED
      BY <2>3, <3>1, <3>2
  <2> QED
    BY <2>1, <2>2, <2>5
<1>4. CASE HostConfirm \/ HostCancel \/ \E k \in DOMAIN sendJobs : SourceShrinks(k)
  BY <1>4 DEF HostConfirm, HostCancel, SourceShrinks
<1>5. CASE HostSend
  BY <1>1, <1>5, HostSendSays DEF Grows, Fresh
<1>6. CASE ViewerStep \/ \E j \in Jobs : Asks(j) \/ Cancels(j)
  <2>1. toViewer' = toViewer \/ \E type : Takes(type)
    BY <1>6 DEF ViewerStep, Tick, Polls, TakesDir, TakesDigest, TakesBlock, TakesDone, TakesError,
                Asks, Cancels
  <2> QED
    BY <2>1, TakesShifts
<1> QED
  BY <1>2, <1>3, <1>4, <1>5, <1>6 DEF Next, HostTurn

WillConsent(x) == x \in agreed' \/ ~tree[x[1]][x[2]].old \/ x \in Clashing'

LEMMA ConsentCarriesStep ==
    ASSUME DownloadAssumption, IInv, TypeOK', Next
    PROVE  ConsentCarries'
<1>1. /\ TypeOK /\ ConsentCarries /\ tree' = tree /\ (answer # Nothing => IsAnswer(answer))
      /\ agreed \subseteq agreed' /\ Clashing \subseteq Clashing'
  BY PastStays, AskedStays DEF IInv, AskedOnce
<1> SUFFICES
      /\ \A k \in DOMAIN sendJobs' : sendJobs'[k].confirmed => WillConsent(FileOf(sendJobs'[k]))
      /\ \A i \in DOMAIN toHost' : toHost'[i].type = "Confirm" => WillConsent(FileOf(toHost'[i]))
      /\ answer' # Nothing /\ answer'.type = "Confirm" => WillConsent(FileOf(answer'))
      /\ \A i \in DOMAIN toViewer' :
            toViewer'[i].type = "Block" /\ toViewer'[i].data # <<>> => WillConsent(FileOf(toViewer'[i]))
      /\ \A x \in Files : File(x) /\ tree[x[1]][x[2]].old => dest'[x] # <<>>
  BY <1>1 DEF ConsentCarries, Consented, WillConsent, FileOf, File, IsFile, Listed, There
<1>2. \A x : Consented(x) => WillConsent(x)
  BY <1>1 DEF Consented, WillConsent
<1>3. ASSUME NEW k \in DOMAIN sendJobs', sendJobs'[k].confirmed
      PROVE  WillConsent(FileOf(sendJobs'[k]))
  <2>1. SUFFICES ASSUME k \in DOMAIN sendJobs, FileOf(sendJobs'[k]) = FileOf(sendJobs[k])
                 PROVE  WillConsent(FileOf(sendJobs[k]))
    BY <1>1, <1>3, JobsMove
  <2>2. CASE sendJobs[k].confirmed
    BY <1>1, <1>2, <2>1, <2>2 DEF ConsentCarries
  <2>3. CASE HostConfirm /\ k = Key(Head(toHost).id, Head(toHost).file)
    <3>1. SUFFICES ASSUME FileOf(sendJobs[k]) \notin Clashing
                   PROVE  WillConsent(FileOf(sendJobs[k]))
      BY <1>1 DEF WillConsent
    <3>2. 1 \in DOMAIN toHost /\ toHost[1].type = "Confirm" /\ Head(toHost) = toHost[1]
      BY <1>1, <2>3, HostTakesShifts DEF HostConfirm
    <3>3. FileOf(sendJobs[k]) = FileOf(toHost[1])
      BY <2>1, <2>3, <3>1, <3>2, AnswerFindsFile
    <3> QED
      BY <1>1, <1>2, <3>2, <3>3 DEF ConsentCarries
  <2>4. sendJobs[k].confirmed \/ (HostConfirm /\ k = Key(Head(toHost).id, Head(toHost).file))
    BY <1>1, <1>3, <2>1, JobsMove DEF Pending
  <2> QED
    BY <2>2, <2>3, <2>4
<1>4. ASSUME NEW i \in DOMAIN toHost', toHost'[i].type = "Confirm"
      PROVE  WillConsent(FileOf(toHost'[i]))
  <2>1. CASE \E k \in DOMAIN toHost : toHost'[i] = toHost[k]
    BY <1>1, <1>2, <1>4, <2>1 DEF ConsentCarries
  <2>2. CASE answer # Nothing /\ toHost'[i] = answer
    BY <1>1, <1>2, <1>4, <2>2 DEF ConsentCarries
  <2>3. CASE TakesDigest /\ FileOf(toHost'[i]) = FileOf(Next1) /\ dest[FileOf(Next1)] = <<>>
    <3>1. FileOf(Next1) \in Files /\ File(FileOf(Next1))
      BY <1>1, <2>3, TakesShifts DEF TakesDigest, IInv, AboutFiles
    <3>2. ~tree[FileOf(Next1)[1]][FileOf(Next1)[2]].old
      BY <1>1, <2>3, <3>1 DEF ConsentCarries
    <3> QED
      BY <2>3, <3>2 DEF WillConsent
  <2> QED
    BY <1>1, <1>4, <2>1, <2>2, <2>3, AsksMove DEF Action
<1>5. ASSUME answer' # Nothing, answer'.type = "Confirm"
      PROVE  WillConsent(FileOf(answer'))
  <2>1. CASE answer' = answer
    BY <1>1, <1>2, <1>5, <2>1 DEF ConsentCarries
  <2> QED
    BY <1>1, <1>5, <2>1, AnswerMoves DEF WillConsent
<1>6. ASSUME NEW i \in DOMAIN toViewer', toViewer'[i].type = "Block", toViewer'[i].data # <<>>
      PROVE  WillConsent(FileOf(toViewer'[i]))
  <2>1. CASE \E k \in DOMAIN toViewer : toViewer'[i] = toViewer[k]
    BY <1>1, <1>2, <1>6, <2>1 DEF ConsentCarries
  <2>2. CASE \E k \in Pending : FileOf(toViewer'[i]) = FileOf(sendJobs[k])
    BY <1>1, <1>2, <2>2 DEF ConsentCarries, Pending
  <2> QED
    BY <1>1, <1>6, <2>1, <2>2, BlocksArePumped
<1>7. ASSUME NEW x \in Files, File(x), tree[x[1]][x[2]].old
      PROVE  dest'[x] # <<>>
  <2>1. dest[x] # <<>>
    BY <1>1, <1>7 DEF ConsentCarries
  <2>2. CASE TakesBlock
    <3> DEFINE y == <<Next1.id, Next1.file>>
               data == Next1.data
    <3>1. y \in Files /\ data \in Seq(Nat)
      BY <1>1, <2>2, TakesShifts DEF TakesBlock, FileOf, Messages
    <3>2. dest' = dest \/ dest' = [dest EXCEPT ![y] = Written(dest[y], offset[y], data)]
      BY <2>2 DEF TakesBlock
    <3>3. /\ dest \in [Files -> Seq(Nat)] /\ dest[y] \in Seq(Nat) /\ offset[y] \in Nat
          /\ offset[y] <= Len(dest[y])
      BY <1>1, <3>1 DEF TypeOK, IInv, Reached
    <3> HIDE DEF y, data
    <3>4. CASE data = <<>>
      BY <2>1, <3>2, <3>3, <3>4 DEF Written
    <3>5. CASE data # <<>>
      <4>1. Len(data) \in Nat \ {0}
        BY <3>1, <3>5
      <4>2. Written(dest[y], offset[y], data) \in Seq(Nat) /\ Len(Written(dest[y], offset[y], data)) = offset[y] + Len(data)
        BY <3>1, <3>3, <3>5, BlockFits
      <4>3. Written(dest[y], offset[y], data) # <<>>
        BY <3>3, <4>1, <4>2
      <4> QED
        BY <2>1, <3>2, <3>3, <4>3
    <3> QED
      BY <3>4, <3>5
  <2>3. CASE TakesDir
    BY <2>1, <2>3 DEF TakesDir
  <2> QED
    BY <2>1, <2>2, <2>3, WhoWrites
<1> QED
  BY <1>3, <1>4, <1>5, <1>6, <1>7

LEMMA OverwriteStep ==
    ASSUME DownloadAssumption, IInv, Next
    PROVE  OverwriteOnlyWithConsent'
<1>1. /\ TypeOK /\ ConsentCarries /\ OverwriteOnlyWithConsent /\ tree' = tree
      /\ agreed \subseteq agreed' /\ Clashing \subseteq Clashing'
  BY PastStays, AskedStays DEF IInv
<1> SUFFICES ASSUME NEW x \in Files, IsFile(x[1], x[2]), tree[x[1]][x[2]].old,
                    x \notin agreed \cup Clashing
             PROVE  dest'[x] = <<Old>>
  BY <1>1 DEF OverwriteOnlyWithConsent, IsFile, Listed, There
<1>2. dest[x] = <<Old>>
  BY <1>1 DEF OverwriteOnlyWithConsent
<1>3. CASE TakesBlock
  <2> DEFINE y == <<Next1.id, Next1.file>>
             data == Next1.data
  <2>1. /\ y \in Files /\ data \in Seq(Nat) /\ FileOf(toViewer[1]) = y
        /\ 1 \in DOMAIN toViewer /\ toViewer[1].type = "Block" /\ toViewer[1].data = data
    BY <1>1, <1>3, TakesShifts DEF TakesBlock, FileOf, Messages
  <2>2. dest' = dest \/ dest' = [dest EXCEPT ![y] = Written(dest[y], offset[y], data)]
    BY <1>3 DEF TakesBlock
  <2>3. dest \in [Files -> Seq(Nat)]
    BY <1>1 DEF TypeOK
  <2>4. y = x => data = <<>>
    BY <1>1, <2>1 DEF ConsentCarries, Consented
  <2> HIDE DEF y, data
  <2>5. y = x => Written(dest[y], offset[y], data) = dest[x]
    BY <2>4 DEF Written
  <2> QED
    BY <1>2, <2>2, <2>3, <2>5
<1>4. CASE TakesDir
  BY <1>2, <1>4 DEF TakesDir
<1> QED
  BY <1>2, <1>3, <1>4, WhoWrites

LEMMA OneTurnEachStep ==
    ASSUME DownloadAssumption, IInv, Next
    PROVE  OneTurnEach'
<1>1. TypeOK /\ OneTurnEach /\ (answer # Nothing => IsAnswer(answer))
  BY DEF IInv, AskedOnce
<1>2. ASSUME TakesDigest
      PROVE  /\ 1 \in DOMAIN toViewer /\ toViewer[1].type = "Digest" /\ Next1 = toViewer[1]
             /\ \A i \in DOMAIN toViewer' :
                   /\ i + 1 \in DOMAIN toViewer /\ toViewer'[i] = toViewer[i + 1] /\ i + 1 # 1
                   /\ toViewer'[i].type = "Digest" => FileOf(toViewer'[i]) # FileOf(toViewer[1])
  <2>1. /\ 1 \in DOMAIN toViewer /\ toViewer[1].type = "Digest" /\ Next1 = toViewer[1]
        /\ \A i \in DOMAIN toViewer' :
              i + 1 \in DOMAIN toViewer /\ toViewer'[i] = toViewer[i + 1] /\ i \in Nat \ {0}
    BY <1>1, <1>2, TakesShifts DEF TakesDigest
  <2>2. \A i \in DOMAIN toViewer' : i + 1 # 1
    BY <2>1
  <2> QED
    BY <1>1, <2>1, <2>2 DEF OneTurnEach
<1>3. ASSUME NEW i \in DOMAIN toViewer', NEW k \in DOMAIN toViewer',
             toViewer'[i].type = "Digest", toViewer'[k].type = "Digest",
             FileOf(toViewer'[i]) = FileOf(toViewer'[k])
      PROVE  i = k
  <2>1. CASE UNCHANGED <<toViewer, sendJobs>>
    BY <1>1, <1>3, <2>1 DEF OneTurnEach
  <2>2. CASE \E type : Takes(type)
    <3>1. /\ i + 1 \in DOMAIN toViewer /\ toViewer'[i] = toViewer[i + 1] /\ i \in Int
          /\ k + 1 \in DOMAIN toViewer /\ toViewer'[k] = toViewer[k + 1] /\ k \in Int
      BY <1>1, <2>2, TakesShifts
    <3>2. i + 1 = k + 1
      BY <1>1, <1>3, <3>1 DEF OneTurnEach
    <3> QED
      BY <3>1, <3>2
  <2>3. CASE HostSend
    <3>1. \A l \in DOMAIN toViewer' :
             \/ l \in DOMAIN toViewer /\ toViewer'[l] = toViewer[l] /\ toViewer'[l].id # Head(toHost).id
             \/ l \in Fresh(toViewer, toViewer') /\ toViewer'[l].id = Head(toHost).id
      BY <1>1, <2>3, HostSendSays, SendIsFirst DEF Grows, Fresh
    <3>2. toViewer'[i].id = toViewer'[k].id
      BY <1>3 DEF FileOf
    <3>3. CASE i \in DOMAIN toViewer /\ toViewer'[i] = toViewer[i] /\ toViewer'[i].id # Head(toHost).id
      BY <1>1, <1>3, <3>1, <3>2, <3>3 DEF OneTurnEach
    <3>4. CASE i \in Fresh(toViewer, toViewer') /\ toViewer'[i].id = Head(toHost).id
      <4>1. k \in Fresh(toViewer, toViewer')
        BY <3>1, <3>2, <3>4
      <4> QED
        BY <1>1, <1>3, <2>3, <3>4, <4>1, HostSendSays
    <3> QED
      BY <3>1, <3>3, <3>4
  <2>4. CASE Emits
    <3>1. \A l \in DOMAIN toViewer' :
             toViewer'[l].type = "Digest" => l \in DOMAIN toViewer /\ toViewer'[l] = toViewer[l]
      BY <2>4 DEF Emits, Grows, Fresh
    <3> QED
      BY <1>1, <1>3, <3>1 DEF OneTurnEach
  <2> QED
    BY <1>1, <2>1, <2>2, <2>3, <2>4, WhoTells
<1>4. ASSUME NEW i \in DOMAIN toHost', NEW k \in DOMAIN toHost',
             IsAnswer(toHost'[i]), IsAnswer(toHost'[k]), FileOf(toHost'[i]) = FileOf(toHost'[k])
      PROVE  i = k
  <2>1. CASE UNCHANGED <<toHost, answer>>
    BY <1>1, <1>4, <2>1 DEF OneTurnEach
  <2>2. CASE TakesDigest
    <3>1. \A l \in DOMAIN toHost' :
             \/ l \in DOMAIN toHost /\ toHost'[l] = toHost[l]
             \/ l = Len(toHost) + 1 /\ FileOf(toHost'[l]) = FileOf(toViewer[1])
      BY <1>1, <1>2, <2>2, DigestSays DEF Grows, Fresh
    <3>2. \A l \in DOMAIN toHost : IsAnswer(toHost[l]) => FileOf(toHost[l]) # FileOf(toViewer[1])
      BY <1>1, <1>2, <2>2 DEF OneTurnEach
    <3> QED
      BY <1>1, <1>4, <3>1, <3>2 DEF OneTurnEach
  <2>3. CASE Polls
    <3>1. \A l \in DOMAIN toHost' :
             \/ l \in DOMAIN toHost /\ toHost'[l] = toHost[l]
             \/ l \in Fresh(toHost, toHost') /\ (IsAnswer(toHost'[l]) => answer # Nothing /\ toHost'[l] = answer)
      BY <1>1, <2>3, PollsSays DEF Grows, Fresh, IsAnswer, Action
    <3>2. \A l, m \in Fresh(toHost, toHost') : IsAnswer(toHost'[l]) /\ IsAnswer(toHost'[m]) => l = m
      BY <1>1, <2>3, PollsSays
    <3>3. CASE i \in DOMAIN toHost /\ toHost'[i] = toHost[i]
      BY <1>1, <1>4, <3>1, <3>3 DEF OneTurnEach
    <3>4. CASE i \in Fresh(toHost, toHost') /\ answer # Nothing /\ toHost'[i] = answer
      BY <1>1, <1>4, <3>1, <3>2, <3>4 DEF OneTurnEach
    <3> QED
      BY <1>4, <3>1, <3>3, <3>4
  <2>4. CASE \E type : HostTakes(type)
    <3>1. /\ i + 1 \in DOMAIN toHost /\ toHost'[i] = toHost[i + 1] /\ i \in Int
          /\ k + 1 \in DOMAIN toHost /\ toHost'[k] = toHost[k + 1] /\ k \in Int
      BY <1>1, <2>4, HostTakesShifts
    <3>2. i + 1 = k + 1
      BY <1>1, <1>4, <3>1 DEF OneTurnEach
    <3> QED
      BY <3>1, <3>2
  <2> QED
    BY <2>1, <2>2, <2>3, <2>4, WhoAsks
<1>5. ASSUME NEW i \in DOMAIN toViewer', NEW a, IsAnswer(a), toViewer'[i].type = "Digest",
             \/ \E k \in DOMAIN toHost : a = toHost[k]
             \/ answer # Nothing /\ a = answer
             \/ TakesDigest /\ FileOf(a) = FileOf(Next1)
      PROVE  FileOf(toViewer'[i]) # FileOf(a)
  <2>1. CASE TakesDigest /\ FileOf(a) = FileOf(Next1)
    BY <1>2, <1>5, <2>1
  <2>2. CASE (\E k \in DOMAIN toHost : a = toHost[k]) \/ (answer # Nothing /\ a = answer)
    <3>1. CASE \E k \in DOMAIN toViewer : toViewer'[i] = toViewer[k]
      BY <1>1, <1>5, <2>2, <3>1 DEF OneTurnEach
    <3>2. CASE HostSend /\ i \in Fresh(toViewer, toViewer')
      <4>1. toViewer'[i].id = Head(toHost).id
        BY <1>1, <3>2, HostSendSays
      <4>2. a.id # Head(toHost).id
        BY <1>5, <2>2, <3>2, SendIsFirst
      <4> QED
        BY <4>1, <4>2 DEF FileOf
    <3>3. CASE Emits /\ i \in Fresh(toViewer, toViewer')
      BY <1>5, <3>3 DEF Emits
    <3> QED
      BY <1>1, <3>1, <3>2, <3>3, TellsMove
  <2> QED
    BY <1>5, <2>1, <2>2
<1>6. ASSUME NEW i \in DOMAIN toViewer', NEW k \in DOMAIN toHost',
             toViewer'[i].type = "Digest", IsAnswer(toHost'[k])
      PROVE  FileOf(toViewer'[i]) # FileOf(toHost'[k])
  <2>1. \/ \E l \in DOMAIN toHost : toHost'[k] = toHost[l]
        \/ answer # Nothing /\ toHost'[k] = answer
        \/ TakesDigest /\ FileOf(toHost'[k]) = FileOf(Next1)
    BY <1>1, <1>6, AsksMove DEF IsAnswer, Action
  <2> QED
    BY <1>5, <1>6, <2>1
<1>7. ASSUME answer' # Nothing
      PROVE  /\ \A i \in DOMAIN toViewer' : toViewer'[i].type = "Digest" => FileOf(toViewer'[i]) # FileOf(answer')
             /\ \A i \in DOMAIN toHost' : IsAnswer(toHost'[i]) => FileOf(toHost'[i]) # FileOf(answer')
  <2>1. (answer' = answer /\ answer # Nothing) \/ (TakesDigest /\ IsAnswer(answer') /\ FileOf(answer') = FileOf(Next1))
    BY <1>1, <1>7, AnswerMoves
  <2>2. \A i \in DOMAIN toViewer' : toViewer'[i].type = "Digest" => FileOf(toViewer'[i]) # FileOf(answer')
    BY <1>1, <1>5, <2>1
  <2>3. ASSUME NEW i \in DOMAIN toHost', IsAnswer(toHost'[i])
        PROVE  FileOf(toHost'[i]) # FileOf(answer')
    <3>1. CASE TakesDigest
      <4>1. \/ /\ answer' = answer
               /\ \/ i \in DOMAIN toHost /\ toHost'[i] = toHost[i]
                  \/ FileOf(toHost'[i]) = FileOf(Next1)
            \/ toHost' = toHost /\ FileOf(answer') = FileOf(Next1)
        BY <1>1, <3>1, DigestSays DEF Grows, Fresh
      <4> QED
        BY <1>1, <1>2, <1>7, <2>3, <3>1, <4>1 DEF OneTurnEach
    <3>2. CASE ~TakesDigest
      <4>1. ~Polls
        BY <1>7 DEF Polls
      <4>2. answer' = answer /\ \E l \in DOMAIN toHost : toHost'[i] = toHost[l]
        BY <1>1, <1>7, <2>1, <2>3, <3>2, <4>1, AsksMove
      <4> QED
        BY <1>1, <1>7, <2>3, <4>2 DEF OneTurnEach
    <3> QED
      BY <3>1, <3>2
  <2> QED
    BY <2>2, <2>3
<1> QED
  BY <1>3, <1>4, <1>6, <1>7 DEF OneTurnEach, IsAnswer, FileOf

LEMMA EndsOnceStep ==
    ASSUME DownloadAssumption, IInv, Next
    PROVE  EndsOnce'
<1>1. TypeOK /\ EndsOnce
  BY DEF IInv
<1>2. ASSUME NEW k \in DOMAIN sendJobs', NEW i \in DOMAIN toViewer',
             toViewer'[i].type \in {"Done", "Error"}
      PROVE  FileOf(toViewer'[i]) # FileOf(sendJobs'[k])
  <2>1. CASE UNCHANGED <<toViewer, sendJobs>>
    BY <1>1, <1>2, <2>1 DEF EndsOnce, Ending
  <2>2. CASE (\E type : Takes(type)) /\ sendJobs' = sendJobs
    BY <1>1, <1>2, <2>2, TakesShifts DEF EndsOnce, Ending
  <2>3. CASE HostSend
    <3>1. \/ i \in DOMAIN toViewer /\ toViewer'[i] = toViewer[i] /\ toViewer'[i].id # Head(toHost).id
          \/ toViewer'[i].id = Head(toHost).id /\ ~There(Head(toHost).id)
      BY <1>1, <1>2, <2>3, HostSendSays, SendIsFirst DEF Grows, Fresh
    <3>2. \/ /\ k \in DOMAIN sendJobs /\ sendJobs'[k] = sendJobs[k]
             /\ sendJobs'[k].id # Head(toHost).id
          \/ sendJobs'[k].id = Head(toHost).id /\ There(Head(toHost).id)
      <4>1. CASE k \in DOMAIN sendJobs /\ sendJobs'[k] = sendJobs[k]
        BY <2>3, <4>1, SendIsFirst
      <4>2. CASE \E f \in Slots : File(<<Head(toHost).id, f>>) /\ FileOf(sendJobs'[k]) = <<Head(toHost).id, f>>
        <5>1. There(Head(toHost).id)
          BY <1>1, <2>3, <4>2, SendIsFirst, ListsAreShort
        <5> QED
          BY <4>2, <5>1 DEF FileOf
      <4> QED
        BY <1>1, <2>3, <4>1, <4>2, NewJobs
    <3>3. CASE toViewer'[i].id = sendJobs'[k].id
      BY <1>1, <1>2, <3>1, <3>2, <3>3 DEF EndsOnce, Ending
    <3> QED
      BY <3>3 DEF FileOf
  <2>4. CASE Emits
    <3>1. k \in DOMAIN sendJobs /\ FileOf(sendJobs'[k]) = FileOf(sendJobs[k])
      BY <2>4 DEF Emits
    <3>2. CASE i \in DOMAIN toViewer /\ toViewer'[i] = toViewer[i]
      BY <1>1, <1>2, <3>1, <3>2 DEF EndsOnce, Ending
    <3>3. CASE \E l \in DOMAIN sendJobs :
                  FileOf(toViewer'[i]) = FileOf(sendJobs[l]) /\ l \notin DOMAIN sendJobs'
      BY <1>1, <3>1, <3>3, OneJobPerFile
    <3> QED
      BY <1>2, <2>4, <3>2, <3>3 DEF Emits, Grows, Fresh
  <2> QED
    BY <1>1, <2>1, <2>2, <2>3, <2>4, WhoTells
<1>3. ASSUME NEW i \in DOMAIN toViewer', NEW k \in DOMAIN toViewer',
             toViewer'[i].type \in {"Done", "Error"}, toViewer'[k].type \in {"Done", "Error"},
             FileOf(toViewer'[i]) = FileOf(toViewer'[k])
      PROVE  i = k
  <2>0. \A l, m \in DOMAIN toViewer :
           toViewer[l].type \in {"Done", "Error"} /\ toViewer[m].type \in {"Done", "Error"}
           /\ FileOf(toViewer[l]) = FileOf(toViewer[m]) => l = m
    BY <1>1 DEF EndsOnce, Ending
  <2>1. CASE UNCHANGED <<toViewer, sendJobs>>
    BY <1>3, <2>0, <2>1
  <2>2. CASE \E type : Takes(type)
    <3>1. /\ i + 1 \in DOMAIN toViewer /\ toViewer'[i] = toViewer[i + 1] /\ i \in Int
          /\ k + 1 \in DOMAIN toViewer /\ toViewer'[k] = toViewer[k + 1] /\ k \in Int
      BY <1>1, <2>2, TakesShifts
    <3>2. i + 1 = k + 1
      BY <1>3, <2>0, <3>1
    <3> QED
      BY <3>1, <3>2
  <2>3. CASE HostSend
    <3>1. \A l \in DOMAIN toViewer' :
             \/ l \in DOMAIN toViewer /\ toViewer'[l] = toViewer[l] /\ toViewer'[l].id # Head(toHost).id
             \/ l \in Fresh(toViewer, toViewer') /\ toViewer'[l].id = Head(toHost).id
      BY <1>1, <2>3, HostSendSays, SendIsFirst DEF Grows, Fresh
    <3>2. toViewer'[i].id = toViewer'[k].id
      BY <1>3 DEF FileOf
    <3>3. CASE toViewer'[i].id # Head(toHost).id
      BY <1>3, <2>0, <3>1, <3>2, <3>3
    <3>4. CASE toViewer'[i].id = Head(toHost).id
      <4>1. i \in Fresh(toViewer, toViewer') /\ k \in Fresh(toViewer, toViewer')
        BY <3>1, <3>2, <3>4
      <4>2. toViewer'[i].type = "Error"
        BY <1>1, <1>3, <2>3, <4>1, HostSendSays
      <4> QED
        BY <1>1, <2>3, <4>1, <4>2, HostSendSays
    <3> QED
      BY <3>3, <3>4
  <2>4. CASE Emits
    <3>1. \A l \in DOMAIN toViewer' :
             \/ l \in DOMAIN toViewer /\ toViewer'[l] = toViewer[l]
             \/ /\ l \in Fresh(toViewer, toViewer')
                /\ \E m \in DOMAIN sendJobs : FileOf(toViewer'[l]) = FileOf(sendJobs[m])
      BY <2>4 DEF Emits, Grows, Fresh
    <3>2. \A l \in DOMAIN toViewer, m \in DOMAIN sendJobs :
             toViewer[l].type \in {"Done", "Error"} => FileOf(toViewer[l]) # FileOf(sendJobs[m])
      BY <1>1 DEF EndsOnce, Ending
    <3>3. CASE i \in DOMAIN toViewer /\ toViewer'[i] = toViewer[i]
      BY <1>3, <2>0, <3>1, <3>2, <3>3
    <3>4. CASE k \in DOMAIN toViewer /\ toViewer'[k] = toViewer[k]
      BY <1>3, <2>0, <3>1, <3>2, <3>4
    <3>5. CASE i \in Fresh(toViewer, toViewer') /\ k \in Fresh(toViewer, toViewer')
      BY <1>3, <2>4, <3>5 DEF Emits
    <3> QED
      BY <3>1, <3>3, <3>4, <3>5
  <2> QED
    BY <1>1, <2>1, <2>2, <2>3, <2>4, WhoTells
<1> QED
  BY <1>2, <1>3 DEF EndsOnce, Ending, FileOf

LEMMA FreshIsLater ==
    ASSUME TypeOK, toViewer' \in Seq(Messages),
           NEW i \in DOMAIN toViewer, NEW k \in Fresh(toViewer, toViewer')
    PROVE  i < k
<1>1. toViewer \in Seq(Messages) /\ k \in DOMAIN toViewer' /\ k \notin DOMAIN toViewer
  BY DEF TypeOK, Fresh
<1> QED
  BY <1>1

LEMMA ListsComeFirstStep ==
    ASSUME DownloadAssumption, IInv, TypeOK', Next
    PROVE  ListsComeFirst'
<1>1. TypeOK /\ ListsComeFirst /\ toViewer' \in Seq(Messages)
  BY DEF IInv, TypeOK
<1> SUFFICES ASSUME NEW i \in DOMAIN toViewer', toViewer'[i].type = "Dir"
             PROVE  /\ \A k \in DOMAIN toViewer' : toViewer'[k].id = toViewer'[i].id => i <= k
                    /\ \A f \in Slots : offset'[<<toViewer'[i].id, f>>] = 0
  BY DEF ListsComeFirst
<1> DEFINE j == toViewer'[i].id
<1>2. i \in Nat /\ DOMAIN toViewer' \subseteq Nat /\ j \in Jobs
  <2>1. toViewer'[i] \in Messages
    BY <1>1
  <2> QED
    BY <1>1, <2>1 DEF Messages
<1>3. CASE \E type : Takes(type)
  <2>1. /\ 1 \in DOMAIN toViewer /\ Next1 = toViewer[1]
        /\ \A k \in DOMAIN toViewer' : k + 1 \in DOMAIN toViewer /\ toViewer'[k] = toViewer[k + 1]
    BY <1>1, <1>3, TakesShifts
  <2>2. \A k \in DOMAIN toViewer : toViewer[k].id = j => i + 1 <= k
    BY <1>1, <2>1 DEF ListsComeFirst
  <2>3. \A k \in DOMAIN toViewer' : toViewer'[k].id = j => i + 1 <= k + 1
    BY <2>1, <2>2
  <2>4. Next1.id # j
    <3>1. ~(i + 1 <= 1)
      BY <1>1, <1>3, TakesShifts
    <3> QED
      BY <2>1, <2>2, <3>1
  <2>5. \A f \in Slots : offset[<<j, f>>] = 0
    BY <1>1, <2>1 DEF ListsComeFirst
  <2>6. ASSUME NEW f \in Slots
        PROVE  offset'[<<j, f>>] = offset[<<j, f>>]
    <3>1. <<j, f>> \in Files /\ offset \in [Files -> Nat] /\ <<j, f>>[1] = j
      BY <1>1, <1>2 DEF Files, TypeOK
    <3> HIDE DEF j
    <3>2. CASE TakesDir
      BY <2>4, <3>1, <3>2 DEF TakesDir
    <3>3. CASE TakesBlock
      <4>1. <<Next1.id, Next1.file>> # <<j, f>>
        BY <2>4
      <4> QED
        BY <3>1, <3>3, <4>1 DEF TakesBlock
    <3> QED
      BY <3>2, <3>3, WhoWrites
  <2>7. \A k \in DOMAIN toViewer' : toViewer'[k].id = j => i <= k
    BY <1>2, <2>3
  <2> QED
    BY <2>5, <2>6, <2>7
<1>4. CASE ~\E type : Takes(type)
  <2>1. offset' = offset
    BY <1>4, WhoWrites DEF TakesDir, TakesBlock
  <2>2. CASE UNCHANGED <<toViewer, sendJobs>>
    BY <1>1, <2>1, <2>2 DEF ListsComeFirst
  <2>3. CASE HostSend
    <3>1. \A k \in DOMAIN toViewer' :
             \/ k \in DOMAIN toViewer /\ toViewer'[k] = toViewer[k] /\ toViewer'[k].id # Head(toHost).id
             \/ k \in Fresh(toViewer, toViewer') /\ toViewer'[k].id = Head(toHost).id
      BY <1>1, <2>3, HostSendSays, SendIsFirst DEF Grows, Fresh
    <3>2. CASE i \in DOMAIN toViewer /\ toViewer'[i] = toViewer[i] /\ j # Head(toHost).id
      BY <1>1, <2>1, <3>1, <3>2 DEF ListsComeFirst
    <3>3. CASE i \in Fresh(toViewer, toViewer') /\ j = Head(toHost).id
      <4>1. \A k \in DOMAIN toViewer' : toViewer'[k].id = j => i <= k
        BY <1>1, <2>3, <3>1, <3>3, HostSendSays
      <4>2. \A f \in Slots : offset[<<j, f>>] = 0
        BY <2>3, <3>3, SendIsFirst
      <4> QED
        BY <2>1, <4>1, <4>2
    <3> QED
      BY <3>1, <3>2, <3>3
  <2>4. CASE Emits
    <3>1. \A k \in DOMAIN toViewer' :
             (k \in DOMAIN toViewer /\ toViewer'[k] = toViewer[k]) \/ k \in Fresh(toViewer, toViewer')
      BY <2>4 DEF Emits, Grows, Fresh
    <3>2. i \in DOMAIN toViewer /\ toViewer'[i] = toViewer[i]
      BY <2>4, <3>1 DEF Emits
    <3>3. \A k \in Fresh(toViewer, toViewer') : i <= k
      <4>1. \A k \in Fresh(toViewer, toViewer') : i < k /\ k \in Nat
        BY <1>1, <1>2, <3>2, FreshIsLater DEF Fresh
      <4> QED
        BY <1>2, <4>1
    <3> QED
      BY <1>1, <2>1, <3>1, <3>2, <3>3 DEF ListsComeFirst
  <2> QED
    BY <1>1, <1>4, <2>2, <2>3, <2>4, WhoTells
<1> QED
  BY <1>3, <1>4

\* A file is open that was not before when the host has just made its job.
LEMMA OpensMove ==
    ASSUME DownloadAssumption, IInv, Next, NEW x \in Files, OpenFile(x)'
    PROVE  \/ OpenFile(x)
           \/ HostSend /\ x[1] = Head(toHost).id /\ (There(x[1]) => File(x))
<1>1. TypeOK
  BY DEF IInv
<1>2. CASE \E k \in DOMAIN sendJobs' : FileOf(sendJobs'[k]) = x
  <2>1. PICK k \in DOMAIN sendJobs' : FileOf(sendJobs'[k]) = x
    BY <1>2
  <2>2. CASE k \in DOMAIN sendJobs /\ FileOf(sendJobs'[k]) = FileOf(sendJobs[k])
    BY <2>1, <2>2 DEF OpenFile, HasJob
  <2>3. CASE HostSend /\ \E f \in Slots : /\ File(<<Head(toHost).id, f>>)
                                         /\ FileOf(sendJobs'[k]) = <<Head(toHost).id, f>>
    BY <2>1, <2>3
  <2> QED
    BY <1>1, <2>2, <2>3, JobsMove
<1>3. CASE \E i \in DOMAIN toViewer' : toViewer'[i].type \in {"Done", "Error"} /\ FileOf(toViewer'[i]) = x
  <2>1. PICK i \in DOMAIN toViewer' : toViewer'[i].type \in {"Done", "Error"} /\ FileOf(toViewer'[i]) = x
    BY <1>3
  <2>2. CASE \E k \in DOMAIN toViewer : toViewer'[i] = toViewer[k]
    BY <2>1, <2>2 DEF OpenFile, Ending
  <2>3. CASE HostSend /\ i \in Fresh(toViewer, toViewer')
    <3>1. toViewer'[i].id = Head(toHost).id /\ ~There(Head(toHost).id)
      BY <1>1, <2>1, <2>3, HostSendSays
    <3> QED
      BY <2>1, <2>3, <3>1 DEF FileOf
  <2>4. CASE Emits /\ i \in Fresh(toViewer, toViewer')
    BY <2>1, <2>4 DEF Emits, OpenFile, HasJob
  <2> QED
    BY <1>1, <2>2, <2>3, <2>4, TellsMove
<1> QED
  BY <1>2, <1>3 DEF OpenFile, HasJob, Ending, FileOf

LEMMA OpenIsFinite ==
    ASSUME DownloadAssumption
    PROVE  \A j : IsFiniteSet(Open(j)) /\ Cardinality(Open(j)) \in Nat
<1>1. IsFiniteSet(Slots)
  BY FS_Interval DEF Slots, DownloadAssumption
<1>2. \A S \in SUBSET Slots : IsFiniteSet(S) /\ Cardinality(S) \in Nat
  BY <1>1, FS_Subset, FS_CardinalityType
<1> QED
  BY <1>2 DEF Open

\* What the end of a file takes away from the open files of its job.
LEMMA EndIsTaken ==
    ASSUME DownloadAssumption, IInv, Next, Takes("Done"),
           NEW j, j = Next1.id, NEW f, f = Next1.file
    PROVE  /\ j \in Jobs /\ There(j) /\ f \in Open(j)
           /\ Open(j)' \subseteq Open(j) \ {f}
<1>0. TypeOK /\ EndsOnce /\ AboutFiles
  BY DEF IInv
<1>1. /\ 1 \in DOMAIN toViewer /\ Next1 = toViewer[1] /\ toViewer[1].type = "Done"
      /\ j \in Jobs /\ f \in Slots /\ FileOf(toViewer[1]) = <<j, f>> /\ <<j, f>> \in Files
      /\ sendJobs' = sendJobs
      /\ \A i \in DOMAIN toViewer' :
            i + 1 \in DOMAIN toViewer /\ toViewer'[i] = toViewer[i + 1] /\ i \in Nat \ {0}
  <2>1. /\ 1 \in DOMAIN toViewer /\ Next1 = toViewer[1] /\ toViewer[1].type = "Done"
        /\ j \in Jobs /\ f \in Slots /\ toViewer' \in Seq(Messages)
        /\ \A i \in DOMAIN toViewer' : i + 1 \in DOMAIN toViewer /\ toViewer'[i] = toViewer[i + 1]
    BY <1>0, TakesShifts
  <2>2. FileOf(toViewer[1]) = <<j, f>> /\ <<j, f>> \in Files
    BY <2>1 DEF FileOf, Files
  <2>3. sendJobs' = sendJobs
    BY DEF Takes, hostVars
  <2>4. \A i \in DOMAIN toViewer' : i \in Nat \ {0}
    BY <2>1
  <2> QED
    BY <2>1, <2>2, <2>3, <2>4
<1>2. There(j) /\ f \in Open(j)
  <2>1. File(<<j, f>>)
    BY <1>0, <1>1 DEF AboutFiles
  <2>2. Ending(1, <<j, f>>)
    BY <1>1 DEF Ending
  <2> QED
    BY <1>0, <1>1, <2>1, <2>2, ListsAreShort DEF Open, OpenFile
<1>3. ~OpenFile(<<j, f>>)'
  <2>1. ~\E k \in DOMAIN sendJobs : FileOf(sendJobs[k]) = <<j, f>>
    BY <1>0, <1>1 DEF EndsOnce, Ending
  <2>2. ASSUME NEW i \in DOMAIN toViewer', toViewer'[i].type \in {"Done", "Error"},
               FileOf(toViewer'[i]) = <<j, f>>
        PROVE  FALSE
    <3>1. i + 1 = 1
      BY <1>0, <1>1, <2>2 DEF EndsOnce, Ending
    <3> QED
      BY <1>1, <2>2, <3>1
  <2> QED
    BY <1>1, <2>1, <2>2 DEF OpenFile, HasJob, Ending, FileOf
<1>4. ~HostSend
  BY <1>0, <1>1 DEF HostSend, HostTakes, Takes, tickVars, TypeOK
<1>5. ASSUME NEW g \in Slots, OpenFile(<<j, g>>)'
      PROVE  g \in Open(j) \ {f}
  <2>1. g # f
    BY <1>3, <1>5
  <2>2. <<j, g>> \in Files
    BY <1>1 DEF Files
  <2>3. OpenFile(<<j, g>>)
    BY <1>4, <1>5, <2>2, OpensMove
  <2> QED
    BY <2>1, <2>3 DEF Open
<1>6. {g \in Slots : OpenFile(<<j, g>>)'} \subseteq Open(j) \ {f}
  BY <1>5
<1> QED
  BY <1>1, <1>2, <1>6 DEF Open

LEMMA EndsAreCountedStep ==
    ASSUME DownloadAssumption, IInv, Next
    PROVE  EndsAreCounted'
<1>1. TypeOK /\ EndsAreCounted /\ tree' = tree
  BY PastStays DEF IInv
<1> SUFFICES ASSUME NEW j \in Jobs, There(j)
             PROVE  doneCount'[j] + Cardinality(Open(j)') <= Len(tree[j])
  BY <1>1 DEF EndsAreCounted, There
<1>2. /\ doneCount[j] \in Nat /\ Cardinality(Open(j)) \in Nat /\ IsFiniteSet(Open(j))
      /\ doneCount[j] + Cardinality(Open(j)) <= Len(tree[j])
      /\ tree[j] \in Seq(Entries) /\ Len(tree[j]) \in Nat /\ Listed(j) = 1 .. Len(tree[j])
  BY <1>1, OpenIsFinite, ListsAreShort DEF EndsAreCounted, TypeOK
<1> DEFINE after == Open(j)'
<1>3. \A f \in after : f \in Slots /\ <<j, f>> \in Files /\ OpenFile(<<j, f>>)'
  BY DEF Open, Files
<1>4. CASE HostSend /\ j = Head(toHost).id
  <2>1. doneCount[j] = 0 /\ doneCount' = doneCount
    BY <1>4, SendIsFirst DEF HostSend, HostTakes, jobVars
  <2>2. \A f \in Slots : ~OpenFile(<<j, f>>)
    BY <1>4, SendIsFirst DEF OpenFile, HasJob, Ending, FileOf
  <2>3. ASSUME NEW f \in after
        PROVE  f \in 1 .. Len(tree[j])
    <3>1. File(<<j, f>>)
      BY <1>3, <2>2, <2>3, OpensMove
    <3> QED
      BY <1>2, <3>1 DEF File, IsFile
  <2>4. Cardinality(after) <= Len(tree[j]) /\ Cardinality(after) \in Nat
    <3>1. IsFiniteSet(1 .. Len(tree[j])) /\ Cardinality(1 .. Len(tree[j])) = Len(tree[j])
      <4> DEFINE n == Len(tree[j])
      <4>1. n \in Nat
        BY <1>2
      <4> HIDE DEF n
      <4>2. IsFiniteSet(1 .. n) /\ Cardinality(1 .. n) = IF 1 > n THEN 0 ELSE n - 1 + 1
        BY <4>1, FS_Interval
      <4>3. IsFiniteSet(1 .. n) /\ Cardinality(1 .. n) = n
        BY <4>1, <4>2
      <4> QED
        BY <4>3 DEF n
    <3>2. after \in SUBSET (1 .. Len(tree[j]))
      BY <2>3
    <3> HIDE DEF after
    <3> QED
      BY <3>1, <3>2, FS_Subset, FS_CardinalityType
  <2> QED
    BY <1>2, <2>1, <2>4
<1>5. CASE ~(HostSend /\ j = Head(toHost).id)
  <2>1. after \subseteq Open(j)
    <3>1. ASSUME NEW f \in after
          PROVE  f \in Open(j)
      <4>1. OpenFile(<<j, f>>)
        BY <1>3, <1>5, <3>1, OpensMove
      <4> QED
        BY <1>3, <3>1, <4>1 DEF Open
    <3> QED
      BY <3>1
  <2>2. CASE TakesDone /\ j = Next1.id
    <3>1. Next1.file \in Open(j) /\ after \subseteq Open(j) \ {Next1.file}
      <4> SUFFICES ASSUME NEW f, f = Next1.file
                   PROVE  f \in Open(j) /\ after \subseteq Open(j) \ {f}
        OBVIOUS
      <4> QED
        BY <2>2, EndIsTaken DEF TakesDone
    <3>2. doneCount'[j] \in {doneCount[j], doneCount[j] + 1}
      BY <1>1, <2>2 DEF TakesDone, TypeOK
    <3> HIDE DEF after
    <3>3. /\ IsFiniteSet(Open(j) \ {Next1.file})
          /\ Cardinality(Open(j) \ {Next1.file}) = Cardinality(Open(j)) - 1
      BY <1>2, <3>1, FS_RemoveElement
    <3>4. Cardinality(after) <= Cardinality(Open(j)) - 1 /\ Cardinality(after) \in Nat
      <4>1. after \in SUBSET (Open(j) \ {Next1.file})
        BY <3>1
      <4> QED
        BY <3>3, <4>1, FS_Subset, FS_CardinalityType
    <3> QED
      BY <1>2, <3>2, <3>4 DEF after
  <2>3. CASE ~(TakesDone /\ j = Next1.id)
    <3>1. doneCount'[j] = doneCount[j]
      BY <1>1, <2>3, WhoWrites DEF TakesDone, TypeOK
    <3> HIDE DEF after
    <3>2. Cardinality(after) <= Cardinality(Open(j)) /\ Cardinality(after) \in Nat
      <4>1. after \in SUBSET Open(j)
        BY <2>1
      <4> QED
        BY <1>2, <4>1, FS_Subset, FS_CardinalityType
    <3> QED
      BY <1>2, <3>1, <3>2 DEF after
  <2> QED
    BY <2>2, <2>3
<1> QED
  BY <1>4, <1>5

-----------------------------------------------------------------------------
(* The blocks of a sound file.                                                 *)

\* The host hears of a job by the request for it, and in no other way.
LEMMA AheadStays ==
    ASSUME DownloadAssumption, IInv, Next, NEW j \in Jobs, Ahead(j),
           ~(HostSend /\ j = Head(toHost).id)
    PROVE  Ahead(j)'
<1>1. TypeOK /\ (answer # Nothing => IsAnswer(answer))
  BY DEF IInv, AskedOnce
<1>2. CASE ~Asked(j)
  <2>1. CASE Polls /\ ui[j] = "queued"
    <3>1. \E i \in DOMAIN toHost' : toHost'[i].type = "Send" /\ toHost'[i].id = j
      BY <1>1, <2>1, PollsSays
    <3> QED
      BY <3>1 DEF Ahead
  <2>2. CASE \E i \in Jobs : Cancels(i)
    BY <1>1, <1>2, <2>2 DEF Cancels, Asked, Ahead, TypeOK
  <2>3. CASE TakesError
    <3>1. Next1.id # j /\ Next1.id \in Jobs
      BY <1>1, <2>3, TakesShifts DEF TakesError, IInv, NothingAhead
    <3> QED
      BY <1>1, <1>2, <2>3, <3>1 DEF TakesError, Asked, Ahead, TypeOK
  <2> QED
    BY <1>1, <1>2, <2>1, <2>2, <2>3, WindowMoves DEF Asked, Ahead
<1>3. CASE \E i \in DOMAIN toHost : toHost[i].type = "Send" /\ toHost[i].id = j
  <2>1. PICK i \in DOMAIN toHost : toHost[i].type = "Send" /\ toHost[i].id = j
    BY <1>3
  <2>2. CASE Grows(toHost, toHost')
    BY <2>1, <2>2 DEF Grows, Ahead
  <2>3. CASE HostTurn /\ \E type : HostTakes(type)
    <3>1. i # 1
      <4>1. Head(toHost) = toHost[1]
        BY <1>1, <2>3, HostTakesShifts
      <4>2. Head(toHost).type = "Send" => HostSend
        BY <2>3 DEF HostTurn, HostConfirm, HostSkip, HostCancel, HostTakes
      <4> QED
        BY <2>1, <4>1, <4>2
    <3>2. i - 1 \in DOMAIN toHost' /\ toHost'[i - 1] = toHost[i]
      BY <1>1, <2>1, <2>3, <3>1, HostTakesShifts
    <3> QED
      BY <2>1, <3>2 DEF Ahead
  <2>4. toHost' = toHost => Grows(toHost, toHost')
    BY DEF Grows
  <2> QED
    BY <1>1, <2>2, <2>3, <2>4, WhoAsks, DigestSays, PollsSays
<1> QED
  BY <1>2, <1>3 DEF Ahead

\* A response is taken in the five ways in which the viewer takes one.
LEMMA WhoTakes ==
    ASSUME TypeOK, Next, NEW type, Takes(type)
    PROVE  TakesDir \/ TakesDigest \/ TakesBlock \/ TakesDone \/ TakesError
<1>1. drained' # drained /\ drained' # Len(toViewer)
  BY DEF Takes, TypeOK
<1>2. ~\E j \in Jobs : Asks(j) \/ Cancels(j)
  BY <1>1 DEF Asks, Cancels, tickVars
<1>3. ~Tick /\ ~Polls
  BY <1>1 DEF Tick, Polls
<1>4. ~HostTurn
  BY <1>1 DEF HostTurn, HostSend, HostConfirm, HostSkip, HostCancel, HostTakes, tickVars
<1>5. ~HostPumps /\ ~\E k \in DOMAIN sendJobs : SourceShrinks(k)
  BY <1>1 DEF HostPumps, SourceShrinks, tickVars
<1> QED
  BY <1>2, <1>3, <1>4, <1>5 DEF Next, ViewerStep

\* A file is sound from the moment the host makes its job.
LEMMA SoundMoves ==
    ASSUME DownloadAssumption, IInv, Next, NEW x \in Files, Sound(x)'
    PROVE  /\ File(x) /\ x \notin skipped' \cup unwritten' \cup Clashing' /\ ui'[x[1]] = "active"
           /\ x \notin skipped \cup unwritten \cup Clashing
           /\ Sound(x) \/ (HostSend /\ x[1] = Head(toHost).id)
           /\ \A i \in DOMAIN toViewer' : toViewer'[i].type = "Error" => FileOf(toViewer'[i]) # x
<1>1. TypeOK /\ x[1] \in Jobs
  BY DEF IInv, Files
<1>2. /\ tree' = tree /\ skipped \subseteq skipped' /\ unwritten \subseteq unwritten'
      /\ Clashing \subseteq Clashing'
  BY <1>1, PastStays, AskedStays
<1>3. /\ File(x) /\ x \notin skipped' \cup unwritten' \cup Clashing' /\ ui'[x[1]] = "active"
      /\ ~Ahead(x[1])'
      /\ \A i \in DOMAIN toViewer' : toViewer'[i].type = "Error" => FileOf(toViewer'[i]) # x
  BY <1>2 DEF Sound, File, IsFile, Listed, There, FileOf
<1>4. ~Ahead(x[1]) \/ (HostSend /\ x[1] = Head(toHost).id)
  BY <1>1, <1>3, AheadStays
<1>5. SUFFICES ASSUME ~Ahead(x[1])
               PROVE  Sound(x)
  BY <1>2, <1>3, <1>4
<1>6. ui[x[1]] = "active"
  BY <1>1, <1>3, <1>5, WindowMoves DEF Ahead, Asked
<1>7. ASSUME NEW i \in DOMAIN toViewer, toViewer[i].type = "Error", FileOf(toViewer[i]) = x
      PROVE  FALSE
  <2>1. CASE Grows(toViewer, toViewer')
    BY <1>3, <1>7, <2>1 DEF Grows
  <2>2. CASE \E type : Takes(type)
    <3>1. PICK type : Takes(type)
      BY <2>2
    <3>2. CASE i = 1
      <4>1. Next1.type = "Error" /\ FileOf(Next1) = x /\ Next1.id \in Jobs
        BY <1>1, <1>7, <3>1, <3>2, TakesShifts
      <4>2. TakesError
        BY <1>1, <3>1, <4>1, WhoTakes DEF Takes, TakesDir, TakesDigest, TakesBlock, TakesDone
      <4>3. ui'[x[1]] = "failed"
        BY <1>1, <4>1, <4>2 DEF TakesError, TypeOK, FileOf
      <4> QED
        BY <1>3, <4>3
    <3>3. CASE i # 1
      BY <1>1, <1>3, <1>7, <3>1, <3>3, TakesShifts
    <3> QED
      BY <3>2, <3>3
  <2>3. toViewer' = toViewer => Grows(toViewer, toViewer')
    BY DEF Grows
  <2> QED
    BY <1>1, <2>1, <2>2, <2>3, WhoTells, HostSendSays DEF Emits
<1> QED
  BY <1>2, <1>3, <1>5, <1>6, <1>7 DEF Sound
LEMMA JobOf ==
    ASSUME TypeOK, NEW x \in Files
    PROVE  /\ HasJob(x) <=> \E k \in DOMAIN sendJobs : FileOf(sendJobs[k]) = x
           /\ \A k \in DOMAIN sendJobs : FileOf(sendJobs[k]) = x =>
                 k = Key(x[1], x[2]) /\ SentOf(x) = sendJobs[k].offset
           /\ ~HasJob(x) => SentOf(x) = Size(x)
<1>1. ASSUME NEW k \in DOMAIN sendJobs, FileOf(sendJobs[k]) = x
      PROVE  k = Key(x[1], x[2]) /\ SentOf(x) = sendJobs[k].offset
  <2>1. k = Key(sendJobs[k].id, sendJobs[k].file)
    BY JobsAreTyped
  <2>2. x[1] = sendJobs[k].id /\ x[2] = sendJobs[k].file
    BY <1>1 DEF FileOf
  <2> QED
    BY <1>1, <2>1, <2>2 DEF SentOf, HasJob
<1> QED
  BY <1>1 DEF HasJob, SentOf

LEMMA NextJobOf ==
    ASSUME TypeOK', NEW x \in Files
    PROVE  /\ HasJob(x)' <=> \E k \in DOMAIN sendJobs' : FileOf(sendJobs'[k]) = x
           /\ \A k \in DOMAIN sendJobs' : FileOf(sendJobs'[k]) = x =>
                 k = Key(x[1], x[2]) /\ SentOf(x)' = sendJobs'[k].offset
           /\ ~HasJob(x)' => SentOf(x)' = Size(x)'
<1>1. ASSUME NEW k \in DOMAIN sendJobs', FileOf(sendJobs'[k]) = x
      PROVE  k = Key(x[1], x[2]) /\ SentOf(x)' = sendJobs'[k].offset
  <2>1. k = Key(sendJobs'[k].id, sendJobs'[k].file)
    BY NextJobsTyped
  <2>2. x[1] = sendJobs'[k].id /\ x[2] = sendJobs'[k].file
    BY <1>1 DEF FileOf
  <2> QED
    BY <1>1, <2>1, <2>2 DEF SentOf, HasJob, FileOf
<1> QED
  BY <1>1 DEF HasJob, SentOf, FileOf

LEMMA SentIsTyped ==
    ASSUME DownloadAssumption, TypeOK, AboutFiles, NEW x \in Files, File(x)
    PROVE  SentOf(x) \in Nat /\ Size(x) \in Nat /\ SentOf(x) <= Size(x)
<1>1. Size(x) \in Nat
  <2>1. x[1] \in Jobs /\ x[2] \in Slots /\ x = <<x[1], x[2]>>
    BY DEF Files
  <2> QED
    BY <2>1, ListsAreShort
<1>2. CASE HasJob(x)
  <2>1. PICK k \in DOMAIN sendJobs : FileOf(sendJobs[k]) = x
    BY <1>2 DEF HasJob
  <2> QED
    BY <1>1, <2>1, JobOf, JobsAreTyped DEF AboutFiles
<1> QED
  BY <1>1, <1>2, JobOf

\* Whatever does not touch a file leaves its blocks as they were.
LEMMA FlowStays ==
    ASSUME TypeOK, TypeOK', NEW x \in Files, Flow(x),
           Grows(toViewer, toViewer'),
           \A i \in Fresh(toViewer, toViewer') :
               toViewer'[i].type \in {"Block", "Done", "Error"} => FileOf(toViewer'[i]) # x,
           UNCHANGED <<tree, offset, dest>>,
           \A k \in DOMAIN sendJobs : FileOf(sendJobs[k]) = x =>
               /\ k \in DOMAIN sendJobs' /\ FileOf(sendJobs'[k]) = x
               /\ sendJobs'[k].offset = sendJobs[k].offset,
           \A k \in DOMAIN sendJobs' : FileOf(sendJobs'[k]) = x =>
               k \in DOMAIN sendJobs /\ FileOf(sendJobs[k]) = x
    PROVE  Flow(x)'
<1>1. (HasJob(x)' <=> HasJob(x)) /\ SentOf(x)' = SentOf(x)
  <2>1. HasJob(x)' <=> HasJob(x)
    BY JobOf, NextJobOf
  <2>2. CASE HasJob(x)
    BY <2>2, JobOf, NextJobOf
  <2>3. CASE ~HasJob(x)
    <3>1. Size(x)' = Size(x)
      BY DEF Size
    <3> QED
      BY <2>1, <2>3, <3>1, JobOf, NextJobOf
  <2> QED
    BY <2>1, <2>2, <2>3
<1>2. /\ \A i \in DOMAIN toViewer : i \in DOMAIN toViewer' /\ toViewer'[i] = toViewer[i]
      /\ \A i \in DOMAIN toViewer' : Carries(i, x)' \/ Ending(i, x)' => i \in DOMAIN toViewer
  BY DEF Grows, Fresh, Carries, Ending, FileOf
<1>3. \A i \in DOMAIN toViewer : (Carries(i, x)' <=> Carries(i, x)) /\ (Ending(i, x)' <=> Ending(i, x))
  BY <1>2 DEF Carries, Ending, FileOf
<1>4. OpenFile(x)' <=> OpenFile(x)
  BY <1>1, <1>2, <1>3 DEF OpenFile
<1> QED
  BY <1>1, <1>2, <1>3, <1>4 DEF Flow

\* The list of a new job: nothing has been sent of its files.
LEMMA FlowBegins ==
    ASSUME DownloadAssumption, IInv, TypeOK', HostSend,
           NEW x \in Files, File(x), x[1] = Head(toHost).id
    PROVE  Flow(x)'
<1>1. TypeOK /\ x[1] \in Jobs /\ x[2] \in Slots /\ x = <<x[1], x[2]>>
  BY DEF IInv, Files
<1>2. offset'[x] = 0
  <2>1. offset[<<x[1], x[2]>>] = 0
    BY <1>1, SendIsFirst
  <2> QED
    BY <1>1, <2>1 DEF HostSend, HostTakes, jobVars
<1>3. HasJob(x)' /\ SentOf(x)' = 0
  <2> DEFINE k == Key(x[1], x[2])
  <2>1. /\ k \in DOMAIN sendJobs'
        /\ sendJobs'[k] = [id |-> x[1], file |-> x[2], offset |-> 0, confirmed |-> FALSE]
    <3>1. File(<<x[1], x[2]>>)
      BY <1>1
    <3> QED
      BY <1>1, <3>1, HostSendFiles
  <2>2. FileOf(sendJobs'[k]) = x /\ sendJobs'[k].offset = 0
    BY <1>1, <2>1 DEF FileOf
  <2> HIDE DEF k
  <2> QED
    BY <2>1, <2>2, NextJobOf
<1>4. \A i \in DOMAIN toViewer' : ~Carries(i, x)'
  <2>1. ASSUME NEW i \in DOMAIN toViewer', toViewer'[i].type = "Block", FileOf(toViewer'[i]) = x
        PROVE  FALSE
    <3>1. CASE i \in DOMAIN toViewer /\ toViewer'[i] = toViewer[i]
      BY <2>1, <3>1, SendIsFirst DEF FileOf
    <3>2. CASE i \in Fresh(toViewer, toViewer')
      BY <1>1, <2>1, <3>2, HostSendSays
    <3> QED
      BY <1>1, <3>1, <3>2, HostSendSays DEF Grows, Fresh
  <2> QED
    BY <2>1 DEF Carries, FileOf
<1> QED
  BY <1>2, <1>3, <1>4 DEF Flow

\* What is said about one confirmed file: its next block, or that it is done.
LEMMA FlowPumped ==
    ASSUME DownloadAssumption, IInv, TypeOK', Next, HostPumps, NEW x \in Files, File(x), Flow(x),
           \A i \in DOMAIN toViewer' : toViewer'[i].type = "Error" => FileOf(toViewer'[i]) # x,
           NEW k \in Pending, FileOf(sendJobs[k]) = x
    PROVE  Flow(x)'
<1>1. TypeOK /\ AboutFiles /\ EndsOnce /\ tree' = tree /\ offset' = offset /\ dest' = dest
  BY PastStays DEF IInv, HostPumps, jobVars
<1>2. /\ k \in DOMAIN sendJobs /\ HasJob(x) /\ SentOf(x) = sendJobs[k].offset
      /\ SentOf(x) \in Nat /\ SentOf(x) <= Size(x) /\ offset[x] \in Nat /\ Size(x) \in Nat
      /\ Size(x)' = Size(x)
  <2>1. k \in DOMAIN sendJobs
    BY DEF Pending
  <2> QED
    BY <1>1, <2>1, JobOf, SentIsTyped DEF TypeOK, Size
<1>3. PICK e \in Fresh(toViewer, toViewer') : FileOf(toViewer'[e]) = x
  BY <1>1, HostPumpsSay
<1>4. /\ e \in DOMAIN toViewer' /\ e \notin DOMAIN toViewer
      /\ toViewer' \in Seq(Messages) /\ Grows(toViewer, toViewer')
      /\ \A i \in Fresh(toViewer, toViewer') : FileOf(toViewer'[i]) = x => i = e
  BY <1>1, <1>3, HostPumpsSay DEF Fresh
<1>5. \/ toViewer'[e].type = "Done" /\ Whole(k) /\ k \notin DOMAIN sendJobs'
      \/ /\ toViewer'[e].type = "Block" /\ toViewer'[e].data = Block(k)
         /\ k \in DOMAIN sendJobs'
         /\ sendJobs'[k] = [sendJobs[k] EXCEPT !.offset = @ + Len(Block(k))]
  <2>1. PICK l \in Pending :
           /\ FileOf(toViewer'[e]) = FileOf(sendJobs[l])
           /\ \/ toViewer'[e].type = "Done" /\ Whole(l) /\ l \notin DOMAIN sendJobs'
              \/ toViewer'[e].type = "Error" /\ l \notin DOMAIN sendJobs'
              \/ /\ toViewer'[e].type = "Block" /\ toViewer'[e].data = Block(l)
                 /\ ~Whole(l) /\ l \in DOMAIN sendJobs'
                 /\ sendJobs'[l] = [sendJobs[l] EXCEPT !.offset = @ + Len(Block(l))]
    BY <1>1, <1>3, HostPumpsSay
  <2>2. l = k
    <3>1. l \in DOMAIN sendJobs
      BY DEF Pending
    <3> QED
      BY <1>1, <1>2, <1>3, <2>1, <3>1, OneJobPerFile
  <2> QED
    BY <1>3, <1>4, <2>1, <2>2
<1>6. /\ \A i \in DOMAIN toViewer : i \in DOMAIN toViewer' /\ toViewer'[i] = toViewer[i] /\ i < e
      /\ \A i \in DOMAIN toViewer' : Carries(i, x)' \/ Ending(i, x)' => i \in DOMAIN toViewer \/ i = e
      /\ \A i \in DOMAIN toViewer : (Carries(i, x)' <=> Carries(i, x)) /\ ~Ending(i, x)'
  <2>1. \A i \in DOMAIN toViewer : i \in DOMAIN toViewer' /\ toViewer'[i] = toViewer[i] /\ i < e
    BY <1>1, <1>3, <1>4, FreshIsLater DEF Grows
  <2>2. \A i \in DOMAIN toViewer' : FileOf(toViewer'[i]) = x => i \in DOMAIN toViewer \/ i = e
    BY <1>4 DEF Fresh
  <2>3. \A i \in DOMAIN toViewer : ~Ending(i, x)
    BY <1>1, <1>2 DEF EndsOnce
  <2> QED
    BY <2>1, <2>2, <2>3 DEF Carries, Ending, FileOf
<1>7. \A i \in DOMAIN toViewer : toViewer'[i].data = toViewer[i].data
  BY <1>6
<1>8. CASE toViewer'[e].type = "Done" /\ Whole(k) /\ k \notin DOMAIN sendJobs'
  <2>1. SentOf(x) = Size(x)
    <3>1. sendJobs[k].offset >= Size(x)
      BY <1>8 DEF Whole, Job, Size, FileOf
    <3> QED
      BY <1>2, <3>1
  <2>2. ~HasJob(x)'
    <3>1. \A l \in DOMAIN sendJobs' : FileOf(sendJobs'[l]) = x => l = Key(x[1], x[2])
      BY NextJobOf
    <3>2. k = Key(x[1], x[2])
      BY <1>1, <1>2, JobOf
    <3> QED
      BY <1>8, <3>1, <3>2 DEF HasJob, FileOf
  <2>3. SentOf(x)' = SentOf(x)
    BY <1>2, <2>1, <2>2, NextJobOf
  <2>4. Ending(e, x)' /\ ~Carries(e, x)'
    BY <1>3, <1>8 DEF Ending, Carries, FileOf
  <2>5. OpenFile(x)'
    BY <1>4, <2>4 DEF OpenFile
  <2>6. \A i \in DOMAIN toViewer' : Carries(i, x)' => i \in DOMAIN toViewer /\ Carries(i, x)
    BY <1>6, <2>4
  <2>7. \A i \in DOMAIN toViewer' : Ending(i, x)' => i = e
    BY <1>6
  <2> QED
    BY <1>1, <1>6, <1>7, <2>3, <2>5, <2>6, <2>7 DEF Flow
<1>9. CASE /\ toViewer'[e].type = "Block" /\ toViewer'[e].data = Block(k)
           /\ k \in DOMAIN sendJobs'
           /\ sendJobs'[k] = [sendJobs[k] EXCEPT !.offset = @ + Len(Block(k))]
  <2>1. FileOf(sendJobs'[k]) = x /\ sendJobs'[k].offset = SentOf(x) + Len(Block(k))
    BY <1>1, <1>2, <1>9, JobsAreTyped DEF FileOf
  <2>2. HasJob(x)' /\ SentOf(x)' = SentOf(x) + Len(Block(k))
    BY <1>9, <2>1, NextJobOf
  <2>3. OpenFile(x)' /\ \A i \in DOMAIN toViewer' : ~Ending(i, x)'
    BY <1>6, <1>9, <2>2 DEF OpenFile, Ending
  <2>4. CASE Block(k) = <<>>
    <3>1. ~Carries(e, x)' /\ SentOf(x)' = SentOf(x)
      BY <1>2, <1>9, <2>2, <2>4 DEF Carries
    <3>2. \A i \in DOMAIN toViewer' : Carries(i, x)' => i \in DOMAIN toViewer /\ Carries(i, x)
      BY <1>6, <3>1
    <3> QED
      BY <1>1, <1>6, <1>7, <2>3, <3>1, <3>2 DEF Flow
  <2>5. CASE Block(k) = <<SentOf(x) + 1>>
    <3>1. Carries(e, x)' /\ toViewer'[e].data = <<SentOf(x) + 1>> /\ SentOf(x)' = SentOf(x) + 1
      <4>1. Len(Block(k)) = 1 /\ Block(k) # <<>>
        BY <1>2, <2>5
      <4> QED
        BY <1>3, <1>9, <2>2, <2>5, <4>1 DEF Carries, FileOf
    <3> DEFINE s == SentOf(x)
               o == offset[x]
    <3>2. /\ \A i \in DOMAIN toViewer : Carries(i, x) => \E d \in o + 1 .. s : toViewer[i].data = <<d>>
          /\ \A d \in o + 1 .. s : \E i \in DOMAIN toViewer : Carries(i, x) /\ toViewer[i].data = <<d>>
          /\ o <= s /\ s \in Nat /\ o \in Nat
      BY <1>2 DEF Flow
    <3> HIDE DEF s, o
    <3>3. offset'[x] = o /\ SentOf(x)' = s + 1 /\ toViewer'[e].data = <<s + 1>>
      BY <1>1, <3>1 DEF s, o
    <3>4. \A i \in DOMAIN toViewer' : Carries(i, x)' =>
             \E d \in o + 1 .. s + 1 : toViewer'[i].data = <<d>>
      <4> SUFFICES ASSUME NEW i \in DOMAIN toViewer', Carries(i, x)'
                   PROVE  \E d \in o + 1 .. s + 1 : toViewer'[i].data = <<d>>
        OBVIOUS
      <4>1. CASE i = e
        <5>1. s + 1 \in o + 1 .. s + 1
          BY <3>2
        <5> QED
          BY <3>3, <4>1, <5>1
      <4>2. CASE i \in DOMAIN toViewer
        <5>1. PICK d \in o + 1 .. s : toViewer[i].data = <<d>>
          BY <1>6, <3>2, <4>2
        <5>2. d \in o + 1 .. s + 1
          BY <3>2
        <5> QED
          BY <1>7, <4>2, <5>1, <5>2
      <4> QED
        BY <1>6, <4>1, <4>2
    <3>5. \A d \in o + 1 .. s + 1 : \E i \in DOMAIN toViewer' :
             Carries(i, x)' /\ toViewer'[i].data = <<d>>
      <4> SUFFICES ASSUME NEW d \in o + 1 .. s + 1
                   PROVE  \E i \in DOMAIN toViewer' : Carries(i, x)' /\ toViewer'[i].data = <<d>>
        OBVIOUS
      <4>1. CASE d = s + 1
        BY <1>4, <3>1, <3>3, <4>1
      <4>2. CASE d \in o + 1 .. s
        BY <1>6, <1>7, <3>2, <4>2
      <4> QED
        BY <3>2, <4>1, <4>2
    <3>6. \A i, l \in DOMAIN toViewer' : Carries(i, x)' /\ Carries(l, x)' /\ i < l =>
             toViewer'[i].data[1] < toViewer'[l].data[1]
      <4> SUFFICES ASSUME NEW i \in DOMAIN toViewer', NEW l \in DOMAIN toViewer',
                          Carries(i, x)', Carries(l, x)', i < l
                   PROVE  toViewer'[i].data[1] < toViewer'[l].data[1]
        OBVIOUS
      <4>1. CASE i \in DOMAIN toViewer /\ l \in DOMAIN toViewer
        BY <1>6, <1>7, <4>1 DEF Flow
      <4>2. CASE i \in DOMAIN toViewer /\ l = e
        <5>1. PICK d \in o + 1 .. s : toViewer[i].data = <<d>>
          BY <1>6, <3>2, <4>2
        <5>2. toViewer'[i].data[1] = d /\ toViewer'[l].data[1] = s + 1
          BY <1>7, <3>3, <4>2, <5>1
        <5> QED
          BY <3>2, <5>2
      <4>3. i # e
        <5>1. i \in Nat /\ l \in Nat /\ e \in Nat
          BY <1>4
        <5>2. l < e \/ l = e
          BY <1>6
        <5> QED
          BY <5>1, <5>2
      <4> QED
        BY <1>6, <4>1, <4>2, <4>3
    <3>7. offset'[x] > 0 => dest'[x] = [i \in 1 .. offset'[x] |-> i]
      BY <1>1 DEF Flow
    <3>8. o <= s + 1
      BY <3>2
    <3> QED
      BY <2>3, <3>3, <3>4, <3>5, <3>6, <3>7, <3>8 DEF Flow
  <2> QED
    BY <1>2, <2>4, <2>5 DEF Block, Job
<1> QED
  BY <1>5, <1>8, <1>9

LEMMA OneBlockMore ==
    ASSUME NEW s \in Seq(Nat), NEW n \in Nat, n <= Len(s), n > 0 => s = [i \in 1 .. n |-> i]
    PROVE  SubSeq(s, 1, n) \o <<n + 1>> = [i \in 1 .. n + 1 |-> i]
<1> DEFINE t == SubSeq(s, 1, n)
<1>1. t \in Seq(Nat) /\ Len(t) = n
  OBVIOUS
<1>2. \A i \in 1 .. n : t[i] = i
  BY <1>1
<1> HIDE DEF t
<1>3. <<n + 1>> \in Seq(Nat)
  OBVIOUS
<1>4. /\ t \o <<n + 1>> \in Seq(Nat) /\ Len(t \o <<n + 1>>) = n + 1
      /\ \A i \in 1 .. n : (t \o <<n + 1>>)[i] = t[i]
      /\ (t \o <<n + 1>>)[n + 1] = n + 1
  BY <1>1, <1>3
<1>5. \A i \in 1 .. n + 1 : (t \o <<n + 1>>)[i] = i
  BY <1>2, <1>4
<1>6. DOMAIN (t \o <<n + 1>>) = 1 .. n + 1
  BY <1>4
<1>7. t \o <<n + 1>> = [i \in 1 .. n + 1 |-> (t \o <<n + 1>>)[i]]
  BY <1>4, <1>6
<1> QED
  BY <1>5, <1>7 DEF t

\* The response taken carries nothing of the file.
LEMMA FlowPassed ==
    ASSUME TypeOK, TypeOK', NEW x \in Files, Flow(x), NEW type, Takes(type),
           ~Carries(1, x), offset'[x] = offset[x], dest'[x] = dest[x], tree' = tree
    PROVE  Flow(x)'
<1>1. /\ \A i \in DOMAIN toViewer' :
            i + 1 \in DOMAIN toViewer /\ toViewer'[i] = toViewer[i + 1] /\ i \in Nat
      /\ \A i \in DOMAIN toViewer : i # 1 => i - 1 \in DOMAIN toViewer' /\ toViewer'[i - 1] = toViewer[i]
      /\ sendJobs' = sendJobs
  <2>1. \A i \in DOMAIN toViewer' : i \in Nat
    BY TakesShifts
  <2> QED
    BY <2>1, TakesShifts DEF Takes, hostVars
<1>2. (HasJob(x)' <=> HasJob(x)) /\ SentOf(x)' = SentOf(x)
  BY <1>1 DEF HasJob, SentOf, FileOf, Size
<1>3. \A i \in DOMAIN toViewer' :
         (Carries(i, x)' <=> Carries(i + 1, x)) /\ (Ending(i, x)' <=> Ending(i + 1, x))
  BY <1>1 DEF Carries, Ending, FileOf
<1>4. ASSUME NEW d \in offset[x] + 1 .. SentOf(x)
      PROVE  \E i \in DOMAIN toViewer' : Carries(i, x)' /\ toViewer'[i].data = <<d>>
  <2>1. PICK i \in DOMAIN toViewer : Carries(i, x) /\ toViewer[i].data = <<d>>
    BY <1>4 DEF Flow
  <2>2. i # 1 /\ i \in Int
    BY <2>1 DEF TypeOK
  <2>3. i - 1 \in DOMAIN toViewer' /\ toViewer'[i - 1] = toViewer[i] /\ (i - 1) + 1 = i
    BY <1>1, <2>2
  <2> QED
    BY <1>3, <2>1, <2>3
<1>5. ASSUME ~OpenFile(x)', NEW i \in DOMAIN toViewer', Carries(i, x)'
      PROVE  FALSE
  <2>1. Carries(i + 1, x) /\ i + 1 \in DOMAIN toViewer /\ ~(i + 1 < 1)
    BY <1>1, <1>3, <1>5
  <2>2. PICK l \in DOMAIN toViewer : Ending(l, x)
    BY <1>2, <1>5, <2>1 DEF OpenFile, Flow
  <2>3. l # 1
    BY <2>1, <2>2 DEF Flow
  <2>4. l - 1 \in DOMAIN toViewer' /\ (l - 1) + 1 = l
    <3>1. toViewer \in Seq(Messages)
      BY DEF TypeOK
    <3>2. l \in Int
      BY <3>1
    <3> QED
      BY <1>1, <2>3, <3>2
  <2> QED
    BY <1>3, <1>5, <2>2, <2>4 DEF OpenFile
<1>6. \A i \in DOMAIN toViewer' : Carries(i, x)' =>
         \E d \in offset[x] + 1 .. SentOf(x) : toViewer'[i].data = <<d>>
  BY <1>1, <1>3 DEF Flow
<1>7. \A i, k \in DOMAIN toViewer' : Carries(i, x)' /\ Carries(k, x)' /\ i < k =>
         toViewer'[i].data[1] < toViewer'[k].data[1]
  <2> SUFFICES ASSUME NEW i \in DOMAIN toViewer', NEW k \in DOMAIN toViewer',
                      Carries(i, x)', Carries(k, x)', i < k
               PROVE  toViewer'[i].data[1] < toViewer'[k].data[1]
    OBVIOUS
  <2>1. /\ i + 1 \in DOMAIN toViewer /\ k + 1 \in DOMAIN toViewer /\ i + 1 < k + 1
        /\ Carries(i + 1, x) /\ Carries(k + 1, x)
    BY <1>1, <1>3
  <2>2. toViewer[i + 1].data[1] < toViewer[k + 1].data[1]
    BY <2>1 DEF Flow
  <2> QED
    BY <1>1, <2>2
<1>8. \A i, k \in DOMAIN toViewer' : Ending(i, x)' /\ Carries(k, x)' => k < i
  <2> SUFFICES ASSUME NEW i \in DOMAIN toViewer', NEW k \in DOMAIN toViewer', Ending(i, x)', Carries(k, x)'
               PROVE  k < i
    OBVIOUS
  <2>1. k + 1 < i + 1
    <3>1. i + 1 \in DOMAIN toViewer /\ k + 1 \in DOMAIN toViewer /\ Ending(i + 1, x) /\ Carries(k + 1, x)
      BY <1>1, <1>3
    <3> QED
      BY <3>1 DEF Flow
  <2> QED
    BY <1>1, <2>1
<1> QED
  BY <1>2, <1>4, <1>5, <1>6, <1>7, <1>8 DEF Flow

\* The block taken is the one the viewer has come to, and it is written there.
LEMMA FlowWritten ==
    ASSUME DownloadAssumption, TypeOK, Reached, AboutFiles, TypeOK', tree' = tree,
           NEW x \in Files, File(x), Flow(x), Carries(1, x),
           TakesBlock, x[1] \in known, x \notin unwritten'
    PROVE  Flow(x)'
<1> DEFINE o == offset[x]
           s == SentOf(x)
<1>1. /\ 1 \in DOMAIN toViewer /\ Next1 = toViewer[1]
      /\ \A i \in DOMAIN toViewer' :
            i + 1 \in DOMAIN toViewer /\ toViewer'[i] = toViewer[i + 1] /\ i \in Nat \ {0}
      /\ \A i \in DOMAIN toViewer : i # 1 => i - 1 \in DOMAIN toViewer' /\ toViewer'[i - 1] = toViewer[i]
      /\ sendJobs' = sendJobs
      /\ DOMAIN toViewer \subseteq Nat \ {0}
  <2>1. \A i \in DOMAIN toViewer' : i \in Nat \ {0}
    BY TakesShifts DEF TakesBlock
  <2>2. DOMAIN toViewer \subseteq Nat \ {0}
    <3>1. toViewer \in Seq(Messages)
      BY DEF TypeOK
    <3> QED
      BY <3>1
  <2> QED
    BY <2>1, <2>2, TakesShifts DEF TakesBlock, Takes, hostVars
<1>2. (HasJob(x)' <=> HasJob(x)) /\ SentOf(x)' = s
  BY <1>1 DEF HasJob, SentOf, FileOf, Size
<1>3. /\ \A i \in DOMAIN toViewer' :
            (Carries(i, x)' <=> Carries(i + 1, x)) /\ (Ending(i, x)' <=> Ending(i + 1, x))
      /\ ~Ending(1, x)
  BY <1>1 DEF Carries, Ending, FileOf
<1>4. /\ o \in Nat /\ s \in Nat /\ o <= Len(dest[x]) /\ dest[x] \in Seq(Nat)
      /\ o > 0 => dest[x] = [i \in 1 .. o |-> i]
  BY SentIsTyped DEF TypeOK, Reached, Flow
<1>5. Next1.data = <<o + 1>> /\ o + 1 <= s
  <2>1. PICK d \in o + 1 .. s : toViewer[1].data = <<d>>
    BY <1>1 DEF Flow
  <2>2. PICK i \in DOMAIN toViewer : Carries(i, x) /\ toViewer[i].data = <<o + 1>>
    <3>1. o + 1 \in o + 1 .. s
      BY <1>4, <2>1
    <3> QED
      BY <3>1 DEF Flow
  <2>3. CASE i # 1
    <3>1. 1 < i
      BY <1>1, <2>2, <2>3
    <3>2. toViewer[1].data[1] < toViewer[i].data[1]
      BY <1>1, <2>2, <3>1 DEF Flow
    <3>3. d < o + 1
      BY <2>1, <2>2, <3>2
    <3> QED
      BY <1>4, <3>3
  <2> QED
    BY <1>1, <1>4, <2>1, <2>2, <2>3
<1>6. offset'[x] = o + 1 /\ dest'[x] = [i \in 1 .. o + 1 |-> i]
  <2>1. <<Next1.id, Next1.file>> = x /\ Next1.id \in known
    BY <1>1 DEF Carries, FileOf
  <2>2. dest'[x] = Written(dest[x], offset[x], Next1.data) /\ offset'[x] = offset[x] + Len(Next1.data)
    <3>1. unwritten' # unwritten \cup {<<Next1.id, Next1.file>>}
      BY <2>1
    <3>2. /\ dest' = [dest EXCEPT ![x] = Written(@, offset[x], Next1.data)]
          /\ offset' = [offset EXCEPT ![x] = @ + Len(Next1.data)]
      BY <2>1, <3>1 DEF TakesBlock
    <3> QED
      BY <3>2 DEF TypeOK
  <2>3. Len(<<o + 1>>) = 1 /\ <<o + 1>> # <<>>
    OBVIOUS
  <2>4. dest'[x] = SubSeq(dest[x], 1, o) \o <<o + 1>> /\ offset'[x] = o + 1
    BY <1>5, <2>2, <2>3 DEF Written
  <2> QED
    BY <1>4, <2>4, OneBlockMore
<1> HIDE DEF o, s
<1>7. ASSUME NEW i \in DOMAIN toViewer', Carries(i, x)'
      PROVE  \E d \in o + 2 .. s : toViewer'[i].data = <<d>>
  <2>1. Carries(i + 1, x) /\ i + 1 \in DOMAIN toViewer /\ 1 < i + 1 /\ toViewer'[i] = toViewer[i + 1]
    BY <1>1, <1>3, <1>7
  <2>2. PICK d \in o + 1 .. s : toViewer[i + 1].data = <<d>>
    BY <2>1 DEF Flow, o, s
  <2>3. toViewer[1].data[1] < toViewer[i + 1].data[1]
    BY <1>1, <2>1 DEF Flow
  <2>4. o + 1 < d
    BY <1>1, <1>5, <2>2, <2>3
  <2> QED
    BY <1>4, <2>1, <2>2, <2>4
<1>8. ASSUME NEW d \in o + 2 .. s
      PROVE  \E i \in DOMAIN toViewer' : Carries(i, x)' /\ toViewer'[i].data = <<d>>
  <2>1. d \in o + 1 .. s /\ d # o + 1
    BY <1>4
  <2>2. PICK i \in DOMAIN toViewer : Carries(i, x) /\ toViewer[i].data = <<d>>
    BY <2>1 DEF Flow, o, s
  <2>3. i # 1
    BY <1>1, <1>5, <2>1, <2>2
  <2>4. i - 1 \in DOMAIN toViewer' /\ toViewer'[i - 1] = toViewer[i] /\ (i - 1) + 1 = i
    BY <1>1, <2>3
  <2> QED
    BY <1>3, <2>2, <2>4
<1>9. \A i, k \in DOMAIN toViewer' : Carries(i, x)' /\ Carries(k, x)' /\ i < k =>
         toViewer'[i].data[1] < toViewer'[k].data[1]
  <2> SUFFICES ASSUME NEW i \in DOMAIN toViewer', NEW k \in DOMAIN toViewer',
                      Carries(i, x)', Carries(k, x)', i < k
               PROVE  toViewer'[i].data[1] < toViewer'[k].data[1]
    OBVIOUS
  <2>1. /\ i + 1 \in DOMAIN toViewer /\ k + 1 \in DOMAIN toViewer /\ i + 1 < k + 1
        /\ Carries(i + 1, x) /\ Carries(k + 1, x)
    BY <1>1, <1>3
  <2>2. toViewer[i + 1].data[1] < toViewer[k + 1].data[1]
    BY <2>1 DEF Flow
  <2> QED
    BY <1>1, <2>2
<1>10. \A i, k \in DOMAIN toViewer' : Ending(i, x)' /\ Carries(k, x)' => k < i
  <2> SUFFICES ASSUME NEW i \in DOMAIN toViewer', NEW k \in DOMAIN toViewer', Ending(i, x)', Carries(k, x)'
               PROVE  k < i
    OBVIOUS
  <2>1. k + 1 < i + 1
    <3>1. i + 1 \in DOMAIN toViewer /\ k + 1 \in DOMAIN toViewer /\ Ending(i + 1, x) /\ Carries(k + 1, x)
      BY <1>1, <1>3
    <3> QED
      BY <3>1 DEF Flow
  <2> QED
    BY <1>1, <2>1
<1>11. OpenFile(x)'
  <2>1. OpenFile(x)
    BY <1>1 DEF Flow
  <2>2. ASSUME NEW l \in DOMAIN toViewer, Ending(l, x)
        PROVE  OpenFile(x)'
    <3>1. l # 1
      BY <1>3, <2>2
    <3>2. l - 1 \in DOMAIN toViewer' /\ (l - 1) + 1 = l
      BY <1>1, <3>1
    <3> QED
      BY <1>3, <2>2, <3>2 DEF OpenFile
  <2> QED
    BY <1>2, <2>1, <2>2 DEF OpenFile
<1>12. (o + 1) + 1 = o + 2
  BY <1>4
<1> QED
  BY <1>2, <1>5, <1>6, <1>7, <1>8, <1>9, <1>10, <1>11, <1>12 DEF Flow

\* Only the pump sends blocks.
LEMMA BlocksAreNew ==
    ASSUME TypeOK, HostSkip \/ HostCancel, NEW i \in Fresh(toViewer, toViewer')
    PROVE  toViewer'[i].type # "Block"
<1>1. toViewer \in Seq(Messages) /\ i \in DOMAIN toViewer' /\ i \notin DOMAIN toViewer
  BY DEF TypeOK, Fresh
<1>2. HostSkip
  BY <1>1 DEF HostCancel
<1>3. PICK j, f : toViewer' = Append(toViewer, Response("Done", j, f, <<>>))
  BY <1>1, <1>2 DEF HostSkip
<1>4. i = Len(toViewer) + 1
  BY <1>1, <1>3
<1>5. toViewer'[i] = Response("Done", j, f, <<>>)
  BY <1>1, <1>3, <1>4
<1> QED
  BY <1>5 DEF Response

LEMMA WhoElse ==
    ASSUME TypeOK, Next, ~\E type : Takes(type)
    PROVE  \/ UNCHANGED <<toViewer, sendJobs>>
           \/ HostSend
           \/ HostConfirm
           \/ HostSkip \/ HostCancel
           \/ HostPumps
           \/ \E k \in DOMAIN sendJobs : SourceShrinks(k)
<1>1. CASE \E j \in Jobs : Asks(j) \/ Cancels(j)
  BY <1>1 DEF Asks, Cancels, hostVars
<1>2. CASE Tick \/ Polls
  BY <1>2 DEF Tick, Polls, hostVars
<1>3. ~(TakesDir \/ TakesDigest \/ TakesBlock \/ TakesDone \/ TakesError)
  BY DEF TakesDir, TakesDigest, TakesBlock, TakesDone, TakesError
<1> QED
  BY <1>1, <1>2, <1>3 DEF Next, ViewerStep, HostTurn

\* From the moment its job is made to its end, a sound file arrives in order.
LEMMA BlocksFlowStep ==
    ASSUME DownloadAssumption, IInv, TypeOK', Next
    PROVE  BlocksFlow'
<1>1. /\ TypeOK /\ Reached /\ AboutFiles /\ EndsOnce /\ HeldBack /\ WindowAgrees /\ SkipsAreChosen
      /\ ListsComeFirst /\ BlocksFlow /\ OneTurnEach
      /\ tree' = tree
  BY PastStays DEF IInv
<1> SUFFICES ASSUME NEW x \in Files, Sound(x)'
             PROVE  Flow(x)'
  BY DEF BlocksFlow
<1>2. /\ File(x) /\ x \notin skipped' \cup unwritten' \cup Clashing' /\ ui'[x[1]] = "active"
      /\ x \notin skipped \cup unwritten \cup Clashing
      /\ Sound(x) \/ (HostSend /\ x[1] = Head(toHost).id)
      /\ \A i \in DOMAIN toViewer' : toViewer'[i].type = "Error" => FileOf(toViewer'[i]) # x
  BY SoundMoves
<1>3. x[1] \in Jobs /\ x[2] \in Slots /\ x = <<x[1], x[2]>>
  BY DEF Files
<1>4. CASE HostSend /\ x[1] = Head(toHost).id
  BY <1>2, <1>4, FlowBegins
<1>5. CASE ~(HostSend /\ x[1] = Head(toHost).id)
  <2>1. Sound(x) /\ Flow(x) /\ ui[x[1]] = "active" /\ x[1] \in known
    <3>1. Sound(x)
      BY <1>2, <1>5
    <3>2. ui[x[1]] = "active"
      BY <3>1 DEF Sound
    <3> QED
      BY <1>1, <1>3, <3>1, <3>2 DEF BlocksFlow, WindowAgrees
  <2>2. CASE \E type : Takes(type)
    <3>1. PICK type : Takes(type)
      BY <2>2
    <3>2. /\ Next1 = toViewer[1] /\ 1 \in DOMAIN toViewer /\ Next1.type = type
          /\ Next1.id \in Jobs /\ FileOf(Next1) \in Files
      BY <1>1, <3>1, TakesShifts
    <3>3. CASE TakesBlock
      <4>1. type = "Block"
        BY <3>2, <3>3 DEF TakesBlock, Takes
      <4>2. CASE Carries(1, x)
        BY <1>1, <1>2, <2>1, <3>3, <4>2, FlowWritten
      <4>3. CASE ~Carries(1, x)
        <5>1. offset'[x] = offset[x] /\ dest'[x] = dest[x]
          <6>1. CASE FileOf(Next1) = x
            <7>1. Next1.data = <<>> /\ Len(Next1.data) = 0
              BY <3>2, <4>1, <4>3, <6>1 DEF Carries
            <7> DEFINE y == <<Next1.id, Next1.file>>
            <7>2. \/ UNCHANGED <<dest, offset>>
                  \/ /\ dest' = [dest EXCEPT ![y] = dest[y]]
                     /\ offset' = [offset EXCEPT ![y] = offset[y] + 0]
              BY <3>3, <7>1 DEF TakesBlock, Written
            <7>3. dest \in [Files -> Seq(Nat)] /\ offset \in [Files -> Nat]
              BY <1>1 DEF TypeOK
            <7>4. offset[x] + 0 = offset[x]
              BY <7>3
            <7> QED
              BY <7>2, <7>3, <7>4
          <6>2. CASE FileOf(Next1) # x
            <7> DEFINE y == <<Next1.id, Next1.file>>
            <7>1. \/ UNCHANGED <<dest, offset>>
                  \/ /\ dest' = [dest EXCEPT ![y] = Written(@, offset[y], Next1.data)]
                     /\ offset' = [offset EXCEPT ![y] = @ + Len(Next1.data)]
              BY <3>3 DEF TakesBlock
            <7>2. dest \in [Files -> Seq(Nat)] /\ offset \in [Files -> Nat] /\ y # x
              BY <1>1, <6>2 DEF TypeOK, FileOf
            <7> HIDE DEF y
            <7> QED
              BY <7>1, <7>2
          <6> QED
            BY <6>1, <6>2
        <5> QED
          BY <1>1, <2>1, <3>1, <4>3, <5>1, FlowPassed
      <4> QED
        BY <4>2, <4>3
    <3>4. CASE TakesDir
      <4>1. type = "Dir"
        BY <3>2, <3>4 DEF TakesDir, Takes
      <4>2. offset'[x] = offset[x] /\ dest'[x] = dest[x]
        <5>1. x[1] = Next1.id => offset[<<x[1], x[2]>>] = 0
          BY <1>1, <1>3, <3>2, <4>1 DEF ListsComeFirst
        <5> QED
          BY <1>3, <3>4, <5>1 DEF TakesDir
      <4>3. ~Carries(1, x)
        BY <3>2, <4>1 DEF Carries
      <4> QED
        BY <1>1, <2>1, <3>1, <4>2, <4>3, FlowPassed
    <3>5. CASE ~TakesBlock /\ ~TakesDir
      <4>1. offset'[x] = offset[x] /\ dest'[x] = dest[x]
        BY <3>5, WhoWrites
      <4>2. TakesDigest \/ TakesDone \/ TakesError
        BY <1>1, <3>1, <3>5, WhoTakes
      <4>3. ~Carries(1, x)
        BY <3>2, <4>2 DEF Carries, TakesDigest, TakesDone, TakesError, Takes
      <4> QED
        BY <1>1, <2>1, <3>1, <4>1, <4>3, FlowPassed
    <3> QED
      BY <3>3, <3>4, <3>5
  <2>3. CASE ~\E type : Takes(type)
    <3>1. offset' = offset /\ dest' = dest
      BY <2>3, WhoWrites DEF TakesDir, TakesBlock
    <3>2. CASE UNCHANGED <<toViewer, sendJobs>>
      BY <1>1, <2>1, <3>1, <3>2, FlowStays DEF Grows, Fresh
    <3>3. CASE HostSend
      <4>1. Head(toHost).id # x[1] /\ Head(toHost).id \in Jobs /\ Asked(Head(toHost).id)
        BY <1>5, <3>3, SendIsFirst
      <4>2. ASSUME NEW k \in DOMAIN sendJobs, FileOf(sendJobs[k]) = x
            PROVE  k \in DOMAIN sendJobs' /\ sendJobs'[k] = sendJobs[k]
        <5>1. k = Key(x[1], x[2]) /\ k \in DOMAIN sendJobs'
          BY <1>1, <3>3, <4>2, JobOf, HostSendFiles
        <5>2. ASSUME NEW f \in Slots, File(<<Head(toHost).id, f>>), k = Key(Head(toHost).id, f)
              PROVE  FALSE
          <6> DEFINE y == <<Head(toHost).id, f>>
          <6>1. y \in Files /\ y # x /\ y[1] = Head(toHost).id /\ y[2] = f
            BY <1>3, <4>1 DEF Files
          <6>2. ui[y[1]] # "none" /\ ui[x[1]] # "none"
            BY <2>1, <4>1, <6>1 DEF Asked
          <6>3. File(y) /\ Key(x[1], x[2]) = Key(y[1], y[2])
            BY <5>1, <5>2, <6>1
          <6> HIDE DEF y
          <6> QED
            BY <1>2, <6>1, <6>2, <6>3, Clash
        <5> QED
          BY <1>1, <3>3, <5>1, <5>2, HostSendFiles
      <4>3. \A k \in DOMAIN sendJobs' : FileOf(sendJobs'[k]) = x =>
               k \in DOMAIN sendJobs /\ FileOf(sendJobs[k]) = x
        <5>1. \A f : <<Head(toHost).id, f>> # x
          BY <4>1
        <5>2. ASSUME NEW k \in DOMAIN sendJobs', FileOf(sendJobs'[k]) = x
              PROVE  k \in DOMAIN sendJobs /\ sendJobs'[k] = sendJobs[k]
          BY <1>1, <3>3, <5>1, <5>2, NewJobs
        <5> QED
          BY <5>2
      <4>4. Grows(toViewer, toViewer')
            /\ \A i \in Fresh(toViewer, toViewer') : FileOf(toViewer'[i]) # x
        BY <1>1, <3>3, <4>1, HostSendSays DEF FileOf
      <4> QED
        BY <1>1, <2>1, <3>1, <4>2, <4>3, <4>4, FlowStays
    <3>4. CASE HostPumps
      <4>1. CASE \E k \in Pending : FileOf(sendJobs[k]) = x
        BY <1>2, <2>1, <3>4, <4>1, FlowPumped
      <4>2. CASE ~\E k \in Pending : FileOf(sendJobs[k]) = x
        <5>1. Grows(toViewer, toViewer')
              /\ \A i \in Fresh(toViewer, toViewer') : FileOf(toViewer'[i]) # x
          <6>1. /\ Grows(toViewer, toViewer')
                /\ \A i \in Fresh(toViewer, toViewer') : \E k \in Pending :
                      FileOf(toViewer'[i]) = FileOf(sendJobs[k])
            BY <1>1, <3>4, HostPumpsSay
          <6> QED
            BY <4>2, <6>1
        <5>2. \A k \in DOMAIN sendJobs : FileOf(sendJobs[k]) = x =>
                 k \in DOMAIN sendJobs' /\ sendJobs'[k] = sendJobs[k]
          BY <1>1, <3>4, <4>2, HostPumpsSay
        <5>3. \A k \in DOMAIN sendJobs' : FileOf(sendJobs'[k]) = x =>
                 k \in DOMAIN sendJobs /\ FileOf(sendJobs[k]) = x
          BY <1>1, <3>4, PumpedJobs
        <5> QED
          BY <1>1, <2>1, <3>1, <5>1, <5>2, <5>3, FlowStays
      <4> QED
        BY <4>1, <4>2
    <3>5. CASE HostConfirm
      <4>1. toViewer' = toViewer
        BY <3>5 DEF HostConfirm
      <4>2. /\ DOMAIN sendJobs' = DOMAIN sendJobs
            /\ \A k \in DOMAIN sendJobs : FileOf(sendJobs'[k]) = FileOf(sendJobs[k])
        BY <1>1, <3>5, ConfirmMarks DEF FileOf
      <4>3. ASSUME NEW k \in DOMAIN sendJobs, FileOf(sendJobs[k]) = x
            PROVE  sendJobs'[k].offset = sendJobs[k].offset
        <5>1. CASE sendJobs'[k] = sendJobs[k]
          BY <5>1
        <5>2. CASE k = Key(Head(toHost).id, Head(toHost).file) /\ sendJobs'[k].offset = 0
          <6>1. FileOf(Head(toHost)) = x
            BY <1>2, <3>5, <4>3, <5>2, AnswerFindsFile
          <6>2. 1 \in DOMAIN toHost /\ IsAnswer(toHost[1]) /\ FileOf(toHost[1]) = x
            BY <1>1, <3>5, <6>1, HostTakesShifts DEF HostConfirm, IsAnswer
          <6>3. ~sendJobs[k].confirmed
            BY <1>1, <1>2, <4>3, <6>2, JobsAreTyped DEF HeldBack, Unsettled
          <6> QED
            BY <1>1, <5>2, <6>3 DEF HeldBack
        <5> QED
          BY <1>1, <3>5, <5>1, <5>2, ConfirmMarks
      <4> QED
        BY <1>1, <2>1, <3>1, <4>1, <4>2, <4>3, FlowStays DEF Grows, Fresh
    <3>6. CASE HostSkip \/ HostCancel
      <4>1. Emits
        BY <1>1, <3>6, EmitsSteps
      <4>2. ASSUME NEW k \in DOMAIN sendJobs, FileOf(sendJobs[k]) = x
            PROVE  k \in DOMAIN sendJobs' /\ sendJobs'[k] = sendJobs[k]
        <5>1. CASE HostSkip
          <6>1. k # Key(Head(toHost).id, Head(toHost).file)
            <7>1. SUFFICES ASSUME k = Key(Head(toHost).id, Head(toHost).file)
                           PROVE  FALSE
              OBVIOUS
            <7>2. FileOf(Head(toHost)) = x
              BY <1>2, <4>2, <5>1, <7>1, AnswerFindsFile
            <7>3. 1 \in DOMAIN toHost /\ toHost[1].type = "Skip" /\ FileOf(toHost[1]) = x
              BY <1>1, <5>1, <7>2, HostTakesShifts DEF HostSkip
            <7> QED
              BY <1>1, <1>2, <7>3 DEF SkipsAreChosen
          <6> QED
            BY <5>1, <6>1 DEF HostSkip, Without
        <5>2. CASE HostCancel
          <6>1. sendJobs[k].id = x[1]
            BY <4>2 DEF FileOf
          <6>2. 1 \in DOMAIN toHost /\ toHost[1] = Head(toHost) /\ toHost[1].type = "Cancel"
            BY <1>1, <5>2, HostTakesShifts DEF HostCancel
          <6>3. Head(toHost).id # x[1]
            BY <1>1, <1>3, <2>1, <6>2 DEF WindowAgrees
          <6> QED
            BY <5>2, <6>1, <6>3 DEF HostCancel, Without
        <5> QED
          BY <3>6, <5>1, <5>2
      <4>3. \A k \in DOMAIN sendJobs' : FileOf(sendJobs'[k]) = x =>
               k \in DOMAIN sendJobs /\ FileOf(sendJobs[k]) = x
        BY <4>1 DEF Emits
      <4>4. ASSUME NEW i \in Fresh(toViewer, toViewer'), toViewer'[i].type \in {"Block", "Done", "Error"}
            PROVE  FileOf(toViewer'[i]) # x
        <5>1. PICK l \in DOMAIN sendJobs :
                 /\ FileOf(toViewer'[i]) = FileOf(sendJobs[l])
                 /\ toViewer'[i].type # "Block" => l \notin DOMAIN sendJobs'
          BY <4>1, <4>4 DEF Emits
        <5>2. toViewer'[i].type # "Block"
          BY <1>1, <3>6, <4>4, BlocksAreNew
        <5> QED
          BY <4>2, <5>1, <5>2
      <4> QED
        BY <1>1, <2>1, <3>1, <4>1, <4>2, <4>3, <4>4, FlowStays DEF Emits
    <3>7. CASE \E k \in DOMAIN sendJobs : SourceShrinks(k)
      <4>1. UNCHANGED <<toViewer, sendJobs>>
        BY <3>7 DEF SourceShrinks
      <4> QED
        BY <3>2, <4>1
    <3> QED
      BY <1>1, <2>3, <3>2, <3>3, <3>4, <3>5, <3>6, <3>7, WhoElse
  <2> QED
    BY <2>2, <2>3
<1> QED
  BY <1>4, <1>5

-----------------------------------------------------------------------------
(* What a finished download has.                                               *)

\* With the Done that completes the count, no file of the job is left open.
LEMMA NoneIsOpen ==
    ASSUME DownloadAssumption, IInv, Next, TakesDone, NEW j \in Jobs,
           ui[j] = "active", ui'[j] = "finished"
    PROVE  /\ Next1.id = j
           /\ \A g \in Slots : g # Next1.file => ~OpenFile(<<j, g>>)
<1>1. TypeOK /\ j \in known
  BY DEF IInv, WindowAgrees
<1>2. Next1.id = j /\ AllDone(j)
  BY <1>1 DEF TakesDone, TypeOK
<1>3. There(j) /\ Next1.file \in Open(j)
  <2> SUFFICES ASSUME NEW f, f = Next1.file
               PROVE  There(j) /\ f \in Open(j)
    OBVIOUS
  <2> QED
    BY <1>2, EndIsTaken DEF TakesDone
<1> DEFINE c == Cardinality(Open(j))
<1>4. c <= 1 /\ c \in Nat
  <2>1. doneCount[j] + 1 >= Len(tree[j]) /\ doneCount[j] + c <= Len(tree[j])
    BY <1>1, <1>2, <1>3 DEF AllDone, IInv, EndsAreCounted
  <2>2. doneCount[j] \in Nat /\ c \in Nat /\ Len(tree[j]) \in Nat
    BY <1>1, <1>3, OpenIsFinite, ListsAreShort DEF TypeOK
  <2> HIDE DEF c
  <2> QED
    BY <2>1, <2>2
<1>5. Open(j) \ {Next1.file} = {}
  <2>1. /\ IsFiniteSet(Open(j) \ {Next1.file})
        /\ Cardinality(Open(j) \ {Next1.file}) = c - 1
    BY <1>3, OpenIsFinite, FS_RemoveElement
  <2>2. Cardinality(Open(j) \ {Next1.file}) = 0
    <3>1. Cardinality(Open(j) \ {Next1.file}) \in Nat
      BY <2>1, FS_CardinalityType
    <3> HIDE DEF c
    <3> QED
      BY <1>4, <2>1, <3>1
  <2> QED
    BY <2>1, <2>2, FS_EmptySet
<1> QED
  BY <1>2, <1>5 DEF Open

LEMMA FaithfulStep ==
    ASSUME DownloadAssumption, IInv, Next
    PROVE  DownloadFaithful'
<1>1. TypeOK /\ WindowAgrees /\ EndsOnce /\ DownloadFaithful
  BY DEF IInv
<1>2. /\ tree' = tree /\ skipped \subseteq skipped' /\ unwritten \subseteq unwritten'
      /\ Clashing \subseteq Clashing'
  BY <1>1, PastStays, AskedStays
<1> SUFFICES ASSUME NEW j \in Jobs, ui'[j] = "finished",
                    NEW f \in Listed(j), File(<<j, f>>), Size(<<j, f>>) > 0,
                    <<j, f>> \notin skipped \cup unwritten \cup Clashing
             PROVE  dest'[<<j, f>>] = [i \in 1 .. Size(<<j, f>>) |-> i]
  BY <1>2 DEF DownloadFaithful, Source, Listed, There, IsFile, File, Size
<1> DEFINE x == <<j, f>>
<1>3. f \in Slots /\ x \in Files /\ x[1] = j /\ x[2] = f /\ Size(x) \in Nat
  BY <1>1, ListsAreShort DEF Files
<1>4. CASE ui[j] = "finished"
  <2>1. dest[x] = [i \in 1 .. Size(x) |-> i]
    BY <1>1, <1>4 DEF DownloadFaithful, Source, File, Size
  <2>2. j \notin known
    BY <1>1, <1>4 DEF WindowAgrees
  <2>3. CASE TakesBlock
    <3> DEFINE y == <<Next1.id, Next1.file>>
    <3>1. \/ dest' = dest
          \/ dest' = [dest EXCEPT ![y] = Written(@, offset[y], Next1.data)] /\ Next1.id \in known
      BY <2>3 DEF TakesBlock
    <3>2. dest \in [Files -> Seq(Nat)]
      BY <1>1 DEF TypeOK
    <3>3. Next1.id \in known => y # x
      BY <2>2
    <3> HIDE DEF x, y
    <3>4. dest'[x] = dest[x]
      BY <1>3, <3>1, <3>2, <3>3
    <3> QED
      BY <2>1, <3>4 DEF x
  <2>4. CASE ~TakesBlock
    BY <2>1, <2>4, WhoWrites DEF TakesDir
  <2> QED
    BY <2>3, <2>4
<1>5. CASE ui[j] = "active" /\ TakesDone
  <2>1. Next1.id = j /\ \A g \in Slots : g # Next1.file => ~OpenFile(<<j, g>>)
    BY <1>5, NoneIsOpen
  <2>2. /\ 1 \in DOMAIN toViewer /\ Next1 = toViewer[1] /\ Next1.type = "Done"
        /\ DOMAIN toViewer \subseteq Nat \ {0}
    <3>1. DOMAIN toViewer \subseteq Nat \ {0}
      BY <1>1 DEF TypeOK
    <3> QED
      BY <1>1, <1>5, <3>1, TakesShifts DEF TakesDone
  <2>3. f = Next1.file => Ending(1, x)
    BY <2>1, <2>2 DEF Ending, FileOf
  <2>4. ~HasJob(x)
    <3>1. CASE f = Next1.file
      BY <1>1, <2>2, <2>3, <3>1 DEF EndsOnce, HasJob
    <3>2. CASE f # Next1.file
      BY <1>3, <2>1, <3>2 DEF OpenFile
    <3> QED
      BY <3>1, <3>2
  <2>5. ASSUME NEW i \in DOMAIN toViewer, toViewer[i].type = "Error", FileOf(toViewer[i]) = x
        PROVE  FALSE
    <3>1. Ending(i, x)
      BY <2>5 DEF Ending
    <3>2. CASE f = Next1.file
      <4>1. i = 1
        BY <1>1, <2>2, <2>3, <2>5, <3>1, <3>2 DEF EndsOnce
      <4> QED
        BY <2>2, <2>5, <4>1
    <3>3. CASE f # Next1.file
      BY <1>3, <2>1, <3>1, <3>3 DEF OpenFile
    <3> QED
      BY <3>2, <3>3
  <2>6. Flow(x)
    <3>1. ~Ahead(j)
      BY <2>1, <2>2 DEF IInv, NothingAhead
    <3>2. Sound(x)
      BY <1>3, <1>5, <2>5, <3>1 DEF Sound
    <3> QED
      BY <1>3, <3>2 DEF IInv, BlocksFlow
  <2>7. \A i \in DOMAIN toViewer : ~Carries(i, x)
    <3>1. CASE f = Next1.file
      <4>1. \A i \in DOMAIN toViewer : Carries(i, x) => i < 1
        BY <2>2, <2>3, <2>6, <3>1 DEF Flow
      <4> QED
        BY <2>2, <4>1
    <3>2. CASE f # Next1.file
      BY <1>3, <2>1, <2>6, <3>2 DEF Flow
    <3> QED
      BY <3>1, <3>2
  <2>8. offset[x] = Size(x)
    <3> DEFINE o == offset[x]
               s == Size(x)
    <3>1. SentOf(x) = s
      BY <1>1, <1>3, <2>4, JobOf
    <3>2. o \in Nat /\ s \in Nat /\ o <= s
      BY <1>1, <1>3, <2>6, <3>1 DEF TypeOK, Flow
    <3>3. ~\E d \in o + 1 .. s : TRUE
      BY <2>6, <2>7, <3>1 DEF Flow
    <3> HIDE DEF o, s
    <3>4. o = s
      <4>1. o < s => s \in o + 1 .. s
        BY <3>2
      <4> QED
        BY <3>2, <3>3, <4>1
    <3> QED
      BY <3>4 DEF o, s
  <2>9. dest[x] = [i \in 1 .. Size(x) |-> i]
    BY <2>6, <2>8 DEF Flow
  <2> QED
    BY <1>5, <2>9 DEF TakesDone
<1> QED
  BY <1>1, <1>4, <1>5, WindowMoves

-----------------------------------------------------------------------------
(* The invariant, from the start and in every step.                            *)

LEMMA InitHolds ==
    ASSUME DownloadAssumption, Init
    PROVE  IInv
<1>1. TypeOK /\ Reached
  BY TypeInit
<1>2. /\ toHost = <<>> /\ toViewer = <<>> /\ sendJobs = <<>> /\ answer = Nothing /\ cancel = Nothing
      /\ \A j \in Jobs : ui[j] = "none" /\ doneCount[j] = 0
      /\ \A x \in Files : offset[x] = 0
      /\ known = {}
  BY DEF Init
<1>3. DOMAIN toHost = {} /\ DOMAIN toViewer = {} /\ DOMAIN sendJobs = {}
  BY <1>2
<1>4. AskedOnce /\ AboutFiles /\ EndsOnce /\ OneTurnEach /\ HeldBack /\ SkipsAreChosen /\ ListsComeFirst
  BY <1>2, <1>3 DEF AskedOnce, AboutFiles, EndsOnce, OneTurnEach, HeldBack, SkipsAreChosen, ListsComeFirst
<1>5. NothingAhead
  BY <1>2, <1>3 DEF NothingAhead, Files
<1>6. WindowAgrees
  BY <1>2, <1>3 DEF WindowAgrees, DownloadAssumption
<1>7. EndsAreCounted
  <2> SUFFICES ASSUME NEW j \in Jobs, There(j)
               PROVE  doneCount[j] + Cardinality(Open(j)) <= Len(tree[j])
    BY DEF EndsAreCounted
  <2>1. Open(j) = {}
    BY <1>3 DEF Open, OpenFile, HasJob
  <2>2. Cardinality(Open(j)) = 0
    BY <2>1, FS_EmptySet
  <2>3. Len(tree[j]) \in Nat
    BY <1>1, ListsAreShort
  <2> QED
    BY <1>2, <2>2, <2>3
<1>8. BlocksFlow
  <2>1. \A j \in Jobs : ui[j] # "active"
    BY <1>2
  <2> QED
    BY <2>1 DEF BlocksFlow, Sound, Files
<1>9. \A x \in Files : File(x) /\ tree[x[1]][x[2]].old => dest[x] = <<Old>>
  BY DEF Init, File
<1>10. ConsentCarries
  BY <1>2, <1>3, <1>9 DEF ConsentCarries
<1>11. DownloadFaithful
  BY <1>2 DEF DownloadFaithful
<1>12. OverwriteOnlyWithConsent
  BY <1>9 DEF OverwriteOnlyWithConsent, File
<1> QED
  BY <1>1, <1>4, <1>5, <1>6, <1>7, <1>8, <1>10, <1>11, <1>12 DEF IInv

LEMMA StepHolds ==
    ASSUME DownloadAssumption, IInv, [Next]_vars
    PROVE  IInv'
<1>1. CASE Next
  <2>1. TypeOK' /\ Reached'
    BY <1>1, TypeStep DEF IInv, AskedOnce
  <2>2. AskedOnce' /\ NothingAhead' /\ AboutFiles' /\ WindowAgrees' /\ EndsOnce' /\ EndsAreCounted'
    BY <1>1, AskedOnceStep, NothingAheadStep, AboutFilesStep, WindowAgreesStep, EndsOnceStep,
       EndsAreCountedStep
  <2>3. OneTurnEach' /\ HeldBack' /\ SkipsAreChosen' /\ ListsComeFirst' /\ BlocksFlow'
    BY <1>1, <2>1, OneTurnEachStep, HeldBackStep, SkipsAreChosenStep, ListsComeFirstStep, BlocksFlowStep
  <2>4. ConsentCarries' /\ DownloadFaithful' /\ OverwriteOnlyWithConsent'
    BY <1>1, <2>1, ConsentCarriesStep, FaithfulStep, OverwriteStep
  <2> QED
    BY <2>1, <2>2, <2>3, <2>4 DEF IInv
<1>2. CASE UNCHANGED vars
  <2> USE <1>2 DEF vars, windowVars, jobVars, tickVars, hostVars, pastVars
  <2>1. TypeOK' /\ Reached' /\ AskedOnce' /\ WindowAgrees'
    <3>1. TypeOK'
      BY DEF IInv, TypeOK
    <3> QED
      BY <3>1 DEF IInv, Reached, AskedOnce, WindowAgrees, Asked, IsAnswer
  <2>2. NothingAhead' /\ AboutFiles' /\ EndsOnce'
    BY DEF IInv, NothingAhead, Ahead, Asked, AboutFiles, EndsOnce, Ending, FileOf, File, Size, IsFile,
           Listed, There, IsAnswer
  <2>3. EndsAreCounted' /\ OneTurnEach' /\ HeldBack' /\ SkipsAreChosen' /\ ListsComeFirst'
    BY DEF IInv, EndsAreCounted, There, Open, OpenFile, HasJob, Ending, FileOf, OneTurnEach, IsAnswer,
           HeldBack, Unsettled, Clashing, IsFile, Listed, SkipsAreChosen, ListsComeFirst
  <2>4. BlocksFlow'
    <3>1. \A x \in Files : (Sound(x)' <=> Sound(x)) /\ (Flow(x)' <=> Flow(x))
      BY DEF Sound, Flow, SentOf, HasJob, OpenFile, Ending, Carries, FileOf, Size, File,
             Ahead, Asked, Clashing, IsFile, Listed, There
    <3> QED
      BY <3>1 DEF IInv, BlocksFlow
  <2>5. ConsentCarries'
    <3>1. Clashing' = Clashing
      BY DEF Clashing, IsFile, Listed, There
    <3>2. ConsentCarries
      BY DEF IInv
    <3> QED
      BY <3>1, <3>2 DEF ConsentCarries, Consented, FileOf, File, IsFile, Listed, There
  <2>6. DownloadFaithful'
    BY DEF IInv, DownloadFaithful, Source, Clashing, IsFile, Listed, There
  <2>7. OverwriteOnlyWithConsent'
    BY DEF IInv, OverwriteOnlyWithConsent, Clashing, IsFile, Listed, There
  <2> QED
    BY <2>1, <2>2, <2>3, <2>4, <2>5, <2>6, <2>7 DEF IInv
<1> QED
  BY <1>1, <1>2

-----------------------------------------------------------------------------
\* What TLC checks on small folders holds for all of them: TypeOK.
THEOREM TypeCorrect == ASSUME DownloadAssumption PROVE Spec => []TypeOK
<1>1. Init => IInv
  BY InitHolds
<1>2. IInv /\ [Next]_vars => IInv'
  BY StepHolds
<1>3. IInv => TypeOK
  BY DEF IInv
<1> QED
  BY <1>1, <1>2, <1>3, PTL DEF Spec

\* A download shown as finished has every file as it is on the host, but for
\* those that were skipped, not written, empty, or clash (process_file_responses
\* counts the files that are done against the entries of the list).
THEOREM DownloadIsFaithful == ASSUME DownloadAssumption PROVE Spec => []DownloadFaithful
<1>1. Init => IInv
  BY InitHolds
<1>2. IInv /\ [Next]_vars => IInv'
  BY StepHolds
<1>3. IInv => DownloadFaithful
  BY DEF IInv
<1> QED
  BY <1>1, <1>2, <1>3, PTL DEF Spec

\* No destination is overwritten before the user agrees, whatever the answers,
\* the cancellations and the errors meet on their way (overrideFileConfirm).
THEOREM OverwritesAreAgreed == ASSUME DownloadAssumption PROVE Spec => []OverwriteOnlyWithConsent
<1>1. Init => IInv
  BY InitHolds
<1>2. IInv /\ [Next]_vars => IInv'
  BY StepHolds
<1>3. IInv => OverwriteOnlyWithConsent
  BY DEF IInv
<1> QED
  BY <1>1, <1>2, <1>3, PTL DEF Spec
=============================================================================
