--------------------------- MODULE Terminal_proofs ---------------------------
(***************************************************************************)
(* Proofs about Terminal, for any capacity of the channel and any amount   *)
(* of output and keys: type correctness, that the readers lose, double and *)
(* reorder nothing on the way into the channel, and that what was taken    *)
(* out of it is sent before the news of the end and the next message.      *)
(***************************************************************************)
EXTENDS Terminal, FiniteSetTheorems, TLAPS

-----------------------------------------------------------------------------
(* The inductive invariant. *)

\* How many of the first i chunks of q come from k.
CountOf(q, k, i) == Cardinality({j \in 1 .. i : q[j].from = k})

Numbered(q) ==
    \A i \in 1 .. Len(q) : q[i].from \in Pipes => q[i].n = CountOf(q, q[i].from, i)

\* A reader has put into the channel all it has read, but for a chunk that finds
\* no room.
ReadIsQueuedOrHeld ==
    \A k \in Pipes :
        read[k] = CountOf(queued, k, Len(queued)) + IF reader[k] = "sending" THEN 1 ELSE 0

\* Without a terminal there is nothing that has yet to be sent.  The news of the
\* end comes after the send, and the terminal it is about is shut down at once.
\* Only a send and the joins have somewhere to return to.
SendsInOrder ==
    /\ TakenIsShown
    /\ ~open \/ pc = "telling" => shown = taken
    /\ open /\ status = "closed" => pc = "joining"
    /\ pc = "sending" => after \in {"turn", "telling"}
    /\ pc \notin {"sending", "joining"} => after = "turn"

IInv ==
    /\ TypeOK
    /\ Numbered(queued)
    /\ ReadIsQueuedOrHeld
    /\ SendsInOrder

-----------------------------------------------------------------------------
(* Counting. *)

\* A count is a natural number, its set of places being finite.
LEMMA CountIsNatural ==
    ASSUME NEW q, NEW k, NEW i \in Nat
    PROVE  /\ IsFiniteSet({j \in 1 .. i : q[j].from = k})
           /\ CountOf(q, k, i) \in Nat
<1>1. IsFiniteSet(1 .. i)
  BY FS_Interval
<1>2. {j \in 1 .. i : q[j].from = k} \in SUBSET (1 .. i)
  OBVIOUS
<1>3. IsFiniteSet({j \in 1 .. i : q[j].from = k})
  BY <1>1, <1>2, FS_Subset
<1> QED
  BY <1>3, FS_CardinalityType DEF CountOf

\* An empty channel has no chunk of any pipe.
LEMMA CountInNothing ==
    ASSUME NEW k
    PROVE  CountOf(<<>>, k, 0) = 0
<1>1. {j \in 1 .. 0 : <<>>[j].from = k} = {}
  OBVIOUS
<1> QED
  BY <1>1, FS_EmptySet DEF CountOf

\* A chunk at the end counts for its own pipe, and for no earlier place.
LEMMA CountAppended ==
    ASSUME NEW q \in Seq(Chunks), NEW e \in Chunks, NEW k
    PROVE  /\ \A i \in 0 .. Len(q) : CountOf(Append(q, e), k, i) = CountOf(q, k, i)
           /\ CountOf(Append(q, e), k, Len(q) + 1)
                = CountOf(q, k, Len(q)) + IF e.from = k THEN 1 ELSE 0
<1> DEFINE Places(s, i) == {j \in 1 .. i : s[j].from = k}
<1>1. Len(q) \in Nat /\ \A j \in 1 .. Len(q) : Append(q, e)[j] = q[j]
  OBVIOUS
<1>2. Append(q, e)[Len(q) + 1] = e
  OBVIOUS
<1>3. \A i \in 0 .. Len(q) : Places(Append(q, e), i) = Places(q, i)
  BY <1>1
<1>4. \A i \in 0 .. Len(q) : CountOf(Append(q, e), k, i) = CountOf(q, k, i)
  BY <1>3 DEF CountOf
<1>5. ASSUME e.from = k
      PROVE  CountOf(Append(q, e), k, Len(q) + 1) = CountOf(q, k, Len(q)) + 1
  <2>1. Places(Append(q, e), Len(q) + 1) = Places(q, Len(q)) \cup {Len(q) + 1}
    BY <1>1, <1>2, <1>5
  <2>2. Len(q) + 1 \notin Places(q, Len(q))
    BY <1>1
  <2>3. IsFiniteSet(Places(q, Len(q)))
    BY <1>1, CountIsNatural
  <2>4. Cardinality(Places(q, Len(q)) \cup {Len(q) + 1}) = Cardinality(Places(q, Len(q))) + 1
    BY <2>2, <2>3, FS_AddElement
  <2> QED
    BY <2>1, <2>4 DEF CountOf
<1>6. ASSUME e.from # k
      PROVE  CountOf(Append(q, e), k, Len(q) + 1) = CountOf(q, k, Len(q))
  <2>1. Places(Append(q, e), Len(q) + 1) = Places(q, Len(q))
    BY <1>1, <1>2, <1>6
  <2> QED
    BY <2>1 DEF CountOf
<1>7. CountOf(q, k, Len(q)) \in Nat
  BY <1>1, CountIsNatural
<1> QED
  BY <1>4, <1>5, <1>6, <1>7

\* An echo, or the next chunk of its pipe, may be put at the end.
LEMMA NumberedAppended ==
    ASSUME NEW q \in Seq(Chunks), NEW e \in Chunks, Numbered(q),
           e.from \in Pipes => e.n = CountOf(q, e.from, Len(q)) + 1
    PROVE  Numbered(Append(q, e))
<1> DEFINE r == Append(q, e)
<1> SUFFICES ASSUME NEW i \in 1 .. Len(r), r[i].from \in Pipes
             PROVE  r[i].n = CountOf(r, r[i].from, i)
  BY DEF Numbered
<1>1. Len(r) = Len(q) + 1 /\ Len(q) \in Nat
  OBVIOUS
<1>2. CASE i \in 1 .. Len(q)
  <2>1. r[i] = q[i] /\ i \in 0 .. Len(q)
    BY <1>1, <1>2
  <2>2. q[i].n = CountOf(q, q[i].from, i)
    BY <1>2, <2>1 DEF Numbered
  <2>3. CountOf(r, q[i].from, i) = CountOf(q, q[i].from, i)
    BY <2>1, CountAppended
  <2> QED
    BY <2>1, <2>2, <2>3
<1>3. CASE i = Len(q) + 1
  <2>1. r[i] = e
    BY <1>3
  <2>2. CountOf(r, e.from, Len(q) + 1) = CountOf(q, e.from, Len(q)) + 1
    BY CountAppended
  <2> QED
    BY <1>3, <2>1, <2>2
<1> QED
  BY <1>1, <1>2, <1>3

-----------------------------------------------------------------------------
(* The steps that touch the channel. *)

\* A reader puts the chunk numbered n into the channel.
LEMMA ChunkQueued ==
    ASSUME IInv, NEW k \in Pipes, NEW n \in 1 .. MaxChunks,
           n = CountOf(queued, k, Len(queued)) + 1,
           queued' = Append(queued, [from |-> k, n |-> n]),
           read' = [read EXCEPT ![k] = n],
           reader' = [reader EXCEPT ![k] = "top"],
           \A l \in Pipes \ {k} :
               read[l] = CountOf(queued, l, Len(queued))
                            + IF reader[l] = "sending" THEN 1 ELSE 0
    PROVE  /\ queued' \in Seq(Chunks)
           /\ Len(queued') = Len(queued) + 1
           /\ Numbered(queued)'
           /\ ReadIsQueuedOrHeld'
<1> DEFINE e == [from |-> k, n |-> n]
<1>1. e \in Chunks /\ queued \in Seq(Chunks)
  BY DEF Chunks, IInv, TypeOK
<1>2. queued' \in Seq(Chunks) /\ Len(queued') = Len(queued) + 1
  BY <1>1
<1>3. Numbered(queued)'
  <2>1. Numbered(queued) /\ e.n = CountOf(queued, e.from, Len(queued)) + 1
    BY DEF IInv
  <2>2. Numbered(Append(queued, e))
    BY <1>1, <2>1, NumberedAppended
  <2> QED
    BY <2>2 DEF Numbered, CountOf
<1>4. ReadIsQueuedOrHeld'
  <2> SUFFICES ASSUME NEW l \in Pipes
               PROVE  read'[l] = CountOf(Append(queued, e), l, Len(queued) + 1)
                                    + IF reader'[l] = "sending" THEN 1 ELSE 0
    BY <1>2 DEF ReadIsQueuedOrHeld, CountOf
  <2>1. CountOf(Append(queued, e), l, Len(queued) + 1)
          = CountOf(queued, l, Len(queued)) + IF k = l THEN 1 ELSE 0
    BY <1>1, CountAppended
  <2>2. CountOf(queued, l, Len(queued)) \in Nat
    <3>1. Len(queued) \in Nat
      BY <1>1
    <3> QED
      BY <3>1, CountIsNatural
  <2>3. read \in [Pipes -> 0 .. MaxChunks] /\ DOMAIN reader = Pipes
    BY DEF IInv, TypeOK
  <2>4. CASE l = k
    BY <2>1, <2>2, <2>3, <2>4
  <2>5. CASE l # k
    BY <2>1, <2>2, <2>3, <2>5
  <2> QED
    BY <2>4, <2>5
<1> QED
  BY <1>2, <1>3, <1>4


\* A chunk that was read is queued, or held while the channel is full.
LEMMA ReaderReadsKeepsIInv ==
    ASSUME IInv, NEW k \in Pipes, ReaderReads(k)
    PROVE  IInv'
<1>1. reader[k] = "reading" /\ read[k] < written[k] /\ read' = [read EXCEPT ![k] = @ + 1]
  BY DEF ReaderReads
<1>2. UNCHANGED <<loopVars, exiting, shellVars, taken, shown, inputVars, status>>
  BY DEF ReaderReads
<1>3. /\ read \in [Pipes -> 0 .. MaxChunks]
      /\ written \in [Pipes -> 0 .. MaxChunks]
      /\ reader \in [Pipes -> {"top", "reading", "sending", "done"}]
      /\ queued \in Seq(Chunks)
      /\ taken \in Nat
      /\ Capacity \in Nat /\ MaxChunks \in Nat
  BY TerminalAssumption DEF IInv, TypeOK
<1>4. read[k] + 1 \in 1 .. MaxChunks
  BY <1>1, <1>3
<1>5. read' = [read EXCEPT ![k] = read[k] + 1] /\ read' \in [Pipes -> 0 .. MaxChunks]
  BY <1>1, <1>3, <1>4
<1>6. Len(queued) \in Nat /\ Len(queued) <= taken + Capacity
  BY <1>3 DEF IInv, TypeOK
<1>7. CountOf(queued, k, Len(queued)) \in Nat
  BY <1>6, CountIsNatural
<1>8. read[k] = CountOf(queued, k, Len(queued))
  BY <1>1, <1>7 DEF IInv, ReadIsQueuedOrHeld
<1>9. SendsInOrder'
  BY <1>2 DEF IInv, SendsInOrder, TakenIsShown, loopVars
<1>10. CASE Room /\ queued' = Append(queued, [from |-> k, n |-> read'[k]])
                 /\ reader' = [reader EXCEPT ![k] = "top"]
  <2>1. read'[k] = read[k] + 1
    BY <1>3, <1>5
  <2>2. \A l \in Pipes \ {k} :
            read[l] = CountOf(queued, l, Len(queued))
                         + IF reader[l] = "sending" THEN 1 ELSE 0
    BY DEF IInv, ReadIsQueuedOrHeld
  <2>3. /\ queued' \in Seq(Chunks)
        /\ Len(queued') = Len(queued) + 1
        /\ Numbered(queued)'
        /\ ReadIsQueuedOrHeld'
    BY <1>4, <1>5, <1>8, <1>10, <2>1, <2>2, ChunkQueued
  <2>4. Len(queued') <= taken' + Capacity
    BY <1>2, <1>3, <1>6, <1>10, <2>3 DEF Room
  <2>5. TypeOK'
    BY <1>2, <1>3, <1>5, <1>10, <2>3, <2>4
       DEF IInv, TypeOK, loopVars, shellVars, inputVars
  <2> QED
    BY <1>9, <2>3, <2>5 DEF IInv
<1>11. CASE ~Room /\ reader' = [reader EXCEPT ![k] = "sending"] /\ UNCHANGED queued
  <2>1. TypeOK'
    BY <1>2, <1>3, <1>5, <1>11 DEF IInv, TypeOK, loopVars, shellVars, inputVars
  <2>2. Numbered(queued)'
    BY <1>11 DEF IInv, Numbered, CountOf
  <2>3. ReadIsQueuedOrHeld'
    <3> SUFFICES ASSUME NEW l \in Pipes
                 PROVE  read'[l] = CountOf(queued, l, Len(queued))
                                      + IF reader'[l] = "sending" THEN 1 ELSE 0
      BY <1>11 DEF ReadIsQueuedOrHeld, CountOf
    <3>1. CASE l = k
      BY <1>3, <1>5, <1>7, <1>8, <1>11, <3>1
    <3>2. CASE l # k
      BY <1>3, <1>5, <1>11, <3>2 DEF IInv, ReadIsQueuedOrHeld
    <3> QED
      BY <3>1, <3>2
  <2> QED
    BY <1>9, <2>1, <2>2, <2>3 DEF IInv
<1> QED
  BY <1>10, <1>11 DEF ReaderReads

\* The blocking send puts the chunk that was held in its place.
LEMMA ReaderSendsKeepsIInv ==
    ASSUME IInv, NEW k \in Pipes, ReaderSends(k)
    PROVE  IInv'
<1>1. /\ reader[k] = "sending"
      /\ Room
      /\ queued' = Append(queued, [from |-> k, n |-> read[k]])
      /\ reader' = [reader EXCEPT ![k] = "top"]
      /\ UNCHANGED <<loopVars, exiting, shellVars, read, taken, shown, inputVars, status>>
  BY DEF ReaderSends
<1>2. /\ read \in [Pipes -> 0 .. MaxChunks]
      /\ reader \in [Pipes -> {"top", "reading", "sending", "done"}]
      /\ queued \in Seq(Chunks)
      /\ taken \in Nat
      /\ Capacity \in Nat /\ MaxChunks \in Nat
  BY TerminalAssumption DEF IInv, TypeOK
<1>3. Len(queued) \in Nat /\ Len(queued) < taken + Capacity
  BY <1>1, <1>2 DEF Room
<1>4. CountOf(queued, k, Len(queued)) \in Nat
  BY <1>3, CountIsNatural
<1>5. read[k] = CountOf(queued, k, Len(queued)) + 1
  BY <1>1, <1>4 DEF IInv, ReadIsQueuedOrHeld
<1>6. read[k] \in 1 .. MaxChunks
  BY <1>2, <1>4, <1>5
<1>7. read' = [read EXCEPT ![k] = read[k]]
  BY <1>1, <1>2
<1>8. \A l \in Pipes \ {k} :
          read[l] = CountOf(queued, l, Len(queued))
                       + IF reader[l] = "sending" THEN 1 ELSE 0
  BY DEF IInv, ReadIsQueuedOrHeld
<1>9. /\ queued' \in Seq(Chunks)
      /\ Len(queued') = Len(queued) + 1
      /\ Numbered(queued)'
      /\ ReadIsQueuedOrHeld'
  BY <1>1, <1>5, <1>6, <1>7, <1>8, ChunkQueued
<1>10. Len(queued') <= taken' + Capacity
  BY <1>1, <1>2, <1>3, <1>9
<1>11. TypeOK'
  BY <1>1, <1>2, <1>9, <1>10 DEF IInv, TypeOK, loopVars, shellVars, inputVars
<1>12. SendsInOrder'
  BY <1>1 DEF IInv, SendsInOrder, TakenIsShown, loopVars
<1> QED
  BY <1>9, <1>11, <1>12 DEF IInv

\* The echo is a chunk of neither pipe.
LEMMA HandlesKeysKeepsIInv ==
    ASSUME IInv, HandlesKeys
    PROVE  IInv'
<1> DEFINE e == [from |-> "echo", n |-> 0]
<1>1. /\ pc = "turn" /\ pc' = "pump"
      /\ keys < MaxEchoes /\ keys' = keys + 1
      /\ UNCHANGED <<after, open, exiting, shellVars, read, reader, taken, shown, writer,
                     status>>
  BY DEF HandlesKeys
<1>2. /\ queued \in Seq(Chunks)
      /\ read \in [Pipes -> 0 .. MaxChunks]
      /\ taken \in Nat
      /\ Capacity \in Nat /\ MaxEchoes \in Nat
      /\ keys \in 0 .. MaxEchoes /\ lines \in 0 .. Capacity
  BY TerminalAssumption DEF IInv, TypeOK
<1>3. e \in Chunks /\ e.from \notin Pipes
  BY DEF Chunks, Pipes
<1>4. lines' \in 0 .. Capacity /\ keys' \in 0 .. MaxEchoes
  BY <1>1, <1>2 DEF HandlesKeys
<1>5. Len(queued) \in Nat /\ Len(queued) <= taken + Capacity
  BY <1>2 DEF IInv, TypeOK
<1>6. /\ queued' \in Seq(Chunks)
      /\ Len(queued') <= taken' + Capacity
      /\ Numbered(queued)'
      /\ ReadIsQueuedOrHeld'
  <2>1. CASE Room
    <3>1. queued' = Append(queued, e)
      BY <2>1 DEF HandlesKeys
    <3>2. queued' \in Seq(Chunks) /\ Len(queued') = Len(queued) + 1
      BY <1>2, <1>3, <3>1
    <3>3. Len(queued') <= taken' + Capacity
      BY <1>1, <1>2, <1>5, <2>1, <3>2 DEF Room
    <3>4. Numbered(Append(queued, e))
      BY <1>2, <1>3, NumberedAppended DEF IInv
    <3>5. Numbered(queued)'
      BY <3>1, <3>4 DEF Numbered, CountOf
    <3>6. \A l \in Pipes : CountOf(Append(queued, e), l, Len(queued) + 1)
                             = CountOf(queued, l, Len(queued))
      <4> SUFFICES ASSUME NEW l \in Pipes
                   PROVE  CountOf(Append(queued, e), l, Len(queued) + 1)
                            = CountOf(queued, l, Len(queued))
        OBVIOUS
      <4>1. CountOf(queued, l, Len(queued)) \in Nat
        BY <1>5, CountIsNatural
      <4>2. e.from # l
        BY <1>3
      <4> QED
        BY <1>2, <1>3, <4>1, <4>2, CountAppended
    <3>7. ReadIsQueuedOrHeld'
      <4> SUFFICES ASSUME NEW l \in Pipes
                   PROVE  read[l] = CountOf(Append(queued, e), l, Len(queued) + 1)
                                       + IF reader[l] = "sending" THEN 1 ELSE 0
        BY <1>1, <3>1, <3>2 DEF ReadIsQueuedOrHeld, CountOf
      <4> QED
        BY <3>6 DEF IInv, ReadIsQueuedOrHeld
    <3> QED
      BY <3>2, <3>3, <3>5, <3>7
  <2>2. CASE ~Room
    <3>1. UNCHANGED queued
      BY <2>2 DEF HandlesKeys
    <3>2. queued' \in Seq(Chunks) /\ Len(queued') <= taken' + Capacity
      BY <1>1, <1>2, <1>5, <3>1
    <3>3. Numbered(queued)' /\ ReadIsQueuedOrHeld'
      BY <1>1, <3>1 DEF IInv, Numbered, ReadIsQueuedOrHeld, CountOf
    <3> QED
      BY <3>2, <3>3
  <2> QED
    BY <2>1, <2>2
<1>7. TypeOK'
  BY <1>1, <1>4, <1>6 DEF IInv, TypeOK, shellVars
<1>8. SendsInOrder'
  BY <1>1 DEF IInv, SendsInOrder, TakenIsShown
<1> QED
  BY <1>6, <1>7, <1>8 DEF IInv

\* Counts that start anew have their type.
LEMMA NothingIsTyped == Nothing \in [Pipes -> 0 .. MaxChunks]
<1>1. 0 \in 0 .. MaxChunks
  BY TerminalAssumption
<1> QED
  BY <1>1 DEF Nothing

\* A terminal that is new, or gone, has an empty channel and nothing read.
LEMMA EmptiesAccounts ==
    ASSUME Empties, \A k \in Pipes : reader'[k] # "sending"
    PROVE  /\ queued' \in Seq(Chunks) /\ Len(queued') <= taken' + Capacity
           /\ written' \in [Pipes -> 0 .. MaxChunks]
           /\ read' \in [Pipes -> 0 .. MaxChunks]
           /\ Numbered(queued)'
           /\ ReadIsQueuedOrHeld'
           /\ shown' = taken'
<1>1. queued' = <<>> /\ read' = Nothing /\ taken' = 0 /\ shown' = 0
  BY DEF Empties
<1>2. queued' \in Seq(Chunks) /\ Len(queued') = 0
  BY <1>1
<1>3. Numbered(queued)'
  BY <1>1 DEF Numbered
<1>4. ASSUME NEW k \in Pipes
      PROVE  CountOf(queued', k, Len(queued')) = 0
  BY <1>1, <1>2, CountInNothing
<1>5. ReadIsQueuedOrHeld'
  <2> SUFFICES ASSUME NEW k \in Pipes
               PROVE  read'[k] = CountOf(queued', k, Len(queued'))
                                    + IF reader'[k] = "sending" THEN 1 ELSE 0
    BY DEF ReadIsQueuedOrHeld, CountOf
  <2>1. read'[k] = 0
    BY <1>1 DEF Nothing
  <2> QED
    BY <1>4, <2>1
<1>6. shown' = taken'
  BY <1>1
<1>7. Len(queued') <= taken' + Capacity
  BY <1>1, <1>2, TerminalAssumption
<1>8. written' = Nothing /\ read' = Nothing
  BY DEF Empties
<1> QED
  BY <1>2, <1>3, <1>5, <1>6, <1>7, <1>8, NothingIsTyped

\* A step that leaves the channel and the held chunks alone.
LEMMA ChannelUntouched ==
    ASSUME IInv, UNCHANGED <<queued, read>>,
           \A k \in Pipes : reader'[k] = "sending" <=> reader[k] = "sending"
    PROVE  Numbered(queued)' /\ ReadIsQueuedOrHeld'
<1>1. Numbered(queued)'
  BY DEF IInv, Numbered, CountOf
<1>2. ReadIsQueuedOrHeld'
  <2> SUFFICES ASSUME NEW k \in Pipes
               PROVE  read[k] = CountOf(queued, k, Len(queued))
                                   + IF reader'[k] = "sending" THEN 1 ELSE 0
    BY DEF ReadIsQueuedOrHeld, CountOf
  <2>1. read[k] = CountOf(queued, k, Len(queued)) + IF reader[k] = "sending" THEN 1 ELSE 0
    BY DEF IInv, ReadIsQueuedOrHeld
  <2> QED
    BY <2>1
<1> QED
  BY <1>1, <1>2

\* A new terminal starts with everything empty.
LEMMA SpawnsKeepsIInv ==
    ASSUME IInv, Spawns
    PROVE  IInv'
<1>1. Empties /\ \A k \in Pipes : reader'[k] = "top"
  BY DEF Spawns
<1>2. /\ queued' \in Seq(Chunks) /\ Len(queued') <= taken' + Capacity
      /\ written' \in [Pipes -> 0 .. MaxChunks]
      /\ read' \in [Pipes -> 0 .. MaxChunks]
      /\ Numbered(queued)' /\ ReadIsQueuedOrHeld' /\ shown' = taken'
  BY <1>1, EmptiesAccounts
<1>3. TypeOK'
  <2>1. taken' = 0 /\ shown' = 0 /\ keys' = 0 /\ lines' = 0
    BY <1>1 DEF Empties
  <2>2. 0 \in Nat /\ 0 \in 0 .. MaxEchoes /\ 0 \in 0 .. Capacity
    BY TerminalAssumption
  <2>3. program' \in BOOLEAN
    BY <1>1 DEF Empties
  <2> QED
    BY <1>2, <2>1, <2>2, <2>3 DEF IInv, TypeOK, Spawns
<1>4. SendsInOrder'
  BY <1>2 DEF Spawns, IInv, TypeOK, SendsInOrder, TakenIsShown
<1> QED
  BY <1>2, <1>3, <1>4 DEF IInv

\* A terminal whose threads were joined leaves nothing behind.
LEMMA JoinedKeepsIInv ==
    ASSUME IInv, Joined
    PROVE  IInv'
<1>1. Empties /\ \A k \in Pipes : reader'[k] = "done"
  BY DEF Joined
<1>2. /\ queued' \in Seq(Chunks) /\ Len(queued') <= taken' + Capacity
      /\ written' \in [Pipes -> 0 .. MaxChunks]
      /\ read' \in [Pipes -> 0 .. MaxChunks]
      /\ Numbered(queued)' /\ ReadIsQueuedOrHeld' /\ shown' = taken'
  BY <1>1, EmptiesAccounts
<1>3. TypeOK'
  <2>1. taken' = 0 /\ shown' = 0 /\ keys' = 0 /\ lines' = 0
    BY <1>1 DEF Empties
  <2>2. 0 \in Nat /\ 0 \in 0 .. MaxEchoes /\ 0 \in 0 .. Capacity
    BY TerminalAssumption
  <2>3. program' \in BOOLEAN
    BY <1>1 DEF Empties
  <2> QED
    BY <1>2, <2>1, <2>2, <2>3 DEF IInv, TypeOK, Joined
<1>4. SendsInOrder'
  BY <1>2 DEF Joined, IInv, TypeOK, SendsInOrder, TakenIsShown
<1> QED
  BY <1>2, <1>3, <1>4 DEF IInv

\* A reader that looks at the flag or ends holds no chunk.
LEMMA ReaderMovesKeepsIInv ==
    ASSUME IInv, NEW k \in Pipes, ReaderLooks(k) \/ ReaderEnds(k)
    PROVE  IInv'
<1>1. /\ reader[k] # "sending"
      /\ \E where \in {"reading", "done"} : reader' = [reader EXCEPT ![k] = where]
      /\ UNCHANGED <<loopVars, exiting, shellVars, read, queued, taken, shown, inputVars,
                     status>>
  BY DEF ReaderLooks, ReaderEnds
<1>2. reader \in [Pipes -> {"top", "reading", "sending", "done"}]
  BY DEF IInv, TypeOK
<1>3. \A l \in Pipes : reader'[l] = "sending" <=> reader[l] = "sending"
  BY <1>1, <1>2
<1>4. reader' \in [Pipes -> {"top", "reading", "sending", "done"}]
  BY <1>1, <1>2
<1>5. Numbered(queued)' /\ ReadIsQueuedOrHeld'
  BY <1>1, <1>3, ChannelUntouched
<1>6. TypeOK'
  BY <1>1, <1>4 DEF IInv, TypeOK, loopVars, shellVars, inputVars
<1>7. SendsInOrder'
  BY <1>1 DEF IInv, SendsInOrder, TakenIsShown, loopVars
<1> QED
  BY <1>5, <1>6, <1>7 DEF IInv

-----------------------------------------------------------------------------
(* The other steps. *)

\* Reading a message, and getting ready to join.
LEMMA LoopKeepsIInv ==
    ASSUME IInv, Leaves \/ Opens \/ SpawnFails \/ Closes \/ Idles
    PROVE  IInv'
<1>1. UNCHANGED <<open, program, written, readerVars, taken, shown, inputVars>>
  BY DEF Leaves, Opens, SpawnFails, Closes, Idles, shellVars
<1>2. UNCHANGED <<queued, read, reader>>
  BY <1>1 DEF readerVars
<1>3. Numbered(queued)' /\ ReadIsQueuedOrHeld'
  BY <1>2, ChannelUntouched
<1>4. /\ pc' \in {"turn", "spawn", "pump", "check", "sending", "telling",
                  "joining", "over"}
      /\ after' \in {"turn", "telling", "spawn", "closed", "over"}
      /\ exiting' \in BOOLEAN
      /\ shell' \in {"none", "running", "dead"}
      /\ status' \in {"none", "opened", "closed"}
  <2>1. CASE Leaves BY <2>1 DEF Leaves, ShutDown, IInv, TypeOK
  <2>2. CASE Opens BY <2>2 DEF Opens, ShutDown, IInv, TypeOK
  <2>3. CASE SpawnFails BY <2>3 DEF SpawnFails, shellVars, IInv, TypeOK
  <2>4. CASE Closes BY <2>4 DEF Closes, ShutDown, IInv, TypeOK
  <2>5. CASE Idles BY <2>5 DEF Idles, shellVars, IInv, TypeOK
  <2> QED BY <2>1, <2>2, <2>3, <2>4, <2>5
<1>5. TypeOK'
  BY <1>1, <1>4 DEF IInv, TypeOK, readerVars, inputVars
<1>6. SendsInOrder'
  <2>1. CASE Leaves BY <1>1, <2>1 DEF Leaves, ShutDown, IInv, SendsInOrder, TakenIsShown
  <2>2. CASE Opens BY <1>1, <2>2 DEF Opens, ShutDown, IInv, SendsInOrder, TakenIsShown
  <2>3. CASE SpawnFails BY <1>1, <2>3 DEF SpawnFails, IInv, SendsInOrder, TakenIsShown
  <2>4. CASE Closes BY <1>1, <2>4 DEF Closes, ShutDown, IInv, SendsInOrder, TakenIsShown
  <2>5. CASE Idles BY <1>1, <2>5 DEF Idles, IInv, SendsInOrder, TakenIsShown
  <2> QED BY <2>1, <2>2, <2>3, <2>4, <2>5
<1> QED
  BY <1>3, <1>5, <1>6 DEF IInv

\* The pump moves chunks out and sends them, or leaves the terminal as it is.
LEMMA PumpKeepsIInv ==
    ASSUME IInv, PumpTakes \/ PumpIsDone \/ PumpChecks \/ PumpSends \/ PumpTells
    PROVE  IInv'
<1>1. UNCHANGED <<open, program, written, readerVars, inputVars>>
  BY DEF PumpTakes, PumpIsDone, PumpChecks, PumpSends, PumpTells, loopVars, shellVars
<1>2. UNCHANGED <<queued, read, reader>>
  BY <1>1 DEF readerVars
<1>3. Numbered(queued)' /\ ReadIsQueuedOrHeld'
  BY <1>2, ChannelUntouched
<1>4. TypeOK' /\ SendsInOrder'
  <2>1. CASE PumpTakes
    <3>1. taken \in Nat /\ Len(queued) \in Nat /\ Capacity \in Nat
      BY TerminalAssumption DEF IInv, TypeOK
    <3>2. taken' \in Nat /\ Len(queued) <= taken' + Capacity
      BY <2>1, <3>1 DEF PumpTakes, IInv, TypeOK
    <3>3. TypeOK'
      BY <1>1, <2>1, <3>2
         DEF PumpTakes, IInv, TypeOK, loopVars, shellVars, readerVars, inputVars
    <3>4. SendsInOrder'
      BY <2>1 DEF PumpTakes, IInv, SendsInOrder, TakenIsShown, loopVars
    <3> QED
      BY <3>3, <3>4
  <2>2. CASE PumpIsDone
    <3>1. TypeOK'
      BY <1>1, <2>2 DEF PumpIsDone, IInv, TypeOK, shellVars, readerVars, inputVars
    <3>2. SendsInOrder'
      BY <2>2 DEF PumpIsDone, IInv, SendsInOrder, TakenIsShown
    <3> QED
      BY <3>1, <3>2
  <2>3. CASE PumpChecks
    <3>1. TypeOK'
      BY <1>1, <2>3 DEF PumpChecks, IInv, TypeOK, SendsInOrder, shellVars, readerVars,
                      inputVars
    <3>2. SendsInOrder'
      BY <1>1, <2>3 DEF PumpChecks, IInv, SendsInOrder, TakenIsShown, TypeOK
    <3> QED
      BY <3>1, <3>2
  <2>4. CASE PumpSends
    <3>1. TypeOK'
      BY <1>1, <2>4 DEF PumpSends, ShutDown, IInv, TypeOK, SendsInOrder, shellVars, readerVars,
                      inputVars
    <3>2. SendsInOrder'
      BY <1>1, <2>4 DEF PumpSends, ShutDown, IInv, SendsInOrder, TakenIsShown, TypeOK
    <3> QED
      BY <3>1, <3>2
  <2>5. CASE PumpTells
    <3>1. TypeOK'
      BY <1>1, <2>5 DEF PumpTells, ShutDown, IInv, TypeOK, SendsInOrder, shellVars, readerVars,
                      inputVars
    <3>2. SendsInOrder'
      BY <1>1, <2>5 DEF PumpTells, ShutDown, IInv, SendsInOrder, TakenIsShown, TypeOK
    <3> QED
      BY <3>1, <3>2
  <2> QED
    BY <2>1, <2>2, <2>3, <2>4, <2>5
<1> QED
  BY <1>3, <1>4 DEF IInv

\* The writer touches nothing of the output.
LEMMA WriterKeepsIInv ==
    ASSUME IInv, WriterStep \/ WriterWrites
    PROVE  IInv'
<1>1. UNCHANGED <<loopVars, exiting, shellVars, readerVars, taken, shown, keys, status>>
  BY DEF WriterStep, WriterLooks, WriterReceives, WriterEnds, WriterWrites, WriterFails
<1>2. Numbered(queued)' /\ ReadIsQueuedOrHeld'
  BY <1>1, ChannelUntouched DEF readerVars
<1>3. lines' \in 0 .. Capacity /\ writer' \in {"top", "receiving", "writing", "done"}
  <2>1. lines \in 0 .. Capacity /\ Capacity \in Nat
    BY TerminalAssumption DEF IInv, TypeOK
  <2> QED
    BY <2>1
       DEF WriterStep, WriterLooks, WriterReceives, WriterEnds, WriterWrites, WriterFails
<1>4. TypeOK'
  BY <1>1, <1>3 DEF IInv, TypeOK, loopVars, shellVars, readerVars
<1>5. SendsInOrder'
  BY <1>1 DEF IInv, SendsInOrder, TakenIsShown, loopVars
<1> QED
  BY <1>2, <1>4, <1>5 DEF IInv

\* Shell and programs only write, start and end.
LEMMA ShellKeepsIInv ==
    ASSUME IInv,
           \/ \E k \in Pipes : ShellWrites(k)
           \/ ProgramStarts \/ ProgramEnds \/ ShellExits
    PROVE  IInv'
<1>1. UNCHANGED <<loopVars, exiting, readerVars, taken, shown, inputVars, status>>
  BY DEF ShellWrites, ProgramStarts, ProgramEnds, ShellExits
<1>2. Numbered(queued)' /\ ReadIsQueuedOrHeld'
  BY <1>1, ChannelUntouched DEF readerVars
<1>3. /\ shell' \in {"none", "running", "dead"}
      /\ program' \in BOOLEAN
      /\ written' \in [Pipes -> 0 .. MaxChunks]
  <2>1. /\ shell \in {"none", "running", "dead"}
        /\ program \in BOOLEAN
        /\ written \in [Pipes -> 0 .. MaxChunks]
        /\ MaxChunks \in Nat
    BY TerminalAssumption DEF IInv, TypeOK
  <2>2. CASE \E k \in Pipes : ShellWrites(k)
    <3> PICK k \in Pipes : ShellWrites(k)
      BY <2>2
    <3>1. written[k] + 1 \in 0 .. MaxChunks
      BY <2>1 DEF ShellWrites
    <3> QED
      BY <2>1, <3>1 DEF ShellWrites
  <2>3. CASE ProgramStarts \/ ProgramEnds \/ ShellExits
    BY <2>1, <2>3 DEF ProgramStarts, ProgramEnds, ShellExits
  <2> QED
    BY <2>2, <2>3
<1>4. TypeOK'
  BY <1>1, <1>3 DEF IInv, TypeOK, loopVars, readerVars, inputVars
<1>5. SendsInOrder'
  BY <1>1 DEF IInv, SendsInOrder, TakenIsShown, loopVars
<1> QED
  BY <1>2, <1>4, <1>5 DEF IInv

-----------------------------------------------------------------------------
(* The theorems. *)

\* The loop starts without a terminal.
LEMMA InitIInv == Init => IInv
<1> SUFFICES ASSUME Init PROVE IInv
  OBVIOUS
<1>1. TypeOK
  <2>1. queued = <<>> /\ queued \in Seq(Chunks) /\ Len(queued) <= 0 + Capacity
    BY TerminalAssumption DEF Init
  <2>2. 0 \in 0 .. MaxEchoes /\ 0 \in 0 .. Capacity
    BY TerminalAssumption
  <2> QED
    BY <2>1, <2>2, NothingIsTyped DEF Init, TypeOK
<1>2. Numbered(queued)
  BY DEF Init, Numbered
<1>3. ReadIsQueuedOrHeld
  <2> SUFFICES ASSUME NEW k \in Pipes
               PROVE  read[k] = CountOf(queued, k, Len(queued))
                                   + IF reader[k] = "sending" THEN 1 ELSE 0
    BY DEF ReadIsQueuedOrHeld
  <2>1. queued = <<>> /\ Len(queued) = 0 /\ read[k] = 0 /\ reader[k] = "done"
    BY DEF Init, Nothing
  <2>2. CountOf(queued, k, Len(queued)) = 0
    BY <2>1, CountInNothing
  <2> QED
    BY <2>1, <2>2
<1>4. SendsInOrder
  BY DEF Init, SendsInOrder, TakenIsShown
<1> QED
  BY <1>1, <1>2, <1>3, <1>4 DEF IInv

\* Every step keeps the invariant.
LEMMA NextIInv == IInv /\ [Next]_vars => IInv'
<1> SUFFICES ASSUME IInv, [Next]_vars PROVE IInv'
  OBVIOUS
<1>1. CASE Leaves \/ Opens \/ SpawnFails \/ Closes \/ Idles
  BY <1>1, LoopKeepsIInv
<1>2. CASE Spawns
  BY <1>2, SpawnsKeepsIInv
<1>3. CASE HandlesKeys
  BY <1>3, HandlesKeysKeepsIInv
<1>4. CASE PumpTakes \/ PumpIsDone \/ PumpChecks \/ PumpSends \/ PumpTells
  BY <1>4, PumpKeepsIInv
<1>5. CASE Joined
  BY <1>5, JoinedKeepsIInv
<1>6. CASE \E k \in Pipes : ReaderStep(k)
  <2> PICK k \in Pipes : ReaderStep(k)
    BY <1>6
  <2> QED
    BY ReaderReadsKeepsIInv, ReaderSendsKeepsIInv, ReaderMovesKeepsIInv DEF ReaderStep
<1>7. CASE WriterStep \/ WriterWrites
  BY <1>7, WriterKeepsIInv
<1>8. CASE (\E k \in Pipes : ShellWrites(k)) \/ ProgramStarts \/ ProgramEnds \/ ShellExits
  BY <1>8, ShellKeepsIInv
<1>9. CASE UNCHANGED vars
  <2>1. Numbered(queued)' /\ ReadIsQueuedOrHeld'
    BY <1>9, ChannelUntouched DEF vars, readerVars
  <2>2. TypeOK' /\ SendsInOrder'
    BY <1>9 DEF IInv, TypeOK, SendsInOrder, TakenIsShown, vars, loopVars, shellVars,
                readerVars, inputVars
  <2> QED
    BY <2>1, <2>2 DEF IInv
<1> QED
  BY <1>1, <1>2, <1>3, <1>4, <1>5, <1>6, <1>7, <1>8, <1>9 DEF Next, LoopStep

\* The invariant holds always.
LEMMA Invariance == Spec => []IInv
BY InitIInv, NextIInv, PTL DEF Spec

\* Every variable keeps its type, and the output channel never holds more than
\* its capacity, however the two readers and the echo compete for room.
THEOREM TypeCorrectness == Spec => []TypeOK
<1>1. IInv => TypeOK
  BY DEF IInv
<1> QED
  BY <1>1, Invariance, PTL

\* The n-th chunk of a pipe in the channel is the n-th the shell wrote there: the
\* readers lose, double and reorder nothing at a full channel.
THEOREM Order == Spec => []OutputInOrder
<1>1. IInv => OutputInOrder
  BY DEF IInv, Numbered, CountOf, OutputInOrder
<1> QED
  BY <1>1, Invariance, PTL

\* For any capacity and any output: whenever the loop looks for the viewer's next
\* message, all that pump_outputs has taken out of the channel has been sent, and a
\* viewer that has been told of the end of its terminal was sent it all before;
\* when the send fails, the news of the end stays unsaid.
THEOREM Shown == Spec => []TakenIsShown
<1>1. IInv => TakenIsShown
  BY DEF IInv, SendsInOrder
<1> QED
  BY <1>1, Invariance, PTL
=============================================================================
