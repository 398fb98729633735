---------------------------- MODULE FramedStream ----------------------------
(***************************************************************************)
(* Messages in one direction of a TCP stream.                              *)
(*                                                                         *)
(* A message is sealed with its number, and sent as a header that gives    *)
(* its length and a body.  The reader reads with short time limits: when   *)
(* one is met inside a frame, what has been read of it is gone, and the    *)
(* next frame is read from there.  The writer ignores a write that met its *)
(* limit, and goes on behind the part that went out.                       *)
(*                                                                         *)
(* Bytes are places in the stream.  A body read from its first to its last *)
(* byte is the message; what any other bytes say is not modelled.          *)
(*                                                                         *)
(* An operator whose name ends in _Slip is a plausible mistake in the      *)
(* definition that follows it; no specification uses it.                   *)
(***************************************************************************)
EXTENDS Integers, Sequences

CONSTANTS
    Limits,     \* by length of a header: the longest body (2^6 - 1, 2^14 - 1, ...)
    MaxLen,     \* the longest body a reader takes (MAX_FRAME_LEN)
    Sizes,      \* bound: the lengths of the bodies sent
    MaxFrames   \* bound: the number of messages

\* encode_frame takes the shortest header that holds the length of the body.
FitsIn(n, h) == n <= Limits[h] /\ \A g \in DOMAIN Limits : g < h => Limits[g] < n
HeadLen(n)   == CHOOSE h \in DOMAIN Limits : FitsIn(n, h)

\* What is assumed of the constants; MCSessions checks it.
StreamAssumption ==
    /\ Limits \in Seq(Nat) /\ Limits # <<>>
    /\ MaxLen \in Nat
    /\ Sizes \subseteq Nat
    /\ \A n \in Sizes : \E h \in DOMAIN Limits : FitsIn(n, h)
    /\ MaxFrames \in Nat

VARIABLES
    encrypted,  \* both ends have set a key
    sendSeq,    \* send_seq: messages sealed
    frames,     \* what has been written: where each frame begins and stops
    start,      \* where the frame that is being read begins, for the reader
    pos,        \* the next byte to read
    head,       \* the length of its header, 0: not known yet
    body,       \* the length of its body, -1: not known yet
    recvSeq,    \* recv_seq: messages opened
    received,   \* what recv_msg has returned: numbers of messages, 0: garbage
    over,       \* the reader has met an error and ends the session
    torn        \* history: a read or a write met its limit inside a frame

writerVars == <<sendSeq, frames>>
readerVars == <<start, pos, head, body, recvSeq, received, over>>
vars == <<encrypted, writerVars, readerVars, torn>>

Unknown == -1
Frames  == [seq : Nat, from : Nat, head : DOMAIN Limits, body : Sizes, stop : Nat]
Written == IF frames = <<>> THEN 0 ELSE frames[Len(frames)].stop

TypeOK ==
    /\ encrypted \in BOOLEAN
    /\ sendSeq \in Nat
    /\ frames \in Seq(Frames)
    /\ start \in Nat
    /\ pos \in start .. Written
    /\ head \in {0} \cup DOMAIN Limits
    /\ body \in Nat \cup {Unknown}
    /\ recvSeq \in Nat
    /\ received \in Seq(Nat)
    /\ over \in BOOLEAN
    /\ torn \in BOOLEAN

Init ==
    /\ encrypted \in BOOLEAN
    /\ sendSeq = 0
    /\ frames = <<>>
    /\ start = 0
    /\ pos = 0
    /\ head = 0
    /\ body = Unknown
    /\ recvSeq = 0
    /\ received = <<>>
    /\ over = FALSE
    /\ torn = FALSE

-----------------------------------------------------------------------------
(* The writer. *)

Frame(n, stop) == [seq  |-> IF encrypted THEN sendSeq + 1 ELSE 0,
                   from |-> Written, head |-> HeadLen(n), body |-> n, stop |-> stop]

Writes(n, stop) ==
    /\ Len(frames) < MaxFrames
    /\ frames' = Append(frames, Frame(n, stop))
    /\ sendSeq' = IF encrypted THEN sendSeq + 1 ELSE sendSeq
    /\ UNCHANGED <<encrypted, readerVars>>

Sends(n) == Writes(n, Written + HeadLen(n) + n) /\ UNCHANGED torn

\* The write meets its limit after some of the frame, or before any of it.
CutsShort(n) ==
    /\ \E stop \in Written .. Written + HeadLen(n) + n - 1 : Writes(n, stop)
    /\ torn' = TRUE

-----------------------------------------------------------------------------
(* The reader. *)

\* How far the read_exact under way is to get.
Goal ==
    IF head = 0 THEN start + 1
    ELSE IF body = Unknown THEN start + head
    ELSE start + head + body

\* The frames whose header the reader took for a header, whole.
Begun    == {k \in DOMAIN frames : frames[k].from = start /\ frames[k].stop >= start + 1}
HeadRead == {k \in Begun : frames[k].stop >= start + frames[k].head}
Opened   == {k \in HeadRead : frames[k].stop = start + frames[k].head + frames[k].body}

ReadsOn ==
    /\ ~over
    /\ pos < Goal
    /\ \E p \in pos + 1 .. Goal : p <= Written /\ pos' = p
    /\ UNCHANGED <<encrypted, writerVars, start, head, body, recvSeq, received, over, torn>>

\* The limit of the read, at any moment; what has been read is dropped.
TimesOut ==
    /\ ~over
    /\ pos < Goal
    /\ start' = pos
    /\ head' = 0
    /\ body' = Unknown
    /\ torn' = (torn \/ pos > start)
    /\ UNCHANGED <<encrypted, writerVars, pos, recvSeq, received, over>>

\* Two bits of the first byte.
KnowsHead ==
    /\ ~over
    /\ head = 0
    /\ pos = Goal
    /\ head' \in IF Begun # {} THEN {frames[k].head : k \in Begun} ELSE DOMAIN Limits
    /\ UNCHANGED <<encrypted, writerVars, start, pos, body, recvSeq, received, over, torn>>

KnowsBody_Slip ==
    /\ ~over
    /\ head # 0 /\ body = Unknown
    /\ pos = Goal
    /\ \E n \in IF HeadRead # {} THEN {frames[k].body : k \in HeadRead} ELSE 0 .. Limits[head] :
        IF n >= MaxLen
        THEN over' = TRUE /\ UNCHANGED body
        ELSE body' = n /\ UNCHANGED over
    /\ UNCHANGED <<encrypted, writerVars, start, pos, head, recvSeq, received, torn>>
KnowsBody ==
    /\ ~over
    /\ head # 0 /\ body = Unknown
    /\ pos = Goal
    /\ \E n \in IF HeadRead # {} THEN {frames[k].body : k \in HeadRead} ELSE 0 .. Limits[head] :
        IF n > MaxLen
        THEN over' = TRUE /\ UNCHANGED body
        ELSE body' = n /\ UNCHANGED over
    /\ UNCHANGED <<encrypted, writerVars, start, pos, head, recvSeq, received, torn>>

\* The next frame begins where this one ended.
NextFrame == start' = pos /\ head' = 0 /\ body' = Unknown

Finished == ~over /\ body # Unknown /\ pos = Goal

\* What the body is: a message, or garbage.
Contents == IF Opened # {} THEN Opened ELSE {0}

\* A body opens only with the number it was sealed with.
Opens ==
    /\ Finished
    /\ encrypted
    /\ recvSeq' = recvSeq + 1
    /\ \E k \in Contents :
        IF k # 0 /\ frames[k].seq = recvSeq + 1
        THEN received' = Append(received, k) /\ UNCHANGED over
        ELSE over' = TRUE /\ UNCHANGED received
    /\ NextFrame
    /\ UNCHANGED <<encrypted, writerVars, pos, torn>>

TakesPlain ==
    /\ Finished
    /\ ~encrypted
    /\ \E k \in Contents : received' = Append(received, k)
    /\ NextFrame
    /\ UNCHANGED <<encrypted, writerVars, pos, recvSeq, over, torn>>

-----------------------------------------------------------------------------
Next ==
    \/ \E n \in Sizes : Sends(n) \/ CutsShort(n)
    \/ ReadsOn
    \/ TimesOut
    \/ KnowsHead
    \/ KnowsBody
    \/ Opens
    \/ TakesPlain

Spec == Init /\ [][Next]_vars

-----------------------------------------------------------------------------
\* The messages come out in their order, none missing and none twice.
InOrder ==
    /\ Len(received) <= Len(frames)
    /\ \A i \in DOMAIN received : received[i] = i

\* Encrypted messages are received in order whatever the time limits do; all
\* are, as long as no limit was met inside a frame, and then the session does
\* not end for any other reason than a message that is too long (network.rs,
\* read_frame and Encrypt).
StreamKeepsItsPlace ==
    /\ encrypted \/ ~torn => InOrder
    /\ over /\ ~torn =>
        Len(received) < Len(frames) /\ frames[Len(received) + 1].body > MaxLen
=============================================================================
