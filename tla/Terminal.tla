------------------------------ MODULE Terminal ------------------------------
(***************************************************************************)
(* A terminal session: the host thread's loop, the shell, and the three    *)
(* threads between them.                                                   *)
(*                                                                         *)
(* Two readers move what the shell writes from its pipes into one bounded  *)
(* channel, a writer moves lines from another channel to the shell.  Every *)
(* turn of the loop handles at most one message of the viewer, empties the *)
(* output channel, and looks whether the shell is still alive.  To shut a  *)
(* terminal down the loop kills the shell and joins the three threads.     *)
(*                                                                         *)
(* The loop serves any number of terminals, one after the other in every   *)
(* turn; the model has one, which may be opened again while it is open.    *)
(* Sending output may fail, and ends the loop; any other send to a viewer  *)
(* that has gone counts as sent, and the loop notices in its next turn.    *)
(*                                                                         *)
(* An operator whose name ends in _Slip is a plausible mistake in the      *)
(* definition that follows it; no specification uses it.                   *)
(***************************************************************************)
EXTENDS Naturals, Sequences, FiniteSets

CONSTANTS
    Capacity,   \* CHANNEL_BUFFER_SIZE (256 in the code)
    MaxChunks,  \* bound: reads' worth of output a shell writes to a pipe
    MaxEchoes,  \* bound: messages of keys the viewer sends to a shell
    Programs    \* TRUE: the shell may leave a program behind that has its pipes

ASSUME TerminalAssumption ==
    /\ Capacity \in Nat \ {0}
    /\ MaxChunks \in Nat
    /\ MaxEchoes \in Nat
    /\ Programs \in BOOLEAN

VARIABLES
    pc,         \* where the loop is
    after,      \* where it goes on after the send, or once the threads are joined
    open,       \* the terminal is in the map, or being shut down
    exiting,    \* the flag for the threads; input_tx is dropped with it
    shell,      \* the child process
    program,    \* a program started by the shell is alive and has its pipes
    written,    \* how much has been written to each pipe
    read,       \* how much of it the reader has read
    reader,     \* where each reader is
    queued,     \* all that has ever been put into the output channel
    taken,      \* how much of it the loop has taken out
    shown,      \* how much of it the viewer has been sent
    keys,       \* messages of keys handled
    lines,      \* how many lines are in the input channel
    writer,     \* where the writer is
    status      \* what the viewer was last told

loopVars   == <<pc, after, open>>
shellVars  == <<shell, program, written>>
readerVars == <<read, reader, queued>>
inputVars  == <<keys, lines, writer>>
vars == <<loopVars, exiting, shellVars, readerVars, taken, shown, inputVars, status>>

Pipes  == {"stdout", "stderr"}
Chunks == [from : Pipes, n : 1 .. MaxChunks] \cup {[from |-> "echo", n |-> 0]}

TypeOK ==
    /\ pc \in {"turn", "spawn", "pump", "check", "sending", "telling", "joining", "over"}
    /\ after \in {"turn", "telling", "spawn", "closed", "over"}
    /\ open \in BOOLEAN
    /\ exiting \in BOOLEAN
    /\ shell \in {"none", "running", "dead"}
    /\ program \in BOOLEAN
    /\ written \in [Pipes -> 0 .. MaxChunks]
    /\ read \in [Pipes -> 0 .. MaxChunks]
    /\ reader \in [Pipes -> {"top", "reading", "sending", "done"}]
    /\ queued \in Seq(Chunks)
    /\ taken \in Nat
    /\ shown \in Nat
    /\ Len(queued) <= taken + Capacity
    /\ keys \in 0 .. MaxEchoes
    /\ lines \in 0 .. Capacity
    /\ writer \in {"top", "receiving", "writing", "done"}
    /\ status \in {"none", "opened", "closed"}

Nothing == [k \in Pipes |-> 0]

Init ==
    /\ pc = "turn"
    /\ after = "turn"
    /\ status = "none"
    /\ open = FALSE
    /\ exiting = FALSE
    /\ shell = "none"
    /\ reader = [k \in Pipes |-> "done"]
    /\ writer = "done"
    /\ program = FALSE
    /\ written = Nothing
    /\ read = Nothing
    /\ queued = <<>>
    /\ taken = 0
    /\ shown = 0
    /\ keys = 0
    /\ lines = 0

\* The pipes and channels of a terminal that is new, or gone.
Empties ==
    /\ program' = FALSE
    /\ written' = Nothing
    /\ read' = Nothing
    /\ queued' = <<>>
    /\ taken' = 0
    /\ shown' = 0
    /\ keys' = 0
    /\ lines' = 0

-----------------------------------------------------------------------------
(* The loop. *)

\* TerminalSession::shutdown up to the joins.
ShutDown(then) ==
    /\ exiting' = TRUE
    /\ shell' = "dead"
    /\ after' = then
    /\ pc' = "joining"

\* The stop flag, Disconnect in the dialog, the viewer's farewell or its loss.
Leaves ==
    /\ pc = "turn"
    /\ \/ open /\ ShutDown("over")
       \/ ~open /\ pc' = "over" /\ UNCHANGED <<exiting, shell, after>>
    /\ UNCHANGED <<open, program, written, readerVars, taken, shown, inputVars, status>>

\* An Open message; a terminal that is open already is dropped first.
Opens ==
    /\ pc = "turn"
    /\ \/ open /\ ShutDown("spawn")
       \/ ~open /\ pc' = "spawn" /\ UNCHANGED <<exiting, shell, after>>
    /\ UNCHANGED <<open, program, written, readerVars, taken, shown, inputVars, status>>

Spawns ==
    /\ pc = "spawn"
    /\ pc' = "pump"
    /\ open' = TRUE
    /\ exiting' = FALSE
    /\ shell' = "running"
    /\ reader' = [k \in Pipes |-> "top"]
    /\ writer' = "top"
    /\ Empties
    /\ status' = "opened"
    /\ UNCHANGED after

SpawnFails ==
    /\ pc = "spawn"
    /\ pc' = "pump"
    /\ status' = "none"
    /\ UNCHANGED <<after, open, exiting, shellVars, readerVars, taken, shown, inputVars>>

Room == Len(queued) < taken + Capacity

\* A Data message for the open terminal: the echo goes into the output channel,
\* finished lines into the input channel; what finds no room is lost.
HandlesKeys ==
    /\ pc = "turn"
    /\ open
    /\ keys < MaxEchoes
    /\ keys' = keys + 1
    /\ queued' = IF Room THEN Append(queued, [from |-> "echo", n |-> 0]) ELSE queued
    /\ IF writer = "done" THEN UNCHANGED lines ELSE lines' \in lines .. Capacity
    /\ pc' = "pump"
    /\ UNCHANGED <<after, open, exiting, shellVars, read, reader, taken, shown, writer,
                   status>>

Closes ==
    /\ pc = "turn"
    /\ open
    /\ ShutDown("closed")
    /\ UNCHANGED <<open, program, written, readerVars, taken, shown, inputVars, status>>

\* No message within 50 ms, or one that changes nothing.
Idles ==
    /\ pc = "turn"
    /\ pc' = "pump"
    /\ UNCHANGED <<after, open, exiting, shellVars, readerVars, taken, shown, inputVars,
                   status>>

PumpTakes ==
    /\ pc = "pump"
    /\ open
    /\ taken < Len(queued)
    /\ taken' = taken + 1
    /\ UNCHANGED <<loopVars, exiting, shellVars, readerVars, shown, inputVars, status>>

PumpIsDone ==
    /\ pc = "pump"
    /\ open => taken = Len(queued)
    /\ pc' = IF open THEN "check" ELSE "turn"
    /\ UNCHANGED <<after, open, exiting, shellVars, readerVars, taken, shown, inputVars,
                   status>>

\* The end is expected from the channel, whose last sender the terminal keeps.
PumpChecks_Slip ==
    /\ pc = "check"
    /\ pc' = "sending"
    /\ UNCHANGED <<after, open, exiting, shellVars, readerVars, taken, shown, inputVars,
                   status>>

\* The news of the end overtakes the last of the output.
PumpChecks_Early ==
    /\ pc = "check"
    /\ pc' = "sending"
    /\ \/ shell = "dead" /\ after' = "telling" /\ status' = "closed"
       \/ shell # "dead" /\ UNCHANGED <<after, status>>
    /\ UNCHANGED <<open, exiting, shellVars, readerVars, taken, shown, inputVars>>

\* try_wait: whether the shell has ended is known before anything is sent.
PumpChecks ==
    /\ pc = "check"
    /\ pc' = "sending"
    /\ after' = IF shell = "dead" THEN "telling" ELSE after
    /\ UNCHANGED <<open, exiting, shellVars, readerVars, taken, shown, inputVars, status>>

\* send_data of what was taken; an error ends the loop, the news unsaid.
PumpSends ==
    /\ pc = "sending"
    /\ \/ /\ shown' = taken
          /\ pc' = after
          /\ after' = "turn"
          /\ UNCHANGED <<exiting, shell>>
       \/ /\ shown # taken
          /\ ShutDown("over")
          /\ UNCHANGED shown
    /\ UNCHANGED <<open, program, written, readerVars, taken, inputVars, status>>

\* send_closed, and the shutdown.
PumpTells ==
    /\ pc = "telling"
    /\ status' = "closed"
    /\ ShutDown("turn")
    /\ UNCHANGED <<open, program, written, readerVars, taken, shown, inputVars>>

\* The three joins return, and the terminal is gone with all it has.
Joined ==
    /\ pc = "joining"
    /\ \A k \in Pipes : reader[k] = "done"
    /\ writer = "done"
    /\ pc' = IF after = "closed" THEN "pump" ELSE after
    /\ status' = IF after = "closed" THEN "closed" ELSE status
    /\ after' = "turn"
    /\ open' = FALSE
    /\ exiting' = FALSE
    /\ shell' = "none"
    /\ Empties
    /\ UNCHANGED <<reader, writer>>

-----------------------------------------------------------------------------
(* The threads. *)

\* Nobody is left who could write to the pipes or read from them.
PipesClosed == shell = "dead" /\ ~program

ReaderLooks(k) ==
    /\ reader[k] = "top"
    /\ reader' = [reader EXCEPT ![k] = IF exiting THEN "done" ELSE "reading"]
    /\ UNCHANGED <<loopVars, exiting, shellVars, read, queued, taken, shown, inputVars, status>>

\* A full channel costs a chunk.
ReaderReads_Slip(k) ==
    /\ reader[k] = "reading"
    /\ read[k] < written[k]
    /\ read' = [read EXCEPT ![k] = @ + 1]
    /\ queued' = IF Room THEN Append(queued, [from |-> k, n |-> read'[k]]) ELSE queued
    /\ reader' = [reader EXCEPT ![k] = "top"]
    /\ UNCHANGED <<loopVars, exiting, shellVars, taken, shown, inputVars, status>>

\* The limit of the channel is overlooked by one.
ReaderReads_OffByOne(k) ==
    /\ reader[k] = "reading"
    /\ read[k] < written[k]
    /\ read' = [read EXCEPT ![k] = @ + 1]
    /\ \/ /\ Len(queued) <= taken + Capacity
          /\ queued' = Append(queued, [from |-> k, n |-> read'[k]])
          /\ reader' = [reader EXCEPT ![k] = "top"]
       \/ /\ Len(queued) > taken + Capacity
          /\ reader' = [reader EXCEPT ![k] = "sending"]
          /\ UNCHANGED queued
    /\ UNCHANGED <<loopVars, exiting, shellVars, taken, shown, inputVars, status>>

\* A read that returns something, and the try_send that follows.
ReaderReads(k) ==
    /\ reader[k] = "reading"
    /\ read[k] < written[k]
    /\ read' = [read EXCEPT ![k] = @ + 1]
    /\ \/ /\ Room
          /\ queued' = Append(queued, [from |-> k, n |-> read'[k]])
          /\ reader' = [reader EXCEPT ![k] = "top"]
       \/ /\ ~Room
          /\ reader' = [reader EXCEPT ![k] = "sending"]
          /\ UNCHANGED queued
    /\ UNCHANGED <<loopVars, exiting, shellVars, taken, shown, inputVars, status>>

\* The blocking send; the receiver lives until this thread has been joined.
ReaderSends(k) ==
    /\ reader[k] = "sending"
    /\ Room
    /\ queued' = Append(queued, [from |-> k, n |-> read[k]])
    /\ reader' = [reader EXCEPT ![k] = "top"]
    /\ UNCHANGED <<loopVars, exiting, shellVars, read, taken, shown, inputVars, status>>

ReaderEnds(k) ==
    /\ reader[k] = "reading"
    /\ read[k] = written[k]
    /\ PipesClosed
    /\ reader' = [reader EXCEPT ![k] = "done"]
    /\ UNCHANGED <<loopVars, exiting, shellVars, read, queued, taken, shown, inputVars, status>>

WriterLooks ==
    /\ writer = "top"
    /\ writer' = IF exiting THEN "done" ELSE "receiving"
    /\ UNCHANGED <<loopVars, exiting, shellVars, readerVars, taken, shown, keys, lines, status>>

WriterReceives ==
    /\ writer = "receiving"
    /\ lines > 0
    /\ lines' = lines - 1
    /\ writer' = "writing"
    /\ UNCHANGED <<loopVars, exiting, shellVars, readerVars, taken, shown, keys, status>>

\* The sender is kept when the terminal is shut down.
WriterEnds_Slip ==
    /\ writer = "receiving"
    /\ lines = 0
    /\ ~open
    /\ writer' = "done"
    /\ UNCHANGED <<loopVars, exiting, shellVars, readerVars, taken, shown, keys, lines, status>>

\* recv fails once input_tx is dropped and the channel is empty.
WriterEnds ==
    /\ writer = "receiving"
    /\ lines = 0
    /\ exiting
    /\ writer' = "done"
    /\ UNCHANGED <<loopVars, exiting, shellVars, readerVars, taken, shown, keys, lines, status>>

WriterWrites ==
    /\ writer = "writing"
    /\ ~PipesClosed
    /\ writer' = "top"
    /\ UNCHANGED <<loopVars, exiting, shellVars, readerVars, taken, shown, keys, lines, status>>

WriterFails ==
    /\ writer = "writing"
    /\ PipesClosed
    /\ writer' = "done"
    /\ UNCHANGED <<loopVars, exiting, shellVars, readerVars, taken, shown, keys, lines, status>>

-----------------------------------------------------------------------------
(* The shell and its programs. *)

ShellWrites(k) ==
    /\ shell = "running" \/ program
    /\ written[k] < MaxChunks
    /\ written' = [written EXCEPT ![k] = @ + 1]
    /\ UNCHANGED <<loopVars, exiting, shell, program, readerVars, taken, shown, inputVars, status>>

ProgramStarts ==
    /\ Programs
    /\ shell = "running"
    /\ program' = TRUE
    /\ UNCHANGED <<loopVars, exiting, shell, written, readerVars, taken, shown, inputVars, status>>

ProgramEnds ==
    /\ program
    /\ program' = FALSE
    /\ UNCHANGED <<loopVars, exiting, shell, written, readerVars, taken, shown, inputVars, status>>

ShellExits ==
    /\ shell = "running"
    /\ shell' = "dead"
    /\ UNCHANGED <<loopVars, exiting, program, written, readerVars, taken, shown, inputVars,
                   status>>

-----------------------------------------------------------------------------

LoopStep ==
    \/ Leaves \/ Opens \/ Spawns \/ SpawnFails \/ HandlesKeys \/ Closes \/ Idles
    \/ PumpTakes \/ PumpIsDone \/ PumpChecks \/ PumpSends \/ PumpTells \/ Joined

ReaderStep(k) == ReaderLooks(k) \/ ReaderReads(k) \/ ReaderSends(k) \/ ReaderEnds(k)

WriterStep == WriterLooks \/ WriterReceives \/ WriterEnds \/ WriterFails

Next ==
    \/ LoopStep
    \/ \E k \in Pipes : ReaderStep(k) \/ ShellWrites(k)
    \/ WriterStep \/ WriterWrites
    \/ ProgramStarts \/ ProgramEnds \/ ShellExits

Spec == Init /\ [][Next]_vars

(* The loop takes its turns, since its reads have a time limit, and a thread   *)
(* that can go on does.  Nothing is assumed of viewer, shell and programs, nor *)
(* of a write to a pipe that nobody may be reading.                            *)
FairSpec ==
    /\ Spec
    /\ WF_vars(LoopStep)
    /\ \A k \in Pipes : WF_vars(ReaderStep(k))
    /\ WF_vars(WriterStep)

-----------------------------------------------------------------------------
(* Properties. *)

\* What the readers put into the channel is what the shell wrote to each pipe:
\* no chunk is lost at a full channel, none is doubled or overtaken by a later
\* one of its pipe, whatever the channel's limit does to the threads.
OutputInOrder ==
    \A i \in 1 .. Len(queued) :
        queued[i].from \in Pipes =>
            queued[i].n = Cardinality({j \in 1 .. i : queued[j].from = queued[i].from})

\* What the loop has taken out of the channel is sent before it looks for the
\* viewer's next message, and a viewer that is told of the end of its terminal has
\* been sent it all (pump_outputs: the look at the child between taking and
\* sending, the send that may fail, the news of the end after the send).
TakenIsShown ==
    /\ pc \in {"turn", "spawn"} => shown = taken
    /\ status = "closed" => shown = taken

\* The loop notices the end of the shell, even though the channel never says so.
ExitIsNoticed == open /\ shell = "dead" ~> pc \in {"joining", "over"}

\* Shutting down ends, unless a reader waits for room in a full channel or a
\* program that outlives the shell holds its pipes.
ShutdownEndsOrIsStuck ==
    pc = "joining" ~> \/ pc # "joining"
                      \/ program
                      \/ \E k \in Pipes : reader[k] = "sending"

\* Shutting down ends.
ShutdownEnds == pc = "joining" ~> pc # "joining"
=============================================================================
