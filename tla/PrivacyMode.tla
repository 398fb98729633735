---------------------------- MODULE PrivacyMode ----------------------------
(***************************************************************************)
(* Privacy mode: a window over the whole screen of the controlled machine, *)
(* and hooks that keep its own keyboard and mouse out.                     *)
(*                                                                         *)
(* Every window has a thread of its own, started by the session that turns *)
(* privacy on.  The sessions and these threads share the number of the     *)
(* thread to be told to quit (THREAD_ID) and whether the capture takes     *)
(* layered windows in, the cover among them (CAPTURE_LAYERED).  turn_on    *)
(* waits twice, for the last window to go and for the new one to come, and *)
(* each wait has a limit.  A session that is between two messages may do   *)
(* any of the steps its viewer or its loop can ask for; one that waits for *)
(* SWITCH has simply not taken up its message yet.                         *)
(*                                                                         *)
(* An operator whose name ends in _Slip is a plausible mistake in the      *)
(* definition that follows it; no specification uses it.                   *)
(***************************************************************************)
CONSTANTS
    Sessions,   \* the threads of the sessions
    Windows,    \* bound: the threads that show a privacy window
    None        \* no thread: THREAD_ID = 0

ASSUME PrivacyAssumption == None \notin Windows

VARIABLES
    session,        \* where each session is
    made,           \* the window thread a session has started last
    told,           \* what its viewer was last told: privacy is on, or is not
    window,         \* where each window thread is
    quit,           \* WM_USER_QUIT_PRIVACY is in its queue
    threadId,       \* THREAD_ID
    captureLayered, \* CAPTURE_LAYERED
    offLocally,     \* TURNED_OFF_LOCALLY
    late            \* one of the two waits of turn_on has met its limit

sessionVars == <<session, made, told>>
windowVars  == <<window, quit>>
sharedVars  == <<threadId, captureLayered, offLocally>>
vars == <<sessionVars, windowVars, sharedVars, late>>

TypeOK ==
    /\ session \in [Sessions -> {"none", "turn", "draining", "waiting", "ended"}]
    /\ made \in [Sessions -> Windows \cup {None}]
    /\ told \in [Sessions -> BOOLEAN]
    /\ window \in [Windows -> {"unused", "creating", "shown", "covering",
                               "closed", "gone", "failed"}]
    /\ quit \in [Windows -> BOOLEAN]
    /\ threadId \in Windows \cup {None}
    /\ captureLayered \in BOOLEAN
    /\ offLocally \in BOOLEAN
    /\ late \in BOOLEAN

Init ==
    /\ session = [s \in Sessions |-> "none"]
    /\ made = [s \in Sessions |-> None]
    /\ told = [s \in Sessions |-> FALSE]
    /\ window = [w \in Windows |-> "unused"]
    /\ quit = [w \in Windows |-> FALSE]
    /\ threadId = None
    /\ captureLayered = TRUE
    /\ offLocally = FALSE
    /\ late = FALSE

-----------------------------------------------------------------------------
(* The sessions. *)

\* post_quit: the window thread that THREAD_ID names finds the message in its queue.
PostQuit == quit' = [w \in Windows |-> quit[w] \/ w = threadId]

Enters(s, place) == session' = [session EXCEPT ![s] = place]
Tells(s, on)     == told' = [told EXCEPT ![s] = on]

SessionStarts(s) ==
    /\ session[s] = "none"
    /\ Enters(s, "turn")
    /\ UNCHANGED <<made, told, windowVars, sharedVars, late>>

\* SWITCH is held from the first line of turn_on to its last.
SwitchFree == \A s \in Sessions : session[s] \notin {"draining", "waiting"}

\* turn_on: what is on is asked to go.
TurnOn(s) ==
    /\ session[s] = "turn"
    /\ SwitchFree
    /\ \E w \in Windows : window[w] = "unused"
    /\ PostQuit
    /\ Enters(s, "draining")
    /\ UNCHANGED <<made, told, window, sharedVars, late>>

\* wait_until_off: the old window has gone, or the second is over.
Drained_Slip(s) ==
    /\ session[s] = "draining"
    /\ late' = late
Drained(s) ==
    /\ session[s] = "draining"
    /\ late' = (late \/ threadId # None)

\* turn_on starts the thread of the new window.
Spawn(s) ==
    /\ Drained(s)
    /\ \E w \in Windows :
        /\ window[w] = "unused"
        /\ window' = [window EXCEPT ![w] = "creating"]
        /\ made' = [made EXCEPT ![s] = w]
    /\ captureLayered' = FALSE
    /\ Enters(s, "waiting")
    /\ UNCHANGED <<told, quit, threadId, offLocally>>

\* What the thread has sent through the channel so far.
SentOk(w)  == window[w] \in {"covering", "closed", "gone"}
SentErr(w) == window[w] = "failed"

\* turn_on returns and the session answers its viewer.
TurnedOn(s) ==
    /\ session[s] = "waiting"
    /\ SentOk(made[s]) \/ SentErr(made[s])
    /\ Tells(s, SentOk(made[s]))
    /\ Enters(s, "turn")
    /\ UNCHANGED <<made, windowVars, sharedVars, late>>

\* recv_timeout: five seconds without an answer; the thread goes on all the same.
TurnOnTimesOut(s) ==
    /\ session[s] = "waiting"
    /\ window[made[s]] \in {"creating", "shown"}
    /\ captureLayered' = TRUE
    /\ Tells(s, FALSE)
    /\ Enters(s, "turn")
    /\ late' = TRUE
    /\ UNCHANGED <<made, windowVars, threadId, offLocally>>

TurnOff(s) ==
    /\ session[s] = "turn"
    /\ PostQuit
    /\ Tells(s, FALSE)
    /\ UNCHANGED <<session, made, window, sharedVars, late>>

\* take_turned_off_locally: the session that looks first tells its viewer.
TellsOffLocally_Slip(s) ==
    /\ session[s] = "turn"
    /\ offLocally
    /\ offLocally' = FALSE
    /\ UNCHANGED <<sessionVars, windowVars, threadId, captureLayered, late>>
TellsOffLocally(s) ==
    /\ session[s] = "turn"
    /\ offLocally
    /\ offLocally' = FALSE
    /\ Tells(s, FALSE)
    /\ UNCHANGED <<session, made, windowVars, threadId, captureLayered, late>>

\* SessionEndGuard: whoever turned privacy on, the end of a session turns it off.
SessionEnds_Slip(s) ==
    /\ session[s] = "turn"
    /\ quit' = [w \in Windows |-> quit[w] \/ (w = threadId /\ told[s])]
    /\ Enters(s, "ended")
    /\ UNCHANGED <<made, told, window, sharedVars, late>>
SessionEnds(s) ==
    /\ session[s] = "turn"
    /\ PostQuit
    /\ Enters(s, "ended")
    /\ UNCHANGED <<made, told, window, sharedVars, late>>

-----------------------------------------------------------------------------
(* The window threads. *)

Moves(w, from, to) == window[w] = from /\ window' = [window EXCEPT ![w] = to]

\* create_privacy_window has put the window over the screen; the hooks follow.
WindowShows(w) ==
    /\ Moves(w, "creating", "shown")
    /\ UNCHANGED <<sessionVars, quit, sharedVars, late>>

\* The class, the window or a hook is refused; what was made is destroyed.
WindowFails(w) ==
    /\ Moves(w, "creating", "failed") \/ Moves(w, "shown", "failed")
    /\ captureLayered' = TRUE
    /\ UNCHANGED <<sessionVars, quit, threadId, offLocally, late>>

\* THREAD_ID is stored and the success sent.
WindowCovers(w) ==
    /\ Moves(w, "shown", "covering")
    /\ threadId' = w
    /\ UNCHANGED <<sessionVars, quit, captureLayered, offLocally, late>>

\* The message is read: hooks and window go, the capture is as it was.
WindowCloses_Slip(w) ==
    /\ quit[w]
    /\ Moves(w, "covering", "closed")
    /\ UNCHANGED <<sessionVars, quit, sharedVars, late>>
WindowCloses(w) ==
    /\ quit[w]
    /\ Moves(w, "covering", "closed")
    /\ captureLayered' = TRUE
    /\ UNCHANGED <<sessionVars, quit, threadId, offLocally, late>>

\* THREAD_ID is cleared, whatever it holds by now.
WindowForgets(w) ==
    /\ Moves(w, "closed", "gone")
    /\ threadId' = None
    /\ UNCHANGED <<sessionVars, quit, captureLayered, offLocally, late>>

\* keyboard_hook: Ctrl+P on the machine itself, while a window's thread reads messages.
CtrlP(w) ==
    /\ window[w] = "covering"
    /\ offLocally' = TRUE
    /\ PostQuit
    /\ UNCHANGED <<sessionVars, window, threadId, captureLayered, late>>

-----------------------------------------------------------------------------
SessionStep(s) ==
    \/ SessionStarts(s)
    \/ TurnOn(s)
    \/ Spawn(s)
    \/ TurnedOn(s)
    \/ TurnOnTimesOut(s)
    \/ TurnOff(s)
    \/ TellsOffLocally(s)
    \/ SessionEnds(s)

WindowStep(w) ==
    \/ WindowShows(w)
    \/ WindowFails(w)
    \/ WindowCovers(w)
    \/ WindowCloses(w)
    \/ WindowForgets(w)

Next ==
    \/ \E s \in Sessions : SessionStep(s)
    \/ \E w \in Windows : WindowStep(w) \/ CtrlP(w)

Spec == Init /\ [][Next]_vars

\* Windows lets every window's thread run.
Fairness == \A w \in Windows : WF_vars(WindowStep(w))

FairSpec == Spec /\ Fairness

-----------------------------------------------------------------------------
Covers(w)  == window[w] \in {"shown", "covering"}
Uncovered  == \A w \in Windows : ~Covers(w) /\ window[w] # "creating"
AllEnded   == \A s \in Sessions : session[s] = "ended"

\* A cover can be lifted: THREAD_ID names the thread that shows it, so that
\* the end of a session, the viewer and Ctrl+P reach it, unless a wait of
\* turn_on has met its limit (privacy.rs, THREAD_ID).
CoverCanBeLifted ==
    \A w \in Windows : window[w] = "covering" /\ ~quit[w] /\ ~late => threadId = w

\* The viewer's picture never has the cover in it, and once nobody is turning
\* privacy on the capture leaves layered windows out only for a cover
\* (CAPTURE_LAYERED is a flag of its own, set by three kinds of threads).
CaptureFitsCover ==
    ~late =>
        /\ \A w \in Windows : Covers(w) => ~captureLayered
        /\ SwitchFree /\ ~captureLayered => \E w \in Windows : Covers(w)

\* A viewer alone on the machine is not left to believe in a cover that is not
\* there: it is told when someone at the machine lifts it (TURNED_OFF_LOCALLY).
\* With two sessions it may be: the news goes to one, and the end of either
\* turns privacy off for both.
ViewerNotMisled ==
    \A s \in Sessions :
        /\ session[s] = "turn"
        /\ told[s]
        /\ \A t \in Sessions \ {s} : session[t] = "none"
        /\ ~late
        => offLocally \/ \E w \in Windows : Covers(w)

\* When the last session has ended, the machine gets its screen back
\* (SessionEndGuard), unless a wait has met its limit.
CoverIsLifted == [](AllEnded => <>(Uncovered \/ late))
=============================================================================
