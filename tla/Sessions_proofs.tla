-------------------------- MODULE Sessions_proofs --------------------------
(***************************************************************************)
(* Proofs about PrivacyMode, for any sessions and any number of windows:   *)
(* type correctness, and, as long as no wait of turn_on has met its limit, *)
(* that a cover can be lifted, that the capture fits the cover, and that a *)
(* viewer alone on the machine is not misled.  That the last cover goes in *)
(* the end (CoverIsLifted) is left to TLC.                                 *)
(*                                                                         *)
(* About SharedInput and FramedStream, for any sessions, keys and lengths: *)
(* all their properties.                                                   *)
(*                                                                         *)
(* And about the composition: it keeps what its parts promise.  Every      *)
(* behaviour of it is one of PrivacyMode, of SharedInput, of FileDownload, *)
(* of FileUpload, of ClipboardFiles and of FramedStream, so that what is   *)
(* proved about the six holds for it as well.                              *)
(***************************************************************************)
EXTENDS Sessions, Integers, Sequences, TLAPS


-----------------------------------------------------------------------------
(* The inductive invariant.  All of it but types is about the time before  *)
(* a wait has met its limit: one window after the other.                   *)

\* A window from its success to its end is the one that THREAD_ID names.
NamedWhileOn ==
    \A w \in Windows : window[w] \in {"covering", "closed"} => threadId = w

\* THREAD_ID names such a window, or none.
NamesWindow == threadId # None => window[threadId] \in {"covering", "closed"}

\* A window that is being made has its maker waiting, and the last one is gone.
MakerWaits ==
    \A w \in Windows : window[w] \in {"creating", "shown"} =>
        /\ threadId = None
        /\ \E s \in Sessions : session[s] = "waiting" /\ made[s] = w

\* SWITCH is held by one session at most.
OneSwitches ==
    \A s, t \in Sessions :
        session[s] \in {"draining", "waiting"} /\ session[t] \in {"draining", "waiting"} => s = t

\* A session waits for a window it has started.
WaitsForWindow ==
    \A s \in Sessions :
        session[s] = "waiting" => made[s] \in Windows /\ window[made[s]] # "unused"

\* Layered windows are left out of the capture exactly for a window that is
\* being made or covers.
LeftOutForCover ==
    /\ \A w \in Windows : window[w] \in {"creating", "shown", "covering"} => ~captureLayered
    /\ ~captureLayered => \E w \in Windows : window[w] \in {"creating", "shown", "covering"}

\* Only a window that THREAD_ID has named is asked to go.
AskedWhileOn ==
    \A w \in Windows : quit[w] => window[w] \in {"covering", "closed", "gone"}

Alone(s) == \A t \in Sessions \ {s} : session[t] = "none"

StaysOn(w) == w \in Windows /\ window[w] = "covering" /\ ~quit[w]

\* A session alone on the machine keeps the cover it has made until it asks
\* for its end itself, or somebody at the machine does.
OwnCoverStays ==
    \A s \in Sessions :
        Alone(s) /\ ~offLocally =>
            /\ session[s] = "waiting" /\ SentOk(made[s]) => StaysOn(made[s])
            /\ session[s] = "turn" /\ told[s] => StaysOn(made[s])

\* Nobody is told anything before the session begins.
UntoldBefore == \A s \in Sessions : session[s] = "none" => ~told[s]

Orderly ==
    /\ NamedWhileOn
    /\ NamesWindow
    /\ MakerWaits
    /\ OneSwitches
    /\ WaitsForWindow
    /\ LeftOutForCover
    /\ AskedWhileOn
    /\ OwnCoverStays

IInv ==
    /\ TypeOK
    /\ UntoldBefore
    /\ ~late => Orderly

LEMMA InitInvariant == Init => IInv
<1> SUFFICES ASSUME Init PROVE IInv
  OBVIOUS
<1>1. TypeOK
  BY DEF Init, TypeOK
<1> QED
  BY <1>1 DEF Init, IInv, UntoldBefore, Orderly, NamedWhileOn, NamesWindow, MakerWaits, OneSwitches,
              WaitsForWindow, LeftOutForCover, AskedWhileOn, OwnCoverStays, Alone

-----------------------------------------------------------------------------
(* Types. *)

LEMMA StepTypes ==
    ASSUME TypeOK, UntoldBefore, Next
    PROVE  TypeOK' /\ UntoldBefore'
<1> USE DEF TypeOK, UntoldBefore, Enters, Tells, PostQuit, Moves, sessionVars, windowVars, sharedVars
<1>1. ASSUME NEW s \in Sessions, SessionStarts(s) PROVE TypeOK' /\ UntoldBefore'
  BY <1>1 DEF SessionStarts
<1>2. ASSUME NEW s \in Sessions, TurnOn(s) PROVE TypeOK' /\ UntoldBefore'
  BY <1>2 DEF TurnOn
<1>3. ASSUME NEW s \in Sessions, Spawn(s) PROVE TypeOK' /\ UntoldBefore'
  <2>1. PICK w \in Windows : window' = [window EXCEPT ![w] = "creating"] /\ made' = [made EXCEPT ![s] = w]
    BY <1>3 DEF Spawn
  <2> DEFINE States == {"unused", "creating", "shown", "covering", "closed", "gone", "failed"}
  <2>6. window \in [Windows -> States] /\ made \in [Sessions -> Windows \cup {None}]
    OBVIOUS
  <2>7. "creating" \in States
    OBVIOUS
  <2>8. window' \in [Windows -> States] /\ made' \in [Sessions -> Windows \cup {None}]
    <3> HIDE DEF States, TypeOK, UntoldBefore
    <3> QED
      BY <2>1, <2>6, <2>7
  <2>2. window' \in [Windows -> {"unused", "creating", "shown", "covering", "closed", "gone", "failed"}]
        /\ made' \in [Sessions -> Windows \cup {None}]
    BY <2>8
  <2>3. /\ session' = [session EXCEPT ![s] = "waiting"] /\ late' \in BOOLEAN
        /\ captureLayered' = FALSE /\ UNCHANGED <<told, quit, threadId, offLocally>>
    <3>1. late \in BOOLEAN
      OBVIOUS
    <3> HIDE DEF TypeOK, UntoldBefore, States
    <3> QED
      BY <1>3, <3>1 DEF Spawn, Drained
  <2>4. TypeOK'
    BY <2>2, <2>3
  <2>5. UntoldBefore'
    BY <2>3
  <2> QED
    BY <2>4, <2>5
<1>4. ASSUME NEW s \in Sessions, TurnedOn(s) PROVE TypeOK' /\ UntoldBefore'
  <2>1. SentOk(made[s]) \in BOOLEAN
    BY DEF SentOk
  <2>2. TypeOK'
    BY <1>4, <2>1 DEF TurnedOn
  <2>3. UntoldBefore'
    BY <1>4, <2>1 DEF TurnedOn
  <2> QED
    BY <2>2, <2>3
<1>5. ASSUME NEW s \in Sessions, TurnOnTimesOut(s) PROVE TypeOK' /\ UntoldBefore'
  BY <1>5 DEF TurnOnTimesOut
<1>6. ASSUME NEW s \in Sessions, TurnOff(s) PROVE TypeOK' /\ UntoldBefore'
  BY <1>6 DEF TurnOff
<1>7. ASSUME NEW s \in Sessions, TellsOffLocally(s) PROVE TypeOK' /\ UntoldBefore'
  BY <1>7 DEF TellsOffLocally
<1>8. ASSUME NEW s \in Sessions, SessionEnds(s) PROVE TypeOK' /\ UntoldBefore'
  BY <1>8 DEF SessionEnds
<1>9. ASSUME NEW w \in Windows, WindowShows(w) \/ WindowFails(w) PROVE TypeOK' /\ UntoldBefore'
  BY <1>9 DEF WindowShows, WindowFails
<1>10. ASSUME NEW w \in Windows, WindowCovers(w) \/ WindowForgets(w) PROVE TypeOK' /\ UntoldBefore'
  BY <1>10 DEF WindowCovers, WindowForgets
<1>11. ASSUME NEW w \in Windows, WindowCloses(w) \/ CtrlP(w) PROVE TypeOK' /\ UntoldBefore'
  BY <1>11 DEF WindowCloses, CtrlP
<1> QED
  BY <1>1, <1>2, <1>3, <1>4, <1>5, <1>6, <1>7, <1>8, <1>9, <1>10, <1>11
  DEF Next, SessionStep, WindowStep

\* No step takes back that a wait has met its limit.
LEMMA LateStays ==
    ASSUME TypeOK, Next, ~late'
    PROVE  ~late
<1>1. ASSUME NEW s \in Sessions, SessionStep(s) PROVE ~late
  <2>1. CASE Spawn(s)
    BY <2>1 DEF Spawn, Drained
  <2>2. CASE TurnOnTimesOut(s)
    BY <2>2 DEF TurnOnTimesOut
  <2>3. CASE late' = late
    BY <2>3
  <2> QED
    BY <1>1, <2>1, <2>2, <2>3
    DEF SessionStep, SessionStarts, TurnOn, TurnedOn, TurnOff, TellsOffLocally, SessionEnds
<1>2. ASSUME NEW w \in Windows, WindowStep(w) \/ CtrlP(w) PROVE ~late
  <2>1. late' = late
    BY <1>2 DEF WindowStep, WindowShows, WindowFails, WindowCovers, WindowCloses, WindowForgets, CtrlP
  <2> QED
    BY <2>1
<1> QED
  BY <1>1, <1>2 DEF Next

-----------------------------------------------------------------------------
(* The steps of the sessions. *)

LEMMA StartsOrderly ==
    ASSUME TypeOK, UntoldBefore, Orderly, NEW s \in Sessions, SessionStarts(s)
    PROVE  Orderly'
<1> USE DEF TypeOK, Orderly, SessionStarts, Enters, windowVars, sharedVars
<1>1. NamedWhileOn' /\ NamesWindow' /\ LeftOutForCover' /\ AskedWhileOn'
  BY DEF NamedWhileOn, NamesWindow, LeftOutForCover, AskedWhileOn
<1>2. MakerWaits' /\ OneSwitches' /\ WaitsForWindow'
  BY DEF MakerWaits, OneSwitches, WaitsForWindow
<1>3. OwnCoverStays'
  BY DEF OwnCoverStays, Alone, StaysOn, SentOk, UntoldBefore
<1> QED
  BY <1>1, <1>2, <1>3

\* What is asked to go is what THREAD_ID names.
LEMMA QuitOrderly ==
    ASSUME TypeOK, Orderly, PostQuit, UNCHANGED <<window, threadId, captureLayered>>
    PROVE  NamedWhileOn' /\ NamesWindow' /\ LeftOutForCover' /\ AskedWhileOn'
<1>1. NamedWhileOn' /\ NamesWindow' /\ LeftOutForCover'
  BY DEF Orderly, NamedWhileOn, NamesWindow, LeftOutForCover
<1>2. AskedWhileOn'
  <2> SUFFICES ASSUME NEW w \in Windows, quit'[w]
               PROVE  window[w] \in {"covering", "closed", "gone"}
    BY DEF AskedWhileOn
  <2>1. quit[w] \/ w = threadId
    BY DEF PostQuit
  <2>2. CASE quit[w]
    BY <2>2 DEF Orderly, AskedWhileOn
  <2>3. CASE w = threadId
    BY <2>3, PrivacyAssumption DEF PrivacyAssumption, Orderly, NamesWindow
  <2> QED
    BY <2>1, <2>2, <2>3
<1> QED
  BY <1>1, <1>2

LEMMA TurnOnOrderly ==
    ASSUME TypeOK, Orderly, NEW s \in Sessions, TurnOn(s)
    PROVE  Orderly'
<1> USE DEF TypeOK, Orderly, TurnOn, Enters, sharedVars
<1>1. NamedWhileOn' /\ NamesWindow' /\ LeftOutForCover' /\ AskedWhileOn'
  BY QuitOrderly
<1>2. MakerWaits' /\ OneSwitches' /\ WaitsForWindow'
  BY DEF MakerWaits, OneSwitches, WaitsForWindow, SwitchFree
<1>3. OwnCoverStays'
  BY DEF OwnCoverStays, Alone, StaysOn, SentOk, SwitchFree
<1> QED
  BY <1>1, <1>2, <1>3

LEMMA SpawnOrderly ==
    ASSUME PrivacyAssumption, TypeOK, Orderly, NEW s \in Sessions, Spawn(s), ~late'
    PROVE  Orderly'
<1> USE DEF TypeOK, Orderly, Spawn, Drained, Enters
<1>1. PICK w \in Windows :
        /\ window[w] = "unused"
        /\ window' = [window EXCEPT ![w] = "creating"]
        /\ made' = [made EXCEPT ![s] = w]
  OBVIOUS
<1>2. threadId = None /\ threadId' = None
  OBVIOUS
<1>3. \A v \in Windows : window[v] \notin {"covering", "closed"}
  BY <1>2 DEF NamedWhileOn, PrivacyAssumption
<1>4. \A t \in Sessions : session[t] # "waiting"
  BY DEF OneSwitches
<1>5. \A v \in Windows : window[v] \notin {"creating", "shown"}
  BY <1>4 DEF MakerWaits
<1>6. NamedWhileOn' /\ NamesWindow' /\ MakerWaits'
  BY <1>1, <1>2, <1>3, <1>5 DEF NamedWhileOn, NamesWindow, MakerWaits
<1>7. OneSwitches' /\ WaitsForWindow'
  BY <1>1, <1>4 DEF OneSwitches, WaitsForWindow
<1>8. LeftOutForCover' /\ AskedWhileOn'
  BY <1>1, <1>3, <1>5 DEF LeftOutForCover, AskedWhileOn
<1>9. OwnCoverStays'
  <2>1. \A t \in Sessions : session'[t] = "waiting" => ~SentOk(made[t])'
    BY <1>1, <1>4 DEF SentOk
  <2>2. \A t \in Sessions \ {s} : ~Alone(t)'
    BY DEF Alone
  <2> QED
    BY <2>1, <2>2 DEF OwnCoverStays
<1> QED
  BY <1>6, <1>7, <1>8, <1>9

LEMMA TurnedOnOrderly ==
    ASSUME TypeOK, Orderly, NEW s \in Sessions, TurnedOn(s)
    PROVE  Orderly'
<1> USE DEF TypeOK, Orderly, TurnedOn, Enters, Tells, windowVars, sharedVars
<1>1. NamedWhileOn' /\ NamesWindow' /\ LeftOutForCover' /\ AskedWhileOn'
  BY DEF NamedWhileOn, NamesWindow, LeftOutForCover, AskedWhileOn
<1>2. MakerWaits'
  <2> SUFFICES ASSUME NEW w \in Windows, window[w] \in {"creating", "shown"}
               PROVE  threadId = None /\ \E t \in Sessions : session'[t] = "waiting" /\ made[t] = w
    BY DEF MakerWaits
  <2>1. PICK t \in Sessions : session[t] = "waiting" /\ made[t] = w
    BY DEF MakerWaits
  <2>2. t # s
    BY <2>1 DEF SentOk, SentErr
  <2> QED
    BY <2>1, <2>2 DEF MakerWaits
<1>3. OneSwitches' /\ WaitsForWindow'
  BY DEF OneSwitches, WaitsForWindow
<1>4. OwnCoverStays'
  <2> SUFFICES ASSUME NEW t \in Sessions, Alone(t)', ~offLocally'
               PROVE  /\ session'[t] = "waiting" /\ SentOk(made[t])' => StaysOn(made[t])'
                      /\ session'[t] = "turn" /\ told'[t] => StaysOn(made[t])'
    BY DEF OwnCoverStays
  <2>1. t = s /\ Alone(s)
    BY DEF Alone
  <2>2. told'[s] => SentOk(made[s])
    OBVIOUS
  <2>3. told'[s] => StaysOn(made[s])
    BY <2>1, <2>2 DEF OwnCoverStays
  <2> QED
    BY <2>1, <2>3 DEF StaysOn
<1> QED
  BY <1>1, <1>2, <1>3, <1>4

LEMMA TurnOffOrderly ==
    ASSUME TypeOK, Orderly, NEW s \in Sessions, TurnOff(s)
    PROVE  Orderly'
<1> USE DEF TypeOK, Orderly, TurnOff, Tells, sharedVars
<1>1. NamedWhileOn' /\ NamesWindow' /\ LeftOutForCover' /\ AskedWhileOn'
  BY QuitOrderly
<1>2. MakerWaits' /\ OneSwitches' /\ WaitsForWindow'
  BY DEF MakerWaits, OneSwitches, WaitsForWindow
<1>3. OwnCoverStays'
  BY DEF OwnCoverStays, Alone
<1> QED
  BY <1>1, <1>2, <1>3

LEMMA TellsOrderly ==
    ASSUME TypeOK, Orderly, NEW s \in Sessions, TellsOffLocally(s)
    PROVE  Orderly'
<1> USE DEF TypeOK, Orderly, TellsOffLocally, Tells, windowVars
<1>1. NamedWhileOn' /\ NamesWindow' /\ LeftOutForCover' /\ AskedWhileOn'
  BY DEF NamedWhileOn, NamesWindow, LeftOutForCover, AskedWhileOn
<1>2. MakerWaits' /\ OneSwitches' /\ WaitsForWindow'
  BY DEF MakerWaits, OneSwitches, WaitsForWindow
<1>3. OwnCoverStays'
  BY DEF OwnCoverStays, Alone
<1> QED
  BY <1>1, <1>2, <1>3

LEMMA EndsOrderly ==
    ASSUME TypeOK, Orderly, NEW s \in Sessions, SessionEnds(s)
    PROVE  Orderly'
<1> USE DEF TypeOK, Orderly, SessionEnds, Enters, sharedVars
<1>1. NamedWhileOn' /\ NamesWindow' /\ LeftOutForCover' /\ AskedWhileOn'
  BY QuitOrderly
<1>2. MakerWaits' /\ OneSwitches' /\ WaitsForWindow'
  BY DEF MakerWaits, OneSwitches, WaitsForWindow
<1>3. OwnCoverStays'
  BY DEF OwnCoverStays, Alone
<1> QED
  BY <1>1, <1>2, <1>3

-----------------------------------------------------------------------------
(* The steps of the windows. *)

\* While a window is being made there is no other, and none is on.
LEMMA OnlyOneMade ==
    ASSUME PrivacyAssumption, TypeOK, Orderly, NEW w \in Windows, window[w] \in {"creating", "shown"}
    PROVE  /\ threadId = None
           /\ \A v \in Windows \ {w} : window[v] \notin {"creating", "shown", "covering", "closed"}
<1>1. threadId = None
  BY DEF Orderly, MakerWaits
<1>2. \A v \in Windows : window[v] \notin {"covering", "closed"}
  BY <1>1 DEF Orderly, NamedWhileOn, PrivacyAssumption
<1>3. PICK s \in Sessions : session[s] = "waiting" /\ made[s] = w
  BY DEF Orderly, MakerWaits
<1>4. ASSUME NEW v \in Windows, window[v] \in {"creating", "shown"} PROVE v = w
  <2>1. PICK t \in Sessions : session[t] = "waiting" /\ made[t] = v
    BY <1>4 DEF Orderly, MakerWaits
  <2> QED
    BY <1>3, <2>1 DEF Orderly, OneSwitches
<1> QED
  BY <1>1, <1>2, <1>4

\* While a window is on there is no other, and none is being made.
LEMMA OnlyOneOn ==
    ASSUME PrivacyAssumption, TypeOK, Orderly, NEW w \in Windows, window[w] \in {"covering", "closed"}
    PROVE  /\ threadId = w
           /\ \A v \in Windows \ {w} : window[v] \notin {"creating", "shown", "covering", "closed"}
<1>1. threadId = w /\ threadId # None
  BY DEF Orderly, NamedWhileOn, PrivacyAssumption
<1> QED
  BY <1>1 DEF Orderly, NamedWhileOn, MakerWaits

LEMMA ShowsOrderly ==
    ASSUME TypeOK, Orderly, NEW w \in Windows, WindowShows(w)
    PROVE  Orderly'
<1> USE DEF TypeOK, Orderly, WindowShows, Moves, sessionVars, sharedVars
<1>1. NamedWhileOn' /\ NamesWindow' /\ LeftOutForCover' /\ AskedWhileOn'
  BY DEF NamedWhileOn, NamesWindow, LeftOutForCover, AskedWhileOn
<1>2. MakerWaits' /\ OneSwitches' /\ WaitsForWindow'
  BY DEF MakerWaits, OneSwitches, WaitsForWindow
<1>3. OwnCoverStays'
  BY DEF OwnCoverStays, Alone, StaysOn, SentOk, WaitsForWindow
<1> QED
  BY <1>1, <1>2, <1>3

LEMMA FailsOrderly ==
    ASSUME PrivacyAssumption, TypeOK, Orderly, NEW w \in Windows, WindowFails(w)
    PROVE  Orderly'
<1> USE DEF TypeOK, Orderly, WindowFails, Moves, sessionVars
<1>1. \A v \in Windows \ {w} : window[v] \notin {"creating", "shown", "covering", "closed"}
  BY OnlyOneMade
<1>2. NamedWhileOn' /\ NamesWindow' /\ AskedWhileOn'
  BY DEF NamedWhileOn, NamesWindow, AskedWhileOn
<1>3. LeftOutForCover'
  BY <1>1 DEF LeftOutForCover
<1>4. MakerWaits' /\ OneSwitches' /\ WaitsForWindow'
  BY DEF MakerWaits, OneSwitches, WaitsForWindow
<1>5. OwnCoverStays'
  BY DEF OwnCoverStays, Alone, StaysOn, SentOk, WaitsForWindow
<1> QED
  BY <1>2, <1>3, <1>4, <1>5

LEMMA CoversOrderly ==
    ASSUME PrivacyAssumption, TypeOK, Orderly, NEW w \in Windows, WindowCovers(w)
    PROVE  Orderly'
<1> USE DEF TypeOK, Orderly, WindowCovers, Moves, sessionVars
<1>1. \A v \in Windows \ {w} : window[v] \notin {"creating", "shown", "covering", "closed"}
  BY OnlyOneMade
<1>2. NamedWhileOn' /\ NamesWindow' /\ MakerWaits'
  BY <1>1 DEF NamedWhileOn, NamesWindow, MakerWaits
<1>3. LeftOutForCover' /\ AskedWhileOn' /\ OneSwitches' /\ WaitsForWindow'
  BY DEF LeftOutForCover, AskedWhileOn, OneSwitches, WaitsForWindow
<1>4. OwnCoverStays'
  <2>1. ~quit[w]
    BY DEF AskedWhileOn
  <2> QED
    BY <2>1 DEF OwnCoverStays, Alone, StaysOn, SentOk, WaitsForWindow
<1> QED
  BY <1>2, <1>3, <1>4

LEMMA ClosesOrderly ==
    ASSUME PrivacyAssumption, TypeOK, Orderly, NEW w \in Windows, WindowCloses(w)
    PROVE  Orderly'
<1> USE DEF TypeOK, Orderly, WindowCloses, Moves, sessionVars
<1>1. \A v \in Windows \ {w} : window[v] \notin {"creating", "shown", "covering", "closed"}
  BY OnlyOneOn
<1>2. NamedWhileOn' /\ NamesWindow' /\ MakerWaits' /\ AskedWhileOn'
  BY DEF NamedWhileOn, NamesWindow, MakerWaits, AskedWhileOn
<1>3. LeftOutForCover' /\ OneSwitches' /\ WaitsForWindow'
  BY <1>1 DEF LeftOutForCover, OneSwitches, WaitsForWindow
<1>4. OwnCoverStays'
  BY DEF OwnCoverStays, Alone, StaysOn, SentOk, WaitsForWindow
<1> QED
  BY <1>2, <1>3, <1>4

LEMMA ForgetsOrderly ==
    ASSUME PrivacyAssumption, TypeOK, Orderly, NEW w \in Windows, WindowForgets(w)
    PROVE  Orderly'
<1> USE DEF TypeOK, Orderly, WindowForgets, Moves, sessionVars
<1>1. \A v \in Windows \ {w} : window[v] \notin {"creating", "shown", "covering", "closed"}
  BY OnlyOneOn
<1>2. NamedWhileOn' /\ NamesWindow' /\ MakerWaits' /\ AskedWhileOn'
  BY <1>1 DEF NamedWhileOn, NamesWindow, MakerWaits, AskedWhileOn
<1>3. LeftOutForCover' /\ OneSwitches' /\ WaitsForWindow'
  BY DEF LeftOutForCover, OneSwitches, WaitsForWindow
<1>4. OwnCoverStays'
  BY DEF OwnCoverStays, Alone, StaysOn, SentOk, WaitsForWindow
<1> QED
  BY <1>2, <1>3, <1>4

LEMMA CtrlPOrderly ==
    ASSUME TypeOK, Orderly, NEW w \in Windows, CtrlP(w)
    PROVE  Orderly'
<1> USE DEF TypeOK, Orderly, CtrlP, sessionVars
<1>1. NamedWhileOn' /\ NamesWindow' /\ LeftOutForCover' /\ AskedWhileOn'
  BY QuitOrderly
<1>2. MakerWaits' /\ OneSwitches' /\ WaitsForWindow'
  BY DEF MakerWaits, OneSwitches, WaitsForWindow
<1>3. OwnCoverStays'
  BY DEF OwnCoverStays
<1> QED
  BY <1>1, <1>2, <1>3

\* Every step of the specification keeps the invariant.
LEMMA StepInvariant ==
    ASSUME IInv, [Next]_vars
    PROVE  IInv'
<1>1. CASE UNCHANGED vars
  BY <1>1 DEF IInv, TypeOK, UntoldBefore, Orderly, NamedWhileOn, NamesWindow, MakerWaits,
              OneSwitches, WaitsForWindow, LeftOutForCover, AskedWhileOn, OwnCoverStays, Alone,
              StaysOn, SentOk, vars, sessionVars, windowVars, sharedVars
<1>2. CASE Next
  <2>1. TypeOK' /\ UntoldBefore'
    BY <1>2, StepTypes DEF IInv
  <2> SUFFICES ASSUME ~late' PROVE Orderly'
    BY <2>1 DEF IInv
  <2>2. TypeOK /\ UntoldBefore /\ Orderly /\ PrivacyAssumption
    BY <1>2, LateStays, PrivacyAssumption DEF IInv
  <2>3. ASSUME NEW s \in Sessions, SessionStep(s) PROVE Orderly'
    <3>1. CASE SessionStarts(s)
      BY <3>1, <2>2, StartsOrderly
    <3>2. CASE TurnOn(s)
      BY <3>2, <2>2, TurnOnOrderly
    <3>3. CASE Spawn(s)
      BY <3>3, <2>2, SpawnOrderly
    <3>4. CASE TurnedOn(s)
      BY <3>4, <2>2, TurnedOnOrderly
    <3>5. CASE TurnOnTimesOut(s)
      BY <3>5 DEF TurnOnTimesOut
    <3>6. CASE TurnOff(s)
      BY <3>6, <2>2, TurnOffOrderly
    <3>7. CASE TellsOffLocally(s)
      BY <3>7, <2>2, TellsOrderly
    <3>8. CASE SessionEnds(s)
      BY <3>8, <2>2, EndsOrderly
    <3> QED
      BY <2>3, <3>1, <3>2, <3>3, <3>4, <3>5, <3>6, <3>7, <3>8 DEF SessionStep
  <2>4. ASSUME NEW w \in Windows, WindowStep(w) PROVE Orderly'
    <3>1. CASE WindowShows(w)
      BY <3>1, <2>2, ShowsOrderly
    <3>2. CASE WindowFails(w)
      BY <3>2, <2>2, FailsOrderly
    <3>3. CASE WindowCovers(w)
      BY <3>3, <2>2, CoversOrderly
    <3>4. CASE WindowCloses(w)
      BY <3>4, <2>2, ClosesOrderly
    <3>5. CASE WindowForgets(w)
      BY <3>5, <2>2, ForgetsOrderly
    <3> QED
      BY <2>4, <3>1, <3>2, <3>3, <3>4, <3>5 DEF WindowStep
  <2>5. ASSUME NEW w \in Windows, CtrlP(w) PROVE Orderly'
    BY <2>5, <2>2, CtrlPOrderly
  <2> QED
    BY <1>2, <2>3, <2>4, <2>5 DEF Next
<1> QED
  BY <1>1, <1>2

-----------------------------------------------------------------------------
(* The theorems. *)

\* The invariant holds in every state.
THEOREM Invariance == Spec => []IInv
<1>1. Init => IInv
  BY InitInvariant
<1>2. IInv /\ [Next]_vars => IInv'
  BY StepInvariant
<1> QED
  BY <1>1, <1>2, PTL DEF Spec

\* Every variable keeps its type.
THEOREM TypeCorrectness == Spec => []TypeOK
<1>1. IInv => TypeOK
  BY DEF IInv
<1> QED
  BY <1>1, Invariance, PTL

\* A cover can be lifted (privacy.rs, THREAD_ID) unless a wait was too short.
THEOREM CanBeLifted == Spec => []CoverCanBeLifted
<1>1. IInv => CoverCanBeLifted
  BY DEF IInv, Orderly, NamedWhileOn, CoverCanBeLifted
<1> QED
  BY <1>1, Invariance, PTL

\* The cover is not in the picture, and what else is layered is left out for a
\* cover only (privacy.rs, CAPTURE_LAYERED).
THEOREM Capture == Spec => []CaptureFitsCover
<1>1. IInv => CaptureFitsCover
  <2> SUFFICES ASSUME IInv, ~late
               PROVE  /\ \A w \in Windows : Covers(w) => ~captureLayered
                      /\ SwitchFree /\ ~captureLayered => \E w \in Windows : Covers(w)
    BY DEF CaptureFitsCover
  <2>1. \A w \in Windows : Covers(w) => ~captureLayered
    BY DEF IInv, Orderly, LeftOutForCover, Covers
  <2>2. ASSUME SwitchFree, ~captureLayered PROVE \E w \in Windows : Covers(w)
    <3>1. PICK w \in Windows : window[w] \in {"creating", "shown", "covering"}
      BY <2>2 DEF IInv, Orderly, LeftOutForCover
    <3>2. window[w] # "creating"
      BY <2>2 DEF IInv, Orderly, MakerWaits, SwitchFree
    <3> QED
      BY <3>1, <3>2 DEF Covers
  <2> QED
    BY <2>1, <2>2
<1> QED
  BY <1>1, Invariance, PTL

\* A viewer alone on the machine is not misled (privacy.rs, TURNED_OFF_LOCALLY).
THEOREM Truthful == Spec => []ViewerNotMisled
<1>1. IInv => ViewerNotMisled
  BY DEF IInv, Orderly, OwnCoverStays, Alone, StaysOn, Covers, ViewerNotMisled
<1> QED
  BY <1>1, Invariance, PTL

-----------------------------------------------------------------------------
(* Keyboard and mouse: the inductive invariant. *)

\* The mouse belongs to a session that has yet to release it.
OwnerLives == owner # None => place[owner] \in Input!Live

\* The input is blocked by a session that has yet to give it free.
BlockerLives == blocker # None => place[blocker] \in Input!Live \cup {"ending", "unblocking"}

\* A session that presses a button has begun.
PresserBegan == button # None => place[button] # "none"

\* A session whose keys have been released keeps none down.
EndedHoldsNoKey ==
    \A s \in Sessions : place[s] \in {"unblocking", "ended"} => held[s] = {}

\* A move or a release has been let in because the mouse was free or its own.
ClaimIsLegal ==
    \A s \in Sessions :
        place[s] = "claiming" /\ event[s].kind # "down" => event[s].saw \in {None, s}

InputIInv ==
    /\ Input!TypeOK
    /\ Input!NoKeyStuck
    /\ OwnerLives
    /\ BlockerLives
    /\ PresserBegan
    /\ EndedHoldsNoKey
    /\ ClaimIsLegal
    /\ Input!DragKeepsItsOwner

LEMMA InputInitInvariant == Input!Init => InputIInv
<1> SUFFICES ASSUME Input!Init PROVE InputIInv
  OBVIOUS
<1>1. Input!TypeOK
  BY DEF Input!Init, Input!TypeOK, Input!Live, Input!Someone, Input!NoEvent
<1> QED
  BY <1>1 DEF Input!Init, InputIInv, Input!NoKeyStuck, OwnerLives, BlockerLives, PresserBegan, EndedHoldsNoKey, ClaimIsLegal,
              Input!DragKeepsItsOwner

-----------------------------------------------------------------------------
(* Keyboard and mouse: the steps. *)

LEMMA StartsInvariant ==
    ASSUME InputIInv, NEW s \in Sessions, Input!SessionStarts(s)
    PROVE  InputIInv'
<1> USE DEF InputIInv, Input!SessionStarts, Input!Enters, Input!keyVars, Input!mouseVars
<1>1. Input!TypeOK'
  BY DEF Input!TypeOK, Input!Live, Input!Someone
<1>2. Input!NoKeyStuck'
  BY DEF Input!NoKeyStuck, Input!TypeOK, Input!Live
<1>3. OwnerLives' /\ BlockerLives' /\ PresserBegan' /\ EndedHoldsNoKey'
  BY DEF OwnerLives, BlockerLives, PresserBegan, EndedHoldsNoKey, Input!TypeOK, Input!Live, Input!Someone
<1>4. ClaimIsLegal'
  BY DEF ClaimIsLegal, Input!TypeOK
<1>5. Input!DragKeepsItsOwner'
  <2>1. button # s \/ button = None
    BY DEF PresserBegan
  <2> QED
    BY <2>1 DEF Input!DragKeepsItsOwner, Input!Pressing, Input!TypeOK, Input!Live, Input!Someone
<1> QED
  BY <1>1, <1>2, <1>3, <1>4, <1>5

LEMMA RightsInvariant ==
    ASSUME InputIInv, NEW s \in Sessions, Input!OwnerTogglesKeyboard(s) \/ Input!ViewerTogglesViewOnly(s)
    PROVE  InputIInv'
<1> USE DEF InputIInv, Input!OwnerTogglesKeyboard, Input!ViewerTogglesViewOnly, Input!keyVars, Input!mouseVars
<1>1. Input!TypeOK'
  BY DEF Input!TypeOK, Input!Live, Input!Someone
<1> QED
  BY <1>1 DEF Input!NoKeyStuck, OwnerLives, BlockerLives, PresserBegan, EndedHoldsNoKey, ClaimIsLegal,
              Input!DragKeepsItsOwner, Input!Pressing

LEMMA KeyInvariant ==
    ASSUME InputIInv, NEW s \in Sessions, NEW k \in Keys, NEW down \in BOOLEAN, Input!Key(s, k, down)
    PROVE  InputIInv'
<1> USE DEF InputIInv, Input!Key, Input!MayType, Input!sessionVars, Input!mouseVars
<1>1. Input!TypeOK'
  BY DEF Input!TypeOK, Input!Live, Input!Someone
<1>2. Input!NoKeyStuck'
  <2> SUFFICES ASSUME NEW l \in pressed'
               PROVE  \E t \in Sessions : l \in held'[t] /\ place'[t] \in Input!Live \cup {"ending"}
    BY DEF Input!NoKeyStuck
  <2>1. CASE l = k
    <3>1. down
      BY <2>1
    <3> QED
      BY <2>1, <3>1 DEF Input!TypeOK, Input!Live
  <2>2. CASE l # k
    <3>1. l \in pressed
      BY <2>2
    <3>2. PICK t \in Sessions : l \in held[t] /\ place[t] \in Input!Live \cup {"ending"}
      BY <3>1 DEF Input!NoKeyStuck
    <3>3. l \in held'[t]
      BY <2>2, <3>2 DEF Input!TypeOK
    <3> QED
      BY <3>2, <3>3
  <2> QED
    BY <2>1, <2>2
<1> QED
  BY <1>1, <1>2 DEF OwnerLives, BlockerLives, PresserBegan, EndedHoldsNoKey, ClaimIsLegal, Input!DragKeepsItsOwner, Input!Pressing

LEMMA LoadsInvariant ==
    ASSUME InputIInv, NEW s \in Sessions, NEW kind \in {"move", "down", "up"}, Input!Loads(s, kind)
    PROVE  InputIInv'
<1> USE DEF InputIInv, Input!Loads, Input!MayType, Input!Enters, Input!keyVars, Input!mouseVars
<1>1. Input!TypeOK'
  BY DEF Input!TypeOK, Input!Live, Input!Someone
<1>2. Input!NoKeyStuck'
  BY DEF Input!NoKeyStuck, Input!TypeOK, Input!Live
<1>3. OwnerLives' /\ BlockerLives' /\ PresserBegan' /\ EndedHoldsNoKey'
  BY DEF OwnerLives, BlockerLives, PresserBegan, EndedHoldsNoKey, Input!TypeOK, Input!Live, Input!Someone
<1>4. ClaimIsLegal'
  BY DEF ClaimIsLegal, Input!TypeOK
<1>5. Input!DragKeepsItsOwner'
  BY DEF Input!DragKeepsItsOwner, Input!Pressing, Input!TypeOK, Input!Live, Input!Someone
<1> QED
  BY <1>1, <1>2, <1>3, <1>4, <1>5

LEMMA StoresInvariant ==
    ASSUME Input!InputAssumption, InputIInv, NEW s \in Sessions, Input!Stores(s)
    PROVE  InputIInv'
<1> USE DEF InputIInv, Input!Stores, Input!Enters, Input!keyVars
<1>1. Input!TypeOK'
  BY DEF Input!TypeOK, Input!Live, Input!Someone
<1>2. Input!NoKeyStuck'
  BY DEF Input!NoKeyStuck, Input!TypeOK, Input!Live
<1>3. OwnerLives' /\ BlockerLives' /\ PresserBegan' /\ EndedHoldsNoKey'
  BY DEF OwnerLives, BlockerLives, PresserBegan, EndedHoldsNoKey, Input!TypeOK, Input!Live, Input!Someone
<1>4. ClaimIsLegal'
  BY DEF ClaimIsLegal, Input!TypeOK
<1>5. Input!DragKeepsItsOwner'
  <2> SUFFICES ASSUME button # None, place'[button] \in Input!Live, ~raced', s # button
               PROVE  s # None /\ place'[s] = "injecting" /\ event[s].kind = "down"
    BY DEF Input!DragKeepsItsOwner, Input!Pressing
  <2>1. s # None /\ place'[s] = "injecting"
    BY DEF Input!InputAssumption, Input!TypeOK
  <2>2. ASSUME event[s].kind # "down" PROVE FALSE
    <3>1. owner \in {event[s].saw, s} /\ event[s].saw \in {None, s}
      BY <2>2 DEF ClaimIsLegal, Input!TypeOK
    <3>2. button \in Sessions /\ place[button] \in Input!Live
      BY DEF Input!TypeOK, Input!Someone
    <3>3. owner = button \/ (owner # None /\ Input!Pressing(owner))
      BY <3>2 DEF Input!DragKeepsItsOwner, Input!TypeOK
    <3>4. owner = s /\ place[s] = "injecting"
      BY <3>1, <3>3 DEF Input!Pressing
    <3> QED
      BY <3>4
  <2> QED
    BY <2>1, <2>2
<1> QED
  BY <1>1, <1>2, <1>3, <1>4, <1>5

LEMMA InjectsInvariant ==
    ASSUME Input!InputAssumption, InputIInv, NEW s \in Sessions, Input!Injects(s)
    PROVE  InputIInv'
<1> USE DEF InputIInv, Input!Injects, Input!Enters, Input!keyVars
<1>1. event[s].kind \in {"move", "down", "up"}
  BY DEF Input!TypeOK
<1>2. Input!TypeOK'
  BY <1>1 DEF Input!TypeOK, Input!Live, Input!Someone, Input!NoEvent
<1>3. Input!NoKeyStuck'
  BY DEF Input!NoKeyStuck, Input!TypeOK, Input!Live
<1>4. OwnerLives' /\ BlockerLives' /\ PresserBegan' /\ EndedHoldsNoKey'
  BY <1>1 DEF OwnerLives, BlockerLives, PresserBegan, EndedHoldsNoKey, Input!TypeOK, Input!Live, Input!Someone
<1>5. ClaimIsLegal'
  BY DEF ClaimIsLegal, Input!TypeOK
<1>6. Input!DragKeepsItsOwner'
  <2>1. CASE event[s].kind = "down"
    <3>1. button' = s
      BY <2>1
    <3> QED
      BY <2>1, <3>1 DEF Input!DragKeepsItsOwner, Input!TypeOK
  <2>2. CASE event[s].kind = "up"
    <3>1. button' = None
      BY <2>2
    <3> QED
      BY <3>1 DEF Input!DragKeepsItsOwner
  <2>3. CASE event[s].kind = "move"
    <3>1. button' = button
      BY <2>3
    <3> QED
      BY <2>3, <3>1 DEF Input!DragKeepsItsOwner, Input!Pressing, Input!TypeOK, Input!Live, Input!Someone
  <2> QED
    BY <1>1, <2>1, <2>2, <2>3
<1> QED
  BY <1>2, <1>3, <1>4, <1>5, <1>6

LEMMA BlockInvariant ==
    ASSUME InputIInv, (\E s \in Sessions, on \in BOOLEAN : Input!BlockInput(s, on)) \/ Input!CtrlAltDel
    PROVE  InputIInv'
<1> USE DEF InputIInv, Input!BlockInput, Input!CtrlAltDel, Input!sessionVars, Input!keyVars, Input!mouseVars
<1>1. Input!TypeOK'
  BY DEF Input!TypeOK, Input!Live, Input!Someone
<1>2. BlockerLives'
  BY DEF BlockerLives, Input!TypeOK, Input!Live
<1> QED
  BY <1>1, <1>2 DEF Input!NoKeyStuck, OwnerLives, PresserBegan, EndedHoldsNoKey, ClaimIsLegal, Input!DragKeepsItsOwner, Input!Pressing

LEMMA EndInvariant ==
    ASSUME InputIInv, NEW s \in Sessions,
           Input!EndReleasesMouse(s) \/ Input!EndReleasesKeys(s) \/ Input!EndUnblocks(s)
    PROVE  InputIInv'
<1> USE DEF InputIInv, Input!EndReleasesMouse, Input!EndReleasesKeys, Input!EndUnblocks, Input!Enters, Input!keyVars, Input!mouseVars
<1>1. Input!TypeOK'
  BY DEF Input!TypeOK, Input!Live, Input!Someone
<1>2. Input!NoKeyStuck'
  <2>1. CASE Input!EndReleasesKeys(s)
    <3> SUFFICES ASSUME NEW k \in pressed'
                 PROVE  \E t \in Sessions : k \in held'[t] /\ place'[t] \in Input!Live \cup {"ending"}
      BY DEF Input!NoKeyStuck
    <3>1. k \in pressed /\ k \notin held[s]
      BY <2>1
    <3>2. PICK t \in Sessions : k \in held[t] /\ place[t] \in Input!Live \cup {"ending"}
      BY <3>1 DEF Input!NoKeyStuck
    <3>3. t # s
      BY <3>1, <3>2
    <3> QED
      BY <2>1, <3>2, <3>3 DEF Input!TypeOK
  <2>2. CASE Input!EndReleasesMouse(s) \/ Input!EndUnblocks(s)
    BY <2>2 DEF Input!NoKeyStuck, Input!TypeOK, Input!Live
  <2> QED
    BY <2>1, <2>2
<1>3. OwnerLives' /\ BlockerLives' /\ PresserBegan' /\ EndedHoldsNoKey'
  BY DEF OwnerLives, BlockerLives, PresserBegan, EndedHoldsNoKey, Input!TypeOK, Input!Live, Input!Someone
<1>4. ClaimIsLegal'
  BY DEF ClaimIsLegal, Input!TypeOK
<1>5. Input!DragKeepsItsOwner'
  BY DEF Input!DragKeepsItsOwner, Input!Pressing, Input!TypeOK, Input!Live, Input!Someone
<1> QED
  BY <1>1, <1>2, <1>3, <1>4, <1>5

\* Every step of the specification keeps the invariant.
LEMMA InputStepInvariant ==
    ASSUME Input!InputAssumption, InputIInv, [Input!Next]_(Input!vars)
    PROVE  InputIInv'
<1>1. CASE UNCHANGED Input!vars
  BY <1>1 DEF InputIInv, Input!TypeOK, Input!NoKeyStuck, OwnerLives, BlockerLives, PresserBegan, EndedHoldsNoKey, ClaimIsLegal,
              Input!DragKeepsItsOwner, Input!Pressing, Input!vars, Input!sessionVars, Input!keyVars, Input!mouseVars
<1>2. CASE Input!CtrlAltDel
  BY <1>2, BlockInvariant
<1>3. ASSUME NEW s \in Sessions, Input!SessionStarts(s) PROVE InputIInv'
  BY <1>3, StartsInvariant
<1>4. ASSUME NEW s \in Sessions, Input!OwnerTogglesKeyboard(s) \/ Input!ViewerTogglesViewOnly(s) PROVE InputIInv'
  BY <1>4, RightsInvariant
<1>5. ASSUME NEW s \in Sessions, NEW k \in Keys, NEW down \in BOOLEAN, Input!Key(s, k, down) PROVE InputIInv'
  BY <1>5, KeyInvariant
<1>6. ASSUME NEW s \in Sessions, NEW kind \in {"move", "down", "up"}, Input!Loads(s, kind) PROVE InputIInv'
  BY <1>6, LoadsInvariant
<1>7. ASSUME NEW s \in Sessions, Input!Stores(s) PROVE InputIInv'
  BY <1>7, StoresInvariant
<1>8. ASSUME NEW s \in Sessions, Input!Injects(s) PROVE InputIInv'
  BY <1>8, InjectsInvariant
<1>9. ASSUME NEW s \in Sessions, NEW on \in BOOLEAN, Input!BlockInput(s, on) PROVE InputIInv'
  BY <1>9, BlockInvariant
<1>10. ASSUME NEW s \in Sessions,
              Input!EndReleasesMouse(s) \/ Input!EndReleasesKeys(s) \/ Input!EndUnblocks(s)
       PROVE  InputIInv'
  BY <1>10, EndInvariant
<1> QED
  BY <1>1, <1>2, <1>3, <1>4, <1>5, <1>6, <1>7, <1>8, <1>9, <1>10 DEF Input!Next

-----------------------------------------------------------------------------
(* Keyboard and mouse: the theorems. *)

\* The invariant holds in every state, whatever the numbers of the threads are,
\* as long as none of them is 0.
THEOREM InputInvariance == ASSUME Input!InputAssumption PROVE Input!Spec => []InputIInv
<1>1. Input!Init => InputIInv
  BY InputInitInvariant
<1>2. InputIInv /\ [Input!Next]_(Input!vars) => InputIInv'
  BY InputStepInvariant
<1> QED
  BY <1>1, <1>2, PTL DEF Input!Spec

\* Every variable keeps its type.
THEOREM InputTypeCorrectness == ASSUME Input!InputAssumption PROVE Input!Spec => []Input!TypeOK
<1>1. InputIInv => Input!TypeOK
  BY DEF InputIInv
<1> QED
  BY <1>1, InputInvariance, PTL

\* No key is stuck (input.rs, HELD_VKS, HELD_SCANCODES): a key that is down is
\* remembered by a session that will release it.
THEOREM InputKeyboard == ASSUME Input!InputAssumption PROVE Input!Spec => []Input!NoKeyStuck
<1>1. InputIInv => Input!NoKeyStuck
  BY DEF InputIInv
<1> QED
  BY <1>1, InputInvariance, PTL

\* A drag keeps its owner (server.rs, claim_mouse) unless two claims race.
THEOREM InputDrag == ASSUME Input!InputAssumption PROVE Input!Spec => []Input!DragKeepsItsOwner
<1>1. InputIInv => Input!DragKeepsItsOwner
  BY DEF InputIInv
<1> QED
  BY <1>1, InputInvariance, PTL

\* A session that has ended owns neither the mouse nor the block of the input and
\* keeps no key down, and after the last one no key is down (server.rs,
\* SessionEndGuard).
THEOREM InputEnds == ASSUME Input!InputAssumption PROVE Input!Spec => []Input!EndedLetsGo
<1>1. InputIInv => Input!EndedLetsGo
  <2> SUFFICES ASSUME InputIInv PROVE Input!EndedLetsGo
    OBVIOUS
  <2>1. ASSUME NEW s \in Sessions, place[s] = "ended"
        PROVE  owner # s /\ blocker # s /\ held[s] = {}
    BY <2>1 DEF InputIInv, OwnerLives, BlockerLives, EndedHoldsNoKey, Input!Live,
                Input!InputAssumption
  <2>2. (\A s \in Sessions : place[s] \in {"none", "ended"}) => pressed = {}
    BY DEF InputIInv, Input!NoKeyStuck, Input!Live
  <2> QED
    BY <2>1, <2>2 DEF Input!EndedLetsGo
<1> QED
  BY <1>1, InputInvariance, PTL

-----------------------------------------------------------------------------
(* The stream: the inductive invariant. *)

\* Where the frames lie in the stream, and how they are numbered.
Laid(k) ==
    /\ frames[k].from <= frames[k].stop
    /\ frames[k].stop <= frames[k].from + frames[k].head + frames[k].body
    /\ encrypted => frames[k].seq = k
FramesAreLaid ==
    /\ encrypted => sendSeq = Len(frames)
    /\ \A k \in DOMAIN frames : Laid(k) /\ frames[k].stop <= Stream!Written
    /\ \A j, k \in DOMAIN frames : j < k => frames[j].stop <= frames[k].from
    /\ \A k \in DOMAIN frames : k + 1 \in DOMAIN frames => frames[k + 1].from = frames[k].stop
    /\ frames # <<>> => frames[1].from = 0

\* Encrypted: as many messages have been received as opened.
NumbersAgree ==
    encrypted => /\ Stream!InOrder
                 /\ ~over => recvSeq = Len(received)

\* While nothing is torn, every frame is whole, and the reader is in the frame
\* behind the last message it has received.
Current   == Len(received) + 1
Behind    == IF received = <<>> THEN 0 ELSE frames[Len(received)].stop
WholeFrame(k) == frames[k].stop = frames[k].from + frames[k].head + frames[k].body
InPlace ==
    ~torn =>
        /\ \A k \in DOMAIN frames : WholeFrame(k)
        /\ Stream!InOrder
        /\ start = Behind
        /\ pos <= Stream!Goal
        /\ head # 0 => Current \in DOMAIN frames /\ head = frames[Current].head
        /\ body # Stream!Unknown => head # 0 /\ body = frames[Current].body
        /\ over => Current \in DOMAIN frames /\ frames[Current].body > MaxLen

StreamIInv == Stream!TypeOK /\ FramesAreLaid /\ NumbersAgree /\ InPlace

-----------------------------------------------------------------------------
(* The stream: the constants, and the frames. *)

LEMMA HeadersFit ==
    ASSUME Stream!StreamAssumption, NEW n \in Sizes
    PROVE  n \in Nat /\ Stream!HeadLen(n) \in DOMAIN Limits
BY DEF Stream!StreamAssumption, Stream!HeadLen

LEMMA HeadersAreNumbers ==
    ASSUME Stream!StreamAssumption, NEW h \in DOMAIN Limits
    PROVE  h \in Nat \ {0} /\ Limits[h] \in Nat
BY DEF Stream!StreamAssumption

LEMMA FrameTypes ==
    ASSUME Stream!StreamAssumption, Stream!TypeOK, NEW k \in DOMAIN frames
    PROVE  /\ k \in Nat \ {0}
           /\ frames[k].seq \in Nat /\ frames[k].from \in Nat /\ frames[k].stop \in Nat
           /\ frames[k].head \in DOMAIN Limits /\ frames[k].head \in Nat \ {0}
           /\ frames[k].body \in Sizes /\ frames[k].body \in Nat
<1>1. frames[k] \in Stream!Frames /\ k \in Nat \ {0}
  BY DEF Stream!TypeOK
<1>2. frames[k].head \in DOMAIN Limits /\ frames[k].body \in Sizes
  BY <1>1 DEF Stream!Frames
<1> QED
  BY <1>1, <1>2, HeadersAreNumbers, HeadersFit DEF Stream!Frames

LEMMA WrittenIsNat ==
    ASSUME Stream!StreamAssumption, Stream!TypeOK
    PROVE  Stream!Written \in Nat
<1>1. CASE frames = <<>>
  BY <1>1 DEF Stream!Written
<1>2. CASE frames # <<>>
  <2>1. Len(frames) \in DOMAIN frames
    BY <1>2 DEF Stream!TypeOK
  <2> QED
    BY <1>2, <2>1, FrameTypes DEF Stream!Written
<1> QED
  BY <1>1, <1>2

\* The frame the reader is in is the only one that begins where it began.
LEMMA TheFrame ==
    ASSUME Stream!StreamAssumption, StreamIInv, ~torn, Current \in DOMAIN frames
    PROVE  /\ frames[Current].from = start
           /\ \A k \in DOMAIN frames : frames[k].from = start => k = Current
           /\ frames[Current].stop = start + frames[Current].head + frames[Current].body
<1> USE DEF StreamIInv
<1>1. received \in Seq(Nat) /\ start = Behind
  BY DEF Stream!TypeOK, InPlace
<1>2. frames[Current].from = start
  <2>1. CASE received = <<>>
    BY <1>1, <2>1 DEF Current, Behind, FramesAreLaid
  <2>2. CASE received # <<>>
    <3>1. Len(received) \in Nat \ {0} /\ Len(received) \in DOMAIN frames
      BY <1>1, <2>2 DEF Current, Stream!TypeOK
    <3> QED
      BY <1>1, <2>2, <3>1 DEF Current, Behind, FramesAreLaid
  <2> QED
    BY <2>1, <2>2
<1>3. ASSUME NEW k \in DOMAIN frames, frames[k].from = start
      PROVE  k = Current
  <2>1. frames[k].from < frames[k].stop /\ frames[Current].from < frames[Current].stop
    BY FrameTypes DEF InPlace, WholeFrame
  <2>2. CASE k < Current
    BY <1>2, <1>3, <2>1, <2>2, FrameTypes DEF FramesAreLaid
  <2>3. CASE Current < k
    BY <1>2, <1>3, <2>1, <2>3, FrameTypes DEF FramesAreLaid
  <2> QED
    BY <2>2, <2>3, FrameTypes
<1> QED
  BY <1>2, <1>3 DEF InPlace, WholeFrame

\* When there is something to read behind the last message, it is a frame.
LEMMA SomethingToRead ==
    ASSUME Stream!StreamAssumption, StreamIInv, ~torn, start < Stream!Written
    PROVE  Current \in DOMAIN frames
<1> USE DEF StreamIInv
<1>1. /\ received \in Seq(Nat) /\ frames \in Seq(Stream!Frames) /\ start = Behind
      /\ Len(received) <= Len(frames)
  BY DEF Stream!TypeOK, InPlace, Stream!InOrder
<1>2. Len(received) # Len(frames)
  <2> SUFFICES ASSUME Len(received) = Len(frames) PROVE FALSE
    OBVIOUS
  <2>1. Stream!Written = Behind
    BY <1>1 DEF Stream!Written, Behind
  <2> QED
    BY <1>1, <2>1, WrittenIsNat DEF Stream!TypeOK
<1> QED
  BY <1>1, <1>2 DEF Current

-----------------------------------------------------------------------------
(* The stream: the writer. *)

LEMMA StreamInitInvariant ==
    ASSUME Stream!StreamAssumption, Stream!Init
    PROVE  StreamIInv
<1> USE DEF Stream!Init
<1>1. Stream!TypeOK
  <2>1. Stream!Written = 0 /\ pos \in start .. Stream!Written
    BY DEF Stream!Written
  <2>2. frames \in Seq(Stream!Frames) /\ received \in Seq(Nat)
    OBVIOUS
  <2> QED
    BY <2>1, <2>2 DEF Stream!TypeOK
<1>2. FramesAreLaid
  BY DEF FramesAreLaid
<1>3. Stream!InOrder
  BY DEF Stream!InOrder
<1> QED
  BY <1>1, <1>2, <1>3 DEF StreamIInv, NumbersAgree, InPlace, Behind, Stream!Goal, Stream!Unknown

\* A write appends a frame that begins where the last one stopped.
LEMMA WriteAppends ==
    ASSUME Stream!StreamAssumption, StreamIInv, NEW n \in Sizes, NEW stop \in Nat,
           Stream!Written <= stop, stop <= Stream!Written + Stream!HeadLen(n) + n, Stream!Writes(n, stop),
           torn' \in BOOLEAN
    PROVE  /\ Stream!TypeOK'
           /\ FramesAreLaid'
           /\ Stream!Written' = stop
           /\ Len(frames') = Len(frames) + 1
           /\ \A k \in DOMAIN frames : k \in DOMAIN frames' /\ frames'[k] = frames[k]
           /\ frames'[Len(frames) + 1] = Stream!Frame(n, stop)
           /\ DOMAIN frames' = DOMAIN frames \cup {Len(frames) + 1}
<1> USE DEF StreamIInv
<1>1. /\ n \in Nat /\ Stream!HeadLen(n) \in DOMAIN Limits /\ Stream!HeadLen(n) \in Nat \ {0}
      /\ Stream!Written \in Nat /\ frames \in Seq(Stream!Frames)
  BY HeadersFit, HeadersAreNumbers, WrittenIsNat DEF Stream!TypeOK
<1>2. Stream!Frame(n, stop) \in Stream!Frames
  BY <1>1 DEF Stream!Frame, Stream!Frames, Stream!TypeOK
<1>3. /\ frames' = Append(frames, Stream!Frame(n, stop))
      /\ frames' \in Seq(Stream!Frames) /\ Len(frames') = Len(frames) + 1
      /\ frames'[Len(frames) + 1] = Stream!Frame(n, stop)
      /\ \A k \in DOMAIN frames : k \in DOMAIN frames' /\ frames'[k] = frames[k]
      /\ DOMAIN frames' = DOMAIN frames \cup {Len(frames) + 1}
  BY <1>1, <1>2 DEF Stream!Writes
<1>4. Stream!Written' = stop
  <2>1. frames' # <<>>
    BY <1>3
  <2> QED
    BY <1>3, <2>1 DEF Stream!Written, Stream!Frame
<1>5. Stream!TypeOK'
  <2>1. pos \in start .. Stream!Written'
    BY <1>1, <1>4 DEF Stream!TypeOK
  <2> QED
    BY <1>3, <2>1 DEF Stream!TypeOK, Stream!Writes, Stream!readerVars
<1>6. FramesAreLaid'
  <2> DEFINE new == Len(frames) + 1
  <2>1. (encrypted => sendSeq = Len(frames))'
    BY <1>1, <1>3 DEF FramesAreLaid, Stream!Writes, Stream!TypeOK
  <2>2. ASSUME NEW k \in DOMAIN frames'
        PROVE  Laid(k)' /\ frames'[k].stop <= Stream!Written'
    <3>1. CASE k \in DOMAIN frames
      <4>1. frames'[k] = frames[k]
        BY <1>3, <3>1
      <4>2. Laid(k) /\ frames[k].stop <= Stream!Written
        BY <3>1 DEF FramesAreLaid
      <4>3. frames[k].stop \in Nat
        BY <3>1, FrameTypes
      <4>4. encrypted' = encrypted
        BY DEF Stream!Writes
      <4> QED
        BY <1>1, <1>4, <4>1, <4>2, <4>3, <4>4 DEF Laid
    <3>2. CASE k = new
      BY <1>1, <1>3, <1>4, <3>2 DEF FramesAreLaid, Laid, Stream!Writes, Stream!Frame
    <3> QED
      BY <1>3, <3>1, <3>2
  <2>3. ASSUME NEW j \in DOMAIN frames', NEW k \in DOMAIN frames', j < k
        PROVE  frames'[j].stop <= frames'[k].from
    <3>1. CASE k \in DOMAIN frames
      <4>1. j \in DOMAIN frames
        BY <1>1, <1>3, <2>3, <3>1
      <4> QED
        BY <1>3, <2>3, <3>1, <4>1 DEF FramesAreLaid
    <3>2. CASE k = new
      <4>1. j \in DOMAIN frames
        BY <1>1, <1>3, <2>3, <3>2
      <4> QED
        BY <1>3, <3>2, <4>1 DEF FramesAreLaid, Stream!Frame
    <3> QED
      BY <1>3, <3>1, <3>2
  <2>4. ASSUME NEW k \in DOMAIN frames', k + 1 \in DOMAIN frames'
        PROVE  frames'[k + 1].from = frames'[k].stop
    <3>1. CASE k + 1 \in DOMAIN frames
      <4>1. k \in DOMAIN frames
        BY <1>1, <1>3, <3>1
      <4> QED
        BY <1>3, <3>1, <4>1 DEF FramesAreLaid
    <3>2. CASE k + 1 = new
      <4>1. k \in DOMAIN frames /\ k = Len(frames) /\ frames # <<>>
        BY <1>1, <1>3, <3>2
      <4> QED
        BY <1>3, <3>2, <4>1 DEF Stream!Frame, Stream!Written
    <3> QED
      BY <1>3, <2>4, <3>1, <3>2
  <2>5. frames'[1].from = 0
    <3>1. CASE frames = <<>>
      BY <1>3, <3>1 DEF Stream!Frame, Stream!Written
    <3>2. CASE frames # <<>>
      <4>1. 1 \in DOMAIN frames
        BY <1>1, <3>2
      <4> QED
        BY <1>3, <3>2, <4>1 DEF FramesAreLaid
    <3> QED
      BY <3>1, <3>2
  <2> QED
    BY <2>1, <2>2, <2>3, <2>4, <2>5 DEF FramesAreLaid
<1> QED
  BY <1>3, <1>4, <1>5, <1>6

\* What a write leaves true of the reader, whether it was cut short or not.
LEMMA WriteKeepsNumbers ==
    ASSUME Stream!StreamAssumption, StreamIInv, NEW n \in Sizes, NEW stop \in Nat,
           Stream!Written <= stop, stop <= Stream!Written + Stream!HeadLen(n) + n, Stream!Writes(n, stop),
           torn' \in BOOLEAN
    PROVE  NumbersAgree' /\ (Stream!InOrder => Stream!InOrder')
<1>1. Stream!InOrder => Stream!InOrder'
  BY WriteAppends DEF Stream!InOrder, Stream!Writes, Stream!readerVars, StreamIInv, Stream!TypeOK
<1> QED
  BY <1>1 DEF StreamIInv, NumbersAgree, Stream!Writes, Stream!readerVars

LEMMA SendInvariant ==
    ASSUME Stream!StreamAssumption, StreamIInv, NEW n \in Sizes, Stream!Sends(n)
    PROVE  StreamIInv'
<1> DEFINE end == Stream!Written + Stream!HeadLen(n) + n
<1>1. end \in Nat /\ Stream!Written <= end /\ Stream!Writes(n, end) /\ torn' = torn /\ torn' \in BOOLEAN
  BY HeadersFit, HeadersAreNumbers, WrittenIsNat DEF StreamIInv, Stream!TypeOK, Stream!Sends
<1> HIDE DEF end
<1>2. end <= Stream!Written + Stream!HeadLen(n) + n
  BY <1>1, HeadersFit, HeadersAreNumbers, WrittenIsNat DEF end, StreamIInv
<1>3. /\ Stream!TypeOK' /\ FramesAreLaid'
      /\ \A k \in DOMAIN frames : k \in DOMAIN frames' /\ frames'[k] = frames[k]
      /\ frames'[Len(frames) + 1] = Stream!Frame(n, end)
      /\ DOMAIN frames' = DOMAIN frames \cup {Len(frames) + 1}
  BY <1>1, <1>2, WriteAppends
<1>4. NumbersAgree' /\ (Stream!InOrder => Stream!InOrder')
  BY <1>1, <1>2, WriteKeepsNumbers
<1>5. InPlace'
  <2> SUFFICES ASSUME ~torn PROVE InPlace'
    BY <1>1 DEF InPlace
  <2>1. UNCHANGED Stream!readerVars
    BY <1>1 DEF Stream!Writes
  <2>2. \A k \in DOMAIN frames' : WholeFrame(k)'
    <3>1. Stream!Frame(n, end).stop = Stream!Frame(n, end).from + Stream!Frame(n, end).head + Stream!Frame(n, end).body
      BY DEF end, Stream!Frame
    <3> QED
      BY <1>3, <3>1 DEF StreamIInv, InPlace, WholeFrame
  <2>3. Stream!InOrder' /\ start' = Behind'
    <3>1. received # <<>> => Len(received) \in DOMAIN frames
      BY DEF StreamIInv, InPlace, Stream!InOrder, Stream!TypeOK
    <3> QED
      BY <1>3, <1>4, <2>1, <3>1 DEF StreamIInv, InPlace, Behind, Stream!readerVars
  <2>4. Stream!Goal' = Stream!Goal /\ Current' = Current
    BY <2>1 DEF Stream!Goal, Current, Stream!readerVars
  <2> QED
    BY <1>3, <2>1, <2>2, <2>3, <2>4 DEF StreamIInv, InPlace, Stream!readerVars
<1> QED
  BY <1>3, <1>4, <1>5 DEF StreamIInv

LEMMA CutInvariant ==
    ASSUME Stream!StreamAssumption, StreamIInv, NEW n \in Sizes, Stream!CutsShort(n)
    PROVE  StreamIInv'
<1>1. Stream!Written \in Nat /\ Stream!HeadLen(n) \in Nat /\ n \in Nat
  BY HeadersFit, HeadersAreNumbers, WrittenIsNat DEF StreamIInv
<1>2. PICK stop \in Stream!Written .. Stream!Written + Stream!HeadLen(n) + n - 1 : Stream!Writes(n, stop)
  BY DEF Stream!CutsShort
<1>3. stop \in Nat /\ Stream!Written <= stop /\ stop <= Stream!Written + Stream!HeadLen(n) + n /\ torn' = TRUE
  BY <1>1 DEF Stream!CutsShort
<1>4. Stream!TypeOK' /\ FramesAreLaid' /\ NumbersAgree'
  BY <1>2, <1>3, WriteAppends, WriteKeepsNumbers
<1> QED
  BY <1>3, <1>4 DEF StreamIInv, InPlace

-----------------------------------------------------------------------------
(* The stream: the reader. *)

\* What is enough for the parts of the invariant that are about the writer.
LEMMA FramesStay ==
    ASSUME Stream!StreamAssumption, StreamIInv, UNCHANGED <<encrypted, Stream!writerVars>>
    PROVE  FramesAreLaid' /\ Stream!Written' = Stream!Written
BY DEF StreamIInv, FramesAreLaid, Laid, Stream!Written, Stream!writerVars

LEMMA ReadInvariant ==
    ASSUME Stream!StreamAssumption, StreamIInv, Stream!ReadsOn
    PROVE  StreamIInv'
<1> USE DEF StreamIInv, Stream!ReadsOn, Stream!writerVars
<1>1. Stream!Written \in Nat /\ FramesAreLaid' /\ Stream!Written' = Stream!Written
  BY WrittenIsNat, FramesStay
<1>2. Stream!Goal \in Int
  BY HeadersAreNumbers DEF Stream!TypeOK, Stream!Goal, Stream!Unknown
<1>3. Stream!TypeOK' /\ pos' <= Stream!Goal
  BY <1>1, <1>2 DEF Stream!TypeOK
<1>4. Stream!Goal' = Stream!Goal
  BY DEF Stream!Goal
<1> QED
  BY <1>1, <1>3, <1>4 DEF NumbersAgree, Stream!InOrder, InPlace, WholeFrame, Behind, Current

LEMMA TimeOutInvariant ==
    ASSUME Stream!StreamAssumption, StreamIInv, Stream!TimesOut
    PROVE  StreamIInv'
<1> USE DEF StreamIInv, Stream!TimesOut, Stream!writerVars
<1>1. Stream!Written \in Nat /\ FramesAreLaid' /\ Stream!Written' = Stream!Written
  BY WrittenIsNat, FramesStay
<1>2. Stream!TypeOK'
  BY <1>1 DEF Stream!TypeOK, Stream!Unknown
<1>3. NumbersAgree'
  BY DEF NumbersAgree, Stream!InOrder
<1>4. InPlace'
  <2> SUFFICES ASSUME ~torn' PROVE InPlace'
    BY DEF InPlace
  <2>1. pos \in Nat /\ start \in Nat /\ start <= pos
    BY <1>1 DEF Stream!TypeOK
  <2>2. ~torn /\ ~(pos > start)
    OBVIOUS
  <2>3. start' = start /\ pos' = start
    BY <2>1, <2>2
  <2> QED
    BY <2>1, <2>2, <2>3 DEF InPlace, Stream!InOrder, WholeFrame, Behind, Stream!Goal, Stream!Unknown, Stream!TypeOK
<1> QED
  BY <1>1, <1>2, <1>3, <1>4

LEMMA HeadInvariant ==
    ASSUME Stream!StreamAssumption, StreamIInv, Stream!KnowsHead
    PROVE  StreamIInv'
<1> USE DEF StreamIInv, Stream!KnowsHead, Stream!writerVars
<1>1. Stream!Written \in Nat /\ FramesAreLaid' /\ Stream!Written' = Stream!Written
  BY WrittenIsNat, FramesStay
<1>2. head' \in DOMAIN Limits /\ head' \in Nat \ {0}
  <2>1. head' \in DOMAIN Limits
    BY FrameTypes DEF Stream!Begun
  <2> QED
    BY <2>1, HeadersAreNumbers
<1>3. Stream!TypeOK' /\ NumbersAgree'
  BY <1>1, <1>2 DEF Stream!TypeOK, NumbersAgree, Stream!InOrder
<1>4. pos = start + 1 /\ start < Stream!Written
  BY <1>1 DEF Stream!TypeOK, Stream!Goal
<1>5. InPlace'
  <2> SUFFICES ASSUME ~torn PROVE InPlace'
    BY DEF InPlace
  <2>1. Current \in DOMAIN frames
    BY <1>4, SomethingToRead
  <2>2. Stream!Begun = {Current}
    BY <2>1, TheFrame, FrameTypes DEF Stream!Begun
  <2>3. head' = frames[Current].head /\ Current' = Current
    BY <2>2 DEF Current
  <2>4. body = Stream!Unknown
    BY DEF InPlace
  <2>5. pos' <= Stream!Goal'
    BY <1>2, <1>4, <2>4 DEF Stream!Goal, Stream!TypeOK
  <2> QED
    BY <2>1, <2>3, <2>4, <2>5 DEF InPlace, Stream!InOrder, WholeFrame, Behind
<1> QED
  BY <1>1, <1>3, <1>5

LEMMA BodyInvariant ==
    ASSUME Stream!StreamAssumption, StreamIInv, Stream!KnowsBody
    PROVE  StreamIInv'
<1> USE DEF StreamIInv, Stream!writerVars
<1> DEFINE lengths == IF Stream!HeadRead # {} THEN {frames[k].body : k \in Stream!HeadRead} ELSE 0 .. Limits[head]
<1>1. PICK n \in lengths : IF n > MaxLen THEN over' = TRUE /\ body' = body
                                         ELSE body' = n /\ over' = over
  BY DEF Stream!KnowsBody
<1>2. /\ ~over /\ head # 0 /\ body = Stream!Unknown /\ pos = start + head
      /\ UNCHANGED <<encrypted, sendSeq, frames, start, pos, head, recvSeq, received, torn>>
  BY DEF Stream!KnowsBody, Stream!Goal
<1>3. Stream!Written \in Nat /\ FramesAreLaid' /\ Stream!Written' = Stream!Written
  BY <1>2, WrittenIsNat, FramesStay
<1>4. n \in Nat
  <2>1. CASE Stream!HeadRead # {}
    <3>1. PICK k \in Stream!HeadRead : n = frames[k].body
      BY <2>1
    <3> QED
      BY <3>1, FrameTypes DEF Stream!HeadRead, Stream!Begun
  <2>2. CASE Stream!HeadRead = {}
    <3>1. Limits[head] \in Nat /\ n \in 0 .. Limits[head]
      BY <1>2, <2>2, HeadersAreNumbers DEF Stream!TypeOK
    <3> QED
      BY <3>1
  <2> QED
    BY <2>1, <2>2
<1>5. Stream!TypeOK' /\ NumbersAgree'
  BY <1>1, <1>2, <1>3, <1>4 DEF Stream!TypeOK, NumbersAgree, Stream!InOrder
<1>6. InPlace'
  <2> SUFFICES ASSUME ~torn PROVE InPlace'
    BY <1>2 DEF InPlace
  <2>1. Current \in DOMAIN frames /\ head = frames[Current].head
    BY <1>2 DEF InPlace
  <2>2. Stream!HeadRead = {Current}
    BY <2>1, TheFrame, FrameTypes DEF Stream!HeadRead, Stream!Begun
  <2>3. n = frames[Current].body /\ Current' = Current
    BY <1>2, <2>2 DEF Current
  <2>4. pos' <= Stream!Goal'
    BY <1>1, <1>2, <1>4 DEF Stream!Goal, Stream!TypeOK, Stream!Unknown
  <2> QED
    BY <1>1, <1>2, <2>1, <2>3, <2>4 DEF InPlace, Stream!InOrder, WholeFrame, Behind
<1> QED
  BY <1>3, <1>5, <1>6

\* A message that has been read to its end, and nothing torn: it is the next one.
LEMMA NextMessage ==
    ASSUME Stream!StreamAssumption, StreamIInv, ~torn, Stream!Finished
    PROVE  /\ Current \in DOMAIN frames
           /\ Stream!Opened = {Current}
           /\ pos = frames[Current].stop
<1> USE DEF StreamIInv, Stream!Finished
<1>1. /\ Current \in DOMAIN frames /\ head # 0
      /\ head = frames[Current].head /\ body = frames[Current].body
  BY DEF InPlace
<1>2. pos = start + head + body
  BY <1>1, FrameTypes DEF Stream!Goal, Stream!Unknown
<1> QED
  BY <1>1, <1>2, TheFrame, FrameTypes DEF Stream!Opened, Stream!HeadRead, Stream!Begun

\* What is received next, and where the reader is then.
LEMMA Delivered ==
    ASSUME Stream!StreamAssumption, StreamIInv, ~torn, Stream!Finished, Stream!NextFrame,
           UNCHANGED <<encrypted, Stream!writerVars, pos, torn>>,
           over' = over, received' = Append(received, Current)
    PROVE  InPlace' /\ Stream!InOrder'
<1> USE DEF StreamIInv, Stream!writerVars, Stream!NextFrame
<1>1. /\ Current \in DOMAIN frames /\ pos = frames[Current].stop
      /\ ~over /\ received \in Seq(Nat) /\ Len(received) \in Nat
  BY NextMessage DEF Stream!Finished, Stream!TypeOK
<1>2. /\ received' # <<>> /\ Len(received') = Current
      /\ \A i \in DOMAIN received' : received'[i] = i
  BY <1>1 DEF InPlace, Stream!InOrder, Current
<1>3. Stream!InOrder' /\ start' = Behind'
  BY <1>1, <1>2 DEF Stream!InOrder, Behind, Stream!TypeOK
<1>4. pos' <= Stream!Goal'
  BY DEF Stream!Goal, Stream!TypeOK
<1> QED
  BY <1>1, <1>2, <1>3, <1>4 DEF InPlace, WholeFrame, Stream!Unknown

LEMMA PlainInvariant ==
    ASSUME Stream!StreamAssumption, StreamIInv, Stream!TakesPlain
    PROVE  StreamIInv'
<1> USE DEF StreamIInv, Stream!TakesPlain, Stream!writerVars
<1>1. Stream!Written \in Nat /\ FramesAreLaid' /\ Stream!Written' = Stream!Written
  BY WrittenIsNat, FramesStay
<1>2. PICK k \in Stream!Contents : received' = Append(received, k)
  OBVIOUS
<1>3. k \in Nat
  <2>1. k = 0 \/ k \in DOMAIN frames
    BY DEF Stream!Contents, Stream!Opened, Stream!HeadRead, Stream!Begun
  <2> QED
    BY <2>1, FrameTypes
<1>4. Stream!TypeOK' /\ NumbersAgree'
  BY <1>1, <1>2, <1>3 DEF Stream!TypeOK, NumbersAgree, Stream!NextFrame
<1>5. InPlace'
  <2> SUFFICES ASSUME ~torn PROVE InPlace'
    BY DEF InPlace
  <2>1. k = Current
    BY NextMessage DEF Stream!Contents
  <2> QED
    BY <1>2, <2>1, Delivered
<1> QED
  BY <1>1, <1>4, <1>5

LEMMA OpenInvariant ==
    ASSUME Stream!StreamAssumption, StreamIInv, Stream!Opens
    PROVE  StreamIInv'
<1> USE DEF StreamIInv, Stream!writerVars
<1>1. /\ Stream!Finished /\ encrypted /\ ~over /\ Stream!NextFrame /\ recvSeq' = recvSeq + 1
      /\ UNCHANGED <<encrypted, sendSeq, frames, pos, torn>>
  BY DEF Stream!Opens, Stream!Finished
<1>2. PICK k \in Stream!Contents :
        IF k # 0 /\ frames[k].seq = recvSeq + 1
        THEN received' = Append(received, k) /\ over' = over
        ELSE over' = TRUE /\ received' = received
  BY DEF Stream!Opens
<1>3. Stream!Written \in Nat /\ FramesAreLaid' /\ Stream!Written' = Stream!Written
  BY <1>1, WrittenIsNat, FramesStay
<1>4. recvSeq = Len(received) /\ Stream!InOrder /\ received \in Seq(Nat)
  BY <1>1 DEF NumbersAgree, Stream!TypeOK
<1>5. CASE k # 0 /\ frames[k].seq = recvSeq + 1
  <2>1. k \in DOMAIN frames /\ k \in Nat /\ k = Current
    BY <1>1, <1>4, <1>5, FrameTypes DEF Stream!Contents, Stream!Opened, Stream!HeadRead, Stream!Begun, FramesAreLaid, Laid, Current
  <2>2. received' = Append(received, Current) /\ over' = over
    BY <1>2, <1>5, <2>1
  <2>3. Stream!TypeOK'
    BY <1>1, <1>3, <2>1, <2>2 DEF Stream!TypeOK, Stream!NextFrame
  <2>4. NumbersAgree'
    <3>1. Stream!InOrder'
      BY <1>1, <1>4, <2>1, <2>2 DEF Stream!InOrder, Current, Stream!TypeOK
    <3> QED
      BY <1>1, <1>4, <2>2, <3>1 DEF NumbersAgree
  <2>5. InPlace'
    <3> SUFFICES ASSUME ~torn PROVE InPlace'
      BY <1>1 DEF InPlace
    <3> QED
      BY <1>1, <2>2, Delivered
  <2> QED
    BY <1>3, <2>3, <2>4, <2>5
<1>6. CASE ~(k # 0 /\ frames[k].seq = recvSeq + 1)
  <2>1. over' = TRUE /\ received' = received
    BY <1>2, <1>6
  <2>2. Stream!TypeOK'
    BY <1>1, <1>3, <2>1 DEF Stream!TypeOK, Stream!NextFrame
  <2>3. NumbersAgree'
    BY <1>1, <1>4, <2>1 DEF NumbersAgree, Stream!InOrder
  <2>4. torn
    <3> SUFFICES ASSUME ~torn PROVE FALSE
      BY DEF Stream!TypeOK
    <3>1. k = Current /\ Current \in DOMAIN frames
      BY <1>1, NextMessage DEF Stream!Contents
    <3>2. frames[Current].seq = Current /\ Current # 0
      BY <1>1, <3>1, FrameTypes DEF FramesAreLaid, Laid
    <3> QED
      BY <1>4, <1>6, <3>1, <3>2 DEF Current
  <2> QED
    BY <1>1, <1>3, <2>2, <2>3, <2>4 DEF InPlace
<1> QED
  BY <1>5, <1>6

-----------------------------------------------------------------------------
(* The stream: the theorems. *)

LEMMA NextInvariant ==
    ASSUME Stream!StreamAssumption, StreamIInv, [Stream!Next]_(Stream!vars)
    PROVE  StreamIInv'
<1>1. CASE UNCHANGED Stream!vars
  BY <1>1 DEF Stream!vars, Stream!writerVars, Stream!readerVars, StreamIInv, Stream!TypeOK, FramesAreLaid, Laid, NumbersAgree,
              InPlace, Stream!InOrder, WholeFrame, Behind, Current, Stream!Goal, Stream!Written
<1>2. CASE Stream!Next
  BY <1>2, SendInvariant, CutInvariant, ReadInvariant, TimeOutInvariant, HeadInvariant,
     BodyInvariant, OpenInvariant, PlainInvariant DEF Stream!Next
<1> QED
  BY <1>1, <1>2

LEMMA StreamInvariance == ASSUME Stream!StreamAssumption PROVE Stream!Spec => []StreamIInv
<1>1. Stream!Init => StreamIInv
  BY StreamInitInvariant
<1>2. StreamIInv /\ [Stream!Next]_(Stream!vars) => StreamIInv'
  BY NextInvariant
<1> QED
  BY <1>1, <1>2, PTL DEF Stream!Spec

\* Every variable keeps its type (network.rs, FramedStream), for any lengths of
\* headers and bodies.
THEOREM StreamTypeCorrectness == ASSUME Stream!StreamAssumption PROVE Stream!Spec => []Stream!TypeOK
<1>1. StreamIInv => Stream!TypeOK
  BY DEF StreamIInv
<1> QED
  BY <1>1, StreamInvariance, PTL

\* The messages come out in order (network.rs, read_frame and Encrypt), for any
\* lengths of headers and bodies and any number of messages.
THEOREM StreamInStep == ASSUME Stream!StreamAssumption PROVE Stream!Spec => []Stream!StreamKeepsItsPlace
<1>1. StreamIInv => Stream!StreamKeepsItsPlace
  <2> SUFFICES ASSUME StreamIInv PROVE Stream!StreamKeepsItsPlace
    OBVIOUS
  <2>1. encrypted \/ ~torn => Stream!InOrder
    BY DEF StreamIInv, NumbersAgree, InPlace
  <2>2. over /\ ~torn => Len(received) < Len(frames) /\ frames[Len(received) + 1].body > MaxLen
    BY DEF StreamIInv, InPlace, Current, Stream!TypeOK
  <2> QED
    BY <2>1, <2>2 DEF Stream!StreamKeepsItsPlace
<1> QED
  BY <1>1, StreamInvariance, PTL

-----------------------------------------------------------------------------
(* The composition. *)

Fetched == INSTANCE FileDownload_proofs WITH
    Trees <- FetchTrees, tree <- fetchTree, ui <- fetchUi, dest <- fetched,
    toHost <- actions, toViewer <- responses

Sent == INSTANCE FileUpload_proofs WITH
    Trees <- SendTrees, tree <- sendTree, ui <- sendUi, dest <- sent

Pasted == INSTANCE ClipboardFiles_proofs WITH
    Lists <- CopiedLists,
    toHost <- answers, toViewer <- questions

\* Sessions and FileDownload_proofs each bring an instance of the library: the
\* orders a set has, and which sets are finite, are the same in both.
LEMMA SameOrders == ASSUME NEW S PROVE Fetch!SetToSeqs(S) = Fetched!SetToSeqs(S)
<1>1. Fetch!Cardinality(S) = Fetched!Cardinality(S)
  BY DEF Fetch!Cardinality, Fetched!Cardinality
<1> QED
  BY <1>1 DEF Fetch!SetToSeqs, Fetched!SetToSeqs

LEMMA SameAscending == ASSUME NEW S PROVE Fetch!Ascending(S) = Fetched!Ascending(S)
BY SameOrders DEF Fetch!Ascending, Fetched!Ascending

LEMMA SameFinite == ASSUME NEW S PROVE Fetch!IsFiniteSet(S) <=> Fetched!IsFiniteSet(S)
BY DEF Fetch!IsFiniteSet, Fetched!IsFiniteSet

\* A step of the composition is one of FileDownload, or leaves it alone.
LEMMA StepOfFetch ==
    ASSUME [SessionsNext]_allVars
    PROVE  [Fetched!Next]_(Fetched!vars)
<1>1. CASE \E j \in Jobs : Fetch!Asks(j) \/ Fetch!Cancels(j)
  <2>1. \E j \in Jobs : Fetched!Asks(j) \/ Fetched!Cancels(j)
    BY <1>1
    DEF Fetch!Asks, Fetched!Asks, Fetch!Cancels, Fetched!Cancels, Fetch!windowVars,
        Fetched!windowVars, Fetch!jobVars, Fetched!jobVars, Fetch!tickVars, Fetched!tickVars,
        Fetch!hostVars, Fetched!hostVars, Fetch!pastVars, Fetched!pastVars
  <2> QED
    BY <2>1 DEF Fetched!Next, Fetched!ViewerStep, Fetched!HostTurn
<1>2. CASE Fetch!Tick
  <2>1. Fetched!Tick
    BY <1>2
    DEF Fetch!Tick, Fetched!Tick, Fetch!windowVars, Fetched!windowVars, Fetch!jobVars,
        Fetched!jobVars, Fetch!tickVars, Fetched!tickVars, Fetch!hostVars, Fetched!hostVars,
        Fetch!pastVars, Fetched!pastVars
  <2> QED
    BY <2>1 DEF Fetched!Next, Fetched!ViewerStep, Fetched!HostTurn
<1>3. CASE Fetch!TakesDir
  <2>1. Fetched!TakesDir
    BY <1>3
    DEF Fetch!TakesDir, Fetched!TakesDir, Fetch!Takes, Fetched!Takes, Fetch!Next1,
        Fetched!Next1, Fetch!Files, Fetched!Files, Fetch!Slots, Fetched!Slots, Fetch!windowVars,
        Fetched!windowVars, Fetch!jobVars, Fetched!jobVars, Fetch!tickVars, Fetched!tickVars,
        Fetch!hostVars, Fetched!hostVars, Fetch!pastVars, Fetched!pastVars
  <2> QED
    BY <2>1 DEF Fetched!Next, Fetched!ViewerStep, Fetched!HostTurn
<1>4. CASE Fetch!TakesDigest
  <2>1. Fetched!TakesDigest
    BY <1>4
    DEF Fetch!TakesDigest, Fetched!TakesDigest, Fetch!Takes, Fetched!Takes, Fetch!Next1,
        Fetched!Next1, Fetch!Answers, Fetched!Answers, Fetch!Action, Fetched!Action,
        Fetch!windowVars, Fetched!windowVars, Fetch!jobVars, Fetched!jobVars, Fetch!tickVars,
        Fetched!tickVars, Fetch!hostVars, Fetched!hostVars, Fetch!pastVars, Fetched!pastVars
  <2> QED
    BY <2>1 DEF Fetched!Next, Fetched!ViewerStep, Fetched!HostTurn
<1>5. CASE Fetch!TakesBlock
  <2>1. Fetched!TakesBlock
    BY <1>5
    DEF Fetch!TakesBlock, Fetched!TakesBlock, Fetch!Takes, Fetched!Takes, Fetch!Next1,
        Fetched!Next1, Fetch!Written, Fetched!Written, Fetch!windowVars, Fetched!windowVars,
        Fetch!jobVars, Fetched!jobVars, Fetch!tickVars, Fetched!tickVars, Fetch!hostVars,
        Fetched!hostVars, Fetch!pastVars, Fetched!pastVars
  <2> QED
    BY <2>1 DEF Fetched!Next, Fetched!ViewerStep, Fetched!HostTurn
<1>6. CASE Fetch!TakesDone
  <2>1. Fetched!TakesDone
    BY <1>6
    DEF Fetch!TakesDone, Fetched!TakesDone, Fetch!Takes, Fetched!Takes, Fetch!Next1,
        Fetched!Next1, Fetch!AllDone, Fetched!AllDone, Fetch!windowVars, Fetched!windowVars,
        Fetch!jobVars, Fetched!jobVars, Fetch!tickVars, Fetched!tickVars, Fetch!hostVars,
        Fetched!hostVars, Fetch!pastVars, Fetched!pastVars
  <2> QED
    BY <2>1 DEF Fetched!Next, Fetched!ViewerStep, Fetched!HostTurn
<1>7. CASE Fetch!TakesError
  <2>1. Fetched!TakesError
    BY <1>7
    DEF Fetch!TakesError, Fetched!TakesError, Fetch!Takes, Fetched!Takes, Fetch!Next1,
        Fetched!Next1, Fetch!windowVars, Fetched!windowVars, Fetch!jobVars, Fetched!jobVars,
        Fetch!tickVars, Fetched!tickVars, Fetch!hostVars, Fetched!hostVars, Fetch!pastVars,
        Fetched!pastVars
  <2> QED
    BY <2>1 DEF Fetched!Next, Fetched!ViewerStep, Fetched!HostTurn
<1>8. CASE Fetch!Polls
  <2>1. Fetched!Polls
    BY <1>8, SameAscending
    DEF Fetch!Polls, Fetched!Polls, Fetch!Action, Fetched!Action, Fetch!windowVars, Fetched!windowVars,
        Fetch!jobVars, Fetched!jobVars, Fetch!tickVars, Fetched!tickVars, Fetch!hostVars,
        Fetched!hostVars, Fetch!pastVars, Fetched!pastVars
  <2> QED
    BY <2>1 DEF Fetched!Next, Fetched!ViewerStep, Fetched!HostTurn
<1>9. CASE Fetch!HostSend
  <2>1. Fetched!HostSend
    BY <1>9, SameAscending
    DEF Fetch!HostSend, Fetched!HostSend, Fetch!HostTakes, Fetched!HostTakes, Fetch!NewJob, Fetched!NewJob,
        Fetch!There, Fetched!There, Fetch!Listed, Fetched!Listed, Fetch!IsFile, Fetched!IsFile,
        Fetch!Key, Fetched!Key, Fetch!Response, Fetched!Response, Fetch!Action, Fetched!Action,
        Fetch!windowVars, Fetched!windowVars, Fetch!jobVars, Fetched!jobVars, Fetch!tickVars,
        Fetched!tickVars, Fetch!hostVars, Fetched!hostVars, Fetch!pastVars, Fetched!pastVars
  <2> QED
    BY <2>1 DEF Fetched!Next, Fetched!ViewerStep, Fetched!HostTurn
<1>10. CASE Fetch!HostConfirm \/ Fetch!HostSkip \/ Fetch!HostCancel
  <2>1. Fetched!HostConfirm \/ Fetched!HostSkip \/ Fetched!HostCancel
    BY <1>10
    DEF Fetch!HostConfirm, Fetched!HostConfirm, Fetch!HostSkip, Fetched!HostSkip,
        Fetch!HostCancel, Fetched!HostCancel, Fetch!HostTakes, Fetched!HostTakes, Fetch!Key,
        Fetched!Key, Fetch!Without, Fetched!Without, Fetch!Response, Fetched!Response,
        Fetch!windowVars, Fetched!windowVars, Fetch!jobVars, Fetched!jobVars, Fetch!tickVars,
        Fetched!tickVars, Fetch!hostVars, Fetched!hostVars, Fetch!pastVars, Fetched!pastVars
  <2> QED
    BY <2>1 DEF Fetched!Next, Fetched!ViewerStep, Fetched!HostTurn
<1>11. CASE Fetch!HostPumps
  <2>1. Fetched!HostPumps
    BY <1>11, SameOrders
    DEF Fetch!HostPumps, Fetched!HostPumps, Fetch!Pending, Fetched!Pending, Fetch!Job,
        Fetched!Job, Fetch!Whole, Fetched!Whole, Fetch!Block, Fetched!Block, Fetch!Response, Fetched!Response, Fetch!windowVars,
        Fetched!windowVars, Fetch!jobVars, Fetched!jobVars, Fetch!tickVars, Fetched!tickVars,
        Fetch!hostVars, Fetched!hostVars, Fetch!pastVars, Fetched!pastVars
  <2> QED
    BY <2>1 DEF Fetched!Next, Fetched!ViewerStep, Fetched!HostTurn
<1>12. CASE \E k \in DOMAIN sendJobs : Fetch!SourceShrinks(k)
  <2>1. \E k \in DOMAIN sendJobs : Fetched!SourceShrinks(k)
    BY <1>12
    DEF Fetch!SourceShrinks, Fetched!SourceShrinks, Fetch!Job, Fetched!Job, Fetch!Whole,
        Fetched!Whole, Fetch!windowVars, Fetched!windowVars, Fetch!jobVars, Fetched!jobVars,
        Fetch!tickVars, Fetched!tickVars, Fetch!hostVars, Fetched!hostVars, Fetch!pastVars,
        Fetched!pastVars
  <2> QED
    BY <2>1 DEF Fetched!Next, Fetched!ViewerStep, Fetched!HostTurn
<1>13. CASE UNCHANGED fetchVars
  BY <1>13 DEF fetchVars, Fetched!vars, Fetched!windowVars, Fetched!jobVars, Fetched!tickVars, Fetched!hostVars, Fetched!pastVars
<1>14. Fetch!Next \/ UNCHANGED fetchVars
  BY DEF SessionsNext, allVars, Others
<1> QED
  BY <1>1, <1>2, <1>3, <1>4, <1>5, <1>6, <1>7, <1>8, <1>9, <1>10, <1>11, <1>12, <1>13, <1>14 DEF Fetch!Next, Fetch!ViewerStep, Fetch!HostTurn

\* A step of the composition is one of FileUpload, or leaves it alone.
LEMMA StepOfSend ==
    ASSUME [SessionsNext]_allVars
    PROVE  [Sent!Next]_(Sent!vars)
<1>1. CASE \E j \in Jobs : Send!Asks(j) \/ Send!Cancels(j)
  <2>1. \E j \in Jobs : Sent!Asks(j) \/ Sent!Cancels(j)
    BY <1>1
    DEF Send!Asks, Sent!Asks, Send!pastVars, Sent!pastVars, Send!Cancels, Sent!Cancels
  <2> QED
    BY <2>1 DEF Sent!Next, Sent!ThreadStep, Sent!HostTurn
<1>2. CASE \E j \in Jobs : Send!ThreadWakes(j) \/ Send!ThreadGoesOn(j)
  <2>1. \E j \in Jobs : Sent!ThreadWakes(j) \/ Sent!ThreadGoesOn(j)
    BY <1>2
    DEF Send!ThreadWakes, Sent!ThreadWakes, Send!ThreadAt, Sent!ThreadAt, Send!pastVars,
        Sent!pastVars, Send!ThreadGoesOn, Sent!ThreadGoesOn, Send!CurrentFile, Sent!CurrentFile,
        Send!NextFile, Sent!NextFile, Send!IsFile, Sent!IsFile
  <2> QED
    BY <2>1 DEF Sent!Next, Sent!ThreadStep, Sent!HostTurn
<1>3. CASE \E j \in Jobs : Send!ThreadSends(j)
  <2>1. \E j \in Jobs : Sent!ThreadSends(j)
    BY <1>3
    DEF Send!ThreadSends, Sent!ThreadSends, Send!CurrentFile, Sent!CurrentFile, Send!ThreadAt,
        Sent!ThreadAt, Send!IsFile, Sent!IsFile, Send!Message, Sent!Message, Send!pastVars,
        Sent!pastVars
  <2> QED
    BY <2>1 DEF Sent!Next, Sent!ThreadStep, Sent!HostTurn
<1>4. CASE \E j \in Jobs : Send!ThreadEnds(j)
  <2>1. \E j \in Jobs : Sent!ThreadEnds(j)
    BY <1>4
    DEF Send!ThreadEnds, Sent!ThreadEnds, Send!ThreadAt, Sent!ThreadAt, Send!CurrentFile,
        Sent!CurrentFile, Send!Message, Sent!Message, Send!pastVars, Sent!pastVars
  <2> QED
    BY <2>1 DEF Sent!Next, Sent!ThreadStep, Sent!HostTurn
<1>5. CASE Send!NetworkFlushes
  <2>1. Sent!NetworkFlushes
    BY <1>5
    DEF Send!NetworkFlushes, Sent!NetworkFlushes, Send!Message, Sent!Message, Send!pastVars,
        Sent!pastVars
  <2> QED
    BY <2>1 DEF Sent!Next, Sent!ThreadStep, Sent!HostTurn
<1>6. CASE Send!WindowHears
  <2>1. Sent!WindowHears
    BY <1>6
    DEF Send!WindowHears, Sent!WindowHears, Send!pastVars, Sent!pastVars
  <2> QED
    BY <2>1 DEF Sent!Next, Sent!ThreadStep, Sent!HostTurn
<1>7. CASE Send!HostReceive
  <2>1. Sent!HostReceive
    BY <1>7
    DEF Send!HostReceive, Sent!HostReceive, Send!Next1, Sent!Next1, Send!Key, Sent!Key,
        Send!IsFile, Sent!IsFile, Send!HostTakes, Sent!HostTakes, Send!viewerVars, Sent!viewerVars
  <2> QED
    BY <2>1 DEF Sent!Next, Sent!ThreadStep, Sent!HostTurn
<1>8. CASE Send!HostWrites
  <2>1. Sent!HostWrites
    BY <1>8
    DEF Send!HostWrites, Sent!HostWrites, Send!HostTakes, Sent!HostTakes, Send!Next1, Sent!Next1,
        Send!viewerVars, Sent!viewerVars, Send!Writable, Sent!Writable, Send!BlockKey,
        Sent!BlockKey, Send!Key, Sent!Key, Send!JobFile, Sent!JobFile, Send!Written, Sent!Written
  <2> QED
    BY <2>1 DEF Sent!Next, Sent!ThreadStep, Sent!HostTurn
<1>9. CASE Send!HostWriteFails
  <2>1. Sent!HostWriteFails
    BY <1>9
    DEF Send!HostWriteFails, Sent!HostWriteFails, Send!HostTakes, Sent!HostTakes, Send!Next1,
        Sent!Next1, Send!viewerVars, Sent!viewerVars, Send!Writable, Sent!Writable, Send!BlockKey,
        Sent!BlockKey, Send!Key, Sent!Key, Send!Message, Sent!Message
  <2> QED
    BY <2>1 DEF Sent!Next, Sent!ThreadStep, Sent!HostTurn
<1>10. CASE Send!HostIgnores
  <2>1. Sent!HostIgnores
    BY <1>10
    DEF Send!HostIgnores, Sent!HostIgnores, Send!HostTakes, Sent!HostTakes, Send!Next1, Sent!Next1,
        Send!viewerVars, Sent!viewerVars, Send!Writable, Sent!Writable, Send!BlockKey,
        Sent!BlockKey, Send!Key, Sent!Key, Send!Received, Sent!Received, Send!BlockFile,
        Sent!BlockFile
  <2> QED
    BY <2>1 DEF Sent!Next, Sent!ThreadStep, Sent!HostTurn
<1>11. CASE Send!HostDone
  <2>1. Sent!HostDone
    BY <1>11
    DEF Send!HostDone, Sent!HostDone, Send!HostTakes, Sent!HostTakes, Send!Next1, Sent!Next1,
        Send!viewerVars, Sent!viewerVars, Send!DoneKeys, Sent!DoneKeys, Send!BlockKey,
        Sent!BlockKey, Send!Key, Sent!Key, Send!Received, Sent!Received, Send!BlockFile,
        Sent!BlockFile, Send!Message, Sent!Message
  <2> QED
    BY <2>1 DEF Sent!Next, Sent!ThreadStep, Sent!HostTurn
<1>12. CASE UNCHANGED sendVars
  BY <1>12 DEF sendVars, Sent!vars, Sent!viewerVars, Sent!pastVars
<1>13. Send!Next \/ UNCHANGED sendVars
  BY DEF SessionsNext, allVars, Others
<1> QED
  BY <1>1, <1>2, <1>3, <1>4, <1>5, <1>6, <1>7, <1>8, <1>9, <1>10, <1>11, <1>12, <1>13
  DEF Send!Next, Send!ThreadStep, Send!HostTurn

\* A step of the composition is one of ClipboardFiles, or leaves it alone.
LEMMA StepOfPaste ==
    ASSUME [SessionsNext]_allVars
    PROVE  [Pasted!Next]_(Pasted!vars)
<1>1. CASE \E list \in CopiedLists : Paste!Copy(list)
  <2>1. \E list \in CopiedLists : Pasted!Copy(list)
    BY <1>1
    DEF Paste!Copy, Pasted!Copy, Paste!hostVars, Pasted!hostVars, Paste!Quiet, Pasted!Quiet,
        Paste!Latest, Pasted!Latest, Paste!Answer, Pasted!Answer
  <2> QED
    BY <2>1 DEF Pasted!Next
<1>2. CASE Paste!AnswersNames
  <2>1. Pasted!AnswersNames
    BY <1>2
    DEF Paste!AnswersNames, Pasted!AnswersNames, Paste!Latest, Pasted!Latest, Paste!Answers,
        Pasted!Answers, Paste!hostVars, Pasted!hostVars, Paste!Asked, Pasted!Asked, Paste!Answer,
        Pasted!Answer
  <2> QED
    BY <2>1 DEF Pasted!Next, Pasted!ViewerAnswers, Pasted!HostTurn
<1>3. CASE Paste!AnswersSize
  <2>1. Pasted!AnswersSize
    BY <1>3
    DEF Paste!AnswersSize, Pasted!AnswersSize, Paste!There, Pasted!There, Paste!Latest,
        Pasted!Latest, Paste!Asked, Pasted!Asked, Paste!Answers, Pasted!Answers, Paste!hostVars,
        Pasted!hostVars, Paste!Answer, Pasted!Answer
  <2> QED
    BY <2>1 DEF Pasted!Next, Pasted!ViewerAnswers, Pasted!HostTurn
<1>4. CASE Paste!AnswersData
  <2>1. Pasted!AnswersData
    BY <1>4
    DEF Paste!AnswersData, Pasted!AnswersData, Paste!Unit, Pasted!Unit, Paste!There, Pasted!There,
        Paste!Latest, Pasted!Latest, Paste!Asked, Pasted!Asked, Paste!Answers, Pasted!Answers,
        Paste!hostVars, Pasted!hostVars, Paste!Answer, Pasted!Answer
  <2> QED
    BY <2>1 DEF Pasted!Next, Pasted!ViewerAnswers, Pasted!HostTurn
<1>5. CASE Paste!CannotRead
  <2>1. Pasted!CannotRead
    BY <1>5
    DEF Paste!CannotRead, Pasted!CannotRead, Paste!There, Pasted!There, Paste!Latest,
        Pasted!Latest, Paste!Asked, Pasted!Asked, Paste!Answers, Pasted!Answers, Paste!hostVars,
        Pasted!hostVars, Paste!Answer, Pasted!Answer
  <2> QED
    BY <2>1 DEF Pasted!Next, Pasted!ViewerAnswers, Pasted!HostTurn
<1>6. CASE Paste!HostRefuses
  <2>1. Pasted!HostRefuses
    BY <1>6
    DEF Paste!HostRefuses, Pasted!HostRefuses, Paste!hostVars, Pasted!hostVars, Paste!Latest,
        Pasted!Latest, Paste!HostTakes, Pasted!HostTakes, Paste!Heard, Pasted!Heard
  <2> QED
    BY <2>1 DEF Pasted!Next, Pasted!ViewerAnswers, Pasted!HostTurn
<1>7. CASE Paste!HostHearsList
  <2>1. Pasted!HostHearsList
    BY <1>7
    DEF Paste!HostHearsList, Pasted!HostHearsList, Paste!pastVars, Pasted!pastVars, Paste!hostVars,
        Pasted!hostVars, Paste!Question, Pasted!Question, Paste!HostTakes, Pasted!HostTakes,
        Paste!Heard, Pasted!Heard, Paste!Asks, Pasted!Asks
  <2> QED
    BY <2>1 DEF Pasted!Next, Pasted!ViewerAnswers, Pasted!HostTurn
<1>8. CASE Paste!HostHearsNames
  <2>1. Pasted!HostHearsNames
    BY <1>8
    DEF Paste!HostHearsNames, Pasted!HostHearsNames, Paste!pastVars, Pasted!pastVars,
        Paste!hostVars, Pasted!hostVars, Paste!Question, Pasted!Question, Paste!NoState,
        Pasted!NoState, Paste!Lowest, Pasted!Lowest, Paste!HostTakes, Pasted!HostTakes,
        Paste!Heard, Pasted!Heard, Paste!FilesAfter, Pasted!FilesAfter, Paste!IsFile,
        Pasted!IsFile, Paste!Asks, Pasted!Asks
  <2> QED
    BY <2>1 DEF Pasted!Next, Pasted!ViewerAnswers, Pasted!HostTurn
<1>9. CASE Paste!HostIgnores
  <2>1. Pasted!HostIgnores
    BY <1>9
    DEF Paste!HostIgnores, Pasted!HostIgnores, Paste!pastVars, Pasted!pastVars, Paste!hostVars,
        Pasted!hostVars, Paste!NoState, Pasted!NoState, Paste!HostTakes, Pasted!HostTakes,
        Paste!Heard, Pasted!Heard
  <2> QED
    BY <2>1 DEF Pasted!Next, Pasted!ViewerAnswers, Pasted!HostTurn
<1>10. CASE Paste!HostHearsNo
  <2>1. Pasted!HostHearsNo
    BY <1>10
    DEF Paste!HostHearsNo, Pasted!HostHearsNo, Paste!pastVars, Pasted!pastVars,
        Paste!HostHearsContents, Pasted!HostHearsContents, Paste!NoState, Pasted!NoState,
        Paste!HostTakes, Pasted!HostTakes, Paste!Heard, Pasted!Heard, Paste!Advance,
        Pasted!Advance, Paste!Question, Pasted!Question, Paste!Lowest, Pasted!Lowest,
        Paste!FilesAfter, Pasted!FilesAfter, Paste!IsFile, Pasted!IsFile, Paste!Asks, Pasted!Asks
  <2> QED
    BY <2>1 DEF Pasted!Next, Pasted!ViewerAnswers, Pasted!HostTurn
<1>11. CASE Paste!HostHearsSize
  <2>1. Pasted!HostHearsSize
    BY <1>11
    DEF Paste!HostHearsSize, Pasted!HostHearsSize, Paste!pastVars, Pasted!pastVars, Paste!Writes,
        Pasted!Writes, Paste!With, Pasted!With, Paste!SizesHeard, Pasted!SizesHeard, Paste!Heard,
        Pasted!Heard, Paste!Question, Pasted!Question, Paste!HostHearsContents,
        Pasted!HostHearsContents, Paste!NoState, Pasted!NoState, Paste!HostTakes, Pasted!HostTakes,
        Paste!Asks, Pasted!Asks, Paste!Advance, Pasted!Advance, Paste!Lowest, Pasted!Lowest,
        Paste!FilesAfter, Pasted!FilesAfter, Paste!IsFile, Pasted!IsFile
  <2> QED
    BY <2>1 DEF Pasted!Next, Pasted!ViewerAnswers, Pasted!HostTurn
<1>12. CASE Paste!HostHearsData
  <2>1. Pasted!HostHearsData
    BY <1>12
    DEF Paste!HostHearsData, Pasted!HostHearsData, Paste!pastVars, Pasted!pastVars, Paste!Writes,
        Pasted!Writes, Paste!With, Pasted!With, Paste!Question, Pasted!Question, Paste!NoUnit,
        Pasted!NoUnit, Paste!HostHearsContents, Pasted!HostHearsContents, Paste!NoState,
        Pasted!NoState, Paste!HostTakes, Pasted!HostTakes, Paste!Heard, Pasted!Heard, Paste!Asks,
        Pasted!Asks, Paste!Advance, Pasted!Advance, Paste!Lowest, Pasted!Lowest, Paste!FilesAfter,
        Pasted!FilesAfter, Paste!IsFile, Pasted!IsFile
  <2> QED
    BY <2>1 DEF Pasted!Next, Pasted!ViewerAnswers, Pasted!HostTurn
<1>13. CASE Paste!HostCannotWrite
  <2>1. Pasted!HostCannotWrite
    BY <1>13
    DEF Paste!HostCannotWrite, Pasted!HostCannotWrite, Paste!HostHearsContents,
        Pasted!HostHearsContents, Paste!NoState, Pasted!NoState, Paste!HostTakes, Pasted!HostTakes,
        Paste!Heard, Pasted!Heard, Paste!Advance, Pasted!Advance, Paste!Question, Pasted!Question,
        Paste!Lowest, Pasted!Lowest, Paste!FilesAfter, Pasted!FilesAfter, Paste!IsFile,
        Pasted!IsFile, Paste!Asks, Pasted!Asks
  <2> QED
    BY <2>1 DEF Pasted!Next, Pasted!ViewerAnswers, Pasted!HostTurn
<1>14. CASE Paste!Toggles
  <2>1. Pasted!Toggles
    BY <1>14
    DEF Paste!Toggles, Pasted!Toggles, Paste!pastVars, Pasted!pastVars, Paste!hostVars,
        Pasted!hostVars
  <2> QED
    BY <2>1 DEF Pasted!Next, Pasted!ViewerAnswers, Pasted!HostTurn
<1>15. CASE Paste!OtherSessionEnds
  <2>1. Pasted!OtherSessionEnds
    BY <1>15
    DEF Paste!OtherSessionEnds, Pasted!OtherSessionEnds, Paste!Quiet, Pasted!Quiet, Paste!NoState,
        Pasted!NoState, Paste!Latest, Pasted!Latest
  <2> QED
    BY <2>1 DEF Pasted!Next, Pasted!ViewerAnswers, Pasted!HostTurn
<1>16. CASE UNCHANGED pasteVars
  BY <1>16 DEF pasteVars, Pasted!vars, Pasted!hostVars, Pasted!pastVars
<1>17. Paste!Next \/ UNCHANGED pasteVars
  BY DEF SessionsNext, allVars, Others
<1> QED
  BY <1>1, <1>2, <1>3, <1>4, <1>5, <1>6, <1>7, <1>8, <1>9, <1>10, <1>11, <1>12, <1>13, <1>14, <1>15, <1>16, <1>17
  DEF Paste!Next, Paste!ViewerAnswers, Paste!HostTurn

\* By the shape of SessionsNext, in which each of the six takes its steps alone,
\* every behaviour of the composition is one of PrivacyMode, one of
\* SharedInput (server.rs, SessionEndGuard, which serves both, in an order that
\* neither notices), one of FileDownload and one of FileUpload (remote.rs,
\* server.rs), one of ClipboardFiles (clipboard_file.rs) and one of FramedStream
\* (network.rs), which carries it all.
LEMMA Composition ==
    SessionsSpec =>
        Spec /\ Input!Spec /\ Fetched!Spec /\ Sent!Spec /\ Pasted!Spec /\ Stream!Spec
<1>1. SessionsInit => Init /\ Input!Init /\ Stream!Init
  BY DEF SessionsInit
<1>2. SessionsInit => Fetched!Init
  BY DEF SessionsInit, Fetch!Init, Fetched!Init, Fetch!Files, Fetched!Files, Fetch!Slots, Fetched!Slots,
      Fetch!There, Fetched!There, Fetch!Listed, Fetched!Listed, Fetch!IsFile, Fetched!IsFile,
      Fetch!Old, Fetched!Old
<1>3. [SessionsNext]_allVars => [Next]_vars
  BY DEF SessionsNext, allVars, Others
<1>4. [SessionsNext]_allVars => [Input!Next]_(Input!vars)
  BY DEF SessionsNext, allVars, Others, inputVars, Input!vars, Input!sessionVars, Input!keyVars,
         Input!mouseVars
<1>5. [SessionsNext]_allVars => [Fetched!Next]_(Fetched!vars)
  BY StepOfFetch
<1>6. [SessionsNext]_allVars => [Stream!Next]_(Stream!vars)
  BY DEF SessionsNext, allVars, Others, frameVars, Stream!vars, Stream!writerVars, Stream!readerVars
<1>7. SessionsInit => Pasted!Init
  BY DEF SessionsInit, Paste!Init, Pasted!Init, Paste!NoState, Pasted!NoState
<1>8. [SessionsNext]_allVars => [Pasted!Next]_(Pasted!vars)
  BY StepOfPaste
<1>9. SessionsInit => Sent!Init
  BY DEF SessionsInit,
      Send!Init, Sent!Init, Send!Files, Sent!Files, Send!Slots, Sent!Slots, Send!IsFile,
      Sent!IsFile, Send!Old, Sent!Old
<1>10. [SessionsNext]_allVars => [Sent!Next]_(Sent!vars)
  BY StepOfSend
<1> QED
  BY <1>1, <1>2, <1>3, <1>4, <1>5, <1>6, <1>7, <1>8, <1>9, <1>10, PTL
  DEF SessionsSpec, Spec, Input!Spec, Fetched!Spec, Sent!Spec, Pasted!Spec, Stream!Spec

LEMMA PartsAssumed == Input!InputAssumption /\ Stream!StreamAssumption
BY SessionsAssumption DEF SessionsAssumption

\* No key is stuck (input.rs, HELD_VKS, HELD_SCANCODES), for any sessions and keys.
THEOREM Keyboard == SessionsSpec => []NoKeyStuck
BY PartsAssumed, InputKeyboard, Composition, PTL DEF NoKeyStuck

\* A drag keeps its owner (server.rs, claim_mouse), for any sessions.
THEOREM Drag == SessionsSpec => []DragKeepsItsOwner
BY PartsAssumed, InputDrag, Composition, PTL DEF DragKeepsItsOwner

\* A session that has ended owns neither the mouse nor the block of the input and
\* keeps no key down, and after the last one no key is down (server.rs,
\* SessionEndGuard), for any sessions and keys.  A mouse button may stay down.
THEOREM Ends == SessionsSpec => []EndedLetsGo
BY PartsAssumed, InputEnds, Composition, PTL DEF EndedLetsGo

\* The stream delivers what was sent, in order (network.rs, read_frame and
\* Encrypt), whatever else the sessions do.
THEOREM InStep == SessionsSpec => []StreamKeepsItsPlace
BY PartsAssumed, StreamInStep, Composition, PTL DEF StreamKeepsItsPlace

LEMMA FetchAssumed == Fetched!DownloadAssumption
BY SessionsAssumption, SameFinite
DEF SessionsAssumption, Fetch!DownloadAssumption, Fetched!DownloadAssumption, Fetch!Entries, Fetched!Entries

\* A download shown as finished has every file as it is on the host, with the
\* exceptions FileDownload names (remote.rs, process_file_responses).
THEOREM Downloads == SessionsSpec => []DownloadFaithful
<1>1. Fetched!Spec => []Fetched!DownloadFaithful
  BY FetchAssumed, Fetched!DownloadIsFaithful
<1>2. Fetched!DownloadFaithful => DownloadFaithful
  BY DEF DownloadFaithful,
      Fetch!DownloadFaithful, Fetched!DownloadFaithful, Fetch!Source, Fetched!Source,
      Fetch!Clashing, Fetched!Clashing, Fetch!Files, Fetched!Files, Fetch!Slots,
      Fetched!Slots, Fetch!Key, Fetched!Key, Fetch!IsFile, Fetched!IsFile, Fetch!Listed,
      Fetched!Listed, Fetch!There, Fetched!There
<1> QED
  BY <1>1, <1>2, Composition, PTL

\* Nothing is overwritten without the user's consent (remote.rs, the question a
\* Digest leads to), unless two keys of the host clash.
THEOREM Overwrites == SessionsSpec => []OverwriteOnlyWithConsent
<1>1. Fetched!Spec => []Fetched!OverwriteOnlyWithConsent
  BY FetchAssumed, Fetched!OverwritesAreAgreed
<1>2. Fetched!OverwriteOnlyWithConsent => OverwriteOnlyWithConsent
  BY DEF OverwriteOnlyWithConsent,
      Fetch!OverwriteOnlyWithConsent, Fetched!OverwriteOnlyWithConsent, Fetch!Clashing,
      Fetched!Clashing, Fetch!Files, Fetched!Files, Fetch!Slots, Fetched!Slots, Fetch!Key,
      Fetched!Key, Fetch!IsFile, Fetched!IsFile, Fetch!Listed, Fetched!Listed, Fetch!There,
      Fetched!There, Fetch!Old, Fetched!Old
<1> QED
  BY <1>1, <1>2, Composition, PTL

LEMMA SendAssumed == Sent!UploadAssumption
BY SessionsAssumption
DEF SessionsAssumption, Send!UploadAssumption, Sent!UploadAssumption, Send!Entries, Sent!Entries

\* An upload shown as finished has every file on the host as it is here, with the
\* exceptions FileUpload names (remote.rs, the upload thread; server.rs,
\* write_jobs), for any jobs, lists and stride of the keys.
THEOREM Uploads == SessionsSpec => []UploadFaithful
<1>1. Sent!Spec => []Sent!UploadFaithful
  BY SendAssumed, Sent!UploadIsFaithful
<1>2. Sent!UploadFaithful => UploadFaithful
  BY DEF UploadFaithful, Send!UploadFaithful, Sent!UploadFaithful, Send!Clashes, Sent!Clashes,
      Send!KeysOf, Sent!KeysOf, Send!Key, Sent!Key, Send!IsFile, Sent!IsFile, Send!Source, Sent!Source
<1> QED
  BY <1>1, <1>2, Composition, PTL

LEMMA PasteAssumed == Pasted!ClipboardAssumption
BY SessionsAssumption
DEF SessionsAssumption, Paste!ClipboardAssumption, Pasted!ClipboardAssumption, Paste!Entries,
    Pasted!Entries

\* What can be pasted at the host is what was copied at the viewer, with the
\* exceptions ClipboardFiles names (clipboard_file.rs, RECV_STATE), for any
\* number of copies and any lists of files.
THEOREM Pastes == SessionsSpec => []PasteFaithful
<1>1. Pasted!Spec => []Pasted!PasteFaithful
  BY PasteAssumed, Pasted!PasteIsFaithful
<1>2. Pasted!PasteFaithful => PasteFaithful
  BY DEF PasteFaithful, Paste!PasteFaithful, Pasted!PasteFaithful, Paste!Source, Pasted!Source,
         Paste!Unit, Pasted!Unit, Paste!IsFile, Pasted!IsFile, Paste!IsPrefix, Pasted!IsPrefix
<1> QED
  BY <1>1, <1>2, Composition, PTL

\* Every variable of the six keeps its type, for any sessions, windows, keys,
\* jobs, lists, copies and frames (privacy_mode.rs, input.rs, remote.rs,
\* server.rs, clipboard_file.rs, network.rs).
THEOREM Types == SessionsSpec => []TypesOK
<1>1. Fetched!Spec => []Fetched!TypeOK
  BY FetchAssumed, Fetched!TypeCorrect
<1>2. Fetched!TypeOK => Fetch!TypeOK
  BY DEF Fetch!TypeOK, Fetched!TypeOK, Fetch!Files, Fetched!Files, Fetch!Slots, Fetched!Slots,
      Fetch!Actions, Fetched!Actions, Fetch!Messages, Fetched!Messages, Fetch!Key, Fetched!Key
<1>3. Sent!Spec => []Sent!TypeOK
  BY SendAssumed, Sent!TypeCorrect
<1>4. Sent!TypeOK => Send!TypeOK
  BY DEF Send!TypeOK, Sent!TypeOK, Send!Messages, Sent!Messages, Send!Slots, Sent!Slots,
      Send!Units, Sent!Units, Send!Key, Sent!Key, Send!Files, Sent!Files
<1>5. Pasted!Spec => []Pasted!TypeOK
  BY PasteAssumed, Pasted!TypeCorrect
<1>6. Pasted!TypeOK => Paste!TypeOK
  BY DEF Paste!TypeOK, Pasted!TypeOK, Paste!Latest, Pasted!Latest, Paste!Entries, Pasted!Entries,
      Paste!NoState, Pasted!NoState, Paste!IsFile, Pasted!IsFile, Paste!Copies, Pasted!Copies
<1>7. Input!Spec => []Input!TypeOK
  BY PartsAssumed, InputTypeCorrectness
<1>8. Stream!Spec => []Stream!TypeOK
  BY PartsAssumed, StreamTypeCorrectness
<1>9. TypeOK /\ Input!TypeOK /\ Fetch!TypeOK /\ Send!TypeOK /\ Paste!TypeOK /\ Stream!TypeOK
         => TypesOK
  BY DEF TypesOK
<1> QED
  BY <1>1, <1>2, <1>3, <1>4, <1>5, <1>6, <1>7, <1>8, <1>9, TypeCorrectness, Composition, PTL
=============================================================================
