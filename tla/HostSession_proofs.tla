------------------------- MODULE HostSession_proofs -------------------------
(***************************************************************************)
(* Proofs about HostSession, for any set of connections and any limits:    *)
(* type correctness, ConsentBeforeSession, and that HostSession implements *)
(* AccessGate, from the invariant IInv; which announcements are left       *)
(* behind, that no connection has two dialogs, and that a refusal stays    *)
(* one, from IInv and a second invariant about the dialogs, DInv.          *)
(***************************************************************************)
EXTENDS HostSession, TLAPS

-----------------------------------------------------------------------------
(* The inductive invariant. *)

\* The counters are below their limits wherever the thread may count up.
CountersHaveRoom ==
    \A c \in Conns :
        /\ pc[c] \in {"idle", "handshake", "login"} => attempts[c] < MaxLoginAttempts
        /\ pc[c] \in {"idle", "granted"} \cup Waiting
              => codes[c] < MaxTwoFaAttempts

\* An acceptance, on its way or on disk, is one the owner pressed the button for.
AcceptanceIsTheOwners ==
    \A c \in Conns :
        "accepted" \in files[c] \/ "accept" \in flags[c] => c \in clicked

\* What a thread has established by the time it gets somewhere.
GrantedOnTheWay ==
    \A c \in Conns :
        /\ granted[c] \in {"approved", "invited"} => c \in clicked
        /\ pc[c] \in {"idle", "handshake", "login", "approval", "invite"}
              => granted[c] = "none" /\ twofa[c] = "unread"
        /\ pc[c] \in {"granted", "auth2fa", "gate"} \cup Serving
              => granted[c] \in {"password", "approved", "switch"}
        /\ pc[c] = "granted" => twofa[c] = "unread"
        /\ pc[c] = "auth2fa" => twofa[c] = "required"
        /\ pc[c] \in {"gate"} \cup Serving => twofa[c] \in {"off", "verified"}

IInv ==
    /\ TypeOK
    /\ CountersHaveRoom
    /\ AcceptanceIsTheOwners
    /\ GrantedOnTheWay

-----------------------------------------------------------------------------
(* Every step of Next keeps it. *)

\* From the first byte to the login's outcome.
LEMMA LoginStepKeepsIInv ==
    ASSUME IInv, NEW c \in Conns, LoginStep(c)
    PROVE  IInv'
<1> USE ConstantsAssumption DEF IInv, TypeOK, CountersHaveRoom, AcceptanceIsTheOwners,
        GrantedOnTheWay, PCs, Waiting, Serving, SessionLoops, Leaving, Dialogs, Buttons,
        FileKinds, Grants
<1>1. CASE AcceptConnection(c)
  BY <1>1 DEF AcceptConnection, Goto, cmVars, trayVars
<1>2. CASE HandshakeDone(c)
  BY <1>2 DEF HandshakeDone, Goto, cmVars, trayVars
<1>3. CASE HandshakeFails(c)
  BY <1>3 DEF HandshakeFails, Goto, cmVars, trayVars
<1>4. CASE LoginDeadline(c)
  BY <1>4 DEF LoginDeadline, Goto, cmVars, trayVars
<1>5. CASE LoginAbandoned(c)
  BY <1>5 DEF LoginAbandoned, Goto, cmVars, trayVars
<1>6. CASE LoginRightPassword(c)
  BY <1>6 DEF LoginRightPassword, Goto, cmVars, trayVars
<1>7. CASE LoginWrongPassword(c)
  BY <1>7 DEF LoginWrongPassword, cmVars, trayVars
<1>8. CASE LoginEmptyPassword(c)
  BY <1>8 DEF LoginEmptyPassword, Goto, WriteFiles, SpawnCmProcess, cmVars, trayVars
<1>9. CASE SwitchSidesAccepted(c)
  BY <1>9 DEF SwitchSidesAccepted, Goto, cmVars, trayVars
<1>10. CASE InviteReceived(c)
  BY <1>10 DEF InviteReceived, Goto, WriteFiles, SpawnCmProcess, cmVars, trayVars
<1> HIDE DEF IInv
<1>. QED
  BY <1>1, <1>2, <1>3, <1>4, <1>5, <1>6, <1>7, <1>8, <1>9, <1>10 DEF LoginStep

\* Waiting for the owner.
LEMMA OwnerStepKeepsIInv ==
    ASSUME IInv, NEW c \in Conns, OwnerStep(c)
    PROVE  IInv'
<1> USE ConstantsAssumption DEF IInv, TypeOK, CountersHaveRoom, AcceptanceIsTheOwners,
        GrantedOnTheWay, PCs, Waiting, Serving, SessionLoops, Leaving, Dialogs, Buttons,
        FileKinds, Grants
<1>1. CASE ApprovalDeadline(c)
  BY <1>1 DEF ApprovalDeadline, Goto, cmVars, trayVars
<1>2. CASE ApprovalViewerLeft(c)
  BY <1>2 DEF ApprovalViewerLeft, Goto, cmVars, trayVars
<1>3. CASE ApprovalRightPassword(c)
  BY <1>3 DEF ApprovalRightPassword, Goto, WriteFiles, cmVars, trayVars
<1>4. CASE ApprovalAccepted(c)
  BY <1>4 DEF ApprovalAccepted, Goto, WriteFiles, CmAccepted, cmVars, trayVars
<1>5. CASE ApprovalRejected(c)
  BY <1>5 DEF ApprovalRejected, Goto, cmVars, trayVars
<1>6. CASE InviteDeadline(c)
  BY <1>6 DEF InviteDeadline, Goto, cmVars, trayVars
<1>7. CASE InviteAnswered(c)
  BY <1>7 DEF InviteAnswered, Goto, CmAccepted, cmVars, trayVars
<1> HIDE DEF IInv
<1>. QED
  BY <1>1, <1>2, <1>3, <1>4, <1>5, <1>6, <1>7 DEF OwnerStep

\* Second factor and permissions.
LEMMA GateStepKeepsIInv ==
    ASSUME IInv, NEW c \in Conns, GateStep(c)
    PROVE  IInv'
<1> USE ConstantsAssumption DEF IInv, TypeOK, CountersHaveRoom, AcceptanceIsTheOwners,
        GrantedOnTheWay, PCs, Waiting, Serving, SessionLoops, Leaving, Dialogs, Buttons,
        FileKinds, Grants
<1>1. CASE ReadTwoFa(c)
  BY <1>1 DEF ReadTwoFa, Goto, cmVars, trayVars
<1>2. CASE TwoFaRightCode(c)
  BY <1>2 DEF TwoFaRightCode, Goto, cmVars, trayVars
<1>3. CASE TwoFaWrongCode(c)
  BY <1>3 DEF TwoFaWrongCode, cmVars, trayVars
<1>4. CASE TwoFaAbandoned(c)
  BY <1>4 DEF TwoFaAbandoned, Goto, cmVars, trayVars
<1>5. CASE GateDenied(c)
  BY <1>5 DEF GateDenied, Goto, cmVars, trayVars
<1>6. CASE GatePassed(c)
  BY <1>6 DEF GatePassed, Goto, WriteFiles, cmVars, trayVars
<1>7. CASE OpenDialog(c)
  BY <1>7 DEF OpenDialog, Goto, WriteFiles, SpawnCmProcess, cmVars, trayVars
<1> HIDE DEF IInv
<1>. QED
  BY <1>1, <1>2, <1>3, <1>4, <1>5, <1>6, <1>7 DEF GateStep

\* The session and its end.
LEMMA SessionStepKeepsIInv ==
    ASSUME IInv, NEW c \in Conns, SessionStep(c)
    PROVE  IInv'
<1> USE ConstantsAssumption DEF IInv, TypeOK, CountersHaveRoom, AcceptanceIsTheOwners,
        GrantedOnTheWay, PCs, Waiting, Serving, SessionLoops, Leaving, Dialogs, Buttons,
        FileKinds, Grants
<1>1. CASE SessionEnds(c)
  BY <1>1 DEF SessionEnds, LeaveLoop, Goto, cmVars, trayVars
<1>2. CASE SessionDisconnectedByCm(c)
  BY <1>2 DEF SessionDisconnectedByCm, LeaveLoop, Goto, cmVars, trayVars
<1>3. CASE CleanupCmFiles(c)
  BY <1>3 DEF CleanupCmFiles, Goto, RemoveFiles, cmVars, trayVars
<1>4. CASE SignalCmEnded(c)
  BY <1>4 DEF SignalCmEnded, Goto, WriteFiles, cmVars, trayVars
<1>5. CASE TerminalTurn(c)
  BY <1>5 DEF TerminalTurn, Goto, cmVars, trayVars
<1>6. CASE TerminalTurnEnds(c)
  BY <1>6 DEF TerminalTurnEnds, Goto, cmVars, trayVars
<1>7. CASE TerminalsDropped(c)
  BY <1>7 DEF TerminalsDropped, Goto, cmVars, trayVars
<1> HIDE DEF IInv
<1>. QED
  BY <1>1, <1>2, <1>3, <1>4, <1>5, <1>6, <1>7 DEF SessionStep

\* The CM process, its owner and the tray's watcher.
LEMMA CmStepKeepsIInv ==
    ASSUME IInv, NEW c \in Conns, CmStep(c)
    PROVE  IInv'
<1> USE ConstantsAssumption DEF IInv, TypeOK, CountersHaveRoom, AcceptanceIsTheOwners,
        GrantedOnTheWay, PCs, Waiting, Serving, SessionLoops, Leaving, Dialogs, Buttons,
        FileKinds, Grants
<1>1. CASE TrayNotices(c)
  BY <1>1 DEF TrayNotices, hostVars, trayVars
<1>2. CASE CmStart(c)
  BY <1>2 DEF CmStart, hostVars, trayVars
<1>3. CASE CmTickLooks(c)
  BY <1>3 DEF CmTickLooks, RemoveFiles, hostVars, trayVars
<1>4. CASE CmTickActs(c)
  <2>1. "accept" \in flags[c] => c \in clicked
    OBVIOUS
  <2>2. CASE c \in inviteHeld /\ "accept" \in flags[c]
    BY <1>4, <2>1, <2>2 DEF CmTickActs, WriteFiles, hostVars, trayVars
  <2>3. CASE ~(c \in inviteHeld /\ "accept" \in flags[c])
    <3>1. /\ AnswerFiles(c) \in SUBSET FileKinds
          /\ "accepted" \in AnswerFiles(c) => c \in clicked
      BY <2>1 DEF AnswerFiles
    <3>2. /\ files' = [files EXCEPT ![c] = AnswerFiles(c)]
          /\ flags' = [flags EXCEPT ![c] = {}]
          /\ UNCHANGED <<hostVars, clicked, inviteHeld, trayVars>>
          /\ cm' \in [Conns -> Dialogs]
          /\ responded' \in SUBSET Conns
      BY <1>4, <2>3 DEF CmTickActs
    <3>. QED
      BY <3>1, <3>2 DEF hostVars, trayVars
  <2>. QED
    BY <2>2, <2>3
<1>5. CASE PressAccept(c)
  BY <1>5 DEF PressAccept, hostVars, trayVars
<1>6. CASE PressRefuse(c)
  BY <1>6 DEF PressRefuse, hostVars, trayVars
<1>7. CASE CmWindowCloses(c)
  BY <1>7 DEF CmWindowCloses, hostVars, trayVars
<1>8. CASE CmDropsAcceptance(c)
  BY <1>8 DEF CmDropsAcceptance, RemoveFiles, hostVars, trayVars
<1>9. CASE CmWritesRejection(c)
  BY <1>9 DEF CmWritesRejection, WriteFiles, hostVars, trayVars
<1>10. CASE CmKilled(c)
  BY <1>10 DEF CmKilled, hostVars, trayVars
<1> HIDE DEF IInv
<1>. QED
  BY <1>1, <1>2, <1>3, <1>4, <1>5, <1>6, <1>7, <1>8, <1>9, <1>10 DEF CmStep

\* The steps that are not one connection's: a crash of the host, its restart,
\* and the tray coming and going.
LEMMA SharedStepKeepsIInv ==
    ASSUME IInv, HostCrash \/ HostRestart \/ InstallerSweeps \/ TrayStops \/ TrayStarts
    PROVE  IInv'
<1> USE ConstantsAssumption DEF IInv, TypeOK, CountersHaveRoom, AcceptanceIsTheOwners,
        GrantedOnTheWay, PCs, Waiting, Serving, SessionLoops, Leaving, Dialogs, Buttons,
        FileKinds, Grants
<1>1. CASE HostCrash
  BY <1>1 DEF HostCrash, cmVars, trayVars
<1>2. CASE HostRestart
  BY <1>2 DEF HostRestart, cmVars, trayVars
<1>3. CASE TrayStops
  BY <1>3 DEF TrayStops, hostVars, cmVars
<1>4. CASE TrayStarts
  BY <1>4 DEF TrayStarts, hostVars, cmVars
<1>5. CASE InstallerSweeps
  BY <1>5 DEF InstallerSweeps, hostVars, cmVars, trayVars
<1>. QED
  BY <1>1, <1>2, <1>3, <1>4, <1>5

LEMMA InitEstablishesIInv == Init => IInv
  BY ConstantsAssumption
  DEF Init, IInv, TypeOK, CountersHaveRoom, AcceptanceIsTheOwners, GrantedOnTheWay,
      PCs, Waiting, Serving, SessionLoops, Leaving, Dialogs, Grants

LEMMA NextKeepsIInv == IInv /\ [Next]_vars => IInv'
<1> SUFFICES ASSUME IInv, [Next]_vars PROVE IInv'
  OBVIOUS
<1>1. CASE Next
  BY <1>1, LoginStepKeepsIInv, OwnerStepKeepsIInv, GateStepKeepsIInv, SessionStepKeepsIInv,
     CmStepKeepsIInv, SharedStepKeepsIInv DEF Next, HostStep
<1>2. CASE UNCHANGED vars
  BY <1>2 DEF vars, hostVars, cmVars, trayVars, IInv, TypeOK, CountersHaveRoom,
              AcceptanceIsTheOwners, GrantedOnTheWay
<1>. QED
  BY <1>1, <1>2

LEMMA Invariance == Spec => []IInv
  BY InitEstablishesIInv, NextKeepsIInv, PTL DEF Spec

-----------------------------------------------------------------------------
(* The theorems. *)

\* Every variable keeps its type; in particular no thread counts a login or a
\* 2FA code beyond its limit.
THEOREM TypeCorrectness == Spec => []TypeOK
<1>1. IInv => TypeOK
  BY DEF IInv
<1>. QED
  BY <1>1, Invariance, PTL

\* The host serves nobody who was not let in, by a password, a token or the
\* owner's press of the button, and past the second factor.
THEOREM Consent == Spec => []ConsentBeforeSession
<1>1. IInv => ConsentBeforeSession
  BY DEF IInv, GrantedOnTheWay, ConsentBeforeSession
<1>. QED
  BY <1>1, Invariance, PTL

-----------------------------------------------------------------------------
(* HostSession implements AccessGate: what each kind of step is up there. *)

\* What the mapping looks at.
barVars == <<pc, granted, twofa, clicked>>

LEMMA BarStutter == UNCHANGED barVars => UNCHANGED Gate!gateVars
  BY DEF barVars, Gate!gateVars, gateBar, basisBar

\* A thread that moves without passing the gate: nothing happens up there.
LEMMA MoveIsStutter ==
    ASSUME TypeOK, NEW c \in Conns, NEW to,
           pc' = [pc EXCEPT ![c] = to],
           GateOf(to) = GateOf(pc[c]),
           UNCHANGED <<granted, twofa, clicked>>
    PROVE  UNCHANGED Gate!gateVars
  BY DEF TypeOK, Gate!gateVars, gateBar, basisBar

\* A thread that gives up, or ends: its gate closes.
LEMMA LeavingIsClose ==
    ASSUME TypeOK, NEW c \in Conns, NEW to,
           pc' = [pc EXCEPT ![c] = to],
           GateOf(to) = "closed",
           UNCHANGED <<basisBar, twofa, clicked>>
    PROVE  Gate!Close
<1>1. gateBar' = [d \in Conns |-> IF d \in {c} THEN "closed" ELSE gateBar[d]]
  BY DEF TypeOK, gateBar
<1>. QED
  BY <1>1 DEF Gate!Close

\* A login that succeeds: the viewer is admitted on some basis.
LEMMA GrantIsAdmit ==
    ASSUME TypeOK, NEW c \in Conns, NEW to,
           NEW b \in {"password", "switch", "approved"},
           pc' = [pc EXCEPT ![c] = to],
           GateOf(pc[c]) = "shut", GateOf(to) = "shut",
           granted[c] = "none",
           granted' = [granted EXCEPT ![c] = b],
           b = "approved" => c \in clicked,
           UNCHANGED <<twofa, clicked>>
    PROVE  Gate!Admit(c)
<1>1. UNCHANGED gateBar /\ gateBar[c] = "shut"
  BY DEF TypeOK, gateBar
<1>2. basisBar' = [basisBar EXCEPT ![c] = b] /\ basisBar[c] = "none"
  BY DEF TypeOK, basisBar, BasisOf
<1>. QED
  BY <1>1, <1>2 DEF Gate!Admit

LEMMA LoginStepMaps ==
    ASSUME IInv, NEW c \in Conns, LoginStep(c)
    PROVE  [Gate!Next]_(Gate!gateVars)
<1> DEFINE Ends == pc' = [pc EXCEPT ![c] = "done"]
                   /\ UNCHANGED <<granted, twofa, clicked>>
<1>1. TypeOK /\ (pc[c] = "login" => granted[c] = "none")
  BY DEF IInv, GrantedOnTheWay
<1>2. /\ \A at \in {"idle", "handshake", "login", "granted", "approval", "invite"} :
            GateOf(at) = "shut"
      /\ GateOf("done") = "closed"
  BY DEF GateOf, Serving, SessionLoops, Leaving
<1>3. CASE Ends
  <2>1. UNCHANGED basisBar
    BY <1>3 DEF basisBar
  <2>. QED
    BY <1>1, <1>2, <1>3, <2>1, LeavingIsClose DEF Gate!Next
<1>4. CASE HandshakeFails(c) \/ LoginDeadline(c) \/ LoginAbandoned(c)
  BY <1>3, <1>4 DEF HandshakeFails, LoginDeadline, LoginAbandoned, Goto, cmVars
<1>5. CASE AcceptConnection(c) \/ HandshakeDone(c) \/ LoginEmptyPassword(c) \/ InviteReceived(c)
  <2>1. /\ pc[c] \in {"idle", "handshake", "login"}
        /\ \E to \in {"handshake", "login", "approval", "invite"} : pc' = [pc EXCEPT ![c] = to]
        /\ UNCHANGED <<granted, twofa, clicked>>
    BY <1>5 DEF AcceptConnection, HandshakeDone, LoginEmptyPassword, InviteReceived, Goto, cmVars
  <2>2. PICK to \in {"handshake", "login", "approval", "invite"} : pc' = [pc EXCEPT ![c] = to]
    BY <2>1
  <2>3. GateOf(to) = GateOf(pc[c])
    BY <1>2, <2>1
  <2>. QED
    BY <1>1, <2>1, <2>2, <2>3, MoveIsStutter
<1>6. CASE LoginWrongPassword(c)
  <2>1. CASE UNCHANGED pc
    BY <1>6, <2>1, BarStutter DEF LoginWrongPassword, cmVars, barVars
  <2>. QED
    BY <1>3, <1>6, <2>1 DEF LoginWrongPassword, cmVars
<1>7. CASE LoginRightPassword(c) \/ SwitchSidesAccepted(c)
  <2>1. /\ pc[c] = "login"
        /\ pc' = [pc EXCEPT ![c] = "granted"]
        /\ \E b \in {"password", "switch"} : granted' = [granted EXCEPT ![c] = b]
        /\ UNCHANGED <<twofa, clicked>>
    BY <1>7 DEF LoginRightPassword, SwitchSidesAccepted, Goto, cmVars
  <2>2. Gate!Admit(c)
    BY <1>1, <1>2, <2>1, GrantIsAdmit
  <2>. QED
    BY <2>2 DEF Gate!Next
<1>. QED
  BY <1>4, <1>5, <1>6, <1>7 DEF LoginStep

LEMMA OwnerStepMaps ==
    ASSUME IInv, NEW c \in Conns, OwnerStep(c)
    PROVE  [Gate!Next]_(Gate!gateVars)
<1>1. TypeOK /\ (pc[c] \in {"approval", "invite"} => granted[c] = "none")
  BY DEF IInv, GrantedOnTheWay
<1>2. /\ \A at \in {"approval", "invite", "granted"} : GateOf(at) = "shut"
      /\ GateOf("cleanup") = "closed"
  BY DEF GateOf, Serving, SessionLoops, Leaving
<1>3. CASE \/ ApprovalDeadline(c) \/ ApprovalViewerLeft(c) \/ ApprovalRejected(c)
           \/ InviteDeadline(c) \/ InviteAnswered(c)
  <2>1. pc' = [pc EXCEPT ![c] = "cleanup"] /\ UNCHANGED <<twofa, clicked>>
    BY <1>3 DEF ApprovalDeadline, ApprovalViewerLeft, ApprovalRejected, InviteDeadline,
                InviteAnswered, Goto, cmVars
  <2>2. \/ UNCHANGED granted
        \/ granted[c] = "none" /\ granted' = [granted EXCEPT ![c] = "invited"]
    BY <1>1, <1>3 DEF ApprovalDeadline, ApprovalViewerLeft, ApprovalRejected, InviteDeadline,
                      InviteAnswered, Goto
  <2>3. UNCHANGED basisBar
    BY <1>1, <2>2 DEF TypeOK, basisBar, BasisOf
  <2>4. Gate!Close
    BY <1>1, <1>2, <2>1, <2>3, LeavingIsClose
  <2>. QED
    BY <2>4 DEF Gate!Next
<1>4. CASE ApprovalRightPassword(c) \/ ApprovalAccepted(c)
  <2>1. /\ pc[c] = "approval"
        /\ pc' = [pc EXCEPT ![c] = "granted"]
        /\ \E b \in {"password", "approved"} :
              /\ granted' = [granted EXCEPT ![c] = b]
              /\ b = "approved" => c \in clicked
        /\ UNCHANGED <<twofa, clicked>>
    BY <1>4 DEF ApprovalRightPassword, ApprovalAccepted, CmAccepted, Goto, cmVars,
                IInv, AcceptanceIsTheOwners
  <2>2. Gate!Admit(c)
    BY <1>1, <1>2, <2>1, GrantIsAdmit
  <2>. QED
    BY <2>2 DEF Gate!Next
<1>. QED
  BY <1>3, <1>4 DEF OwnerStep

LEMMA GateStepMaps ==
    ASSUME IInv, NEW c \in Conns, GateStep(c)
    PROVE  [Gate!Next]_(Gate!gateVars)
<1>1. TypeOK
  BY DEF IInv
<1>2. /\ \A at \in {"granted", "auth2fa", "gate"} : GateOf(at) = "shut"
      /\ GateOf("opening") = "open" /\ (\A at \in SessionLoops : GateOf(at) = "open")
      /\ GateOf("done") = "closed"
  BY DEF GateOf, Serving, SessionLoops, Leaving
<1>3. pc[c] \in {"granted", "auth2fa", "gate"} =>
         gateBar[c] = "shut" /\ basisBar[c] # "none"
  BY <1>2 DEF IInv, TypeOK, GrantedOnTheWay, gateBar, basisBar, BasisOf
<1>4. CASE ReadTwoFa(c)
  <2>1. pc[c] = "granted" /\ twofa[c] = "unread"
    BY <1>4 DEF ReadTwoFa, Goto, IInv, GrantedOnTheWay
  <2>2. UNCHANGED <<gateBar, basisBar, clicked>>
    BY <1>1, <1>2, <1>4 DEF ReadTwoFa, Goto, TypeOK, gateBar, basisBar, cmVars
  <2>3. Gate!AskFactor(c)
    BY <1>3, <1>4, <2>1, <2>2 DEF Gate!AskFactor, ReadTwoFa
  <2>. QED
    BY <2>3 DEF Gate!Next
<1>5. CASE TwoFaRightCode(c)
  <2>1. pc[c] = "auth2fa" /\ twofa[c] = "required"
    BY <1>5 DEF TwoFaRightCode, Goto, IInv, GrantedOnTheWay
  <2>2. UNCHANGED <<gateBar, basisBar, clicked>>
    BY <1>1, <1>2, <1>5 DEF TwoFaRightCode, Goto, TypeOK, gateBar, basisBar, cmVars
  <2>3. Gate!ProveFactor(c)
    BY <1>3, <1>5, <2>1, <2>2 DEF Gate!ProveFactor, TwoFaRightCode
  <2>. QED
    BY <2>3 DEF Gate!Next
<1>6. CASE pc' = [pc EXCEPT ![c] = "done"] /\ UNCHANGED <<granted, twofa, clicked>>
  <2>1. UNCHANGED basisBar
    BY <1>6 DEF basisBar
  <2>. QED
    BY <1>1, <1>2, <1>6, <2>1, LeavingIsClose DEF Gate!Next
<1>7. CASE TwoFaWrongCode(c) \/ TwoFaAbandoned(c) \/ GateDenied(c)
  <2>1. CASE UNCHANGED pc
    BY <1>7, <2>1, BarStutter DEF TwoFaWrongCode, TwoFaAbandoned, GateDenied, cmVars, barVars
  <2>. QED
    BY <1>6, <1>7, <2>1 DEF TwoFaWrongCode, TwoFaAbandoned, GateDenied, Goto, cmVars
<1>8. CASE GatePassed(c)
  <2>1. pc[c] = "gate" /\ twofa[c] \in {"off", "verified"}
    BY <1>8 DEF GatePassed, Goto, IInv, GrantedOnTheWay
  <2>2. gateBar' = [gateBar EXCEPT ![c] = "open"] /\ UNCHANGED <<basisBar, twofa, clicked>>
    BY <1>1, <1>2, <1>8 DEF GatePassed, Goto, TypeOK, gateBar, basisBar, cmVars
  <2>3. Gate!Open(c)
    BY <1>3, <2>1, <2>2 DEF Gate!Open
  <2>. QED
    BY <2>3 DEF Gate!Next
<1>9. CASE OpenDialog(c)
  <2>1. PICK loop \in SessionLoops : pc' = [pc EXCEPT ![c] = loop]
    BY <1>9 DEF OpenDialog, Goto
  <2>2. pc[c] = "opening" /\ UNCHANGED <<granted, twofa, clicked>>
    BY <1>9 DEF OpenDialog, Goto
  <2>. QED
    BY <1>1, <1>2, <2>1, <2>2, MoveIsStutter
<1>. QED
  BY <1>4, <1>5, <1>7, <1>8, <1>9 DEF GateStep

LEMMA SessionStepMaps ==
    ASSUME IInv, NEW c \in Conns, SessionStep(c)
    PROVE  [Gate!Next]_(Gate!gateVars)
<1>1. TypeOK
  BY DEF IInv
<1>2. /\ \A at \in Leaving \cup {"done"} : GateOf(at) = "closed"
      /\ GateOf("terminal") = GateOf("turn")
  BY DEF GateOf, Serving, SessionLoops, Leaving
<1>3. UNCHANGED <<granted, twofa, clicked>>
  BY DEF SessionStep, SessionEnds, SessionDisconnectedByCm, TerminalTurn, TerminalTurnEnds,
         TerminalsDropped, CleanupCmFiles, SignalCmEnded, cmVars
<1>4. CASE TerminalTurn(c) \/ TerminalTurnEnds(c)
  BY <1>1, <1>2, <1>3, <1>4, MoveIsStutter DEF TerminalTurn, TerminalTurnEnds, Goto
<1>5. CASE ~(TerminalTurn(c) \/ TerminalTurnEnds(c))
  <2>1. PICK to \in Leaving \cup {"done"} : pc' = [pc EXCEPT ![c] = to]
    BY <1>5 DEF SessionStep, SessionEnds, SessionDisconnectedByCm, LeaveLoop, TerminalsDropped,
                CleanupCmFiles, SignalCmEnded, Goto, Leaving
  <2>2. UNCHANGED basisBar
    BY <1>3 DEF basisBar
  <2>. QED
    BY <1>1, <1>2, <1>3, <2>1, <2>2, LeavingIsClose DEF Gate!Next
<1>. QED
  BY <1>4, <1>5

LEMMA CmStepMaps ==
    ASSUME IInv, NEW c \in Conns, CmStep(c)
    PROVE  [Gate!Next]_(Gate!gateVars)
<1>1. CASE PressAccept(c)
  <2>1. UNCHANGED <<gateBar, basisBar, twofa>> /\ clicked' = clicked \cup {c}
    BY <1>1 DEF PressAccept, hostVars, gateBar, basisBar
  <2>2. Gate!OwnerAgrees(c)
    BY <2>1 DEF Gate!OwnerAgrees
  <2>. QED
    BY <2>2 DEF Gate!Next
<1>2. CASE ~PressAccept(c)
  <2>1. UNCHANGED barVars
    BY <1>2 DEF CmStep, TrayNotices, CmStart, CmTickLooks, CmTickActs, PressRefuse,
                CmWindowCloses, CmDropsAcceptance, CmWritesRejection, CmKilled, hostVars, barVars
  <2>. QED
    BY <2>1, BarStutter
<1>. QED
  BY <1>1, <1>2

LEMMA SharedStepMaps ==
    ASSUME IInv, HostCrash \/ HostRestart \/ InstallerSweeps \/ TrayStops \/ TrayStarts
    PROVE  [Gate!Next]_(Gate!gateVars)
<1>1. CASE HostCrash
  <2>1. gateBar' = [c \in Conns |-> IF c \in {d \in Conns : pc'[d] = "crashed"}
                                    THEN "closed" ELSE gateBar[c]]
    BY <1>1 DEF HostCrash, IInv, TypeOK, gateBar, GateOf, Serving, SessionLoops, Leaving
  <2>2. UNCHANGED <<basisBar, twofa, clicked>>
    BY <1>1 DEF HostCrash, basisBar, cmVars
  <2>3. Gate!Close
    BY <2>1, <2>2 DEF Gate!Close
  <2>. QED
    BY <2>3 DEF Gate!Next
<1>2. CASE HostRestart \/ InstallerSweeps \/ TrayStops \/ TrayStarts
  <2>1. UNCHANGED barVars
    BY <1>2 DEF HostRestart, InstallerSweeps, TrayStops, TrayStarts, hostVars, cmVars, barVars
  <2>. QED
    BY <2>1, BarStutter
<1>. QED
  BY <1>1, <1>2

\* HostSession implements AccessGate: a gate opens at most once, for a viewer
\* who was admitted and past the second factor, and stays closed after that.
THEOREM Refinement == Spec => GateSpec
<1>1. Init => Gate!Init
  BY DEF Init, Gate!Init, gateBar, basisBar, GateOf, BasisOf, Serving, SessionLoops, Leaving
<1>2. IInv /\ [Next]_vars => [Gate!Next]_(Gate!gateVars)
  <2> SUFFICES ASSUME IInv, [Next]_vars PROVE [Gate!Next]_(Gate!gateVars)
    OBVIOUS
  <2>1. CASE UNCHANGED vars
    BY <2>1, BarStutter DEF vars, hostVars, cmVars, barVars
  <2>2. CASE Next
    BY <2>2, LoginStepMaps, OwnerStepMaps, GateStepMaps, SessionStepMaps, CmStepMaps,
       SharedStepMaps DEF Next, HostStep
  <2>. QED
    BY <2>1, <2>2
<1>. QED
  BY <1>1, <1>2, Invariance, PTL DEF Spec, GateSpec, Gate!Spec

-----------------------------------------------------------------------------
(* The announcement and the dialog: a second inductive invariant.          *)

\* The thread has yet to announce the connection or, outside the service, to
\* open the dialog it has announced.
BeforeDialog(c) ==
    \/ pc[c] \in {"idle", "handshake", "login"}
    \/ pc[c] \in {"granted", "auth2fa", "gate"} /\ c \notin approval
    \/ pc[c] = "opening" /\ ~Service

\* Nobody opens a dialog before that, and the tray has dealt with every one it
\* could open again.
NoDialogBefore ==
    \A c \in Conns :
        /\ BeforeDialog(c) => cm[c] = "none"
        /\ "info" \in files[c] /\ cm[c] # "none" /\ Service => c \in spawned

\* Where the thread can be while its announcement is on disk.
AnnouncedAt ==
    \A c \in Conns :
        /\ pc[c] = "approval" => c \in approval
        /\ "info" \in files[c] =>
              \/ pc[c] \in {"approval", "invite", "dropping", "cleanup", "crashed"} \cup Serving
              \/ /\ pc[c] \in {"granted", "auth2fa", "gate", "done"}
                 /\ c \in approval
                 /\ granted[c] # "none"

\* A rejection is a dialog's last act.
RejectionIsLast ==
    \A c \in Conns : "rejected" \in files[c] => cm[c] = "exited"

TrayOnlyForService == trayUp => Service

DInv ==
    /\ NoDialogBefore
    /\ TrayOnlyForService
    /\ AnnouncedAt
    /\ RejectionIsLast

\* From the first byte to the login's outcome.
LEMMA LoginStepKeepsDInv ==
    ASSUME TypeOK, DInv, NEW c \in Conns, LoginStep(c)
    PROVE  DInv'
<1> USE DEF DInv, NoDialogBefore, BeforeDialog, TrayOnlyForService, AnnouncedAt, RejectionIsLast,
        TypeOK, Serving, SessionLoops
<1>1. CASE AcceptConnection(c)
  BY <1>1 DEF AcceptConnection, Goto, cmVars, trayVars
<1>2. CASE HandshakeDone(c)
  BY <1>2 DEF HandshakeDone, Goto, cmVars, trayVars
<1>3. CASE HandshakeFails(c)
  BY <1>3 DEF HandshakeFails, Goto, cmVars, trayVars
<1>4. CASE LoginDeadline(c)
  BY <1>4 DEF LoginDeadline, Goto, cmVars, trayVars
<1>5. CASE LoginAbandoned(c)
  BY <1>5 DEF LoginAbandoned, Goto, cmVars, trayVars
<1>6. CASE LoginRightPassword(c)
  BY <1>6 DEF LoginRightPassword, Goto, cmVars, trayVars
<1>7. CASE LoginWrongPassword(c)
  BY <1>7 DEF LoginWrongPassword, cmVars, trayVars
<1>8. CASE LoginEmptyPassword(c)
  BY <1>8 DEF LoginEmptyPassword, Goto, WriteFiles, SpawnCmProcess, cmVars, trayVars
<1>9. CASE SwitchSidesAccepted(c)
  BY <1>9 DEF SwitchSidesAccepted, Goto, cmVars, trayVars
<1>10. CASE InviteReceived(c)
  BY <1>10 DEF InviteReceived, Goto, WriteFiles, SpawnCmProcess, cmVars, trayVars
<1> HIDE DEF DInv
<1>. QED
  BY <1>1, <1>2, <1>3, <1>4, <1>5, <1>6, <1>7, <1>8, <1>9, <1>10 DEF LoginStep

\* Waiting for the owner.
LEMMA OwnerStepKeepsDInv ==
    ASSUME TypeOK, DInv, NEW c \in Conns, OwnerStep(c)
    PROVE  DInv'
<1> USE DEF DInv, NoDialogBefore, BeforeDialog, TrayOnlyForService, AnnouncedAt, RejectionIsLast,
        TypeOK, Serving, SessionLoops
<1>1. CASE ApprovalDeadline(c)
  BY <1>1 DEF ApprovalDeadline, Goto, cmVars, trayVars
<1>2. CASE ApprovalViewerLeft(c)
  BY <1>2 DEF ApprovalViewerLeft, Goto, cmVars, trayVars
<1>3. CASE ApprovalRightPassword(c)
  BY <1>3 DEF ApprovalRightPassword, Goto, WriteFiles, cmVars, trayVars
<1>4. CASE ApprovalAccepted(c)
  BY <1>4 DEF ApprovalAccepted, Goto, WriteFiles, cmVars, trayVars
<1>5. CASE ApprovalRejected(c)
  BY <1>5 DEF ApprovalRejected, Goto, cmVars, trayVars
<1>6. CASE InviteDeadline(c)
  BY <1>6 DEF InviteDeadline, Goto, cmVars, trayVars
<1>7. CASE InviteAnswered(c)
  BY <1>7 DEF InviteAnswered, Goto, cmVars, trayVars
<1> HIDE DEF DInv
<1>. QED
  BY <1>1, <1>2, <1>3, <1>4, <1>5, <1>6, <1>7 DEF OwnerStep

\* Second factor and permissions.
LEMMA GateStepKeepsDInv ==
    ASSUME TypeOK, DInv, NEW c \in Conns, GateStep(c)
    PROVE  DInv'
<1> USE DEF DInv, NoDialogBefore, BeforeDialog, TrayOnlyForService, AnnouncedAt, RejectionIsLast,
        TypeOK, Serving, SessionLoops
<1>1. CASE ReadTwoFa(c)
  BY <1>1 DEF ReadTwoFa, Goto, cmVars, trayVars
<1>2. CASE TwoFaRightCode(c)
  BY <1>2 DEF TwoFaRightCode, Goto, cmVars, trayVars
<1>3. CASE TwoFaWrongCode(c)
  BY <1>3 DEF TwoFaWrongCode, cmVars, trayVars
<1>4. CASE TwoFaAbandoned(c)
  BY <1>4 DEF TwoFaAbandoned, Goto, cmVars, trayVars
<1>5. CASE GateDenied(c)
  BY <1>5 DEF GateDenied, Goto, cmVars, trayVars
<1>6. CASE GatePassed(c)
  BY <1>6 DEF GatePassed, Goto, WriteFiles, cmVars, trayVars
<1>7. CASE OpenDialog(c)
  BY <1>7 DEF OpenDialog, Goto, WriteFiles, SpawnCmProcess, cmVars, trayVars
<1> HIDE DEF DInv
<1>. QED
  BY <1>1, <1>2, <1>3, <1>4, <1>5, <1>6, <1>7 DEF GateStep

\* The session and its end.
LEMMA SessionStepKeepsDInv ==
    ASSUME TypeOK, DInv, NEW c \in Conns, SessionStep(c)
    PROVE  DInv'
<1> USE DEF DInv, NoDialogBefore, BeforeDialog, TrayOnlyForService, AnnouncedAt, RejectionIsLast,
        TypeOK, Serving, SessionLoops
<1>1. CASE SessionEnds(c)
  BY <1>1 DEF SessionEnds, LeaveLoop, Goto, cmVars, trayVars
<1>2. CASE SessionDisconnectedByCm(c)
  BY <1>2 DEF SessionDisconnectedByCm, LeaveLoop, Goto, cmVars, trayVars
<1>3. CASE CleanupCmFiles(c)
  BY <1>3 DEF CleanupCmFiles, Goto, RemoveFiles, FileKinds, cmVars, trayVars
<1>4. CASE SignalCmEnded(c)
  BY <1>4 DEF SignalCmEnded, Goto, WriteFiles, cmVars, trayVars
<1>5. CASE TerminalTurn(c)
  BY <1>5 DEF TerminalTurn, Goto, cmVars, trayVars
<1>6. CASE TerminalTurnEnds(c)
  BY <1>6 DEF TerminalTurnEnds, Goto, cmVars, trayVars
<1>7. CASE TerminalsDropped(c)
  BY <1>7 DEF TerminalsDropped, Goto, cmVars, trayVars
<1> HIDE DEF DInv
<1>. QED
  BY <1>1, <1>2, <1>3, <1>4, <1>5, <1>6, <1>7 DEF SessionStep

\* The CM process, its owner and the tray's watcher.
LEMMA CmStepKeepsDInv ==
    ASSUME TypeOK, DInv, NEW c \in Conns, CmStep(c)
    PROVE  DInv'
<1> USE DEF DInv, NoDialogBefore, BeforeDialog, TrayOnlyForService, AnnouncedAt, RejectionIsLast,
        TypeOK, Serving, SessionLoops
<1>1. CASE TrayNotices(c)
  BY <1>1 DEF TrayNotices, hostVars
<1>2. CASE CmStart(c)
  BY <1>2 DEF CmStart, hostVars, trayVars
<1>3. CASE CmTickLooks(c)
  BY <1>3 DEF CmTickLooks, RemoveFiles, hostVars, trayVars
<1>4. CASE CmTickActs(c)
  BY <1>4 DEF CmTickActs, AnswerFiles, WriteFiles, hostVars, trayVars
<1>5. CASE PressAccept(c)
  BY <1>5 DEF PressAccept, hostVars, trayVars
<1>6. CASE PressRefuse(c)
  BY <1>6 DEF PressRefuse, hostVars, trayVars
<1>7. CASE CmWindowCloses(c)
  BY <1>7 DEF CmWindowCloses, hostVars, trayVars
<1>8. CASE CmDropsAcceptance(c)
  BY <1>8 DEF CmDropsAcceptance, RemoveFiles, hostVars, trayVars
<1>9. CASE CmWritesRejection(c)
  BY <1>9 DEF CmWritesRejection, WriteFiles, hostVars, trayVars
<1>10. CASE CmKilled(c)
  BY <1>10 DEF CmKilled, hostVars, trayVars
<1> HIDE DEF DInv
<1>. QED
  BY <1>1, <1>2, <1>3, <1>4, <1>5, <1>6, <1>7, <1>8, <1>9, <1>10 DEF CmStep

LEMMA SharedStepKeepsDInv ==
    ASSUME TypeOK, DInv, HostCrash \/ HostRestart \/ InstallerSweeps \/ TrayStops \/ TrayStarts
    PROVE  DInv'
<1> USE DEF DInv, NoDialogBefore, BeforeDialog, TrayOnlyForService, AnnouncedAt, RejectionIsLast,
        TypeOK, Serving, SessionLoops
<1>1. CASE HostCrash
  BY <1>1 DEF HostCrash, cmVars, trayVars
<1>2. CASE HostRestart
  BY <1>2 DEF HostRestart, cmVars, trayVars
<1>3. CASE TrayStops
  BY <1>3 DEF TrayStops, hostVars, cmVars
<1>4. CASE TrayStarts
  BY <1>4 DEF TrayStarts, hostVars, cmVars
<1>5. CASE InstallerSweeps
  BY <1>5 DEF InstallerSweeps, hostVars, cmVars, trayVars
<1>. QED
  BY <1>1, <1>2, <1>3, <1>4, <1>5

LEMMA DialogInvariance == Spec => [](TypeOK /\ DInv)
<1>1. Init => DInv
  BY DEF Init, DInv, NoDialogBefore, BeforeDialog, TrayOnlyForService, AnnouncedAt, RejectionIsLast
<1>2. IInv /\ DInv /\ [Next]_vars => DInv'
  <2> SUFFICES ASSUME IInv, DInv, [Next]_vars PROVE DInv'
    OBVIOUS
  <2>1. TypeOK
    BY DEF IInv
  <2>2. CASE Next
    BY <2>1, <2>2, LoginStepKeepsDInv, OwnerStepKeepsDInv, GateStepKeepsDInv,
       SessionStepKeepsDInv, CmStepKeepsDInv, SharedStepKeepsDInv DEF Next, HostStep
  <2>3. CASE UNCHANGED vars
    BY <2>3 DEF vars, hostVars, cmVars, trayVars, DInv, NoDialogBefore, BeforeDialog, TrayOnlyForService,
                AnnouncedAt, RejectionIsLast
  <2>. QED
    BY <2>2, <2>3
<1>3. IInv => TypeOK
  BY DEF IInv
<1>. QED
  BY <1>1, <1>2, <1>3, Invariance, PTL DEF Spec

\* Only a viewer who was let in from an open dialog and failed later leaves an
\* announcement behind.
THEOREM StrayAnnouncement == Spec => []StrayAnnouncementOnlyAfterApproval
<1>1. DInv => StrayAnnouncementOnlyAfterApproval
  BY DEF DInv, AnnouncedAt, StrayAnnouncementOnlyAfterApproval, Serving, SessionLoops
<1>. QED
  BY <1>1, DialogInvariance, PTL

\* Neither the host nor a restarted tray opens a second dialog.
THEOREM OneDialog == Spec => OneDialogPerConnection
<1>1. TypeOK /\ DInv /\ [Next]_vars
      => [\A c \in Conns : cm[c] \notin {"none", "starting"} => cm'[c] # "starting"]_vars
  <2> SUFFICES ASSUME TypeOK, DInv, Next, NEW c \in Conns, cm[c] \notin {"none", "starting"}
               PROVE  cm'[c] # "starting"
    OBVIOUS
  <2>1. CASE UNCHANGED cm
    BY <2>1
  <2>2. ASSUME NEW d \in Conns, LoginEmptyPassword(d) \/ InviteReceived(d) \/ OpenDialog(d)
        PROVE  cm'[c] # "starting"
    BY <2>2 DEF LoginEmptyPassword, InviteReceived, OpenDialog, Goto, SpawnCmProcess,
                DInv, NoDialogBefore, BeforeDialog, TypeOK
  <2>3. ASSUME NEW d \in Conns, TrayNotices(d)
        PROVE  cm'[c] # "starting"
    BY <2>3 DEF TrayNotices, DInv, NoDialogBefore, BeforeDialog, TrayOnlyForService, TypeOK
  <2>4. ASSUME NEW d \in Conns, CmStep(d), ~TrayNotices(d)
        PROVE  cm'[c] # "starting"
    BY <2>4 DEF CmStep, CmStart, CmTickLooks, CmTickActs, PressAccept, PressRefuse,
                CmWindowCloses, CmDropsAcceptance, CmWritesRejection, CmKilled, TypeOK
  <2>5. ASSUME NEW d \in Conns, HostStep(d),
               ~(LoginEmptyPassword(d) \/ InviteReceived(d) \/ OpenDialog(d))
        PROVE  UNCHANGED cm
    BY <2>5 DEF HostStep, LoginStep, OwnerStep, GateStep, SessionStep, cmVars,
        AcceptConnection, HandshakeDone, HandshakeFails, LoginDeadline, LoginAbandoned,
        LoginRightPassword, LoginWrongPassword, SwitchSidesAccepted,
        ApprovalDeadline, ApprovalViewerLeft, ApprovalRightPassword, ApprovalAccepted,
        ApprovalRejected, InviteDeadline, InviteAnswered,
        ReadTwoFa, TwoFaRightCode, TwoFaWrongCode, TwoFaAbandoned, GateDenied, GatePassed,
        SessionEnds, SessionDisconnectedByCm, TerminalTurn, TerminalTurnEnds,
        TerminalsDropped, CleanupCmFiles, SignalCmEnded
  <2>6. HostCrash \/ HostRestart \/ InstallerSweeps \/ TrayStops \/ TrayStarts => UNCHANGED cm
    BY DEF HostCrash, HostRestart, InstallerSweeps, TrayStops, TrayStarts, cmVars
  <2>. QED
    BY <2>1, <2>2, <2>3, <2>4, <2>5, <2>6 DEF Next
<1>. QED
  BY <1>1, DialogInvariance, PTL DEF Spec, OneDialogPerConnection

\* A refusal waiting to be read stays one.
THEOREM Refusal == Spec => RefusalIsFinal
<1>1. TypeOK /\ DInv /\ [Next]_vars
      => [\A c \in Conns : pc[c] = "approval" /\ CmRejected(c) => ~CmAccepted(c)']_vars
  <2> SUFFICES ASSUME TypeOK, DInv, Next, NEW c \in Conns, CmRejected(c)
               PROVE  ~CmAccepted(c)'
    OBVIOUS
  <2>1. "accepted" \notin files[c] /\ cm[c] = "exited"
    BY DEF CmRejected, DInv, RejectionIsLast
  <2>2. ASSUME NEW d \in Conns, HostStep(d)
        PROVE  "accepted" \notin files'[c]
    BY <2>1, <2>2 DEF TypeOK, HostStep, LoginStep, OwnerStep, GateStep, SessionStep,
        WriteFiles, RemoveFiles,
        AcceptConnection, HandshakeDone, HandshakeFails, LoginDeadline, LoginAbandoned,
        LoginRightPassword, LoginWrongPassword, LoginEmptyPassword, SwitchSidesAccepted,
        InviteReceived, ApprovalDeadline, ApprovalViewerLeft, ApprovalRightPassword,
        ApprovalAccepted, ApprovalRejected, InviteDeadline, InviteAnswered,
        ReadTwoFa, TwoFaRightCode, TwoFaWrongCode, TwoFaAbandoned, GateDenied, GatePassed,
        OpenDialog, SessionEnds, SessionDisconnectedByCm, TerminalTurn, TerminalTurnEnds,
        TerminalsDropped, CleanupCmFiles, SignalCmEnded
  <2>3. ASSUME NEW d \in Conns, CmStep(d)
        PROVE  "accepted" \notin files'[c]
    BY <2>1, <2>3 DEF TypeOK, CmStep, TrayNotices, CmStart, CmTickLooks, CmTickActs,
        PressAccept, PressRefuse, CmWindowCloses, CmDropsAcceptance, CmWritesRejection,
        CmKilled, WriteFiles, RemoveFiles
  <2>4. HostCrash \/ HostRestart \/ InstallerSweeps \/ TrayStops \/ TrayStarts => "accepted" \notin files'[c]
    BY <2>1 DEF HostCrash, HostRestart, InstallerSweeps, TrayStops, TrayStarts
  <2>. QED
    BY <2>2, <2>3, <2>4 DEF Next, CmAccepted
<1>. QED
  BY <1>1, DialogInvariance, PTL DEF Spec, RefusalIsFinal
=============================================================================
