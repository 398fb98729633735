------------------------- MODULE Rendezvous_proofs -------------------------
(***************************************************************************)
(* Proofs about Rendezvous, for any viewers, any number of attempts and    *)
(* any number of breaks: type correctness, and that a connected viewer     *)
(* holds one stream.  On the way to it: a direct stream that is up has a   *)
(* session of the host at its other end.  That an attempt succeeds and     *)
(* that nothing is left on the host are liveness, and left to TLC.         *)
(***************************************************************************)
EXTENDS Rendezvous, TLAPS

-----------------------------------------------------------------------------
(* The inductive invariant. *)

\* Before a viewer has heard from the host, neither of its connections begins.
NoneBeforeRace ==
    \A v \in Viewers : stage[v] \in {"idle", "asking"} => direct[v] = "none" /\ turn[v] = "none"

\* The listener behind a direct stream that is up serves it.
DirectIsServed ==
    \A v \in Viewers : direct[v] = "up" => listener[v][target[v]] = "served"

IInv ==
    /\ TypeOK
    /\ NoneBeforeRace
    /\ DirectIsServed
    /\ OneStream

LEMMA ListenersAreNumbers == Listeners \subseteq Nat \ {0}
BY DEF Listeners

LEMMA AttemptIsNumber ==
    ASSUME TypeOK, NEW v \in Viewers
    PROVE  attempt[v] \in Nat
<1>1. attempt[v] \in {0} \cup Listeners
  BY DEF TypeOK
<1>2. CASE attempt[v] = 0
  BY <1>2
<1>3. CASE attempt[v] \in Listeners
  BY <1>3, ListenersAreNumbers
<1> QED
  BY <1>1, <1>2, <1>3

LEMMA FirstIsListener ==
    ASSUME Viewers # {}
    PROVE  1 \in Listeners
BY RendezvousAssumption DEF RendezvousAssumption, Listeners

LEMMA InitInvariant == Init => IInv
<1> SUFFICES ASSUME Init PROVE IInv
  OBVIOUS
<1>1. TypeOK
  BY FirstIsListener, RendezvousAssumption DEF Init, TypeOK, RendezvousAssumption
<1> QED
  BY <1>1 DEF Init, IInv, NoneBeforeRace, DirectIsServed, OneStream

-----------------------------------------------------------------------------
(* Messages. *)

LEMMA SendsTypes ==
    ASSUME TypeOK, NEW v \in Viewers,
           NEW type \in {"ConnectRequest", "RelayConnection", "RelayReady"}, Sends(type, v)
    PROVE  inbox' \in Seq(Messages)
<1>1. Message(type, v) \in Messages
  BY DEF Message, Messages
<1>2. inbox \in Seq(Messages)
  BY DEF TypeOK
<1>3. Append(inbox, Message(type, v)) \in Seq(Messages)
  BY <1>1, <1>2
<1> QED
  BY <1>2, <1>3 DEF Sends

LEMMA TakesTypes ==
    ASSUME TypeOK, NEW type, Takes(type)
    PROVE  First.from \in Viewers /\ inbox' \in Seq(Messages)
<1>1. inbox \in Seq(Messages) /\ inbox # <<>> /\ inbox' = Tail(inbox)
  BY DEF TypeOK, Takes
<1>2. Head(inbox) \in Messages /\ Tail(inbox) \in Seq(Messages)
  BY <1>1
<1> QED
  BY <1>1, <1>2 DEF First, Messages

\* One listener changes, the others stay as they are.
LEMMA ListenerChanges ==
    ASSUME TypeOK, NEW v \in Viewers, NEW n \in Listeners,
           NEW x \in {"none", "open", "served", "closed"},
           listener' = [listener EXCEPT ![v][n] = x]
    PROVE  /\ listener' \in [Viewers -> [Listeners -> {"none", "open", "served", "closed"}]]
           /\ \A w \in Viewers, m \in Listeners :
                 listener'[w][m] = IF w = v /\ m = n THEN x ELSE listener[w][m]
<1> DEFINE States == {"none", "open", "served", "closed"}
           row == [listener[v] EXCEPT ![n] = x]
<1>1. listener \in [Viewers -> [Listeners -> States]]
  BY DEF TypeOK
<1>2. row \in [Listeners -> States] /\ \A m \in Listeners : row[m] = IF m = n THEN x ELSE listener[v][m]
  BY <1>1
<1>3. listener' = [listener EXCEPT ![v] = row]
  OBVIOUS
<1> QED
  BY <1>1, <1>2, <1>3

-----------------------------------------------------------------------------
(* The steps of the viewers. *)

\* A viewer that has no stream yet goes to another stage.
LEMMA StageAlone ==
    ASSUME IInv, NEW v \in Viewers, NEW s \in {"asking", "failed"}, Enters(v, s),
           stage[v] \in {"idle", "asking"}, UNCHANGED <<direct, turn, target, listener>>
    PROVE  NoneBeforeRace' /\ DirectIsServed' /\ OneStream'
<1>1. \A w \in Viewers : stage'[w] = IF w = v THEN s ELSE stage[w]
  BY DEF Enters, IInv, TypeOK
<1>2. direct[v] = "none" /\ turn[v] = "none"
  BY DEF IInv, NoneBeforeRace
<1> QED
  BY <1>1, <1>2 DEF IInv, NoneBeforeRace, DirectIsServed, OneStream

LEMMA AsksInvariant ==
    ASSUME IInv, NEW v \in Viewers, Asks(v)
    PROVE  IInv'
<1> USE DEF IInv, Asks, Enters, hostVars
<1>1. attempt[v] + 1 \in Listeners
  <2>1. attempt[v] \in Nat
    BY AttemptIsNumber
  <2>2. Attempts[v] \in Nat
    BY RendezvousAssumption DEF RendezvousAssumption
  <2>3. attempt[v] < Attempts[v]
    OBVIOUS
  <2>4. attempt[v] + 1 \in 1 .. Attempts[v]
    BY <2>1, <2>2, <2>3
  <2> QED
    BY <2>4 DEF Listeners
<1>2. TypeOK'
  <2>1. inbox' \in Seq(Messages)
    BY SendsTypes
  <2>2. attempt' \in [Viewers -> {0} \cup Listeners]
    BY <1>1 DEF TypeOK
  <2>3. unlucky' \subseteq Viewers
    BY DEF TypeOK
  <2>4. stage' \in [Viewers -> {"idle", "asking", "racing", "connected", "failed", "left"}]
    BY DEF TypeOK
  <2> QED
    BY <2>1, <2>2, <2>3, <2>4 DEF TypeOK
<1>3. NoneBeforeRace' /\ DirectIsServed' /\ OneStream'
  BY StageAlone
<1> QED
  BY <1>2, <1>3

LEMMA GivesUpInvariant ==
    ASSUME IInv, NEW v \in Viewers, GivesUpAsking(v)
    PROVE  IInv'
<1> USE DEF IInv, GivesUpAsking, Enters, hostVars
<1>1. TypeOK'
  BY DEF TypeOK
<1>2. NoneBeforeRace' /\ DirectIsServed' /\ OneStream'
  BY StageAlone
<1> QED
  BY <1>1, <1>2

LEMMA HearsInvariant ==
    ASSUME IInv, NEW v \in Viewers, Hears(v)
    PROVE  IInv'
<1> USE DEF IInv, Hears, Enters, hostVars
<1>1. Head(replies[v]) \in Listeners
  BY DEF TypeOK
<1>2. PICK way \in {"down", "trying"} : direct' = [direct EXCEPT ![v] = way]
  OBVIOUS
<1>3. TypeOK'
  <2>1. target' \in [Viewers -> Listeners]
    BY <1>1 DEF TypeOK
  <2>2. direct' \in [Viewers -> {"none", "trying", "up", "down"}]
    BY <1>2 DEF TypeOK
  <2>3. stage' \in [Viewers -> {"idle", "asking", "racing", "connected", "failed", "left"}]
    BY DEF TypeOK
  <2> QED
    BY <2>1, <2>2, <2>3 DEF TypeOK
<1>4. \A w \in Viewers : w # v => UNCHANGED <<stage[w], direct[w], target[w]>>
  BY <1>2 DEF TypeOK
<1>5. stage'[v] = "racing" /\ direct'[v] # "up"
  BY <1>2 DEF TypeOK
<1>6. UNCHANGED <<turn, listener>>
  OBVIOUS
<1> HIDE DEF Hears, Enters, hostVars
<1>7. NoneBeforeRace' /\ DirectIsServed'
  BY <1>4, <1>5, <1>6 DEF NoneBeforeRace, DirectIsServed
<1>8. OneStream'
  BY <1>4, <1>5, <1>6 DEF OneStream
<1> QED
  BY <1>3, <1>7, <1>8

LEMMA DirectInvariant ==
    ASSUME IInv, NEW v \in Viewers, DirectStep(v)
    PROVE  IInv'
<1> USE DEF IInv
<1> DEFINE t == target[v]
           Accepts == listener' = [listener EXCEPT ![v][t] = "served"]
<1>1. direct[v] = "trying" /\ t \in Listeners
  BY DEF TypeOK, DirectStep, DirectConnects, DirectFails
<1>2. \/ Accepts /\ direct' = [direct EXCEPT ![v] = Arrives(v)]
      \/ Accepts /\ direct' = [direct EXCEPT ![v] = "down"]
      \/ listener' = listener /\ direct' = [direct EXCEPT ![v] = "down"]
  BY DEF DirectStep, DirectConnects, DirectFails
<1>3. UNCHANGED <<online, breaks, waiting, relayed, stage, attempt, target, turn, inbox, replies, unlucky, swallowed>>
  BY DEF DirectStep, DirectConnects, DirectFails
<1>4. Arrives(v) \in {"up", "down"} /\ (Arrives(v) = "up" => stage[v] = "racing")
  BY DEF Arrives
<1>5. direct' \in [Viewers -> {"none", "trying", "up", "down"}]
  BY <1>2, <1>4 DEF TypeOK
<1>0. ASSUME Accepts
      PROVE  /\ listener' \in [Viewers -> [Listeners -> {"none", "open", "served", "closed"}]]
             /\ \A w \in Viewers, m \in Listeners :
                   listener'[w][m] = IF w = v /\ m = t THEN "served" ELSE listener[w][m]
  <2>1. listener' \in [Viewers -> [Listeners -> {"none", "open", "served", "closed"}]]
    BY <1>0, <1>1, ListenerChanges
  <2>2. ASSUME NEW w \in Viewers, NEW m \in Listeners
        PROVE  listener'[w][m] = IF w = v /\ m = t THEN "served" ELSE listener[w][m]
    <3>1. t \in Listeners /\ listener \in [Viewers -> [Listeners -> {"none", "open", "served", "closed"}]]
      BY <1>1 DEF TypeOK
    <3> HIDE DEF t, IInv
    <3> QED
      BY <1>0, <3>1
  <2> QED
    BY <2>1, <2>2
<1>6. listener' \in [Viewers -> [Listeners -> {"none", "open", "served", "closed"}]]
  <2>1. CASE Accepts
    BY <1>0, <2>1
  <2>2. CASE listener' = listener
    BY <2>2 DEF TypeOK
  <2> QED
    BY <1>2, <2>1, <2>2
<1>7. TypeOK'
  BY <1>3, <1>5, <1>6 DEF TypeOK
<1>8. NoneBeforeRace'
  BY <1>1, <1>2, <1>3 DEF TypeOK, NoneBeforeRace
<1>9. DirectIsServed'
  <2> SUFFICES ASSUME NEW w \in Viewers, direct'[w] = "up"
               PROVE  listener'[w][target[w]] = "served"
    BY <1>3 DEF DirectIsServed
  <2>1. CASE Accepts
    <3>1. target[w] \in Listeners
      BY DEF TypeOK
    <3>2. listener'[w][target[w]] = IF w = v /\ target[w] = t THEN "served" ELSE listener[w][target[w]]
      BY <1>0, <2>1, <3>1
    <3>3. w # v => direct[w] = "up"
      BY <1>2 DEF TypeOK
    <3>4. CASE w = v
      BY <3>2, <3>4
    <3>5. CASE w # v
      BY <3>2, <3>3, <3>5 DEF DirectIsServed
    <3> QED
      BY <3>4, <3>5
  <2>2. CASE listener' = listener /\ direct' = [direct EXCEPT ![v] = "down"]
    <3>1. direct[w] = "up"
      BY <2>2 DEF TypeOK
    <3> QED
      BY <2>2, <3>1 DEF DirectIsServed
  <2> QED
    BY <1>2, <2>1, <2>2
<1>10. OneStream'
  <2> SUFFICES ASSUME NEW w \in Viewers, stage[w] = "connected"
               PROVE  {direct'[w], turn[w]} # {"up"} /\ "up" \in {direct'[w], turn[w]}
    BY <1>3 DEF OneStream
  <2>1. CASE w = v
    <3>1. direct'[v] = "down" /\ turn[v] = "up"
      BY <1>1, <1>2, <1>4, <2>1 DEF TypeOK, OneStream
    <3> QED
      BY <2>1, <3>1
  <2>2. CASE w # v
    BY <1>2, <2>2 DEF TypeOK, OneStream
  <2> QED
    BY <2>1, <2>2
<1> QED
  BY <1>7, <1>8, <1>9, <1>10

LEMMA TurnInvariant ==
    ASSUME IInv, NEW v \in Viewers, TurnStarts(v) \/ TurnStep(v)
    PROVE  IInv'
<1> USE DEF IInv, TurnStarts, TurnStep, TurnAnnounces, TurnBinds, TurnFails, Arrives, hostVars
<1>1. inbox' \in Seq(Messages)
  <2>1. CASE UNCHANGED inbox
    BY <2>1 DEF TypeOK
  <2>2. CASE Sends("RelayConnection", v) \/ Sends("RelayReady", v)
    BY <2>2, SendsTypes
  <2> QED
    BY <2>1, <2>2
<1>2. turn' \in [Viewers -> {"none", "allocating", "announced", "up", "down"}]
  BY DEF TypeOK
<1>3. unlucky' \subseteq Viewers
  BY DEF TypeOK
<1>4. TypeOK'
  BY <1>1, <1>2, <1>3 DEF TypeOK
<1>5. UNCHANGED <<stage, target, direct, listener>>
  OBVIOUS
<1>6. turn[v] \in {"none", "allocating", "announced"} /\ stage[v] \notin {"idle", "asking"}
  BY DEF NoneBeforeRace, TypeOK
<1>7. \A w \in Viewers : w # v => turn'[w] = turn[w]
  BY DEF TypeOK
<1>8. turn'[v] = "up" => stage[v] = "racing"
  BY DEF TypeOK
<1>9. NoneBeforeRace' /\ DirectIsServed'
  BY <1>5, <1>6, <1>7 DEF NoneBeforeRace, DirectIsServed
<1>10. OneStream'
  BY <1>5, <1>6, <1>7, <1>8 DEF OneStream
<1> QED
  BY <1>4, <1>9, <1>10

LEMMA RaceInvariant ==
    ASSUME IInv, NEW v \in Viewers, DirectWins(v) \/ TurnWins(v) \/ BothFail(v) \/ Leaves(v)
    PROVE  IInv'
<1> USE DEF IInv, DirectWins, TurnWins, BothFail, Leaves, Enters, Dropped, hostVars
<1>1. TypeOK'
  BY DEF TypeOK
<1>2. UNCHANGED <<target, listener>>
  OBVIOUS
<1>3. \A w \in Viewers : w # v => UNCHANGED <<stage[w], direct[w], turn[w]>>
  BY DEF TypeOK
<1>4. stage'[v] \in {"connected", "failed", "left"}
  BY DEF TypeOK
<1>5. direct'[v] = "up" => direct[v] = "up"
  BY DEF TypeOK
<1>6. stage'[v] = "connected" => (direct'[v] = "up") # (turn'[v] = "up")
  <2>1. CASE DirectWins(v)
    <3>1. direct'[v] = "up" /\ turn'[v] # "up"
      BY <2>1 DEF TypeOK
    <3> QED
      BY <3>1
  <2>2. CASE TurnWins(v)
    <3>1. turn'[v] = "up" /\ direct'[v] # "up"
      BY <2>2 DEF TypeOK
    <3> QED
      BY <3>1
  <2>3. CASE BothFail(v) \/ Leaves(v)
    <3>1. stage'[v] # "connected"
      BY <2>3 DEF TypeOK
    <3> QED
      BY <3>1
  <2> QED
    BY <2>1, <2>2, <2>3
<1>7. NoneBeforeRace' /\ DirectIsServed'
  BY <1>2, <1>3, <1>4, <1>5 DEF NoneBeforeRace, DirectIsServed
<1>8. OneStream'
  BY <1>3, <1>6 DEF OneStream
<1> QED
  BY <1>1, <1>7, <1>8

-----------------------------------------------------------------------------
(* The steps of the host. *)

LEMMA ListensInvariant ==
    ASSUME IInv, HostListens
    PROVE  IInv'
<1> USE DEF IInv
<1>1. First.from \in Viewers /\ Takes("ConnectRequest")
  BY TakesTypes DEF HostListens
<1>2. inbox' \in Seq(Messages)
  BY <1>1, TakesTypes
<1>3. UNCHANGED <<online, breaks, waiting, relayed, swallowed, viewerVars>>
  BY <1>1 DEF HostListens, Takes
<1>4. \/ \E n \in Listeners :
            /\ listener[First.from][n] = "none"
            /\ listener' = [listener EXCEPT ![First.from][n] = "open"]
            /\ replies' = [replies EXCEPT ![First.from] = Append(@, n)]
            /\ UNCHANGED unlucky
      \/ unlucky' = unlucky \cup {First.from} /\ UNCHANGED <<listener, replies>>
  BY DEF HostListens, BadLuck
<1>5. CASE unlucky' = unlucky \cup {First.from} /\ UNCHANGED <<listener, replies>>
  <2>1. TypeOK'
    BY <1>1, <1>2, <1>3, <1>5 DEF TypeOK, viewerVars
  <2> QED
    BY <1>3, <1>5, <2>1 DEF NoneBeforeRace, DirectIsServed, OneStream, viewerVars
<1>6. ASSUME NEW n \in Listeners,
             listener[First.from][n] = "none",
             listener' = [listener EXCEPT ![First.from][n] = "open"],
             replies' = [replies EXCEPT ![First.from] = Append(@, n)],
             UNCHANGED unlucky
      PROVE  IInv'
  <2>1. replies' \in [Viewers -> Seq(Listeners)]
    BY <1>1, <1>6 DEF TypeOK
  <2>2. listener' \in [Viewers -> [Listeners -> {"none", "open", "served", "closed"}]]
    BY <1>1, <1>6, ListenerChanges
  <2>3. TypeOK'
    BY <1>2, <1>3, <1>6, <2>1, <2>2 DEF TypeOK, viewerVars
  <2>4. NoneBeforeRace' /\ OneStream'
    BY <1>3 DEF NoneBeforeRace, OneStream, viewerVars
  <2>5. DirectIsServed'
    <3> SUFFICES ASSUME NEW w \in Viewers, direct[w] = "up"
                 PROVE  listener'[w][target[w]] = "served"
      BY <1>3 DEF DirectIsServed, viewerVars
    <3>1. target[w] \in Listeners /\ listener[w][target[w]] = "served"
      BY DEF TypeOK, DirectIsServed
    <3>2. listener'[w][target[w]]
            = IF w = First.from /\ target[w] = n THEN "open" ELSE listener[w][target[w]]
      BY <1>1, <1>6, <3>1, ListenerChanges
    <3> QED
      BY <1>6, <3>1, <3>2
  <2> QED
    BY <2>3, <2>4, <2>5
<1> QED
  BY <1>4, <1>5, <1>6

LEMMA RelayInvariant ==
    ASSUME IInv, HostConnectsToRelay \/ HostHearsReady \/ HostReadsAway \/ HostIgnores
    PROVE  IInv'
<1> USE DEF IInv
<1>1. PICK type \in {"ConnectRequest", "RelayConnection", "RelayReady"} : Takes(type)
  BY DEF HostConnectsToRelay, HostHearsReady, HostReadsAway, HostIgnores
<1>2. First.from \in Viewers
  BY <1>1, TakesTypes
<1>3. inbox' \in Seq(Messages)
  BY <1>1, TakesTypes
<1>4. UNCHANGED <<online, breaks, listener, replies, viewerVars>>
  BY <1>1 DEF HostConnectsToRelay, HostHearsReady, HostReadsAway, HostIgnores, Takes
<1>5. /\ relayed' \in [Viewers -> {"none", "connected", "served", "closed"}]
      /\ waiting' \in Viewers \cup {None}
      /\ unlucky' \subseteq Viewers
      /\ swallowed' \subseteq Viewers
  <2>1. CASE HostConnectsToRelay
    BY <2>1, <1>2 DEF HostConnectsToRelay, BadLuck, TypeOK
  <2>2. CASE HostHearsReady
    BY <2>2 DEF HostHearsReady, TypeOK
  <2>3. CASE HostReadsAway
    BY <2>3, <1>2 DEF HostReadsAway, TypeOK
  <2>4. CASE HostIgnores
    BY <2>4 DEF HostIgnores, TypeOK
  <2> QED
    BY <2>1, <2>2, <2>3, <2>4
<1>6. TypeOK'
  BY <1>3, <1>4, <1>5 DEF TypeOK, viewerVars
<1>7. NoneBeforeRace' /\ DirectIsServed' /\ OneStream'
  BY <1>4 DEF NoneBeforeRace, DirectIsServed, OneStream, viewerVars
<1> QED
  BY <1>6, <1>7

LEMMA BreaksInvariant ==
    ASSUME IInv, HostStopsWaiting \/ HostGoesOffline \/ HostComesBack
    PROVE  IInv'
<1> USE DEF IInv
<1>1. UNCHANGED <<listener, replies, swallowed, viewerVars>>
  BY DEF HostStopsWaiting, HostGoesOffline, HostComesBack
<1>2. TypeOK'
  <2>1. CASE HostStopsWaiting
    BY <2>1, <1>1 DEF HostStopsWaiting, BadLuck, TypeOK, viewerVars
  <2>2. CASE HostGoesOffline
    <3>1. breaks' \in 0 .. MaxBreaks
      BY <2>2, RendezvousAssumption DEF HostGoesOffline, TypeOK, RendezvousAssumption
    <3>2. {inbox[i].from : i \in DOMAIN inbox} \subseteq Viewers
      <4>1. \A i \in DOMAIN inbox : inbox[i] \in Messages
        BY DEF TypeOK
      <4> QED
        BY <4>1 DEF Messages
    <3>3. unlucky' \subseteq Viewers
      BY <2>2, <3>2 DEF HostGoesOffline, TypeOK
    <3>4. relayed' \in [Viewers -> {"none", "connected", "served", "closed"}]
      BY <2>2 DEF HostGoesOffline, TypeOK
    <3>5. /\ inbox' \in Seq(Messages)
          /\ online' \in BOOLEAN
          /\ waiting' \in Viewers \cup {None}
      <4>1. <<>> \in Seq(Messages)
        OBVIOUS
      <4> QED
        BY <2>2, <4>1 DEF HostGoesOffline
    <3> QED
      BY <1>1, <3>1, <3>3, <3>4, <3>5 DEF TypeOK, viewerVars
  <2>3. CASE HostComesBack
    BY <2>3, <1>1 DEF HostComesBack, TypeOK, viewerVars
  <2> QED
    BY <2>1, <2>2, <2>3
<1>3. NoneBeforeRace' /\ DirectIsServed' /\ OneStream'
  BY <1>1 DEF NoneBeforeRace, DirectIsServed, OneStream, viewerVars
<1> QED
  BY <1>2, <1>3

LEMMA ListenerThreadInvariant ==
    ASSUME IInv, NEW v \in Viewers, NEW n \in Listeners,
           ListenerTimesOut(v, n) \/ DirectSessionEnds(v, n)
    PROVE  IInv'
<1> USE DEF IInv, ListenerTimesOut, DirectSessionEnds
<1>1. UNCHANGED <<online, breaks, waiting, relayed, inbox, replies, unlucky, swallowed, viewerVars>>
  OBVIOUS
<1>2. listener' = [listener EXCEPT ![v][n] = "closed"]
  OBVIOUS
<1>3. listener[v][n] = "open" \/ direct[v] = "down"
  OBVIOUS
<1>4. listener' \in [Viewers -> [Listeners -> {"none", "open", "served", "closed"}]]
  BY <1>2, ListenerChanges
<1>5. TypeOK'
  BY <1>1, <1>4 DEF TypeOK, viewerVars
<1>6. NoneBeforeRace' /\ OneStream'
  BY <1>1 DEF NoneBeforeRace, OneStream, viewerVars
<1>7. DirectIsServed'
  <2> SUFFICES ASSUME NEW w \in Viewers, direct[w] = "up"
               PROVE  listener'[w][target[w]] = "served"
    BY <1>1 DEF DirectIsServed, viewerVars
  <2>1. target[w] \in Listeners /\ listener[w][target[w]] = "served"
    BY DEF TypeOK, DirectIsServed
  <2>2. listener'[w][target[w]]
          = IF w = v /\ target[w] = n THEN "closed" ELSE listener[w][target[w]]
    BY <1>2, <2>1, ListenerChanges
  <2> QED
    BY <1>3, <2>1, <2>2
<1> QED
  BY <1>5, <1>6, <1>7

LEMMA RelayThreadInvariant ==
    ASSUME IInv, NEW v \in Viewers, RelaySessionEnds(v)
    PROVE  IInv'
BY DEF IInv, RelaySessionEnds, TypeOK, NoneBeforeRace, DirectIsServed, OneStream, viewerVars

\* Every step of the specification keeps the invariant.
LEMMA StepInvariant ==
    ASSUME IInv, [Next]_vars
    PROVE  IInv'
<1>1. CASE UNCHANGED vars
  BY <1>1 DEF IInv, TypeOK, NoneBeforeRace, DirectIsServed, OneStream, vars, hostVars, viewerVars
<1>2. ASSUME NEW v \in Viewers, ViewerStep(v) \/ DirectStep(v) \/ TurnStep(v) \/ Leaves(v) PROVE IInv'
  BY <1>2, AsksInvariant, GivesUpInvariant, HearsInvariant, DirectInvariant, TurnInvariant, RaceInvariant
  DEF ViewerStep
<1>3. ASSUME NEW v \in Viewers, HostThreads(v) PROVE IInv'
  BY <1>3, ListenerThreadInvariant, RelayThreadInvariant DEF HostThreads
<1>4. CASE SignalStep
  BY <1>4, ListensInvariant, RelayInvariant, BreaksInvariant DEF SignalStep
<1>5. CASE HostGoesOffline \/ HostComesBack
  BY <1>5, BreaksInvariant
<1> QED
  BY <1>1, <1>2, <1>3, <1>4, <1>5 DEF Next

-----------------------------------------------------------------------------
(* The theorems. *)

\* The invariant holds in every state.
THEOREM Invariance == Spec => []IInv
<1>1. Init => IInv
  BY InitInvariant
<1>2. IInv /\ [Next]_vars => IInv'
  BY StepInvariant
<1> QED
  BY <1>1, <1>2, PTL DEF Spec

\* Every variable keeps its type.
THEOREM TypeCorrectness == Spec => []TypeOK
<1>1. IInv => TypeOK
  BY DEF IInv
<1> QED
  BY <1>1, Invariance, PTL

\* A connected viewer holds the stream that won, and no second one (remote.rs,
\* open_peer_stream).
THEOREM SingleStream == Spec => []OneStream
<1>1. IInv => OneStream
  BY DEF IInv
<1> QED
  BY <1>1, Invariance, PTL

\* A direct stream that is up is served by the host, on the listener it opened
\* for the request (server.rs, accept_connection).
THEOREM DirectStreamIsServed == Spec => []DirectIsServed
<1>1. IInv => DirectIsServed
  BY DEF IInv
<1> QED
  BY <1>1, Invariance, PTL
=============================================================================
