----------------------------- MODULE Rendezvous -----------------------------
(***************************************************************************)
(* How a viewer gets a stream to a host.                                   *)
(*                                                                         *)
(* The viewer asks through the signal server (ConnectRequest), up to three *)
(* times. The host opens a listener for each request it hears and answers  *)
(* with its address (Listening). The viewer then races a direct connection *)
(* against one over a TURN server, which begins half a second later: the   *)
(* relay's address goes to the host (RelayConnection), the host connects   *)
(* to it, the viewer binds to that connection and says so (RelayReady).    *)
(* The first stream wins; the other one is dropped as soon as it is there. *)
(*                                                                         *)
(* The host has one thread for the signal server.  While it waits for a    *)
(* RelayReady it reads everything else away, and it takes the RelayReady   *)
(* of any viewer.  Its connection to the server may break.                 *)
(*                                                                         *)
(* One TURN server is tried.  A login is what HostSession models: here a   *)
(* stream's host end is served until its viewer's end is closed.           *)
(*                                                                         *)
(* An operator whose name ends in _Slip is a plausible mistake in the      *)
(* definition that follows it; no specification uses it.                   *)
(***************************************************************************)
EXTENDS Integers, Sequences

CONSTANTS
    Viewers,    \* the viewers that want this host
    None,       \* nobody
    Attempts,   \* bound: the ConnectRequests each viewer sends (3 in the code)
    MaxBreaks   \* bound: how often the host loses the signal server

ASSUME RendezvousAssumption ==
    /\ None \notin Viewers
    /\ Attempts \in [Viewers -> Nat \ {0}]
    /\ MaxBreaks \in Nat

VARIABLES
    online,     \* the host is connected to the signal server
    breaks,     \* how often that connection has broken
    inbox,      \* what the signal server has for the host
    waiting,    \* the viewer for whose relay the host awaits RelayReady
    listener,   \* the host's listener for each request of a viewer
    relayed,    \* the host's end of each viewer's relay
    stage,      \* where each viewer is
    attempt,    \* the ConnectRequests it has sent
    replies,    \* the Listening answers on their way to it, by listener
    target,     \* the listener it was told of
    direct,     \* its direct connection
    turn,       \* its connection over TURN
    unlucky,    \* the viewers for whom a time limit or a network has failed
    swallowed   \* the viewers a message of which the waiting host has read away

hostVars   == <<online, breaks, waiting, listener, relayed>>
viewerVars == <<stage, attempt, target, direct, turn>>
vars == <<hostVars, viewerVars, inbox, replies, unlucky, swallowed>>

Listeners == UNION {1 .. Attempts[v] : v \in Viewers}
Message(type, v) == [type |-> type, from |-> v]
Messages == [type : {"ConnectRequest", "RelayConnection", "RelayReady"}, from : Viewers]

TypeOK ==
    /\ online \in BOOLEAN
    /\ breaks \in 0 .. MaxBreaks
    /\ inbox \in Seq(Messages)
    /\ waiting \in Viewers \cup {None}
    /\ listener \in [Viewers -> [Listeners -> {"none", "open", "served", "closed"}]]
    /\ relayed \in [Viewers -> {"none", "connected", "served", "closed"}]
    /\ stage \in [Viewers -> {"idle", "asking", "racing", "connected", "failed", "left"}]
    /\ attempt \in [Viewers -> {0} \cup Listeners]
    /\ replies \in [Viewers -> Seq(Listeners)]
    /\ target \in [Viewers -> Listeners]
    /\ direct \in [Viewers -> {"none", "trying", "up", "down"}]
    /\ turn \in [Viewers -> {"none", "allocating", "announced", "up", "down"}]
    /\ unlucky \subseteq Viewers
    /\ swallowed \subseteq Viewers

Init ==
    /\ online = TRUE
    /\ breaks = 0
    /\ inbox = <<>>
    /\ waiting = None
    /\ listener = [v \in Viewers |-> [n \in Listeners |-> "none"]]
    /\ relayed = [v \in Viewers |-> "none"]
    /\ stage = [v \in Viewers |-> "idle"]
    /\ attempt = [v \in Viewers |-> 0]
    /\ replies = [v \in Viewers |-> <<>>]
    /\ target = [v \in Viewers |-> 1]
    /\ direct = [v \in Viewers |-> "none"]
    /\ turn = [v \in Viewers |-> "none"]
    /\ unlucky = {}
    /\ swallowed = {}

-----------------------------------------------------------------------------
(* The viewer asks: send_connect_request. *)

Enters(v, s) == stage' = [stage EXCEPT ![v] = s]
BadLuck(v)   == unlucky' = unlucky \cup {v}

\* The server forwards a message to a host that is online.
Sends(type, v) == inbox' = IF online THEN Append(inbox, Message(type, v)) ELSE inbox

\* Something of this viewer's is still on its way to the host, or its answer is.
Pending(type, v) == \E i \in DOMAIN inbox : inbox[i] = Message(type, v)

\* An attempt: the first one, or one after "Could not find" or after 12 s.
Asks_Slip(v) ==
    /\ stage[v] = "idle" \/ (stage[v] = "asking" /\ replies[v] = <<>>)
    /\ attempt[v] <= Attempts[v]
    /\ attempt' = [attempt EXCEPT ![v] = @ + 1]
    /\ Enters(v, "asking")
    /\ Sends("ConnectRequest", v)
    /\ unlucky' = IF Pending("ConnectRequest", v) \/ ~online THEN unlucky \cup {v} ELSE unlucky
    /\ UNCHANGED <<hostVars, target, direct, turn, replies, swallowed>>
Asks(v) ==
    /\ stage[v] = "idle" \/ (stage[v] = "asking" /\ replies[v] = <<>>)
    /\ attempt[v] < Attempts[v]
    /\ attempt' = [attempt EXCEPT ![v] = @ + 1]
    /\ Enters(v, "asking")
    /\ Sends("ConnectRequest", v)
    /\ unlucky' = IF Pending("ConnectRequest", v) \/ ~online THEN unlucky \cup {v} ELSE unlucky
    /\ UNCHANGED <<hostVars, target, direct, turn, replies, swallowed>>

GivesUpAsking(v) ==
    /\ stage[v] = "asking"
    /\ attempt[v] = Attempts[v]
    /\ replies[v] = <<>>
    /\ Enters(v, "failed")
    /\ unlucky' = IF Pending("ConnectRequest", v) THEN unlucky \cup {v} ELSE unlucky
    /\ UNCHANGED <<hostVars, attempt, target, direct, turn, inbox, replies, swallowed>>

\* The first Listening counts; the socket is closed, and with it goes the rest.
Hears(v) ==
    /\ stage[v] = "asking"
    /\ replies[v] # <<>>
    /\ target' = [target EXCEPT ![v] = Head(replies[v])]
    /\ Enters(v, "racing")
    /\ \E forceRelay \in BOOLEAN :
        direct' = [direct EXCEPT ![v] = IF forceRelay THEN "down" ELSE "trying"]
    /\ UNCHANGED <<hostVars, attempt, turn, inbox, replies, unlucky, swallowed>>

-----------------------------------------------------------------------------
(* The race: open_peer_stream and its two threads. *)

\* A stream that comes after the race is dropped: nobody receives any more.
Arrives(v) == IF stage[v] = "racing" THEN "up" ELSE "down"

\* connect_direct_stream: the listener answers with its first message.
DirectConnects(v) ==
    /\ direct[v] = "trying"
    /\ listener[v][target[v]] = "open"
    /\ listener' = [listener EXCEPT ![v][target[v]] = "served"]
    /\ direct' = [direct EXCEPT ![v] = Arrives(v)]
    /\ UNCHANGED <<online, breaks, waiting, relayed, stage, attempt, target, turn, inbox, replies, unlucky, swallowed>>

\* No way through, or the first message does not come in time: the host may have accepted.
DirectFails(v) ==
    /\ direct[v] = "trying"
    /\ direct' = [direct EXCEPT ![v] = "down"]
    /\ \/ UNCHANGED listener
       \/ /\ listener[v][target[v]] = "open"
          /\ listener' = [listener EXCEPT ![v][target[v]] = "served"]
    /\ UNCHANGED <<online, breaks, waiting, relayed, stage, attempt, target, turn, inbox, replies, unlucky, swallowed>>

TurnStarts(v) ==
    /\ stage[v] = "racing"
    /\ turn[v] = "none"
    /\ turn' = [turn EXCEPT ![v] = "allocating"]
    /\ UNCHANGED <<hostVars, stage, attempt, target, direct, inbox, replies, unlucky, swallowed>>

\* try_turn_server as far as RelayConnection.
TurnAnnounces(v) ==
    /\ turn[v] = "allocating"
    /\ turn' = [turn EXCEPT ![v] = "announced"]
    /\ Sends("RelayConnection", v)
    /\ unlucky' = IF online THEN unlucky ELSE unlucky \cup {v}
    /\ UNCHANGED <<hostVars, stage, attempt, target, direct, replies, swallowed>>

\* ConnectionAttempt, ConnectionBind, RelayReady.
TurnBinds(v) ==
    /\ turn[v] = "announced"
    /\ relayed[v] \in {"connected", "served"}
    /\ turn' = [turn EXCEPT ![v] = Arrives(v)]
    /\ Sends("RelayReady", v)
    /\ unlucky' = IF online THEN unlucky ELSE unlucky \cup {v}
    /\ UNCHANGED <<hostVars, stage, attempt, target, direct, replies, swallowed>>

\* A step fails, or ConnectionAttempt does not come in 15 s: which is bad luck
\* as long as it may still come.
MayStillCome(v) == Pending("RelayConnection", v) \/ relayed[v] \in {"connected", "served"}
TurnFails(v) ==
    /\ turn[v] \in {"allocating", "announced"}
    /\ turn' = [turn EXCEPT ![v] = "down"]
    /\ unlucky' = IF turn[v] = "allocating" \/ MayStillCome(v) THEN unlucky \cup {v} ELSE unlucky
    /\ UNCHANGED <<hostVars, stage, attempt, target, direct, inbox, replies, swallowed>>

\* The first stream that is there wins, and the receiver of the other is gone.
Dropped(c, v) == [c EXCEPT ![v] = IF @ = "up" THEN "down" ELSE @]

DirectWins(v) ==
    /\ stage[v] = "racing"
    /\ direct[v] = "up"
    /\ Enters(v, "connected")
    /\ turn' = Dropped(turn, v)
    /\ UNCHANGED <<hostVars, attempt, target, direct, inbox, replies, unlucky, swallowed>>

TurnWins_Slip(v) ==
    /\ stage[v] = "racing"
    /\ turn[v] = "up"
    /\ Enters(v, "connected")
    /\ UNCHANGED <<hostVars, attempt, target, direct, turn, inbox, replies, unlucky, swallowed>>
TurnWins(v) ==
    /\ stage[v] = "racing"
    /\ turn[v] = "up"
    /\ Enters(v, "connected")
    /\ direct' = Dropped(direct, v)
    /\ UNCHANGED <<hostVars, attempt, target, turn, inbox, replies, unlucky, swallowed>>

BothFail_Slip(v) ==
    /\ stage[v] = "racing"
    /\ direct[v] = "down"
    /\ turn[v] \in {"none", "down"}
    /\ Enters(v, "failed")
    /\ UNCHANGED <<hostVars, attempt, target, direct, turn, inbox, replies, unlucky, swallowed>>
BothFail(v) ==
    /\ stage[v] = "racing"
    /\ direct[v] = "down"
    /\ turn[v] = "down"
    /\ Enters(v, "failed")
    /\ UNCHANGED <<hostVars, attempt, target, direct, turn, inbox, replies, unlucky, swallowed>>

\* The session of a connected viewer ends: by itself, or with its host's end.
Leaves(v) ==
    /\ stage[v] = "connected"
    /\ Enters(v, "left")
    /\ direct' = Dropped(direct, v)
    /\ turn' = Dropped(turn, v)
    /\ UNCHANGED <<hostVars, attempt, target, inbox, replies, unlucky, swallowed>>

-----------------------------------------------------------------------------
(* The host: run_signal_once and the threads it starts. *)

First == Head(inbox)
Takes(type) ==
    /\ inbox # <<>>
    /\ First.type = type
    /\ inbox' = Tail(inbox)
    /\ UNCHANGED <<online, breaks, viewerVars>>

\* handle_connect_request: a listener of its own for every request.
HostListens ==
    LET v == First.from IN
    /\ waiting = None
    /\ Takes("ConnectRequest")
    /\ \/ \E n \in Listeners :
            /\ listener[v][n] = "none"
            /\ \A i \in 1 .. n - 1 : listener[v][i] # "none"
            /\ listener' = [listener EXCEPT ![v][n] = "open"]
            /\ replies' = [replies EXCEPT ![v] = Append(@, n)]
            /\ UNCHANGED unlucky
       \/ /\ BadLuck(v)               \* no port to be had
          /\ UNCHANGED <<listener, replies>>
    /\ UNCHANGED <<waiting, relayed, swallowed>>

\* handle_relay_connection: the relay answers as long as the viewer keeps it.
HostConnectsToRelay ==
    LET v == First.from IN
    /\ waiting = None
    /\ Takes("RelayConnection")
    /\ \/ /\ turn[v] = "announced"
          /\ relayed' = [relayed EXCEPT ![v] = "connected"]
          /\ waiting' = v
          /\ UNCHANGED unlucky
       \/ /\ BadLuck(v)
          /\ UNCHANGED <<relayed, waiting>>
    /\ UNCHANGED <<listener, replies, swallowed>>

\* Whose RelayReady it is makes no difference.
HostHearsReady ==
    /\ waiting # None
    /\ Takes("RelayReady")
    /\ relayed' = [relayed EXCEPT ![waiting] = "served"]
    /\ waiting' = None
    /\ UNCHANGED <<listener, replies, unlucky, swallowed>>

HostReadsAway ==
    /\ waiting # None
    /\ Takes("ConnectRequest") \/ Takes("RelayConnection")
    /\ swallowed' = swallowed \cup {First.from}
    /\ UNCHANGED <<waiting, listener, relayed, replies, unlucky>>

\* A RelayReady that is not waited for.
HostIgnores ==
    /\ waiting = None
    /\ Takes("RelayReady")
    /\ UNCHANGED <<waiting, listener, relayed, replies, unlucky, swallowed>>

\* Ten seconds without a message: the connection to the relay is dropped.
HostStopsWaiting ==
    /\ waiting # None
    /\ relayed' = [relayed EXCEPT ![waiting] = "closed"]
    /\ BadLuck(waiting)
    /\ waiting' = None
    /\ UNCHANGED <<online, breaks, listener, viewerVars, inbox, replies, swallowed>>

\* The connection to the signal server breaks, and what was on it is lost.
HostGoesOffline ==
    /\ online
    /\ breaks < MaxBreaks
    /\ breaks' = breaks + 1
    /\ online' = FALSE
    /\ inbox' = <<>>
    /\ unlucky' = unlucky \cup {inbox[i].from : i \in DOMAIN inbox}
                          \cup (IF waiting = None THEN {} ELSE {waiting})
    /\ relayed' = [v \in Viewers |-> IF v = waiting THEN "closed" ELSE relayed[v]]
    /\ waiting' = None
    /\ UNCHANGED <<listener, viewerVars, replies, swallowed>>

\* run_signal_loop_ex: the next cycle.
HostComesBack ==
    /\ ~online
    /\ online' = TRUE
    /\ UNCHANGED <<breaks, waiting, listener, relayed, viewerVars, inbox, replies, unlucky, swallowed>>

\* accept_connection: thirty seconds.
ListenerTimesOut(v, n) ==
    /\ listener[v][n] = "open"
    /\ listener' = [listener EXCEPT ![v][n] = "closed"]
    /\ UNCHANGED <<online, breaks, waiting, relayed, viewerVars, inbox, replies, unlucky, swallowed>>

\* A session ends when the viewer's end of its stream is closed.
DirectSessionEnds_Slip(v, n) ==
    /\ listener[v][n] = "served"
    /\ direct[v] = "down" /\ stage[v] = "left"
    /\ listener' = [listener EXCEPT ![v][n] = "closed"]
    /\ UNCHANGED <<online, breaks, waiting, relayed, viewerVars, inbox, replies, unlucky, swallowed>>
DirectSessionEnds(v, n) ==
    /\ listener[v][n] = "served"
    /\ direct[v] = "down"
    /\ listener' = [listener EXCEPT ![v][n] = "closed"]
    /\ UNCHANGED <<online, breaks, waiting, relayed, viewerVars, inbox, replies, unlucky, swallowed>>

RelaySessionEnds(v) ==
    /\ relayed[v] = "served"
    /\ turn[v] = "down"
    /\ relayed' = [relayed EXCEPT ![v] = "closed"]
    /\ UNCHANGED <<online, breaks, waiting, listener, viewerVars, inbox, replies, unlucky, swallowed>>

-----------------------------------------------------------------------------
ViewerStep(v) ==
    \/ Asks(v)
    \/ GivesUpAsking(v)
    \/ Hears(v)
    \/ TurnStarts(v)
    \/ DirectWins(v)
    \/ TurnWins(v)
    \/ BothFail(v)

DirectStep(v) == DirectConnects(v) \/ DirectFails(v)
TurnStep(v)   == TurnAnnounces(v) \/ TurnBinds(v) \/ TurnFails(v)

SignalStep ==
    \/ HostListens
    \/ HostConnectsToRelay
    \/ HostHearsReady
    \/ HostReadsAway
    \/ HostIgnores
    \/ HostStopsWaiting

HostThreads(v) ==
    \/ \E n \in Listeners : ListenerTimesOut(v, n) \/ DirectSessionEnds(v, n)
    \/ RelaySessionEnds(v)

Next ==
    \/ \E v \in Viewers : ViewerStep(v) \/ DirectStep(v) \/ TurnStep(v) \/ Leaves(v) \/ HostThreads(v)
    \/ SignalStep
    \/ HostGoesOffline
    \/ HostComesBack

Spec == Init /\ [][Next]_vars

\* Every thread runs, and every wait has its limit.
Fairness ==
    /\ \A v \in Viewers :
        /\ WF_vars(ViewerStep(v))
        /\ WF_vars(DirectStep(v))
        /\ WF_vars(TurnStep(v))
        /\ WF_vars(HostThreads(v))
    /\ WF_vars(SignalStep)
    /\ WF_vars(HostComesBack)

FairSpec == Spec /\ Fairness

-----------------------------------------------------------------------------
Served(v) ==
    \/ direct[v] = "up" /\ listener[v][target[v]] = "served"
    \/ turn[v] = "up" /\ relayed[v] = "served"

\* An attempt to connect comes to an end, and it ends with a stream that the
\* host serves, unless a time limit or a network has failed the viewer itself,
\* or the host has read one of its messages away while it waited for the relay
\* of another (signal.rs, handle_relay_connection).
AttemptSucceeds ==
    \A v \in Viewers : stage[v] = "asking" ~>
        \/ stage[v] = "left"
        \/ stage[v] = "connected" /\ Served(v)
        \/ stage[v] \in {"connected", "left", "failed"} /\ v \in unlucky \cup swallowed

\* A connected viewer holds the stream that won, and no second one.
OneStream ==
    \A v \in Viewers : stage[v] = "connected" => {direct[v], turn[v]} # {"up"} /\ "up" \in {direct[v], turn[v]}

\* What the race leaves behind on the host goes away: the sessions and
\* listeners of a viewer that has failed or left, and the connection to a
\* relay that is not used.  What the sessions do is abstracted from: one whose
\* viewer is gone ends here, as all but a terminal's that hangs in a join do.
NothingLeftOnHost ==
    \A v \in Viewers : stage[v] \in {"failed", "left"} ~>
        /\ \A n \in Listeners : listener[v][n] \in {"none", "closed"}
        /\ relayed[v] \in {"none", "closed"}
=============================================================================
