---------------------------- MODULE SharedInput ----------------------------
(***************************************************************************)
(* The mouse and the keyboard of the controlled machine, shared by the     *)
(* sessions of several viewers.                                            *)
(*                                                                         *)
(* A session owns the mouse from its first event until another session     *)
(* presses a button or it ends (MOUSE_OWNER_SESSION); the owner is read    *)
(* and stored in two steps.  What a session has pressed on the keyboard is *)
(* remembered by its own thread and released when it ends.  BlockInput     *)
(* belongs to Windows: it is refused when the input is already blocked,    *)
(* and only the thread that blocked it may give it free.                   *)
(*                                                                         *)
(* Every session is a new thread with a new number.  Where the pointer is, *)
(* the wheel, and the lock of the screen after the end are left out.       *)
(*                                                                         *)
(* An operator whose name ends in _Slip is a plausible mistake in the      *)
(* definition that follows it; no specification uses it.                   *)
(***************************************************************************)
CONSTANTS
    Sessions,   \* the threads of the sessions
    Keys,       \* the keys a viewer presses
    None        \* nobody: MOUSE_OWNER_SESSION = 0

\* What is assumed of the constants; MCSessions checks it.
InputAssumption == None \notin Sessions

VARIABLES
    session,    \* where each session is
    event,      \* the mouse event a session is dealing with
    allowed,    \* keyboard_enabled: the owner of the machine lets it in
    viewOnly,   \* viewer_view_only: the viewer wants to look only
    held,       \* HELD_VKS and HELD_SCANCODES of the thread
    pressed,    \* the keys that are down on the machine
    owner,      \* MOUSE_OWNER_SESSION
    button,     \* who pressed the mouse button that is down
    blocker,    \* the thread that has blocked the machine's own input
    raced       \* two claims of the mouse were under way at once, and one got lost

sessionVars == <<session, event, allowed, viewOnly>>
keyVars     == <<held, pressed>>
mouseVars   == <<owner, button, raced>>
vars == <<sessionVars, keyVars, mouseVars, blocker>>

Live == {"turn", "claiming", "injecting"}
Someone == Sessions \cup {None}

TypeOK ==
    /\ session \in [Sessions -> {"none", "ending", "unblocking", "ended"} \cup Live]
    /\ event \in [Sessions -> [kind : {"move", "down", "up"}, saw : Someone]]
    /\ allowed \in [Sessions -> BOOLEAN]
    /\ viewOnly \in [Sessions -> BOOLEAN]
    /\ held \in [Sessions -> SUBSET Keys]
    /\ pressed \subseteq Keys
    /\ owner \in Someone
    /\ button \in Someone
    /\ blocker \in Someone
    /\ raced \in BOOLEAN

NoEvent == [kind |-> "move", saw |-> None]

Init ==
    /\ session = [s \in Sessions |-> "none"]
    /\ event = [s \in Sessions |-> NoEvent]
    /\ allowed = [s \in Sessions |-> TRUE]
    /\ viewOnly = [s \in Sessions |-> FALSE]
    /\ held = [s \in Sessions |-> {}]
    /\ pressed = {}
    /\ owner = None
    /\ button = None
    /\ blocker = None
    /\ raced = FALSE

Enters(s, place) == session' = [session EXCEPT ![s] = place]

-----------------------------------------------------------------------------
(* The start of a session, and what may change its rights. *)

\* The rights come from the settings and from the options of the login.
SessionStarts(s) ==
    /\ session[s] = "none"
    /\ Enters(s, "turn")
    /\ \E enabled, looks \in BOOLEAN :
        /\ allowed' = [allowed EXCEPT ![s] = enabled]
        /\ viewOnly' = [viewOnly EXCEPT ![s] = looks]
    /\ UNCHANGED <<event, keyVars, mouseVars, blocker>>

\* The dialog's permission file says "keyboard|0" or "keyboard|1".
OwnerTogglesKeyboard(s) ==
    /\ session[s] = "turn"
    /\ allowed' = [allowed EXCEPT ![s] = ~@]
    /\ UNCHANGED <<session, event, viewOnly, keyVars, mouseVars, blocker>>

\* An option message with disable_keyboard; no right is needed for it.
ViewerTogglesViewOnly(s) ==
    /\ session[s] = "turn"
    /\ viewOnly' = [viewOnly EXCEPT ![s] = ~@]
    /\ UNCHANGED <<session, event, allowed, keyVars, mouseVars, blocker>>

-----------------------------------------------------------------------------
(* Input. *)

MayType(s) == session[s] = "turn" /\ allowed[s] /\ ~viewOnly[s]

\* key_event and vk_event: recorded, then injected.  A character without a
\* modifier is sent as Unicode and leaves no key down.
Key_Slip(s, k, down) ==
    /\ MayType(s)
    /\ held' = [held EXCEPT ![s] = IF down /\ k \notin pressed THEN @ \cup {k} ELSE @ \ {k}]
    /\ pressed' = IF down THEN pressed \cup {k} ELSE pressed \ {k}
    /\ UNCHANGED <<sessionVars, mouseVars, blocker>>
Key(s, k, down) ==
    /\ MayType(s)
    /\ held' = [held EXCEPT ![s] = IF down THEN @ \cup {k} ELSE @ \ {k}]
    /\ pressed' = IF down THEN pressed \cup {k} ELSE pressed \ {k}
    /\ UNCHANGED <<sessionVars, mouseVars, blocker>>

\* claim_mouse, the load: an event that may not take the mouse is dropped here.
Loads_Slip(s, kind) ==
    /\ MayType(s)
    /\ owner \in {None, s} \/ kind = "up"
    /\ event' = [event EXCEPT ![s] = [kind |-> kind, saw |-> owner]]
    /\ Enters(s, "claiming")
    /\ UNCHANGED <<allowed, viewOnly, keyVars, mouseVars, blocker>>
Loads(s, kind) ==
    /\ MayType(s)
    /\ owner \in {None, s} \/ kind = "down"
    /\ event' = [event EXCEPT ![s] = [kind |-> kind, saw |-> owner]]
    /\ Enters(s, "claiming")
    /\ UNCHANGED <<allowed, viewOnly, keyVars, mouseVars, blocker>>

\* claim_mouse, the store.
Stores(s) ==
    /\ session[s] = "claiming"
    /\ owner' = s
    /\ raced' = (raced \/ (event[s].kind # "down" /\ owner \notin {event[s].saw, s}))
    /\ Enters(s, "injecting")
    /\ UNCHANGED <<event, allowed, viewOnly, keyVars, button, blocker>>

\* handle_mouse_event: Windows gets the event.
Injects(s) ==
    LET kind == event[s].kind IN
    /\ session[s] = "injecting"
    /\ button' = CASE kind = "down" -> s
                   [] kind = "up"   -> None
                   [] OTHER         -> button
    /\ raced' = (raced \/ (kind = "down" /\ owner # s))
    /\ Enters(s, "turn")
    /\ event' = [event EXCEPT ![s] = NoEvent]
    /\ UNCHANGED <<allowed, viewOnly, keyVars, owner, blocker>>

\* An option message with block_input, for which the keyboard must be allowed.
BlockInput(s, on) ==
    /\ session[s] = "turn"
    /\ allowed[s]
    /\ IF on THEN blocker' = (IF blocker = None THEN s ELSE blocker)
             ELSE blocker' = (IF blocker = s THEN None ELSE blocker)
    /\ UNCHANGED <<sessionVars, keyVars, mouseVars>>

\* Windows gives the input free for Ctrl+Alt+Del.
CtrlAltDel ==
    /\ blocker # None
    /\ blocker' = None
    /\ UNCHANGED <<sessionVars, keyVars, mouseVars>>

-----------------------------------------------------------------------------
(* The end: SessionEndGuard, in the order of its drop. *)

\* release_mouse_owner: only if the mouse is still this session's.
EndReleasesMouse_Slip(s) ==
    /\ session[s] = "turn"
    /\ owner' = owner
    /\ Enters(s, "ending")
    /\ UNCHANGED <<event, allowed, viewOnly, keyVars, button, raced, blocker>>
EndReleasesMouse(s) ==
    /\ session[s] = "turn"
    /\ owner' = IF owner = s THEN None ELSE owner
    /\ Enters(s, "ending")
    /\ UNCHANGED <<event, allowed, viewOnly, keyVars, button, raced, blocker>>

\* release_all_held_keys: the sets are the thread's own.
EndReleasesKeys(s) ==
    /\ session[s] = "ending"
    /\ pressed' = pressed \ held[s]
    /\ held' = [held EXCEPT ![s] = {}]
    /\ Enters(s, "unblocking")
    /\ UNCHANGED <<event, allowed, viewOnly, mouseVars, blocker>>

\* block_input(false); Windows does the same for a thread that is no more.
EndUnblocks(s) ==
    /\ session[s] = "unblocking"
    /\ blocker' = IF blocker = s THEN None ELSE blocker
    /\ Enters(s, "ended")
    /\ UNCHANGED <<event, allowed, viewOnly, keyVars, mouseVars>>

-----------------------------------------------------------------------------
Next ==
    \/ \E s \in Sessions :
        \/ SessionStarts(s)
        \/ OwnerTogglesKeyboard(s)
        \/ ViewerTogglesViewOnly(s)
        \/ \E k \in Keys, down \in BOOLEAN : Key(s, k, down)
        \/ \E kind \in {"move", "down", "up"} : Loads(s, kind)
        \/ Stores(s)
        \/ Injects(s)
        \/ \E on \in BOOLEAN : BlockInput(s, on)
        \/ EndReleasesMouse(s)
        \/ EndReleasesKeys(s)
        \/ EndUnblocks(s)
    \/ CtrlAltDel

Spec == Init /\ [][Next]_vars

-----------------------------------------------------------------------------
\* No key is stuck: a key that is down on the machine is remembered by a
\* session that will release it, whatever rights come and go and whoever else
\* presses and releases the same key (input.rs, HELD_VKS, HELD_SCANCODES).
NoKeyStuck ==
    \A k \in pressed : \E s \in Sessions : k \in held[s] /\ session[s] \in Live \cup {"ending"}

\* About to press a button, with the mouse already its own.
Pressing(s) == session[s] = "injecting" /\ event[s].kind = "down"

\* A drag is not torn from the session that began it: while it lives and holds
\* the button, the mouse is its own, so that its release is not dropped
\* (claim_mouse), until another session presses a button itself, or unless a
\* claim got in between the steps of another.
DragKeepsItsOwner ==
    button # None /\ session[button] \in Live /\ ~raced =>
        \/ owner = button
        \/ owner # None /\ Pressing(owner)

\* A session that has ended does not own the mouse any more, has left the
\* machine's own keyboard and mouse free, and keeps no key down, whatever the
\* sessions that go on are doing; after the last one no key is down at all
\* (SessionEndGuard).  A mouse button is not among this: release_mouse_owner sends
\* no button-up, and a button its viewer held down stays down.
EndedLetsGo ==
    /\ \A s \in Sessions :
           session[s] = "ended" => owner # s /\ blocker # s /\ held[s] = {}
    /\ (\A s \in Sessions : session[s] \in {"none", "ended"}) => pressed = {}
=============================================================================
