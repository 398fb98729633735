-------------------------- MODULE TemporaryPassword --------------------------
(***************************************************************************)
(* The temporary password of a machine, and the configuration file it      *)
(* lives in.                                                               *)
(*                                                                         *)
(* Host threads load the whole file at every login, count wrong passwords  *)
(* in a counter all threads share, and rotate the password after too many  *)
(* of them and at the end of every session: load the file, replace one     *)
(* field, save the file.  The main window keeps a copy of its own, looks   *)
(* at the password on disk every 10 s and saves the copy whole; the        *)
(* command line loads, changes and saves.  The file is locked while it is  *)
(* written, and not between a load and the save that follows it.           *)
(*                                                                         *)
(* Passwords are numbered in the order in which they are drawn; of the     *)
(* rest of the file only the permanent password is kept.                   *)
(*                                                                         *)
(* An operator whose name ends in _Slip is a plausible mistake in the      *)
(* definition that follows it; no specification uses it.                   *)
(***************************************************************************)
EXTENDS Naturals, FiniteSets

CONSTANTS
    Threads,        \* host threads, one per connection
    Perms,          \* permanent passwords the owner may choose
    NoPerm,         \* no permanent password
    MaxFailures,    \* MAX_CONSECUTIVE_FAILURES (10 in the code)
    MaxPasswords,   \* bound: temporary passwords drawn in a behaviour
    Window,         \* TRUE: the main window is used
    FilesFail       \* TRUE: the file may be unreadable or unwritable for long
                    \* enough that the retries give up

ASSUME PasswordAssumption ==
    /\ MaxFailures \in Nat \ {0}
    /\ MaxPasswords \in Nat \ {0}
    /\ IsFiniteSet(Threads)
    /\ {"cli", "ui"} \cap Threads = {}
    /\ NoPerm \notin Perms
    /\ Window \in BOOLEAN
    /\ FilesFail \in BOOLEAN

VARIABLES
    file,       \* what HopToDesk.toml holds
    drawn,      \* how many temporary passwords have been drawn
    unattended, \* the option unattended-access is "Y"
    pc,         \* where each host thread is
    copy,       \* the configuration each host thread has loaded
    attempts,   \* the counter ATTEMPTS: a password and its failures in a row
    holder,     \* the threads that hold the mutex around it
    cli,        \* the command hoptodesk --password and the file it has loaded
    ui,         \* the window's copy of the configuration
    session,    \* history: the password on disk when the thread's viewer came in
    wrong,      \* history: wrong guesses at a password since it was last guessed
    spared,     \* history: passwords kept at the limit for unattended access, and
                \* passwords that a save has put back into the file
    madeUp,     \* history: passwords made up because the file was unreadable
    overtaken   \* history: who holds a load that somebody's save has overtaken

vars == <<file, drawn, unattended, pc, copy, attempts, holder, cli, ui, session, wrong,
          spared, madeUp, overtaken>>

Passwords == 1 .. MaxPasswords
Stored    == [pw : Passwords, perm : Perms \cup {NoPerm}]

\* A loaded configuration; read_failed marks one that must not be saved.
Loaded    == [pw : Passwords, perm : Perms \cup {NoPerm}, read_failed : BOOLEAN]

PCs    == {"idle", "checking", "session", "rotating", "saving", "over"}
Actors == Threads \cup {"cli"}

\* How often a password may be tried in vain: MaxFailures times for the counter,
\* and as often again for every thread that makes the counter start anew with
\* a password that has been replaced meanwhile.
GuessLimit == MaxFailures * Cardinality(Threads)

TypeOK ==
    /\ file \in Stored
    /\ drawn \in Passwords
    /\ unattended \in BOOLEAN
    /\ pc \in [Threads -> PCs]
    /\ copy \in [Threads -> Loaded]
    /\ attempts \in [pw : Passwords \cup {0}, failures : 0 .. MaxFailures - 1]
    /\ holder \in SUBSET Threads
    /\ cli \in [busy : BOOLEAN, config : Loaded]
    /\ ui \in Loaded
    /\ session \in [Threads -> Passwords \cup {0}]
    /\ wrong \in [Passwords -> 0 .. GuessLimit + 1]
    /\ spared \in SUBSET (Passwords \cup {0})
    /\ madeUp \in SUBSET Passwords
    /\ overtaken \in SUBSET Actors

-----------------------------------------------------------------------------
(* The file. *)

\* generate_password: one that has not been used before.
Draw ==
    /\ drawn < MaxPasswords
    /\ drawn' = drawn + 1

AsLoaded(stored) == [pw |-> stored.pw, perm |-> stored.perm, read_failed |-> FALSE]

\* What is left of a loaded configuration that has gone out of scope.
Dropped == [pw |-> 1, perm |-> NoPerm, read_failed |-> FALSE]

\* Who has loaded the file in order to save it.
Pending == {t \in Threads : pc[t] = "saving"} \cup (IF cli.busy THEN {"cli"} ELSE {})

\* A password that is not the one on disk and not a new one either.
PutBack(pw) == {pw} \cap ((1 .. drawn) \ {file.pw})

\* read_failed is not looked at.
Save_Slip(a, config) ==
    /\ file' = [pw |-> config.pw, perm |-> config.perm]
    /\ overtaken' = (overtaken \cup Pending) \ {a}
    /\ spared' = spared \cup PutBack(config.pw)

\* Config::save by actor a: nothing for a copy that could not be read, and an
\* error is only logged.
Save(a, config) ==
    \/ /\ ~config.read_failed
       /\ file' = [pw |-> config.pw, perm |-> config.perm]
       /\ overtaken' = (overtaken \cup Pending) \ {a}
       /\ spared' = spared \cup PutBack(config.pw)
    \/ /\ config.read_failed \/ FilesFail
       /\ overtaken' = overtaken \ {a}
       /\ UNCHANGED <<file, spared>>

\* Config::load by actor a: what is on disk, or after 20 vain retries a copy with
\* a made-up password, which load saves like anything it has made up.
Load(a, config) ==
    \/ /\ config = AsLoaded(file)
       /\ UNCHANGED <<file, drawn, madeUp, spared, overtaken>>
    \/ /\ FilesFail
       /\ Draw
       /\ config = [pw |-> drawn', perm |-> NoPerm, read_failed |-> TRUE]
       /\ madeUp' = madeUp \cup {drawn'}
       /\ Save(a, config)

-----------------------------------------------------------------------------

Init ==
    /\ \E perm \in Perms \cup {NoPerm} : file = [pw |-> 1, perm |-> perm]
    /\ drawn = 1
    /\ unattended \in BOOLEAN
    /\ pc = [t \in Threads |-> "idle"]
    /\ copy = [t \in Threads |-> Dropped]
    /\ attempts = [pw |-> 0, failures |-> 0]
    /\ holder = {}
    /\ cli = [busy |-> FALSE, config |-> Dropped]
    /\ ui = AsLoaded(file)
    /\ session = [t \in Threads |-> 0]
    /\ wrong = [p \in Passwords |-> 0]
    /\ spared = {}
    /\ madeUp = {}
    /\ overtaken = {}

-----------------------------------------------------------------------------
(* A host thread. *)

\* A LoginRequest: load the configuration and compare.
LoginLoads(t) ==
    /\ pc[t] \in {"idle", "over"}
    /\ \E config \in Loaded : Load(t, config) /\ copy' = [copy EXCEPT ![t] = config]
    /\ pc' = [pc EXCEPT ![t] = "checking"]
    /\ session' = [session EXCEPT ![t] = 0]
    /\ UNCHANGED <<unattended, attempts, holder, cli, ui, wrong>>

\* count_temporary_password_attempt, success.  Nobody guesses a made-up one.
CountRight(t) ==
    /\ pc[t] = "checking"
    /\ holder = {}
    /\ ~copy[t].read_failed
    /\ pc' = [pc EXCEPT ![t] = "session"]
    /\ attempts' = [pw |-> copy[t].pw, failures |-> 0]
    /\ session' = [session EXCEPT ![t] = copy[t].pw]
    /\ wrong' = [wrong EXCEPT ![copy[t].pw] = 0]
    /\ copy' = [copy EXCEPT ![t] = Dropped]
    /\ UNCHANGED <<file, drawn, unattended, holder, cli, ui, spared, madeUp, overtaken>>

\* No password was given, and the owner accepts: nothing is counted.
LetInByOwner(t) ==
    /\ pc[t] = "checking"
    /\ pc' = [pc EXCEPT ![t] = "session"]
    /\ session' = [session EXCEPT ![t] = copy[t].pw]
    /\ copy' = [copy EXCEPT ![t] = Dropped]
    /\ UNCHANGED <<file, drawn, unattended, attempts, holder, cli, ui, wrong,
                   spared, madeUp, overtaken>>

\* The failures in a row once thread t has counted its own.
FailuresWith(t) == IF attempts.pw = copy[t].pw THEN attempts.failures + 1 ELSE 1

\* The history of guesses goes on as long as GuessesAreLimited looks at it.
OneMoreWrong(p) ==
    IF p \in spared \/ wrong[p] > GuessLimit THEN wrong ELSE [wrong EXCEPT ![p] = @ + 1]

\* The mutex is released before the rotation.
CountWrong_Slip(t) ==
    /\ pc[t] = "checking"
    /\ wrong' = OneMoreWrong(copy[t].pw)
    /\ \/ /\ FailuresWith(t) < MaxFailures
          /\ attempts' = [pw |-> copy[t].pw, failures |-> FailuresWith(t)]
          /\ pc' = [pc EXCEPT ![t] = "idle"]
       \/ /\ FailuresWith(t) >= MaxFailures
          /\ attempts' = [pw |-> copy[t].pw, failures |-> 0]
          /\ pc' = [pc EXCEPT ![t] = "rotating"]
    /\ copy' = [copy EXCEPT ![t] = Dropped]
    /\ UNCHANGED <<file, drawn, unattended, holder, cli, ui, session, spared,
                   madeUp, overtaken>>

\* One more failure is allowed than the counter is meant to reach.
CountWrong_OffByOne(t) ==
    /\ pc[t] = "checking"
    /\ holder = {}
    /\ wrong' = OneMoreWrong(copy[t].pw)
    /\ \/ /\ FailuresWith(t) <= MaxFailures
          /\ attempts' = [pw |-> copy[t].pw, failures |-> FailuresWith(t)]
          /\ pc' = [pc EXCEPT ![t] = "idle"]
          /\ UNCHANGED holder
       \/ /\ FailuresWith(t) > MaxFailures
          /\ attempts' = [pw |-> copy[t].pw, failures |-> 0]
          /\ pc' = [pc EXCEPT ![t] = "rotating"]
          /\ holder' = {t}
    /\ copy' = [copy EXCEPT ![t] = Dropped]
    /\ UNCHANGED <<file, drawn, unattended, cli, ui, session, spared, madeUp, overtaken>>

\* count_temporary_password_attempt, failure.  The mutex is kept for the
\* rotation that the last allowed failure brings about.
CountWrong(t) ==
    /\ pc[t] = "checking"
    /\ holder = {}
    /\ wrong' = OneMoreWrong(copy[t].pw)
    /\ \/ /\ FailuresWith(t) < MaxFailures
          /\ attempts' = [pw |-> copy[t].pw, failures |-> FailuresWith(t)]
          /\ pc' = [pc EXCEPT ![t] = "idle"]
          /\ UNCHANGED holder
       \/ /\ FailuresWith(t) >= MaxFailures
          /\ attempts' = [pw |-> copy[t].pw, failures |-> 0]
          /\ pc' = [pc EXCEPT ![t] = "rotating"]
          /\ holder' = {t}
    /\ copy' = [copy EXCEPT ![t] = Dropped]
    /\ UNCHANGED <<file, drawn, unattended, cli, ui, session, spared, madeUp, overtaken>>

\* The second factor or a permission stops the viewer: no rotation.
LaterGateFails(t) ==
    /\ pc[t] = "session"
    /\ pc' = [pc EXCEPT ![t] = "idle"]
    /\ UNCHANGED <<file, drawn, unattended, copy, attempts, holder, cli, ui, session,
                   wrong, spared, madeUp, overtaken>>

\* One kind of session ends without the rotation.
SessionEnds_Slip(t) ==
    /\ pc[t] = "session"
    /\ pc' = [pc EXCEPT ![t] = "over"]
    /\ UNCHANGED <<file, drawn, unattended, copy, attempts, holder, cli, ui, session,
                   wrong, spared, madeUp, overtaken>>

\* The session has been served.
SessionEnds(t) ==
    /\ pc[t] = "session"
    /\ pc' = [pc EXCEPT ![t] = "rotating"]
    /\ UNCHANGED <<file, drawn, unattended, copy, attempts, holder, cli, ui, session,
                   wrong, spared, madeUp, overtaken>>

\* rotate_password_if_needed, for unattended access: the password is spared.
RotationWaived(t) ==
    /\ pc[t] = "rotating"
    /\ unattended
    /\ pc' = [pc EXCEPT ![t] = "idle"]
    /\ holder' = holder \ {t}
    /\ spared' = IF t \in holder THEN spared \cup {attempts.pw} ELSE spared
    /\ UNCHANGED <<file, drawn, unattended, copy, attempts, cli, ui, session, wrong,
                   madeUp, overtaken>>

RotateLoads(t) ==
    /\ pc[t] = "rotating"
    /\ ~unattended
    /\ \E config \in Loaded : Load(t, config) /\ copy' = [copy EXCEPT ![t] = config]
    /\ pc' = [pc EXCEPT ![t] = "saving"]
    /\ UNCHANGED <<unattended, attempts, holder, cli, ui, session, wrong>>

\* The rotation builds a configuration of its own.
RotateSaves_Slip(t) ==
    /\ pc[t] = "saving"
    /\ Draw
    /\ Save(t, [copy[t] EXCEPT !.pw = drawn', !.perm = NoPerm])
    /\ pc' = [pc EXCEPT ![t] = IF t \in holder THEN "idle" ELSE "over"]
    /\ holder' = holder \ {t}
    /\ copy' = [copy EXCEPT ![t] = Dropped]
    /\ UNCHANGED <<unattended, attempts, cli, ui, session, wrong, madeUp>>

\* The rest of rotate_password_if_needed, whatever became of the save.
RotateSaves(t) ==
    /\ pc[t] = "saving"
    /\ Draw
    /\ Save(t, [copy[t] EXCEPT !.pw = drawn'])
    /\ pc' = [pc EXCEPT ![t] = IF t \in holder THEN "idle" ELSE "over"]
    /\ holder' = holder \ {t}
    /\ copy' = [copy EXCEPT ![t] = Dropped]
    /\ UNCHANGED <<unattended, attempts, cli, ui, session, wrong, madeUp>>

-----------------------------------------------------------------------------
(* The main window and the command line. *)

\* Every tenth tick of the timer: the password on disk goes into the copy.
UiSyncs ==
    /\ Window
    /\ \E config \in Loaded : Load("ui", config) /\ ui' = [ui EXCEPT !.pw = config.pw]
    /\ UNCHANGED <<unattended, pc, copy, attempts, holder, session, cli, wrong>>

\* The owner sets or clears the permanent password.
UiSetsPermanent(perm) ==
    /\ Window
    /\ ui' = [ui EXCEPT !.perm = perm]
    /\ Save("ui", ui')
    /\ UNCHANGED <<drawn, unattended, pc, copy, attempts, holder, session, cli, wrong, madeUp>>

\* The owner asks for a new temporary password.
UiRefreshes ==
    /\ Window
    /\ Draw
    /\ ui' = [ui EXCEPT !.pw = drawn']
    /\ Save("ui", ui')
    /\ UNCHANGED <<unattended, pc, copy, attempts, holder, session, cli, wrong, madeUp>>

\* The window is closed and opened again.
UiStarts ==
    /\ Window
    /\ \E config \in Loaded : Load("ui", config) /\ ui' = config
    /\ UNCHANGED <<unattended, pc, copy, attempts, holder, session, cli, wrong>>

ToggleUnattended ==
    /\ Window
    /\ unattended' = ~unattended
    /\ UNCHANGED <<file, drawn, pc, copy, attempts, holder, session, wrong, spared,
                   cli, ui, madeUp, overtaken>>

\* hoptodesk --password
CliLoads ==
    /\ ~cli.busy
    /\ \E config \in Loaded : Load("cli", config) /\ cli' = [busy |-> TRUE, config |-> config]
    /\ UNCHANGED <<unattended, pc, copy, attempts, holder, session, ui, wrong>>

CliSaves ==
    /\ cli.busy
    /\ Draw
    /\ Save("cli", [cli.config EXCEPT !.pw = drawn'])
    /\ cli' = [busy |-> FALSE, config |-> Dropped]
    /\ UNCHANGED <<unattended, pc, copy, attempts, holder, session, ui, wrong, madeUp>>

-----------------------------------------------------------------------------

ThreadStep(t) ==
    \/ LoginLoads(t) \/ CountRight(t) \/ LetInByOwner(t) \/ CountWrong(t)
    \/ LaterGateFails(t) \/ SessionEnds(t)
    \/ RotationWaived(t) \/ RotateLoads(t) \/ RotateSaves(t)

WindowStep ==
    \/ UiSyncs \/ UiRefreshes \/ UiStarts \/ ToggleUnattended
    \/ \E perm \in Perms \cup {NoPerm} : UiSetsPermanent(perm)

Next ==
    \/ \E t \in Threads : ThreadStep(t)
    \/ WindowStep
    \/ CliLoads \/ CliSaves

Spec == Init /\ [][Next]_vars

-----------------------------------------------------------------------------
(* Properties. *)

\* A password is not tried in vain more than GuessLimit times in a row, however
\* many threads count and rotate at once and whatever is saved over the file
\* meanwhile (count_temporary_password_attempt, rotate_password_if_needed).  Two
\* kinds of passwords have no such limit in the code, and are left out: one that
\* unattended access kept when the counter was full, and one that a save (the
\* window's, mostly) has put back into the file after it was replaced.
GuessesAreLimited == \A p \in Passwords \ spared : wrong[p] <= GuessLimit

\* The password that was on disk when a viewer came in is not on disk any more
\* once the session is over and its thread has rotated the password.
SessionPasswordDies == \A t \in Threads : pc[t] = "over" => file.pw # session[t]

\* A password made up because the file could not be read never gets into it.
MadeUpIsNeverSaved == file.pw \notin madeUp

\* The permanent password changes on disk only when the window writes its own,
\* or when a save is based on a load that another save has overtaken.
PermanentLostOnlyByOverlap ==
    [][file'.perm # file.perm =>
          \/ ui'.perm = file'.perm
          \/ \E a \in overtaken : a \in Pending /\ a \notin Pending']_vars
=============================================================================
