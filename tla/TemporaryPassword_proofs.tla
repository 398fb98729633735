---------------------- MODULE TemporaryPassword_proofs ----------------------
(***************************************************************************)
(* Proofs about TemporaryPassword, for any threads and any limits: type    *)
(* correctness; that a session's password dies with it and that nothing    *)
(* made up is ever saved, as long as the window keeps out of it; that the  *)
(* permanent password is lost only when a load is overtaken; and that the  *)
(* guesses at one password are limited.                                    *)
(***************************************************************************)
EXTENDS TemporaryPassword, FiniteSetTheorems, TLAPS

-----------------------------------------------------------------------------
(* The inductive invariant. *)

\* Passwords in use have been drawn, so that the next one is none of them.
DrawnSoFar ==
    /\ file.pw <= drawn
    /\ ui.pw <= drawn
    /\ \A p \in madeUp : p <= drawn

\* A load that no save has overtaken still has the permanent password on disk.
LoadsAreFresh ==
    /\ \A t \in Threads :
          pc[t] = "saving" /\ t \notin overtaken /\ ~copy[t].read_failed
              => copy[t].perm = file.perm
    /\ cli.busy /\ "cli" \notin overtaken /\ ~cli.config.read_failed
          => cli.config.perm = file.perm

\* Without the window the password on disk only ever gives way to a newer one:
\* no thread has seen one that is newer still.
NewestIsOnDisk ==
    ~Window /\ ~FilesFail =>
        /\ ~cli.config.read_failed
        /\ \A t \in Threads :
              /\ ~copy[t].read_failed
              /\ copy[t].pw <= file.pw
              /\ session[t] <= file.pw
              /\ pc[t] = "over" => session[t] < file.pw

NothingMadeUpOnDisk == ~Window => MadeUpIsNeverSaved

IInv ==
    /\ TypeOK
    /\ DrawnSoFar
    /\ LoadsAreFresh
    /\ NewestIsOnDisk
    /\ NothingMadeUpOnDisk

-----------------------------------------------------------------------------
(* Every step keeps it. *)

LEMMA LimitIsNatural == GuessLimit \in Nat
BY FS_CardinalityType, PasswordAssumption DEF GuessLimit

LEMMA UpdateKeepsType ==
    ASSUME NEW S, NEW T, NEW f \in [S -> T], NEW x, NEW y \in T
    PROVE  [f EXCEPT ![x] = y] \in [S -> T]
OBVIOUS

\* A counter of guesses that is set back, or counts one more.
LEMMA GuessesKeepType ==
    ASSUME NEW w \in [Passwords -> 0 .. GuessLimit + 1], NEW p
    PROVE  /\ [w EXCEPT ![p] = 0] \in [Passwords -> 0 .. GuessLimit + 1]
           /\ p \in Passwords /\ w[p] <= GuessLimit =>
                [w EXCEPT ![p] = @ + 1] \in [Passwords -> 0 .. GuessLimit + 1]
<1>1. 0 \in 0 .. GuessLimit + 1
  BY LimitIsNatural
<1>2. ASSUME p \in Passwords, w[p] <= GuessLimit
      PROVE  w[p] + 1 \in 0 .. GuessLimit + 1
  <2>1. w[p] \in 0 .. GuessLimit + 1
    BY <1>2
  <2> QED
    BY <1>2, <2>1, LimitIsNatural
<1> QED
  BY <1>1, <1>2, UpdateKeepsType

LEMMA WhatIsDrawn ==
    ASSUME TypeOK, DrawnSoFar
    PROVE  /\ drawn \in Nat
           /\ file.pw \in Nat /\ file.pw <= drawn
           /\ ui.pw \in Nat /\ ui.pw <= drawn
           /\ \A p \in madeUp : p \in Nat /\ p <= drawn
           /\ \A t \in Threads : session[t] \in Nat /\ copy[t].pw \in Nat
<1> USE PasswordAssumption DEF TypeOK, Passwords
<1>1. drawn \in Nat
  OBVIOUS
<1>2. file.pw \in Nat /\ file.pw <= drawn
  BY DEF Stored, DrawnSoFar
<1>3. ui.pw \in Nat /\ ui.pw <= drawn
  BY DEF Loaded, DrawnSoFar
<1>4. \A p \in madeUp : p \in Nat /\ p <= drawn
  BY DEF DrawnSoFar
<1>5. \A t \in Threads : session[t] \in Nat /\ copy[t].pw \in Nat
  BY DEF Loaded
<1> QED
  BY <1>1, <1>2, <1>3, <1>4, <1>5

LEMMA DroppedIsLoaded == Dropped \in Loaded
BY PasswordAssumption DEF Dropped, Loaded, Passwords

(* What every load, and what every save, does to the file and to the passwords *)
(* drawn, whoever loads or saves.                                              *)

LEMMA AfterLoad ==
    ASSUME IInv, NEW a, NEW config, Load(a, config), ui'.pw \in {ui.pw, config.pw}
    PROVE  /\ config \in Loaded
           /\ config.read_failed => FilesFail
           /\ ~config.read_failed => config.pw = file.pw /\ config.perm = file.perm
           /\ UNCHANGED <<file, spared>>
           /\ drawn' \in Passwords
           /\ madeUp' \in SUBSET Passwords
           /\ overtaken' \in {overtaken, overtaken \ {a}}
           /\ DrawnSoFar'
           /\ NothingMadeUpOnDisk'
<1>0. TypeOK /\ DrawnSoFar /\ NothingMadeUpOnDisk
  BY DEF IInv
<1>t. /\ file \in Stored /\ file.pw \in Passwords /\ file.perm \in Perms \cup {NoPerm}
      /\ drawn \in Passwords
      /\ madeUp \in SUBSET Passwords
  BY <1>0 DEF TypeOK, Stored
<1>n. /\ drawn \in Nat
      /\ file.pw \in Nat /\ file.pw <= drawn
      /\ ui.pw \in Nat /\ ui.pw <= drawn
      /\ \A p \in madeUp : p \in Nat /\ p <= drawn
  BY <1>0, WhatIsDrawn
<1>1. CASE config = AsLoaded(file) /\ UNCHANGED <<file, drawn, madeUp, spared, overtaken>>
  <2>1. /\ config \in Loaded
        /\ ~config.read_failed /\ config.pw = file.pw /\ config.perm = file.perm
    BY <1>1, <1>t DEF AsLoaded, Loaded
  <2>2. DrawnSoFar'
    BY <1>1, <1>n, <2>1 DEF DrawnSoFar
  <2>3. NothingMadeUpOnDisk'
    BY <1>0, <1>1 DEF NothingMadeUpOnDisk, MadeUpIsNeverSaved
  <2> QED
    BY <1>1, <1>t, <2>1, <2>2, <2>3
<1>2. CASE /\ FilesFail
           /\ Draw
           /\ config = [pw |-> drawn', perm |-> NoPerm, read_failed |-> TRUE]
           /\ madeUp' = madeUp \cup {drawn'}
           /\ Save(a, config)
  <2>1. drawn' = drawn + 1 /\ drawn' \in Passwords
    BY <1>2, <1>t, PasswordAssumption DEF Draw, Passwords
  <2>2. config \in Loaded /\ config.pw = drawn' /\ config.read_failed
    BY <1>2, <2>1 DEF Loaded
  <2>3. UNCHANGED <<file, spared>> /\ overtaken' = overtaken \ {a}
    BY <1>2, <2>2 DEF Save
  <2>4. DrawnSoFar'
    BY <1>2, <1>n, <2>1, <2>2, <2>3 DEF DrawnSoFar
  <2>5. NothingMadeUpOnDisk'
    BY <1>0, <1>2, <1>n, <2>1, <2>3 DEF NothingMadeUpOnDisk, MadeUpIsNeverSaved
  <2> QED
    BY <1>2, <1>t, <2>1, <2>2, <2>3, <2>4, <2>5
<1> QED
  BY <1>1, <1>2 DEF Load

LEMMA AfterSave ==
    ASSUME IInv, NEW a, NEW config \in Loaded, Save(a, config),
           madeUp' = madeUp,
           \/ Draw /\ config.pw = drawn'
           \/ Window /\ drawn' = drawn /\ config.pw = ui.pw,
           ui'.pw \in {ui.pw, config.pw}
    PROVE  /\ drawn' \in Passwords
           /\ file' \in Stored
           /\ spared' \in SUBSET (Passwords \cup {0})
           /\ overtaken' \in SUBSET Actors
           /\ \/ /\ UNCHANGED file
                 /\ overtaken' = overtaken \ {a}
                 /\ config.read_failed \/ FilesFail
              \/ /\ file' = [pw |-> config.pw, perm |-> config.perm]
                 /\ Pending \ {a} \subseteq overtaken'
           /\ DrawnSoFar'
           /\ NothingMadeUpOnDisk'
<1>0. TypeOK /\ DrawnSoFar /\ NothingMadeUpOnDisk
  BY DEF IInv
<1>t. /\ file \in Stored /\ drawn \in Passwords
      /\ spared \in SUBSET (Passwords \cup {0})
      /\ overtaken \in SUBSET Actors /\ Pending \in SUBSET Actors
  BY <1>0 DEF TypeOK, Pending, Actors
<1>n. /\ drawn \in Nat
      /\ file.pw \in Nat /\ file.pw <= drawn
      /\ ui.pw \in Nat /\ ui.pw <= drawn
      /\ \A p \in madeUp : p \in Nat /\ p <= drawn
  BY <1>0, WhatIsDrawn
<1>c. config.pw \in Passwords /\ config.perm \in Perms \cup {NoPerm}
  BY DEF Loaded
<1>d. /\ drawn' \in Passwords
      /\ drawn' \in Nat /\ drawn <= drawn' /\ config.pw <= drawn'
      /\ ~Window => drawn < config.pw
  BY <1>n, <1>t, <1>c, PasswordAssumption DEF Draw, Passwords
<1>s. \/ /\ file' = [pw |-> config.pw, perm |-> config.perm]
         /\ overtaken' = (overtaken \cup Pending) \ {a}
         /\ spared' = spared \cup PutBack(config.pw)
      \/ /\ config.read_failed \/ FilesFail
         /\ overtaken' = overtaken \ {a}
         /\ UNCHANGED <<file, spared>>
  BY DEF Save
<1>1. file' \in Stored /\ file'.pw \in {file.pw, config.pw}
  BY <1>s, <1>t, <1>c DEF Stored
<1>2. spared' \in SUBSET (Passwords \cup {0})
  BY <1>s, <1>t, <1>c DEF PutBack
<1>3. overtaken' \in SUBSET Actors
  BY <1>s, <1>t
<1>4. DrawnSoFar'
  BY <1>n, <1>d, <1>1 DEF DrawnSoFar
<1>5. NothingMadeUpOnDisk'
  BY <1>0, <1>n, <1>d, <1>1, <1>c DEF NothingMadeUpOnDisk, MadeUpIsNeverSaved, Passwords
<1> QED
  BY <1>s, <1>d, <1>1, <1>2, <1>3, <1>4, <1>5

-----------------------------------------------------------------------------
(* The loads. *)

LEMMA LoginLoadsKeepsIInv ==
    ASSUME IInv, NEW t \in Threads, LoginLoads(t)
    PROVE  IInv'
<1>1. PICK config \in Loaded : Load(t, config) /\ copy' = [copy EXCEPT ![t] = config]
  BY DEF LoginLoads
<1>2. /\ pc' = [pc EXCEPT ![t] = "checking"]
      /\ session' = [session EXCEPT ![t] = 0]
      /\ UNCHANGED <<unattended, attempts, holder, cli, ui, wrong>>
  BY DEF LoginLoads
<1>3. /\ config.read_failed => FilesFail
      /\ ~config.read_failed => config.pw = file.pw /\ config.perm = file.perm
      /\ UNCHANGED <<file, spared>>
      /\ drawn' \in Passwords
      /\ madeUp' \in SUBSET Passwords
      /\ overtaken' \in {overtaken, overtaken \ {t}}
      /\ DrawnSoFar' /\ NothingMadeUpOnDisk'
  BY <1>1, <1>2, AfterLoad
<1>4. TypeOK'
  <2>1. copy' \in [Threads -> Loaded]
    BY <1>1, UpdateKeepsType DEF IInv, TypeOK
  <2> QED
    BY <1>2, <1>3, <2>1 DEF IInv, TypeOK, PCs
<1>5. LoadsAreFresh'
  <2>1. ASSUME NEW t1 \in Threads, pc'[t1] = "saving"
        PROVE  t1 # t /\ pc[t1] = "saving" /\ copy'[t1] = copy[t1]
    BY <1>1, <1>2, <2>1 DEF IInv, TypeOK
  <2>2. "cli" # t
    BY PasswordAssumption
  <2> QED
    BY <1>2, <1>3, <2>1, <2>2 DEF IInv, LoadsAreFresh
<1>6. NewestIsOnDisk'
  <2>1. file.pw \in Nat
    BY WhatIsDrawn DEF IInv
  <2> QED
    BY <1>1, <1>2, <1>3, <2>1 DEF IInv, TypeOK, NewestIsOnDisk
<1> QED
  BY <1>3, <1>4, <1>5, <1>6 DEF IInv

LEMMA RotateLoadsKeepsIInv ==
    ASSUME IInv, NEW t \in Threads, RotateLoads(t)
    PROVE  IInv'
<1>1. PICK config \in Loaded : Load(t, config) /\ copy' = [copy EXCEPT ![t] = config]
  BY DEF RotateLoads
<1>2. /\ pc' = [pc EXCEPT ![t] = "saving"]
      /\ UNCHANGED <<unattended, attempts, holder, cli, ui, session, wrong>>
  BY DEF RotateLoads
<1>3. /\ config.read_failed => FilesFail
      /\ ~config.read_failed => config.pw = file.pw /\ config.perm = file.perm
      /\ UNCHANGED <<file, spared>>
      /\ drawn' \in Passwords
      /\ madeUp' \in SUBSET Passwords
      /\ overtaken' \in {overtaken, overtaken \ {t}}
      /\ DrawnSoFar' /\ NothingMadeUpOnDisk'
  BY <1>1, <1>2, AfterLoad
<1>4. TypeOK'
  <2>1. copy' \in [Threads -> Loaded]
    BY <1>1, UpdateKeepsType DEF IInv, TypeOK
  <2> QED
    BY <1>2, <1>3, <2>1 DEF IInv, TypeOK, PCs
<1>5. LoadsAreFresh'
  <2>1. copy'[t] = config
    BY <1>1 DEF IInv, TypeOK
  <2>2. ASSUME NEW t1 \in Threads \ {t}, pc'[t1] = "saving"
        PROVE  pc[t1] = "saving" /\ copy'[t1] = copy[t1]
    BY <1>1, <1>2, <2>2 DEF IInv, TypeOK
  <2>3. "cli" # t
    BY PasswordAssumption
  <2> QED
    BY <1>2, <1>3, <2>1, <2>2, <2>3 DEF IInv, LoadsAreFresh
<1>6. NewestIsOnDisk'
  <2>1. file.pw \in Nat
    BY WhatIsDrawn DEF IInv
  <2> QED
    BY <1>1, <1>2, <1>3, <2>1 DEF IInv, TypeOK, NewestIsOnDisk
<1> QED
  BY <1>3, <1>4, <1>5, <1>6 DEF IInv

LEMMA CliLoadsKeepsIInv ==
    ASSUME IInv, CliLoads
    PROVE  IInv'
<1>1. PICK config \in Loaded :
         Load("cli", config) /\ cli' = [busy |-> TRUE, config |-> config]
  BY DEF CliLoads
<1>2. UNCHANGED <<unattended, pc, copy, attempts, holder, session, ui, wrong>>
  BY DEF CliLoads
<1>3. /\ config.read_failed => FilesFail
      /\ ~config.read_failed => config.pw = file.pw /\ config.perm = file.perm
      /\ UNCHANGED <<file, spared>>
      /\ drawn' \in Passwords
      /\ madeUp' \in SUBSET Passwords
      /\ overtaken' \in {overtaken, overtaken \ {"cli"}}
      /\ DrawnSoFar' /\ NothingMadeUpOnDisk'
  BY <1>1, <1>2, AfterLoad
<1>4. TypeOK'
  BY <1>1, <1>2, <1>3 DEF IInv, TypeOK
<1>5. LoadsAreFresh'
  BY <1>1, <1>2, <1>3, PasswordAssumption DEF IInv, TypeOK, LoadsAreFresh
<1>6. NewestIsOnDisk'
  BY <1>1, <1>2, <1>3 DEF IInv, TypeOK, NewestIsOnDisk
<1> QED
  BY <1>3, <1>4, <1>5, <1>6 DEF IInv

LEMMA UiLoadsKeepsIInv ==
    ASSUME IInv, UiSyncs \/ UiStarts
    PROVE  IInv'
<1>1. PICK config \in Loaded :
         /\ Load("ui", config)
         /\ ui' \in {config, [ui EXCEPT !.pw = config.pw]}
  BY DEF UiSyncs, UiStarts
<1>2. Window /\ UNCHANGED <<unattended, pc, copy, attempts, holder, session, cli, wrong>>
  BY DEF UiSyncs, UiStarts
<1>u. ui' \in Loaded /\ ui'.pw = config.pw
  BY <1>1 DEF IInv, TypeOK, Loaded
<1>3. /\ UNCHANGED <<file, spared>>
      /\ drawn' \in Passwords
      /\ madeUp' \in SUBSET Passwords
      /\ overtaken' \in {overtaken, overtaken \ {"ui"}}
      /\ DrawnSoFar' /\ NothingMadeUpOnDisk'
  BY <1>1, <1>u, AfterLoad
<1>4. TypeOK'
  BY <1>2, <1>3, <1>u DEF IInv, TypeOK
<1>5. LoadsAreFresh'
  BY <1>2, <1>3, PasswordAssumption DEF IInv, LoadsAreFresh
<1>6. NewestIsOnDisk'
  BY <1>2 DEF NewestIsOnDisk
<1> QED
  BY <1>3, <1>4, <1>5, <1>6 DEF IInv

-----------------------------------------------------------------------------
(* The saves. *)

\* A save that stores a newer password leaves nobody with one that is newer still.
LEMMA NewerPassword ==
    ASSUME IInv, file'.pw = drawn + 1, session' = session,
           cli'.config \in {cli.config, Dropped},
           \A t \in Threads : copy'[t] \in {copy[t], Dropped}
    PROVE  NewestIsOnDisk'
<1> SUFFICES ASSUME ~Window, ~FilesFail
             PROVE  /\ ~cli'.config.read_failed
                    /\ \A t \in Threads :
                          /\ ~copy'[t].read_failed
                          /\ copy'[t].pw <= file'.pw
                          /\ session'[t] < file'.pw
  <2>1. \A t \in Threads : session'[t] < file'.pw => session'[t] <= file'.pw
    BY WhatIsDrawn DEF IInv
  <2> QED
    BY <2>1 DEF NewestIsOnDisk
<1>1. ~Dropped.read_failed /\ Dropped.pw = 1
  BY DEF Dropped
<1>2. /\ drawn \in Nat /\ file.pw \in Nat /\ file.pw <= drawn
      /\ \A t \in Threads : session[t] \in Nat /\ copy[t].pw \in Nat
  BY WhatIsDrawn DEF IInv
<1>3. /\ ~cli.config.read_failed
      /\ \A t \in Threads :
            ~copy[t].read_failed /\ copy[t].pw <= file.pw /\ session[t] <= file.pw
  BY DEF IInv, NewestIsOnDisk
<1> QED
  BY <1>1, <1>2, <1>3

LEMMA RotateSavesKeepsIInv ==
    ASSUME IInv, NEW t \in Threads, RotateSaves(t)
    PROVE  IInv'
<1> DEFINE config == [copy[t] EXCEPT !.pw = drawn']
<1>1. /\ pc[t] = "saving"
      /\ Draw
      /\ Save(t, config)
      /\ copy' = [copy EXCEPT ![t] = Dropped]
      /\ holder' = holder \ {t}
      /\ UNCHANGED <<unattended, attempts, cli, ui, session, wrong, madeUp>>
  BY DEF RotateSaves
<1>p. PICK at \in {"idle", "over"} : pc' = [pc EXCEPT ![t] = at]
  BY DEF RotateSaves
<1>2. copy[t] \in Loaded /\ drawn' = drawn + 1 /\ drawn' \in Passwords
  BY <1>1, PasswordAssumption DEF IInv, TypeOK, Draw, Passwords
<1>3. config \in Loaded /\ config.pw = drawn' /\ config.read_failed = copy[t].read_failed
  BY <1>2 DEF Loaded
<1> HIDE DEF config
<1>4. /\ file' \in Stored
      /\ spared' \in SUBSET (Passwords \cup {0})
      /\ overtaken' \in SUBSET Actors
      /\ \/ /\ UNCHANGED file
            /\ overtaken' = overtaken \ {t}
            /\ config.read_failed \/ FilesFail
         \/ /\ file' = [pw |-> config.pw, perm |-> config.perm]
            /\ Pending \ {t} \subseteq overtaken'
      /\ DrawnSoFar' /\ NothingMadeUpOnDisk'
  BY <1>1, <1>3, AfterSave
<1>5. TypeOK'
  <2>1. copy' \in [Threads -> Loaded] /\ pc' \in [Threads -> PCs]
    BY <1>1, <1>p, DroppedIsLoaded, UpdateKeepsType DEF IInv, TypeOK, PCs
  <2>2. holder' \in SUBSET Threads
    BY <1>1 DEF IInv, TypeOK
  <2> QED
    BY <1>1, <1>2, <1>4, <2>1, <2>2 DEF IInv, TypeOK
<1>6. LoadsAreFresh'
  <2>1. ASSUME NEW t1 \in Threads, pc'[t1] = "saving"
        PROVE  t1 # t /\ pc[t1] = "saving" /\ copy'[t1] = copy[t1] /\ t1 \in Pending
    BY <2>1, <1>1, <1>p DEF IInv, TypeOK, Pending
  <2>2. cli.busy => "cli" \in Pending /\ "cli" # t
    BY PasswordAssumption DEF Pending
  <2> QED
    BY <1>1, <1>4, <2>1, <2>2 DEF IInv, LoadsAreFresh
<1>7. NewestIsOnDisk'
  <2>1. CASE file' = [pw |-> config.pw, perm |-> config.perm]
    <3>1. file'.pw = drawn + 1
      BY <2>1, <1>2, <1>3
    <3>2. \A t1 \in Threads : copy'[t1] \in {copy[t1], Dropped}
      BY <1>1 DEF IInv, TypeOK
    <3> QED
      BY <1>1, <3>1, <3>2, NewerPassword
  <2>2. CASE config.read_failed \/ FilesFail
    BY <2>2, <1>3 DEF IInv, NewestIsOnDisk
  <2> QED
    BY <1>4, <2>1, <2>2
<1> QED
  BY <1>4, <1>5, <1>6, <1>7 DEF IInv

LEMMA CliSavesKeepsIInv ==
    ASSUME IInv, CliSaves
    PROVE  IInv'
<1> DEFINE config == [cli.config EXCEPT !.pw = drawn']
<1>1. /\ Draw
      /\ Save("cli", config)
      /\ cli' = [busy |-> FALSE, config |-> Dropped]
      /\ UNCHANGED <<unattended, pc, copy, attempts, holder, session, ui, wrong, madeUp>>
  BY DEF CliSaves
<1>2. cli.config \in Loaded /\ drawn' = drawn + 1 /\ drawn' \in Passwords
  BY <1>1, PasswordAssumption DEF IInv, TypeOK, Draw, Passwords
<1>3. config \in Loaded /\ config.pw = drawn' /\ config.read_failed = cli.config.read_failed
  BY <1>2 DEF Loaded
<1> HIDE DEF config
<1>4. /\ file' \in Stored
      /\ spared' \in SUBSET (Passwords \cup {0})
      /\ overtaken' \in SUBSET Actors
      /\ \/ /\ UNCHANGED file
            /\ overtaken' = overtaken \ {"cli"}
            /\ config.read_failed \/ FilesFail
         \/ /\ file' = [pw |-> config.pw, perm |-> config.perm]
            /\ Pending \ {"cli"} \subseteq overtaken'
      /\ DrawnSoFar' /\ NothingMadeUpOnDisk'
  BY <1>1, <1>3, AfterSave
<1>5. TypeOK'
  BY <1>1, <1>2, <1>4, DroppedIsLoaded DEF IInv, TypeOK
<1>6. LoadsAreFresh'
  <2>1. ~cli'.busy
    BY <1>1
  <2>2. \A t \in Threads : pc[t] = "saving" => t \in Pending /\ t # "cli"
    BY PasswordAssumption DEF Pending
  <2> QED
    BY <1>1, <1>4, <2>1, <2>2 DEF IInv, LoadsAreFresh
<1>7. NewestIsOnDisk'
  <2>1. CASE file' = [pw |-> config.pw, perm |-> config.perm]
    <3>1. file'.pw = drawn + 1 /\ cli'.config = Dropped
      BY <2>1, <1>1, <1>2, <1>3
    <3> QED
      BY <1>1, <3>1, NewerPassword
  <2>2. CASE config.read_failed \/ FilesFail
    BY <2>2, <1>3 DEF IInv, NewestIsOnDisk
  <2> QED
    BY <1>4, <2>1, <2>2
<1> QED
  BY <1>4, <1>5, <1>6, <1>7 DEF IInv

\* The two commands of the window that save.
LEMMA UiSavesKeepsIInv ==
    ASSUME IInv, NEW perm \in Perms \cup {NoPerm}, UiRefreshes \/ UiSetsPermanent(perm)
    PROVE  IInv'
<1>1. /\ Window
      /\ Save("ui", ui')
      /\ UNCHANGED <<unattended, pc, copy, attempts, holder, session, cli, wrong, madeUp>>
  BY DEF UiRefreshes, UiSetsPermanent
<1>2. /\ ui' \in Loaded
      /\ \/ Draw /\ ui'.pw = drawn'
         \/ Window /\ drawn' = drawn /\ ui'.pw = ui.pw
  <2>1. ui \in Loaded /\ drawn \in Passwords
    BY DEF IInv, TypeOK
  <2>2. CASE UiRefreshes
    <3>1. Draw /\ ui' = [ui EXCEPT !.pw = drawn'] /\ drawn' \in Passwords
      BY <2>1, <2>2, PasswordAssumption DEF UiRefreshes, Draw, Passwords
    <3> QED
      BY <2>1, <3>1 DEF Loaded
  <2>3. CASE UiSetsPermanent(perm)
    <3>1. Window /\ drawn' = drawn /\ ui' = [ui EXCEPT !.perm = perm]
      BY <2>3 DEF UiSetsPermanent
    <3> QED
      BY <2>1, <3>1 DEF Loaded
  <2> QED
    BY <2>2, <2>3
<1>3. /\ drawn' \in Passwords
      /\ file' \in Stored
      /\ spared' \in SUBSET (Passwords \cup {0})
      /\ overtaken' \in SUBSET Actors
      /\ \/ /\ UNCHANGED file
            /\ overtaken' = overtaken \ {"ui"}
         \/ Pending \ {"ui"} \subseteq overtaken'
      /\ DrawnSoFar' /\ NothingMadeUpOnDisk'
  BY <1>1, <1>2, AfterSave
<1>4. TypeOK'
  BY <1>1, <1>2, <1>3 DEF IInv, TypeOK
<1>5. LoadsAreFresh'
  <2>1. /\ cli.busy => "cli" \in Pending
        /\ \A t \in Threads : pc[t] = "saving" => t \in Pending /\ t # "ui"
    BY PasswordAssumption DEF Pending
  <2> QED
    BY <1>1, <1>3, <2>1 DEF IInv, LoadsAreFresh
<1>6. NewestIsOnDisk'
  BY <1>1 DEF NewestIsOnDisk
<1> QED
  BY <1>3, <1>4, <1>5, <1>6 DEF IInv

-----------------------------------------------------------------------------
(* The steps that leave the file alone. *)

\* A thread that neither comes to save nor to the end disturbs nothing.
LEMMA QuietStep ==
    ASSUME IInv,
           UNCHANGED <<file, drawn, cli, ui, session, madeUp, overtaken>>,
           \A t \in Threads :
              /\ copy'[t] \in {copy[t], Dropped}
              /\ pc'[t] \in {"saving", "over"} => pc'[t] = pc[t] /\ copy'[t] = copy[t]
    PROVE  DrawnSoFar' /\ LoadsAreFresh' /\ NewestIsOnDisk' /\ NothingMadeUpOnDisk'
<1>1. DrawnSoFar'
  BY DEF IInv, DrawnSoFar
<1>2. LoadsAreFresh'
  BY DEF IInv, LoadsAreFresh
<1>3. NewestIsOnDisk'
  <2> SUFFICES ASSUME ~Window, ~FilesFail, NEW t \in Threads
               PROVE  /\ ~cli'.config.read_failed
                      /\ ~copy'[t].read_failed
                      /\ copy'[t].pw <= file'.pw
                      /\ session'[t] <= file'.pw
                      /\ pc'[t] = "over" => session'[t] < file'.pw
    BY DEF IInv, NewestIsOnDisk
  <2>1. file.pw \in Nat /\ 1 <= file.pw
    BY PasswordAssumption DEF IInv, TypeOK, Stored, Passwords
  <2> QED
    BY <2>1 DEF IInv, NewestIsOnDisk, Dropped
<1>4. NothingMadeUpOnDisk'
  BY DEF IInv, NothingMadeUpOnDisk, MadeUpIsNeverSaved
<1> QED
  BY <1>1, <1>2, <1>3, <1>4

LEMMA LoginSucceedsKeepsIInv ==
    ASSUME IInv, NEW t \in Threads, CountRight(t) \/ LetInByOwner(t)
    PROVE  IInv'
<1>1. /\ pc' = [pc EXCEPT ![t] = "session"]
      /\ session' = [session EXCEPT ![t] = copy[t].pw]
      /\ copy' = [copy EXCEPT ![t] = Dropped]
      /\ UNCHANGED <<file, drawn, unattended, holder, cli, ui, spared, madeUp, overtaken>>
  BY Zenon DEF CountRight, LetInByOwner
<1>2. copy[t] \in Loaded /\ copy[t].pw \in Passwords
  BY DEF IInv, TypeOK, Loaded
<1>3. /\ wrong' \in [Passwords -> 0 .. GuessLimit + 1]
      /\ attempts' \in [pw : Passwords \cup {0}, failures : 0 .. MaxFailures - 1]
  <2>1. CASE CountRight(t)
    <3>1. 0 \in 0 .. MaxFailures - 1
      BY PasswordAssumption
    <3> QED
      BY <1>2, <2>1, <3>1, GuessesKeepType DEF IInv, TypeOK, CountRight
  <2>2. CASE LetInByOwner(t)
    BY <2>2 DEF IInv, TypeOK, LetInByOwner
  <2> QED
    BY <2>1, <2>2
<1>4. TypeOK'
  <2>1. copy' \in [Threads -> Loaded] /\ pc' \in [Threads -> PCs]
    BY <1>1, DroppedIsLoaded, UpdateKeepsType DEF IInv, TypeOK, PCs
  <2>2. session' \in [Threads -> Passwords \cup {0}]
    BY <1>1, <1>2, UpdateKeepsType DEF IInv, TypeOK
  <2> QED
    BY <1>1, <1>3, <2>1, <2>2 DEF IInv, TypeOK
<1>5. \A t1 \in Threads :
         /\ copy'[t1] \in {copy[t1], Dropped}
         /\ session'[t1] \in {session[t1], copy[t].pw}
         /\ pc'[t1] \in {"saving", "over"} =>
              pc'[t1] = pc[t1] /\ copy'[t1] = copy[t1] /\ session'[t1] = session[t1]
  BY <1>1 DEF IInv, TypeOK
<1>6. DrawnSoFar' /\ NothingMadeUpOnDisk'
  BY <1>1 DEF IInv, DrawnSoFar, NothingMadeUpOnDisk, MadeUpIsNeverSaved
<1>7. LoadsAreFresh'
  BY <1>1, <1>5 DEF IInv, LoadsAreFresh
<1>8. NewestIsOnDisk'
  <2> SUFFICES ASSUME ~Window, ~FilesFail
               PROVE  /\ ~cli'.config.read_failed
                      /\ \A t1 \in Threads :
                            /\ ~copy'[t1].read_failed
                            /\ copy'[t1].pw <= file'.pw
                            /\ session'[t1] <= file'.pw
                            /\ pc'[t1] = "over" => session'[t1] < file'.pw
    BY DEF NewestIsOnDisk
  <2>1. /\ ~cli.config.read_failed
        /\ \A t1 \in Threads :
              /\ ~copy[t1].read_failed /\ copy[t1].pw <= file.pw /\ session[t1] <= file.pw
              /\ pc[t1] = "over" => session[t1] < file.pw
    BY DEF IInv, NewestIsOnDisk
  <2>2. file.pw \in Nat /\ 1 <= file.pw
    BY PasswordAssumption DEF IInv, TypeOK, Stored, Passwords
  <2>3. ~Dropped.read_failed /\ Dropped.pw = 1
    BY DEF Dropped
  <2> QED
    BY <1>1, <1>5, <2>1, <2>2, <2>3
<1> QED
  BY <1>4, <1>6, <1>7, <1>8 DEF IInv

LEMMA CountWrongKeepsIInv ==
    ASSUME IInv, NEW t \in Threads, CountWrong(t)
    PROVE  IInv'
<1>1. /\ copy' = [copy EXCEPT ![t] = Dropped]
      /\ wrong' = OneMoreWrong(copy[t].pw)
      /\ UNCHANGED <<file, drawn, unattended, cli, ui, session, spared, madeUp, overtaken>>
  BY Zenon DEF CountWrong
<1>2. PICK at \in {"idle", "rotating"} :
         pc' = [pc EXCEPT ![t] = at] /\ holder' \in {holder, {t}}
  BY Zenon DEF CountWrong
<1>3. copy[t].pw \in Passwords
  BY DEF IInv, TypeOK, Loaded
<1>4. attempts' \in [pw : Passwords \cup {0}, failures : 0 .. MaxFailures - 1]
  <2>1. FailuresWith(t) \in Nat /\ 0 \in 0 .. MaxFailures - 1
    BY PasswordAssumption DEF IInv, TypeOK, FailuresWith
  <2>2. FailuresWith(t) < MaxFailures => FailuresWith(t) \in 0 .. MaxFailures - 1
    BY <2>1, PasswordAssumption
  <2>3. \E n \in 0 .. MaxFailures - 1 : attempts' = [pw |-> copy[t].pw, failures |-> n]
    BY <2>1, <2>2, Zenon DEF CountWrong
  <2> QED
    BY <1>3, <2>3
<1>5. TypeOK'
  <2>1. copy' \in [Threads -> Loaded] /\ pc' \in [Threads -> PCs]
    BY <1>1, <1>2, DroppedIsLoaded, UpdateKeepsType DEF IInv, TypeOK, PCs
  <2>2. wrong' \in [Passwords -> 0 .. GuessLimit + 1]
    <3>1. wrong \in [Passwords -> 0 .. GuessLimit + 1]
      BY DEF IInv, TypeOK
    <3>2. CASE wrong[copy[t].pw] > GuessLimit
      BY <1>1, <3>1, <3>2 DEF OneMoreWrong
    <3>3. CASE ~(wrong[copy[t].pw] > GuessLimit)
      <4>1. wrong[copy[t].pw] <= GuessLimit
        BY <1>3, <3>1, <3>3, LimitIsNatural
      <4> QED
        BY <1>1, <1>3, <3>1, <4>1, GuessesKeepType DEF OneMoreWrong
    <3> QED
      BY <3>2, <3>3
  <2>3. holder' \in SUBSET Threads
    BY <1>2 DEF IInv, TypeOK
  <2> QED
    BY <1>1, <1>4, <2>1, <2>2, <2>3 DEF IInv, TypeOK
<1>6. \A t1 \in Threads :
         /\ copy'[t1] \in {copy[t1], Dropped}
         /\ pc'[t1] \in {"saving", "over"} => pc'[t1] = pc[t1] /\ copy'[t1] = copy[t1]
  BY <1>1, <1>2 DEF IInv, TypeOK
<1> QED
  BY <1>1, <1>5, <1>6, QuietStep DEF IInv

LEMMA OtherStepsKeepIInv ==
    ASSUME IInv, NEW t \in Threads,
           LaterGateFails(t) \/ SessionEnds(t) \/ RotationWaived(t)
    PROVE  IInv'
<1>1. UNCHANGED <<file, drawn, unattended, copy, attempts, cli, ui, session, wrong,
                  madeUp, overtaken>>
  BY Zenon DEF LaterGateFails, SessionEnds, RotationWaived
<1>2. PICK at \in {"idle", "rotating"} : pc' = [pc EXCEPT ![t] = at]
  BY Zenon DEF LaterGateFails, SessionEnds, RotationWaived
<1>3. holder' \in {holder, holder \ {t}}
  BY Zenon DEF LaterGateFails, SessionEnds, RotationWaived
<1>4. spared' \in {spared, spared \cup {attempts.pw}}
  BY Zenon DEF LaterGateFails, SessionEnds, RotationWaived
<1>5. TypeOK'
  <2>1. spared' \in SUBSET (Passwords \cup {0})
    BY <1>4 DEF IInv, TypeOK
  <2>2. pc' \in [Threads -> PCs]
    BY <1>2, UpdateKeepsType DEF IInv, TypeOK, PCs
  <2> QED
    BY <1>1, <1>3, <2>1, <2>2 DEF IInv, TypeOK
<1>6. \A t1 \in Threads : pc'[t1] \in {"saving", "over"} => pc'[t1] = pc[t1]
  BY <1>2 DEF IInv, TypeOK
<1> QED
  BY <1>1, <1>5, <1>6, QuietStep DEF IInv

-----------------------------------------------------------------------------
(* The initial states and every step. *)

LEMMA InitMakesIInv == Init => IInv
<1> SUFFICES ASSUME Init PROVE IInv
  OBVIOUS
<1> USE PasswordAssumption, LimitIsNatural, DroppedIsLoaded
        DEF Init, Passwords, Stored, Loaded, PCs, Actors, AsLoaded
<1>1. TypeOK
  <2>1. file \in Stored /\ ui \in Loaded
    OBVIOUS
  <2>2. cli \in [busy : BOOLEAN, config : Loaded] /\ copy \in [Threads -> Loaded]
    OBVIOUS
  <2> QED
    BY <2>1, <2>2 DEF TypeOK
<1>2. DrawnSoFar
  BY DEF DrawnSoFar
<1>3. LoadsAreFresh
  BY DEF LoadsAreFresh
<1>4. NewestIsOnDisk
  BY DEF NewestIsOnDisk, Dropped
<1>5. NothingMadeUpOnDisk
  BY DEF NothingMadeUpOnDisk, MadeUpIsNeverSaved
<1> QED
  BY <1>1, <1>2, <1>3, <1>4, <1>5 DEF IInv

LEMMA NextKeepsIInv ==
    ASSUME IInv, [Next]_vars
    PROVE  IInv'
<1>1. ASSUME NEW t \in Threads, ThreadStep(t)
      PROVE  IInv'
  BY <1>1, LoginLoadsKeepsIInv, LoginSucceedsKeepsIInv, CountWrongKeepsIInv,
     OtherStepsKeepIInv, RotateLoadsKeepsIInv, RotateSavesKeepsIInv
     DEF ThreadStep
<1>2. CASE ToggleUnattended \/ UNCHANGED vars
  <2> USE <1>2 DEF IInv, ToggleUnattended, vars
  <2>1. TypeOK'
    BY DEF TypeOK
  <2>2. DrawnSoFar' /\ LoadsAreFresh'
    BY DEF DrawnSoFar, LoadsAreFresh, Pending
  <2>3. NewestIsOnDisk' /\ NothingMadeUpOnDisk'
    BY DEF NewestIsOnDisk, NothingMadeUpOnDisk, MadeUpIsNeverSaved, Pending
  <2> QED
    BY <2>1, <2>2, <2>3
<1>3. CASE WindowStep
  BY <1>2, <1>3, UiLoadsKeepsIInv, UiSavesKeepsIInv DEF WindowStep
<1>4. CASE CliLoads \/ CliSaves
  BY <1>4, CliLoadsKeepsIInv, CliSavesKeepsIInv
<1> QED
  BY <1>1, <1>2, <1>3, <1>4 DEF Next

\* The strengthening that the theorems below follow from holds in every state.
THEOREM Invariance == Spec => []IInv
BY InitMakesIInv, NextKeepsIInv, PTL DEF Spec

-----------------------------------------------------------------------------
(* The theorems. *)

\* Every variable keeps its type, the counter of failures among them.
THEOREM TypeCorrectness == Spec => []TypeOK
<1>1. IInv => TypeOK
  BY DEF IInv
<1> QED
  BY <1>1, Invariance, PTL

\* Where no window saves its own copy, the password a session was opened with is
\* not on disk any more once its thread has rotated it, whoever else rotates or
\* sets passwords meanwhile, as long as the file can be read and written.
THEOREM SessionPassword ==
    ASSUME ~Window, ~FilesFail
    PROVE  Spec => []SessionPasswordDies
<1>1. IInv => SessionPasswordDies
  BY PasswordAssumption
     DEF IInv, NewestIsOnDisk, SessionPasswordDies, TypeOK, Stored, Passwords
<1> QED
  BY <1>1, Invariance, PTL

\* Where no window saves its own copy, what a failed read made up stays out of
\* the file: all that keeps it out is the read_failed mark of the copy.
THEOREM NothingMadeUp ==
    ASSUME ~Window
    PROVE  Spec => []MadeUpIsNeverSaved
<1>1. IInv => MadeUpIsNeverSaved
  BY DEF IInv, NothingMadeUpOnDisk
<1> QED
  BY <1>1, Invariance, PTL

LEMMA SaveKeepsPermanent ==
    ASSUME IInv, [Next]_vars, file'.perm # file.perm
    PROVE  \/ ui'.perm = file'.perm
           \/ \E a \in overtaken : a \in Pending /\ a \notin Pending'
<1>1. ASSUME NEW t \in Threads, RotateSaves(t)
      PROVE  \E a \in overtaken : a \in Pending /\ a \notin Pending'
  <2>1. ~copy[t].read_failed /\ file'.perm = copy[t].perm
    BY <1>1 DEF RotateSaves, Save, IInv, TypeOK, Loaded
  <2>2. pc[t] = "saving" /\ t \in overtaken
    BY <1>1, <2>1 DEF RotateSaves, IInv, LoadsAreFresh
  <2>3. pc'[t] # "saving" /\ t # "cli"
    BY <1>1, PasswordAssumption DEF RotateSaves, IInv, TypeOK
  <2> QED
    BY <2>2, <2>3 DEF Pending
<1>2. CASE CliSaves
  <2>1. ~cli.config.read_failed /\ file'.perm = cli.config.perm
    BY <1>2 DEF CliSaves, Save, IInv, TypeOK, Loaded
  <2>2. cli.busy /\ "cli" \in overtaken
    BY <1>2, <2>1 DEF CliSaves, IInv, LoadsAreFresh
  <2>3. ~cli'.busy /\ "cli" \notin Threads
    BY <1>2, PasswordAssumption DEF CliSaves
  <2> QED
    BY <2>2, <2>3 DEF Pending
<1>3. ASSUME NEW perm \in Perms \cup {NoPerm}, UiRefreshes \/ UiSetsPermanent(perm)
      PROVE  ui'.perm = file'.perm
  BY <1>3 DEF UiRefreshes, UiSetsPermanent, Save
<1>4. ASSUME NEW a, NEW config, Load(a, config)
      PROVE  FALSE
  BY <1>4 DEF Load, Save
<1>5. ASSUME NEW t \in Threads, ThreadStep(t)
      PROVE  RotateSaves(t)
  BY <1>4, <1>5 DEF ThreadStep, LoginLoads, CountRight, LetInByOwner, CountWrong,
                    LaterGateFails, SessionEnds, RotationWaived, RotateLoads
<1>6. ASSUME WindowStep
      PROVE  ui'.perm = file'.perm
  BY <1>3, <1>4, <1>6 DEF WindowStep, UiSyncs, UiStarts, ToggleUnattended
<1>7. ~CliLoads /\ ~UNCHANGED vars
  BY <1>4 DEF CliLoads, vars
<1> QED
  BY <1>1, <1>2, <1>5, <1>6, <1>7 DEF Next

\* For any number of threads, with or without the window, and however often the
\* file fails: a permanent password on disk gives way only to the window's own
\* or to a copy that had been loaded before somebody else's save.
THEOREM PermanentPassword == Spec => PermanentLostOnlyByOverlap
BY SaveKeepsPermanent, Invariance, PTL DEF Spec, PermanentLostOnlyByOverlap

-----------------------------------------------------------------------------
(* The limit on guesses.                                                       *)

(* The password on disk has been tried in vain as often as the counter says,   *)
(* plus once less than MaxFailures for every thread that has made the counter  *)
(* start anew: each of them did it with a copy that had been replaced, so none *)
(* of them holds such a copy any more.  A password that has left the disk can  *)
(* be tried by the threads that still hold it, once each.  None of this is said *)
(* of a password that has been spared.                                         *)

Tried(p)    == IF p \in spared THEN 0 ELSE wrong[p]
Stale       == {t \in Threads : pc[t] = "checking" /\ copy[t].pw # file.pw}
Guessing(p) == {t \in Threads : pc[t] = "checking" /\ copy[t].pw = p}
InARow      == IF attempts.pw = file.pw THEN attempts.failures ELSE 0
Spare(k)    == (MaxFailures - 1) * k
Restarts    == Spare(Cardinality(Threads) - 1 - Cardinality(Stale))

HolderRotates ==
    \A t \in holder : holder = {t} /\ pc[t] \in {"rotating", "saving"}

OnDisk ==
    \/ Tried(file.pw) = 0
    \/ /\ Cardinality(Stale) < Cardinality(Threads)
       /\ \/ Tried(file.pw) <= InARow + Restarts
          \/ /\ holder # {} /\ attempts.pw = file.pw
             /\ Tried(file.pw) <= MaxFailures + Restarts

OffDisk ==
    \A p \in Passwords \ {file.pw} : Tried(p) + Cardinality(Guessing(p)) <= GuessLimit

\* A password that has not been drawn has not been tried.
UndrawnIsUntried ==
    /\ \A t \in Threads : copy[t].pw <= drawn
    /\ \A p \in Passwords : p > drawn => wrong[p] = 0

GInv ==
    ~FilesFail => /\ ~cli.config.read_failed
                  /\ \A t \in Threads : ~copy[t].read_failed
                  /\ HolderRotates
                  /\ UndrawnIsUntried
                  /\ OnDisk
                  /\ OffDisk

LEMMA SpareAdds ==
    ASSUME NEW n \in Nat, NEW m \in Nat, m <= n
    PROVE  /\ Spare(m) \in Nat
           /\ Spare(m + 1) = Spare(m) + MaxFailures - 1
           /\ Spare(m) <= Spare(n)
           /\ Spare(m) + m <= MaxFailures * n
           /\ MaxFailures * n \in Nat
<1>1. PICK k \in Nat : MaxFailures = k + 1
  <2>1. MaxFailures - 1 \in Nat /\ MaxFailures = (MaxFailures - 1) + 1
    BY PasswordAssumption
  <2> QED
    BY <2>1
<1>2. PICK d \in Nat : n = m + d
  <2>1. n - m \in Nat /\ n = m + (n - m)
    OBVIOUS
  <2> QED
    BY <2>1
<1>3. \A j \in Nat : Spare(j) = k * j /\ Spare(j) \in Nat
  BY <1>1 DEF Spare
<1>4. k * (m + 1) = k * m + k /\ k * (m + d) = k * m + k * d /\ k * d \in Nat
  BY <1>1, <1>2
<1>5. MaxFailures * n = k * n + n
  BY <1>1
<1> QED
  BY <1>1, <1>2, <1>3, <1>4, <1>5

LEMMA SomeThreads ==
    ASSUME NEW T \in SUBSET Threads
    PROVE  /\ Cardinality(Threads) \in Nat
           /\ Cardinality(T) \in Nat /\ Cardinality(T) <= Cardinality(Threads)
           /\ \A S \in SUBSET T : Cardinality(S) \in Nat /\ Cardinality(S) <= Cardinality(T)
           /\ \A S \in SUBSET T : \A t \in T \ S : Cardinality(S) + 1 <= Cardinality(T)
<1>1. IsFiniteSet(T) /\ Cardinality(T) <= Cardinality(Threads)
  BY FS_Subset, PasswordAssumption
<1>2. Cardinality(Threads) \in Nat /\ Cardinality(T) \in Nat
  BY <1>1, FS_CardinalityType, PasswordAssumption
<1>3. ASSUME NEW S \in SUBSET T
      PROVE  Cardinality(S) \in Nat /\ Cardinality(S) <= Cardinality(T)
  BY <1>1, FS_Subset, FS_CardinalityType
<1>4. ASSUME NEW S \in SUBSET T, NEW t \in T \ S
      PROVE  Cardinality(S) + 1 <= Cardinality(T)
  <2>1. IsFiniteSet(T \ {t}) /\ Cardinality(T \ {t}) = Cardinality(T) - 1
    BY <1>1, FS_RemoveElement
  <2>2. Cardinality(S) <= Cardinality(T \ {t})
    BY <2>1, FS_Subset
  <2>3. Cardinality(S) \in Nat
    BY <1>3
  <2> QED
    BY <1>2, <2>1, <2>2, <2>3
<1> QED
  BY <1>1, <1>2, <1>3, <1>4

LEMMA ApartThreads ==
    ASSUME NEW S \in SUBSET Threads, NEW T \in SUBSET Threads, S \cap T = {}
    PROVE  Cardinality(S) + Cardinality(T) = Cardinality(S \cup T)
<1>1. IsFiniteSet(S) /\ IsFiniteSet(T)
  BY FS_Subset, PasswordAssumption
<1>2. Cardinality(S) \in Nat /\ Cardinality(T) \in Nat
  BY <1>1, FS_CardinalityType
<1>3. Cardinality(S \cup T) = Cardinality(S) + Cardinality(T) - 0
  BY <1>1, FS_Union, FS_EmptySet
<1> QED
  BY <1>2, <1>3

\* What the numbers in OnDisk and OffDisk are.
LEMMA GuessNumbers ==
    ASSUME TypeOK
    PROVE  /\ Stale \in SUBSET Threads /\ \A p : Guessing(p) \in SUBSET Threads
           /\ file.pw \in Passwords /\ \A t \in Threads : copy[t].pw \in Passwords
           /\ \A p \in Passwords : wrong[p] \in Nat /\ Tried(p) \in Nat
           /\ InARow \in 0 .. MaxFailures - 1
           /\ Cardinality(Stale) < Cardinality(Threads) => Restarts \in Nat
<1>1. Stale \in SUBSET Threads /\ \A p : Guessing(p) \in SUBSET Threads
  BY DEF Stale, Guessing
<1>2. file.pw \in Passwords /\ \A t \in Threads : copy[t].pw \in Passwords
  BY DEF TypeOK, Stored, Loaded
<1>3. \A p \in Passwords : wrong[p] \in Nat /\ Tried(p) \in Nat
  BY LimitIsNatural DEF TypeOK, Tried
<1>4. InARow \in 0 .. MaxFailures - 1
  <2>1. attempts.failures \in 0 .. MaxFailures - 1 /\ 0 \in 0 .. MaxFailures - 1
    BY PasswordAssumption DEF TypeOK
  <2> QED
    BY <2>1 DEF InARow
<1>5. Cardinality(Stale) < Cardinality(Threads) => Restarts \in Nat
  <2>1. Cardinality(Stale) \in Nat /\ Cardinality(Threads) \in Nat
    BY <1>1, SomeThreads
  <2>2. Cardinality(Stale) < Cardinality(Threads)
           => Cardinality(Threads) - 1 - Cardinality(Stale) \in Nat
    BY <2>1
  <2> QED
    BY <2>2, SpareAdds DEF Restarts
<1> QED
  BY <1>1, <1>2, <1>3, <1>4, <1>5

\* The same once a step has been made.
LEMMA GuessNumbersLater ==
    ASSUME TypeOK'
    PROVE  /\ file'.pw \in Passwords
           /\ InARow' \in 0 .. MaxFailures - 1
<1>1. file'.pw \in Passwords
  BY DEF TypeOK, Stored
<1>2. attempts'.failures \in 0 .. MaxFailures - 1 /\ 0 \in 0 .. MaxFailures - 1
  BY PasswordAssumption DEF TypeOK
<1> QED
  BY <1>1, <1>2 DEF InARow

\* The fewer copies have been replaced, the more often the counter may have
\* started anew.
LEMMA FewerStale ==
    ASSUME TypeOK, Stale' \in SUBSET Stale, Cardinality(Stale) < Cardinality(Threads)
    PROVE  /\ Cardinality(Stale') < Cardinality(Threads)
           /\ Restarts \in Nat /\ Restarts' \in Nat /\ Restarts <= Restarts'
           /\ \A t \in Stale \ Stale' : Restarts + MaxFailures - 1 <= Restarts'
<1> DEFINE N == Cardinality(Threads)
           S == Cardinality(Stale)
           T == Cardinality(Stale')
<1>1. N \in Nat /\ S \in Nat /\ T \in Nat /\ T <= S /\ \A t \in Stale \ Stale' : T + 1 <= S
  BY GuessNumbers, SomeThreads
<1>2. /\ N - 1 - S \in Nat /\ N - 1 - T \in Nat /\ N - 1 - S <= N - 1 - T
      /\ \A t \in Stale \ Stale' : N - 1 - S + 1 \in Nat /\ N - 1 - S + 1 <= N - 1 - T
  BY <1>1
<1>3. Restarts = Spare(N - 1 - S) /\ Restarts' = Spare(N - 1 - T)
  BY DEF Restarts, Spare
<1> HIDE DEF N, S, T
<1>4. Restarts \in Nat /\ Restarts' \in Nat /\ Restarts <= Restarts'
  BY <1>2, <1>3, SpareAdds
<1>5. ASSUME NEW t \in Stale \ Stale'
      PROVE  Restarts + MaxFailures - 1 <= Restarts'
  BY <1>2, <1>3, SpareAdds
<1> QED
  BY <1>1, <1>2, <1>4, <1>5 DEF N, S, T

\* OnDisk keeps the password on disk below the limit, with room for every thread
\* that may still try it once it has been replaced.
LEMMA RoomIsLeft ==
    ASSUME TypeOK, HolderRotates, OnDisk
    PROVE  Tried(file.pw) + Cardinality(Guessing(file.pw)) <= GuessLimit
<1> DEFINE p == file.pw
           N == Cardinality(Threads)
           G == Cardinality(Guessing(p))
           S == Cardinality(Stale)
<1>1. N \in Nat /\ G \in Nat /\ S \in Nat /\ G <= N /\ Tried(p) \in Nat
  BY GuessNumbers, SomeThreads
<1>2. G + S = Cardinality(Guessing(p) \cup Stale)
  <2>1. Guessing(p) \cap Stale = {}
    BY DEF Guessing, Stale
  <2> QED
    BY <2>1, GuessNumbers, ApartThreads
<1>3. G + S <= N
  BY <1>2, GuessNumbers, SomeThreads
<1>4. ASSUME holder # {}
      PROVE  G + S + 1 <= N
  <2>1. PICK t \in holder : pc[t] \in {"rotating", "saving"}
    BY <1>4 DEF HolderRotates
  <2>2. t \in Threads /\ t \notin Guessing(p) \cup Stale
    BY <2>1 DEF TypeOK, Guessing, Stale
  <2>3. Threads \in SUBSET Threads /\ Guessing(p) \cup Stale \in SUBSET Threads
    BY GuessNumbers
  <2> QED
    BY <1>2, <2>2, <2>3, SomeThreads
<1>5. GuessLimit = MaxFailures * N
  BY DEF GuessLimit
<1>6. CASE Tried(p) = 0
  <2>1. MaxFailures * N = N + (MaxFailures - 1) * N /\ (MaxFailures - 1) * N \in Nat
    <3>1. Spare(N) \in Nat /\ Spare(N) + N <= MaxFailures * N
      BY <1>1, SpareAdds
    <3>2. PICK k \in Nat : MaxFailures = k + 1
      BY PasswordAssumption, MaxFailures - 1 \in Nat
    <3> QED
      BY <1>1, <3>1, <3>2 DEF Spare
  <2> QED
    BY <1>1, <1>5, <1>6, <2>1
<1>7. ASSUME S < N, Tried(p) <= InARow + Restarts
      PROVE  Tried(p) + G <= GuessLimit
  <2> DEFINE k == N - 1 - S
  <2>1. k \in Nat /\ k + 1 <= N /\ G <= k + 1
    BY <1>1, <1>3, <1>7
  <2>2. /\ Spare(k) \in Nat /\ Spare(k + 1) = Spare(k) + MaxFailures - 1
        /\ Spare(k + 1) + (k + 1) <= MaxFailures * N
        /\ MaxFailures * N \in Nat
    <3> HIDE DEF k
    <3>1. k + 1 \in Nat /\ k \in Nat /\ k <= N /\ N \in Nat
      BY <1>1, <2>1
    <3> QED
      BY <2>1, <3>1, SpareAdds
  <2>3. Restarts = Spare(k) /\ InARow \in 0 .. MaxFailures - 1
    BY GuessNumbers DEF Restarts
  <2> HIDE DEF k
  <2> QED
    BY <1>1, <1>5, <1>7, <2>1, <2>2, <2>3, PasswordAssumption
<1>8. ASSUME S < N, holder # {}, Tried(p) <= MaxFailures + Restarts
      PROVE  Tried(p) + G <= GuessLimit
  <2> DEFINE k == N - 1 - S
  <2>1. k \in Nat /\ k + 1 <= N /\ G <= k
    BY <1>1, <1>4, <1>8
  <2>2. /\ Spare(k) \in Nat /\ Spare(k + 1) = Spare(k) + MaxFailures - 1
        /\ Spare(k + 1) + (k + 1) <= MaxFailures * N
        /\ MaxFailures * N \in Nat
    <3> HIDE DEF k
    <3>1. k + 1 \in Nat /\ k \in Nat /\ k <= N /\ N \in Nat
      BY <1>1, <2>1
    <3> QED
      BY <2>1, <3>1, SpareAdds
  <2>3. Restarts = Spare(k)
    BY DEF Restarts
  <2> HIDE DEF k
  <2> QED
    BY <1>1, <1>5, <1>8, <2>1, <2>2, <2>3, PasswordAssumption
<1> QED
  BY <1>6, <1>7, <1>8 DEF OnDisk

\* A step that counts nothing and leaves the file alone.
LEMMA NothingCounted ==
    ASSUME TypeOK, TypeOK', OnDisk, OffDisk,
           UNCHANGED <<file, attempts>>,
           \A t \in Threads :
              pc'[t] = "checking" => \/ copy'[t].pw = file.pw
                                     \/ pc[t] = "checking" /\ copy'[t] = copy[t],
           \A p \in Passwords : Tried(p)' \in {Tried(p), 0},
           \/ holder' = holder
           \/ attempts.pw = file.pw => Tried(file.pw)' = 0
    PROVE  OnDisk' /\ OffDisk'
<1>1. /\ Stale' \in SUBSET Stale
      /\ \A p \in Passwords \ {file.pw} : Guessing(p)' \in SUBSET Guessing(p)
  BY DEF Stale, Guessing
<1>2. OnDisk'
  <2>1. CASE Tried(file.pw)' = 0
    BY <2>1 DEF OnDisk
  <2>2. CASE Tried(file.pw)' # 0
    <3>1. file.pw \in Passwords /\ Tried(file.pw) \in Nat /\ InARow \in Nat
      BY GuessNumbers, PasswordAssumption
    <3>2. /\ Tried(file.pw)' = Tried(file.pw) /\ Tried(file.pw) # 0
          /\ attempts.pw = file.pw => holder' = holder
      BY <2>2, <3>1
    <3>3. /\ Cardinality(Stale) < Cardinality(Threads)
          /\ \/ Tried(file.pw) <= InARow + Restarts
             \/ /\ holder # {} /\ attempts.pw = file.pw
                /\ Tried(file.pw) <= MaxFailures + Restarts
      BY <3>2 DEF OnDisk
    <3>4. Cardinality(Stale') < Cardinality(Threads) /\ Restarts <= Restarts' /\ Restarts \in Nat
                                                     /\ Restarts' \in Nat
      BY <1>1, <3>3, FewerStale
    <3>5. InARow' = InARow
      BY DEF InARow
    <3> QED
      BY <3>1, <3>2, <3>3, <3>4, <3>5, PasswordAssumption DEF OnDisk
  <2> QED
    BY <2>1, <2>2
<1>3. OffDisk'
  <2> SUFFICES ASSUME NEW p \in Passwords \ {file.pw}
               PROVE  Tried(p)' + Cardinality(Guessing(p)') <= GuessLimit
    BY DEF OffDisk
  <2>1. Guessing(p) \in SUBSET Threads /\ Tried(p) \in Nat
    BY GuessNumbers
  <2>2. /\ Cardinality(Guessing(p)) \in Nat
        /\ Cardinality(Guessing(p)') \in Nat
        /\ Cardinality(Guessing(p)') <= Cardinality(Guessing(p))
    BY <1>1, <2>1, SomeThreads
  <2>3. Tried(p) + Cardinality(Guessing(p)) <= GuessLimit
    BY DEF OffDisk
  <2>4. Tried(p)' <= Tried(p) /\ Tried(p)' \in Nat
    BY <2>1
  <2> QED
    BY <2>1, <2>2, <2>3, <2>4, LimitIsNatural
<1> QED
  BY <1>2, <1>3

\* A guess, right or wrong: thread t tries the password of its copy.
LEMMA GuessCounted ==
    ASSUME TypeOK, TypeOK', HolderRotates, OnDisk, OffDisk,
           NEW t \in Threads, CountRight(t) \/ CountWrong(t)
    PROVE  HolderRotates' /\ OnDisk' /\ OffDisk'
<1>q. PICK q \in Passwords : q = copy[t].pw
  BY GuessNumbers
<1>1. /\ pc[t] = "checking" /\ holder = {} /\ UNCHANGED file
      /\ copy' = [copy EXCEPT ![t] = Dropped]
      /\ \A s \in Threads \ {t} : pc'[s] = pc[s] /\ copy'[s] = copy[s]
      /\ pc'[t] \in {"idle", "session", "rotating"}
      /\ holder' # {} => holder' = {t} /\ pc'[t] = "rotating"
  BY DEF CountRight, CountWrong, TypeOK
<1>2. /\ file.pw \in Passwords
      /\ \A p \in Passwords : wrong[p] \in Nat /\ Tried(p) \in Nat
  BY GuessNumbers
<1>3. /\ \A p \in Passwords \ {q} : Tried(p)' = Tried(p)
      /\ Tried(q)' \in Nat /\ Tried(q)' <= Tried(q) + 1
      /\ CountRight(t) => Tried(q)' = 0
  <2>1. spared' = spared
    BY DEF CountRight, CountWrong
  <2>2. CASE CountRight(t)
    <3>1. wrong' = [wrong EXCEPT ![q] = 0]
      BY <1>q, <2>2 DEF CountRight
    <3> QED
      BY <1>2, <2>1, <3>1 DEF Tried, TypeOK
  <2>3. CASE CountWrong(t) /\ ~CountRight(t)
    <3>1. wrong' \in {wrong, [wrong EXCEPT ![q] = @ + 1]}
          /\ (q \in spared => wrong' = wrong)
      BY <1>q, <2>3 DEF CountWrong, OneMoreWrong
    <3> QED
      BY <1>2, <2>1, <2>3, <3>1 DEF Tried, TypeOK
  <2> QED
    BY <2>2, <2>3
<1>4. HolderRotates'
  BY <1>1 DEF HolderRotates
<1>5. /\ Stale' = Stale \ {t} /\ (t \in Stale <=> q # file.pw)
      /\ \A p : Guessing(p)' = Guessing(p) \ {t} /\ (t \in Guessing(p) <=> q = p)
  BY <1>q, <1>1 DEF Stale, Guessing
<1>6. OffDisk'
  <2> SUFFICES ASSUME NEW p \in Passwords \ {file.pw}
               PROVE  Tried(p)' + Cardinality(Guessing(p)') <= GuessLimit
    BY <1>1 DEF OffDisk
  <2>1. Tried(p) + Cardinality(Guessing(p)) <= GuessLimit /\ GuessLimit \in Nat
    BY LimitIsNatural DEF OffDisk
  <2>2. /\ Cardinality(Guessing(p)) \in Nat
        /\ Cardinality(Guessing(p)') \in Nat
        /\ Cardinality(Guessing(p)') <= Cardinality(Guessing(p))
        /\ q = p => Cardinality(Guessing(p)') + 1 <= Cardinality(Guessing(p))
    BY <1>5, GuessNumbers, SomeThreads
  <2> QED
    BY <1>2, <1>3, <2>1, <2>2
<1>7. OnDisk'
  <2>1. CASE Tried(file.pw)' = 0
    BY <1>1, <2>1 DEF OnDisk
  <2>2. CASE q # file.pw /\ Tried(file.pw) # 0
    <3>1. /\ Cardinality(Stale) < Cardinality(Threads)
          /\ Tried(file.pw) <= InARow + Restarts
      BY <1>1, <2>2 DEF OnDisk
    <3>2. /\ Cardinality(Stale') < Cardinality(Threads)
          /\ Restarts \in Nat /\ Restarts' \in Nat
          /\ Restarts + MaxFailures - 1 <= Restarts'
      BY <1>5, <2>2, <3>1, FewerStale
    <3>3. InARow \in 0 .. MaxFailures - 1 /\ InARow' \in 0 .. MaxFailures - 1
      BY GuessNumbers, GuessNumbersLater
    <3> QED
      BY <1>1, <1>2, <1>3, <2>2, <3>1, <3>2, <3>3, PasswordAssumption DEF OnDisk
  <2>3. CASE q = file.pw /\ CountWrong(t)
    <3>1. Stale' = Stale /\ Restarts' = Restarts
      <4>1. Stale' = Stale
        BY <1>5, <2>3
      <4> QED
        BY <4>1 DEF Restarts, Spare
    <3>2. Cardinality(Stale) < Cardinality(Threads) /\ Restarts \in Nat
      <4>1. t \in Threads \ Stale /\ Threads \in SUBSET Threads
        BY <1>5, <2>3
      <4>2. Cardinality(Stale) + 1 <= Cardinality(Threads)
        BY <4>1, GuessNumbers, SomeThreads
      <4>3. Cardinality(Stale) \in Nat /\ Cardinality(Threads) \in Nat
        BY GuessNumbers, SomeThreads
      <4> QED
        BY <4>2, <4>3, GuessNumbers
    <3>3. Tried(file.pw) <= InARow + Restarts
      BY <1>1, <1>2, <3>2, GuessNumbers DEF OnDisk
    <3>4. FailuresWith(t) = InARow + 1 /\ InARow \in 0 .. MaxFailures - 1
      BY <1>q, <2>3, GuessNumbers DEF FailuresWith, InARow
    <3>5. CASE FailuresWith(t) < MaxFailures
      <4>1. attempts' = [pw |-> q, failures |-> FailuresWith(t)]
        BY <1>q, <2>3, <3>4, <3>5, PasswordAssumption DEF CountWrong
      <4>2. InARow' = FailuresWith(t)
        BY <1>1, <2>3, <4>1 DEF InARow
      <4> QED
        BY <1>1, <1>2, <1>3, <2>3, <3>1, <3>2, <3>3, <3>4, <4>2 DEF OnDisk
    <3>6. CASE FailuresWith(t) >= MaxFailures
      <4>1. attempts'.pw = q /\ holder' = {t}
        BY <1>q, <2>3, <3>6, <3>4, PasswordAssumption DEF CountWrong
      <4>2. InARow + 1 <= MaxFailures
        BY GuessNumbers, PasswordAssumption
      <4> QED
        BY <1>1, <1>2, <1>3, <2>3, <3>1, <3>2, <3>3, <3>4, <4>1, <4>2, PasswordAssumption DEF OnDisk
    <3> QED
      BY <3>4, <3>5, <3>6, PasswordAssumption
  <2>4. CASE q = file.pw /\ CountRight(t)
    <3>1. Tried(file.pw)' = 0
      BY <1>1, <1>3, <2>4
    <3> QED
      BY <2>1, <3>1
  <2>5. CASE q # file.pw /\ Tried(file.pw) = 0
    <3>1. Tried(file.pw)' = Tried(file.pw)
      BY <1>1, <1>2, <1>3, <2>5 DEF Tried
    <3> QED
      BY <2>1, <2>5, <3>1
  <2> QED
    BY <2>2, <2>3, <2>4, <2>5
<1> QED
  BY <1>4, <1>6, <1>7

\* A save that puts another password on disk, or the same one again.
LEMMA Replaced ==
    ASSUME TypeOK, TypeOK', HolderRotates, OnDisk, OffDisk,
           file'.pw = file.pw => UNCHANGED holder,
           file'.pw # file.pw => Tried(file.pw)' = 0,
           \A p \in Passwords \ ({file'.pw} \ {file.pw}) : Tried(p)' = Tried(p),
           UNCHANGED attempts,
           \A t \in Threads : pc'[t] = "checking" => pc[t] = "checking" /\ copy'[t] = copy[t]
    PROVE  OnDisk' /\ OffDisk'
<1>1. /\ file.pw \in Passwords /\ file'.pw \in Passwords
      /\ \A p : Guessing(p) \in SUBSET Threads /\ Guessing(p)' \in SUBSET Guessing(p)
      /\ \A p \in Passwords : Tried(p) \in Nat
  BY GuessNumbers, GuessNumbersLater DEF Guessing
<1>2. CASE file'.pw # file.pw
  <2>1. Tried(file.pw)' = 0 /\ \A p \in Passwords \ {file'.pw} : Tried(p)' = Tried(p)
    BY <1>1, <1>2
  <2>2. OnDisk'
    BY <2>1 DEF OnDisk
  <2>3. ASSUME NEW p \in Passwords, p # file'.pw
        PROVE  Tried(p)' + Cardinality(Guessing(p)') <= GuessLimit
    <3>1. /\ Cardinality(Guessing(p)) \in Nat
          /\ Cardinality(Guessing(p)') \in Nat
          /\ Cardinality(Guessing(p)') <= Cardinality(Guessing(p))
      BY <1>1, SomeThreads
    <3>2. Tried(p) + Cardinality(Guessing(p)) <= GuessLimit
      BY RoomIsLeft DEF OffDisk
    <3> QED
      BY <1>1, <2>1, <2>3, <3>1, <3>2, LimitIsNatural
  <2> QED
    BY <2>2, <2>3 DEF OffDisk
<1>3. CASE file'.pw = file.pw
  <2>1. /\ Stale' \in SUBSET Stale
    BY <1>3 DEF Stale
  <2>2. OnDisk'
    <3>1. CASE Tried(file.pw) = 0
      <4>1. file.pw \in Passwords \ ({file'.pw} \ {file.pw})
        BY <1>1
      <4>2. Tried(file.pw)' = 0
        BY <1>3, <3>1, <4>1 DEF Tried
      <4> QED
        BY <4>2 DEF OnDisk
    <3>2. CASE Tried(file.pw) # 0
      <4>1. /\ Cardinality(Stale) < Cardinality(Threads)
            /\ \/ Tried(file.pw) <= InARow + Restarts
               \/ /\ holder # {} /\ attempts.pw = file.pw
                  /\ Tried(file.pw) <= MaxFailures + Restarts
        BY <3>2 DEF OnDisk
      <4>2. /\ Cardinality(Stale') < Cardinality(Threads)
            /\ Restarts \in Nat /\ Restarts' \in Nat /\ Restarts <= Restarts'
        BY <2>1, <4>1, FewerStale
      <4>3. InARow' = InARow /\ InARow \in Nat
        BY <1>3, GuessNumbers, PasswordAssumption DEF InARow
      <4> QED
        BY <1>1, <1>3, <4>1, <4>2, <4>3, PasswordAssumption DEF OnDisk
    <3> QED
      BY <3>1, <3>2
  <2>3. ASSUME NEW p \in Passwords, p # file'.pw
        PROVE  Tried(p)' + Cardinality(Guessing(p)') <= GuessLimit
    <3>1. /\ Cardinality(Guessing(p)) \in Nat
          /\ Cardinality(Guessing(p)') \in Nat
          /\ Cardinality(Guessing(p)') <= Cardinality(Guessing(p))
      BY <1>1, SomeThreads
    <3>2. Tried(p) + Cardinality(Guessing(p)) <= GuessLimit
      BY <1>3, <2>3 DEF OffDisk
    <3> QED
      BY <1>1, <1>3, <3>1, <3>2, LimitIsNatural
  <2> QED
    BY <2>2, <2>3 DEF OffDisk
<1> QED
  BY <1>2, <1>3

LEMMA InitMakesGInv == Init => GInv
<1> SUFFICES ASSUME Init, ~FilesFail
             PROVE  GInv
  BY DEF GInv
<1>1. TypeOK
  BY InitMakesIInv DEF IInv
<1>2. /\ HolderRotates /\ UndrawnIsUntried /\ OnDisk
      /\ ~cli.config.read_failed /\ \A t \in Threads : ~copy[t].read_failed
  BY <1>1, GuessNumbers DEF Init, HolderRotates, UndrawnIsUntried, OnDisk, Dropped, Tried
<1>3. OffDisk
  <2> SUFFICES ASSUME NEW p \in Passwords
               PROVE  Tried(p) + Cardinality(Guessing(p)) <= GuessLimit
    BY DEF OffDisk
  <2>1. Guessing(p) = {} /\ Tried(p) = 0
    BY DEF Init, Guessing, Tried
  <2> QED
    BY <2>1, FS_EmptySet, LimitIsNatural
<1> QED
  BY <1>2, <1>3 DEF GInv

\* What a save does to the counts: a password that comes to be on disk is new and
\* untried, or has been put back and is spared.
LEMMA SaveKeepsCounts ==
    ASSUME IInv, UndrawnIsUntried, NEW a, NEW config \in Loaded, Save(a, config),
           UNCHANGED wrong
    PROVE  /\ file'.pw # file.pw => Tried(file.pw)' = 0
           /\ \A p \in Passwords \ ({file'.pw} \ {file.pw}) : Tried(p)' = Tried(p)
<1>1. \/ /\ file' = [pw |-> config.pw, perm |-> config.perm]
         /\ spared' = spared \cup PutBack(config.pw)
      \/ file' = file /\ spared' = spared
  BY DEF Save
<1>2. ASSUME file'.pw # file.pw
      PROVE  Tried(file.pw)' = 0
  <2>1. file'.pw = config.pw /\ config.pw \in Passwords /\ drawn \in Nat
    BY <1>1, <1>2, WhatIsDrawn DEF Loaded, IInv
  <2>2. CASE config.pw > drawn
    BY <2>1, <2>2 DEF UndrawnIsUntried, Tried
  <2>3. CASE ~(config.pw > drawn)
    <3>1. config.pw \in PutBack(config.pw)
      BY <1>2, <2>1, <2>3 DEF PutBack, Passwords
    <3>2. config.pw \in spared'
      BY <1>1, <1>2, <3>1
    <3> QED
      BY <2>1, <3>2 DEF Tried
  <2> QED
    BY <2>2, <2>3
<1>3. ASSUME NEW p \in Passwords \ ({file'.pw} \ {file.pw})
      PROVE  Tried(p)' = Tried(p)
  <2>1. p \in spared' <=> p \in spared
    BY <1>1, <1>3 DEF PutBack
  <2> QED
    BY <2>1 DEF Tried
<1> QED
  BY <1>2, <1>3

\* The steps that save the file, when saves do not fail.
LEMMA SavesKeepGInv ==
    ASSUME IInv, IInv', GInv, ~FilesFail,
           \/ \E t \in Threads : RotateSaves(t)
           \/ UiRefreshes \/ CliSaves \/ \E perm \in Perms \cup {NoPerm} : UiSetsPermanent(perm)
    PROVE  GInv'
<1>0. /\ TypeOK /\ TypeOK' /\ HolderRotates /\ UndrawnIsUntried /\ OnDisk /\ OffDisk
      /\ ~cli.config.read_failed /\ \A t \in Threads : ~copy[t].read_failed
  BY DEF IInv, GInv
<1>1. ASSUME NEW t \in Threads, RotateSaves(t)
      PROVE  GInv'
  <2> DEFINE config == [copy[t] EXCEPT !.pw = drawn']
  <2>1. /\ pc[t] = "saving" /\ drawn' = drawn + 1
        /\ Save(t, config)
        /\ pc' \in {[pc EXCEPT ![t] = "idle"], [pc EXCEPT ![t] = "over"]}
        /\ holder' = holder \ {t}
        /\ copy' = [copy EXCEPT ![t] = Dropped]
        /\ UNCHANGED <<attempts, cli, wrong>>
    BY <1>1 DEF RotateSaves, Draw
  <2>2. copy[t] \in Loaded /\ drawn \in Nat /\ file.pw \in Nat /\ file.pw <= drawn
    BY <1>0, WhatIsDrawn DEF TypeOK, IInv
  <2>3. config.pw = drawn' /\ ~config.read_failed
    BY <1>0, <2>2 DEF Loaded
  <2>c. config \in Loaded
    <3>1. drawn' \in Passwords
      BY <1>0 DEF TypeOK
    <3> QED
      BY <2>2, <3>1 DEF Loaded
  <2>4. /\ file'.pw # file.pw
        /\ file'.pw # file.pw => Tried(file.pw)' = 0
        /\ \A p \in Passwords \ ({file'.pw} \ {file.pw}) : Tried(p)' = Tried(p)
    <3>1. file'.pw # file.pw
      BY <2>1, <2>2, <2>3 DEF Save
    <3> HIDE DEF config
    <3> QED
      BY <1>0, <2>1, <2>c, <3>1, SaveKeepsCounts
  <2>5. \A s \in Threads : pc'[s] = "checking" => pc[s] = "checking" /\ copy'[s] = copy[s]
    BY <1>0, <2>1 DEF TypeOK
  <2>6. OnDisk' /\ OffDisk'
    BY <1>0, <2>1, <2>4, <2>5, Replaced
  <2>7. HolderRotates'
    BY <1>0, <2>1 DEF HolderRotates, TypeOK
  <2>8. \A s \in Threads : ~copy'[s].read_failed
    BY <1>0, <2>1 DEF TypeOK, Dropped
  <2>9. UndrawnIsUntried'
    <3>1. \A s \in Threads : copy'[s] \in {copy[s], Dropped}
      BY <1>0, <2>1 DEF TypeOK
    <3>2. Dropped.pw = 1 /\ \A s \in Threads : copy[s].pw \in Nat
      BY WhatIsDrawn DEF Dropped, IInv
    <3>3. 1 <= drawn'
      BY <1>0 DEF TypeOK, Passwords
    <3> QED
      BY <1>0, <2>1, <2>2, <3>1, <3>2, <3>3 DEF UndrawnIsUntried, Passwords
  <2> QED
    BY <1>0, <2>1, <2>6, <2>7, <2>8, <2>9 DEF GInv
<1>2. ASSUME NEW a, NEW config \in Loaded, Save(a, config),
             UNCHANGED <<pc, copy, attempts, holder, wrong>>, ~cli'.config.read_failed,
             drawn <= drawn'
      PROVE  GInv'
  <2>1. /\ file'.pw # file.pw => Tried(file.pw)' = 0
        /\ \A p \in Passwords \ ({file'.pw} \ {file.pw}) : Tried(p)' = Tried(p)
    BY <1>0, <1>2, SaveKeepsCounts
  <2>2. OnDisk' /\ OffDisk'
    BY <1>0, <1>2, <2>1, Replaced
  <2>3. UndrawnIsUntried'
    <3>1. drawn \in Nat /\ drawn' \in Nat /\ \A t \in Threads : copy[t].pw \in Nat
      BY <1>0, WhatIsDrawn DEF IInv, TypeOK, Passwords
    <3> QED
      BY <1>0, <1>2, <3>1 DEF UndrawnIsUntried, Passwords
  <2> QED
    BY <1>0, <1>2, <2>2, <2>3 DEF GInv, HolderRotates
<1>3. drawn \in Nat /\ ui' \in Loaded /\ drawn' \in Passwords
  BY <1>0, WhatIsDrawn DEF IInv, TypeOK
<1>4. CASE UiRefreshes \/ \E perm \in Perms \cup {NoPerm} : UiSetsPermanent(perm)
  <2>1. /\ Save("ui", ui')
        /\ UNCHANGED <<pc, copy, attempts, holder, wrong, cli>>
        /\ drawn' = drawn \/ drawn' = drawn + 1
    BY <1>4 DEF UiRefreshes, UiSetsPermanent, Draw
  <2> QED
    BY <1>0, <1>2, <1>3, <2>1
<1>5. CASE CliSaves
  <2>1. /\ Save("cli", [cli.config EXCEPT !.pw = drawn'])
        /\ UNCHANGED <<pc, copy, attempts, holder, wrong>>
        /\ ~cli'.config.read_failed
        /\ drawn' = drawn + 1
    BY <1>5 DEF CliSaves, Draw, Dropped
  <2>2. [cli.config EXCEPT !.pw = drawn'] \in Loaded
    BY <1>0, <1>3 DEF TypeOK, Loaded
  <2> QED
    BY <1>0, <1>2, <1>3, <2>1, <2>2
<1> QED
  BY <1>1, <1>4, <1>5

\* The steps that count nothing and save nothing.
LEMMA QuietKeepsGInv ==
    ASSUME IInv, IInv', GInv, ~FilesFail, UNCHANGED <<file, attempts>>,
           UNCHANGED <<drawn, wrong>>,
           UNCHANGED cli \/ CliLoads,
           \/ UNCHANGED <<pc, copy, holder, spared>>
           \/ \E t \in Threads : \/ LoginLoads(t) \/ LetInByOwner(t) \/ LaterGateFails(t)
                                 \/ SessionEnds(t) \/ RotationWaived(t) \/ RotateLoads(t)
    PROVE  GInv'
<1>0. /\ TypeOK /\ TypeOK' /\ HolderRotates /\ UndrawnIsUntried /\ OnDisk /\ OffDisk
      /\ ~cli.config.read_failed /\ \A t \in Threads : ~copy[t].read_failed
  BY DEF IInv, GInv
<1>1. ~cli'.config.read_failed
  <2>1. ASSUME CliLoads
        PROVE  ~cli'.config.read_failed
    BY <2>1 DEF CliLoads, Load, AsLoaded
  <2> QED
    BY <1>0, <2>1
<1>2. CASE UNCHANGED <<pc, copy, holder, spared>>
  <2>1. \A p \in Passwords : Tried(p)' = Tried(p)
    BY <1>2 DEF Tried
  <2>2. OnDisk' /\ OffDisk'
    BY <1>0, <1>2, <2>1, NothingCounted
  <2> QED
    BY <1>0, <1>1, <1>2, <2>2 DEF GInv, HolderRotates, UndrawnIsUntried
<1>3. ASSUME NEW t \in Threads,
             \/ LoginLoads(t) \/ LetInByOwner(t) \/ LaterGateFails(t)
             \/ SessionEnds(t) \/ RotationWaived(t) \/ RotateLoads(t)
      PROVE  GInv'
  <2>1. ASSUME LoginLoads(t) \/ RotateLoads(t)
        PROVE  copy' = [copy EXCEPT ![t] = AsLoaded(file)] /\ UNCHANGED <<holder, spared>>
    BY <2>1, Zenon DEF LoginLoads, RotateLoads, Load
  <2>2. ASSUME LetInByOwner(t) \/ LaterGateFails(t) \/ SessionEnds(t) \/ RotationWaived(t)
        PROVE  copy' \in {copy, [copy EXCEPT ![t] = Dropped]}
    BY <2>2, Zenon DEF LetInByOwner, LaterGateFails, SessionEnds, RotationWaived
  <2>3. \/ holder' = holder /\ spared' = spared
        \/ t \in holder /\ holder' = holder \ {t} /\ spared' = spared \cup {attempts.pw}
    <3>1. ASSUME RotationWaived(t)
          PROVE  \/ holder' = holder /\ spared' = spared
                 \/ t \in holder /\ holder' = holder \ {t} /\ spared' = spared \cup {attempts.pw}
      <4>1. t \notin holder => holder \ {t} = holder
        OBVIOUS
      <4> QED
        BY <3>1, <4>1, Zenon DEF RotationWaived
    <3> QED
      BY <1>3, <2>1, <3>1, Zenon DEF LetInByOwner, LaterGateFails, SessionEnds
  <2>5. PICK to \in PCs :
           /\ pc' = [pc EXCEPT ![t] = to]
           /\ to = "checking" => LoginLoads(t)
           /\ t \in holder => to \in {"rotating", "saving"} \/ RotationWaived(t)
    <3>1. t \in holder => pc[t] \in {"rotating", "saving"}
      BY <1>0 DEF HolderRotates
    <3>2. CASE LoginLoads(t)
      BY <3>1, <3>2 DEF LoginLoads, PCs
    <3>3. CASE LetInByOwner(t) \/ LaterGateFails(t) \/ SessionEnds(t)
      BY <3>1, <3>3 DEF LetInByOwner, LaterGateFails, SessionEnds, PCs
    <3>4. CASE RotationWaived(t) \/ RotateLoads(t)
      BY <3>4 DEF RotationWaived, RotateLoads, PCs
    <3> QED
      BY <1>3, <3>2, <3>3, <3>4
  <2>6. /\ \A s \in Threads : ~copy'[s].read_failed
        /\ \A s \in Threads \ {t} : copy'[s] = copy[s] /\ pc'[s] = pc[s]
        /\ LoginLoads(t) => copy'[t].pw = file.pw
    <3>1. ~Dropped.read_failed /\ ~AsLoaded(file).read_failed /\ AsLoaded(file).pw = file.pw
      BY DEF Dropped, AsLoaded
    <3>2. PICK c : copy' \in {copy, [copy EXCEPT ![t] = c]} /\ c \in {Dropped, AsLoaded(file)}
      BY <1>3, <2>1, <2>2
    <3>3. \A s \in Threads : ~copy'[s].read_failed
      BY <1>0, <3>1, <3>2 DEF TypeOK
    <3>4. \A s \in Threads \ {t} : copy'[s] = copy[s] /\ pc'[s] = pc[s]
      BY <1>0, <3>2, <2>5 DEF TypeOK
    <3>5. LoginLoads(t) => copy'[t].pw = file.pw
      BY <1>0, <2>1, <3>1 DEF TypeOK
    <3> QED
      BY <3>3, <3>4, <3>5
  <2>4. OnDisk' /\ OffDisk'
    <3>1. \A s \in Threads :
             pc'[s] = "checking" => \/ copy'[s].pw = file.pw
                                    \/ pc[s] = "checking" /\ copy'[s] = copy[s]
      BY <1>0, <2>5, <2>6 DEF TypeOK
    <3>2. \A p \in Passwords : Tried(p)' \in {Tried(p), 0}
      BY <2>3 DEF Tried
    <3>3. \/ holder' = holder
          \/ attempts.pw = file.pw => Tried(file.pw)' = 0
      BY <2>3 DEF Tried
    <3> QED
      BY <1>0, <3>1, <3>2, <3>3, NothingCounted
  <2>7. HolderRotates'
    <3> SUFFICES ASSUME NEW s \in holder'
                 PROVE  holder' = {s} /\ pc'[s] \in {"rotating", "saving"}
      BY DEF HolderRotates
    <3>1. s \in holder /\ holder = {s} /\ pc[s] \in {"rotating", "saving"}
      BY <1>0, <2>3 DEF HolderRotates
    <3>2. RotationWaived(t) => s # t
      BY DEF RotationWaived
    <3> QED
      BY <1>0, <2>3, <2>5, <2>6, <3>1, <3>2 DEF TypeOK
  <2>8. UndrawnIsUntried'
    <3>1. \A s \in Threads : copy'[s] \in {copy[s], Dropped, AsLoaded(file)}
      BY <1>0, <1>3, <2>1, <2>2 DEF TypeOK
    <3>2. Dropped.pw = 1 /\ AsLoaded(file).pw = file.pw /\ file.pw <= drawn /\ 1 <= drawn
      BY <1>0, WhatIsDrawn DEF Dropped, AsLoaded, IInv, TypeOK, Passwords
    <3> QED
      BY <1>0, <3>1, <3>2 DEF UndrawnIsUntried
  <2> QED
    BY <1>0, <1>1, <2>4, <2>6, <2>7, <2>8 DEF GInv
<1> QED
  BY <1>2, <1>3

LEMMA NextKeepsGInv ==
    ASSUME IInv, IInv', GInv, [Next]_vars
    PROVE  GInv'
<1> SUFFICES ASSUME ~FilesFail
             PROVE  GInv'
  BY DEF GInv
<1>1. ASSUME NEW t \in Threads, CountRight(t) \/ CountWrong(t)
      PROVE  GInv'
  <2>1. HolderRotates' /\ OnDisk' /\ OffDisk'
    BY <1>1, GuessCounted DEF IInv, GInv
  <2>2. UNCHANGED <<cli, drawn>> /\ copy' = [copy EXCEPT ![t] = Dropped]
    BY <1>1 DEF CountRight, CountWrong
  <2>3. UndrawnIsUntried'
    <3>1. /\ UndrawnIsUntried /\ drawn \in Nat /\ 1 <= drawn
          /\ wrong \in [Passwords -> 0 .. GuessLimit + 1]
          /\ copy \in [Threads -> Loaded]
      BY DEF GInv, IInv, TypeOK, Passwords
    <3>2. \A p \in Passwords : p # copy[t].pw => wrong'[p] = wrong[p]
      BY <1>1, <3>1 DEF CountRight, CountWrong, OneMoreWrong
    <3>3. \A p \in Passwords : p > drawn => p # copy[t].pw
      BY <3>1 DEF UndrawnIsUntried, Passwords, Loaded
    <3> QED
      BY <2>2, <3>1, <3>2, <3>3 DEF UndrawnIsUntried, Dropped
  <2> QED
    BY <2>1, <2>2, <2>3 DEF GInv, IInv, TypeOK, Dropped
<1>2. ASSUME NEW t \in Threads,
             \/ LoginLoads(t) \/ LetInByOwner(t) \/ LaterGateFails(t)
             \/ SessionEnds(t) \/ RotationWaived(t) \/ RotateLoads(t)
      PROVE  UNCHANGED <<file, attempts, cli, drawn, wrong>>
  BY <1>2 DEF LoginLoads, LetInByOwner, LaterGateFails, SessionEnds, RotationWaived,
              RotateLoads, Load
<1>3. ASSUME NEW t \in Threads, ThreadStep(t)
      PROVE  GInv'
  BY <1>1, <1>2, <1>3, QuietKeepsGInv, SavesKeepGInv DEF ThreadStep
<1>4. CASE UiSyncs \/ UiStarts \/ ToggleUnattended \/ CliLoads \/ UNCHANGED vars
  <2>1. /\ UNCHANGED <<file, attempts, pc, copy, holder, drawn, wrong, spared>>
        /\ UNCHANGED cli \/ CliLoads
    BY <1>4 DEF UiSyncs, UiStarts, ToggleUnattended, CliLoads, Load, vars
  <2> QED
    BY <2>1, QuietKeepsGInv
<1> QED
  BY <1>3, <1>4, SavesKeepGInv DEF Next, WindowStep

\* However many threads try passwords, rotate them and let go of them, and
\* whatever window and command line write over the file meanwhile: as long as
\* the file can be read and written, a password has not been tried in vain more
\* than GuessLimit times since it was last guessed, unless it was kept for
\* unattended access or put back into the file.  The counter is shared and is
\* counted under its mutex; that it starts anew for a copy that has been replaced
\* costs MaxFailures - 1 guesses for every thread, and no more.
THEOREM GuessLimitHolds ==
    ASSUME ~FilesFail
    PROVE  Spec => []GuessesAreLimited
<1>1. Init => IInv /\ GInv
  BY InitMakesIInv, InitMakesGInv
<1>2. IInv /\ GInv /\ [Next]_vars => IInv' /\ GInv'
  BY NextKeepsIInv, NextKeepsGInv
<1>3. IInv /\ GInv => GuessesAreLimited
  <2> SUFFICES ASSUME IInv, GInv, NEW p \in Passwords \ spared
               PROVE  wrong[p] <= GuessLimit
    BY DEF GuessesAreLimited
  <2>1. TypeOK /\ HolderRotates /\ OnDisk /\ OffDisk
    BY DEF IInv, GInv
  <2>2. Tried(p) + Cardinality(Guessing(p)) <= GuessLimit /\ Tried(p) = wrong[p]
    BY <2>1, RoomIsLeft DEF OffDisk, Tried
  <2>3. wrong[p] \in Nat /\ Cardinality(Guessing(p)) \in Nat
    BY <2>1, GuessNumbers, SomeThreads
  <2> QED
    BY <2>2, <2>3, LimitIsNatural
<1> QED
  BY <1>1, <1>2, <1>3, PTL DEF Spec

=============================================================================
