--------------------------- MODULE ClipboardFiles ---------------------------
(***************************************************************************)
(* Files copied, or dropped, at the viewer and pasted at the host.         *)
(*                                                                         *)
(* The viewer announces that files are on its clipboard, and answers what  *)
(* it is asked about the files that are there when it is asked.  The host  *)
(* asks for their names and then, one question at a time, for the size and *)
(* the content of each, into a new folder; when it has no more to ask the  *)
(* folder goes onto its clipboard.  The state of the host is one for the   *)
(* process, and no answer says which question it is for.                   *)
(*                                                                         *)
(* The stream keeps its order and does not break here.  Content comes in   *)
(* units, one in an answer (MAX_SERVED_RANGE); a unit is as long as the    *)
(* answer about a size, so that each can be taken for the other.           *)
(*                                                                         *)
(* An operator whose name ends in _Slip is a plausible mistake in the      *)
(* definition that follows it; no specification uses it.                   *)
(***************************************************************************)
EXTENDS Integers, SequencesExt

CONSTANTS
    Lists,      \* bound: what may be copied
    MaxSize,    \* bound: what content that is taken for a size may say
    MaxCopies   \* bound: how often the user copies

\* unsafe: a file the host will not have, as for "aux" or "a:b".
Entries == [kind : {"folder", "file", "unsafe"}, size : Nat]

\* What is assumed of the constants; MCSessions checks it.
ClipboardAssumption ==
    /\ Lists \subseteq Seq(Entries) \ {<<>>}
    /\ MaxSize \in Nat
    /\ MaxCopies \in Nat

VARIABLES
    lists,      \* what has been copied; the last is CLIP_FILES
    toHost,     \* what is on its way to the host
    toViewer,   \* what is on its way to the viewer
    enabled,    \* the host's owner lets the clipboard through
    recv,       \* RECV_STATE; NoState is None
    folders,    \* the folders of the host: of which copy, and what is in them
    pasted,     \* the folder on the host's clipboard, 0: none
    disturbed,  \* the copies that met another one, a refusal or a reset
    spoiled     \* the files of a copy that could not be read or written

viewerVars == <<lists>>
hostVars   == <<recv, folders, pasted>>
pastVars   == <<disturbed, spoiled>>
vars == <<lists, toHost, toViewer, enabled, hostVars, pastVars>>

Copies   == 1 .. MaxCopies
Latest   == Len(lists)
IsFile(list, f) == f \in DOMAIN list /\ list[f].kind # "folder"

\* A unit names where it was read; an answer about a size is one, too.
Unit(copy, f, at) == <<copy, f, at>>
NoUnit            == <<0, 0, 0>>
Source(copy, f)   == [i \in 1 .. lists[copy][f].size |-> Unit(copy, f, i)]

NoState == [files |-> <<>>, index |-> 1, offset |-> 0, waiting |-> TRUE, folder |-> 0]

Question(type, f, at)  == [type |-> type, file |-> f, at |-> at]
Answer(type, n, data)  == [type |-> type, number |-> n, data |-> data]

TypeOK ==
    /\ lists \in Seq(Lists) /\ Latest <= MaxCopies
    /\ toHost \in Seq([type : {"List", "Names", "Size", "Data", "No"}, number : Nat,
                       data : Seq(Seq(Nat))])
    /\ toViewer \in Seq([type : {"Names", "Size", "Data"}, file : Nat, at : Nat])
    /\ enabled \in BOOLEAN
    /\ recv \in [files : Seq(Entries), index : Nat \ {0}, offset : Nat, waiting : BOOLEAN,
                 folder : 0 .. Len(folders)]
    /\ recv # NoState => IsFile(recv.files, recv.index)
    /\ \A t \in DOMAIN folders : folders[t].of \in 1 .. Latest
    /\ pasted \in 0 .. Len(folders)
    /\ disturbed \subseteq Copies
    /\ \A x \in spoiled : x[1] \in 1 .. Latest /\ x[2] \in DOMAIN lists[x[1]]

Init ==
    /\ lists = <<>>
    /\ toHost = <<>>
    /\ toViewer = <<>>
    /\ enabled \in BOOLEAN
    /\ recv = NoState
    /\ folders = <<>>
    /\ pasted = 0
    /\ disturbed = {}
    /\ spoiled = {}

-----------------------------------------------------------------------------
(* The viewer. *)

\* No question and no answer is on its way.
Quiet == toHost = <<>> /\ toViewer = <<>>

\* What the clipboard held before is forgotten, whoever still asks for it.
Copy(list) ==
    /\ Latest < MaxCopies
    /\ lists' = Append(lists, list)
    /\ toHost' = Append(toHost, Answer("List", 0, <<>>))
    /\ disturbed' = IF Quiet THEN disturbed ELSE disturbed \cup ({Latest, Latest + 1} \ {0})
    /\ UNCHANGED <<toViewer, enabled, hostVars, spoiled>>

Asked == Head(toViewer)
There == Asked.file \in DOMAIN lists[Latest]

Answers(type, answer) ==
    /\ toViewer # <<>>
    /\ Asked.type = type
    /\ toViewer' = Tail(toViewer)
    /\ toHost' = Append(toHost, answer)
    /\ UNCHANGED <<lists, enabled, hostVars, disturbed>>

AnswersNames == Answers("Names", Answer("Names", Latest, <<>>)) /\ UNCHANGED spoiled

AnswersSize ==
    /\ Answers("Size", IF There THEN Answer("Size", lists[Latest][Asked.file].size, <<>>)
                                ELSE Answer("No", 0, <<>>))
    /\ UNCHANGED spoiled

\* Past the end of a file, and of a folder, the answer is empty, not an error.
AnswersData ==
    LET entry == lists[Latest][Asked.file]
        data  == IF entry.kind # "folder" /\ Asked.at < entry.size
                 THEN <<Unit(Latest, Asked.file, Asked.at + 1)>>
                 ELSE <<>> IN
    /\ Answers("Data", IF There THEN Answer("Data", 0, data) ELSE Answer("No", 0, <<>>))
    /\ UNCHANGED spoiled

\* The file is gone, or shorter than it was.
CannotRead ==
    /\ Answers("Data", Answer("No", 0, <<>>))
    /\ There
    /\ spoiled' = spoiled \cup {<<Latest, Asked.file>>}

-----------------------------------------------------------------------------
(* The host. *)

Heard == Head(toHost)

HostTakes(types) ==
    /\ toHost # <<>>
    /\ Heard.type \in types
    /\ toHost' = Tail(toHost)
    /\ UNCHANGED <<lists, enabled>>

Asks(question) == toViewer' = Append(toViewer, question)

\* While the owner has the clipboard switched off every message is dropped.
HostRefuses ==
    /\ ~enabled
    /\ HostTakes({"List", "Names", "Size", "Data", "No"})
    /\ disturbed' = disturbed \cup {Latest}
    /\ UNCHANGED <<toViewer, hostVars, spoiled>>

HostHearsList ==
    /\ enabled
    /\ HostTakes({"List"})
    /\ Asks(Question("Names", 0, 0))
    /\ UNCHANGED <<hostVars, pastVars>>

FilesAfter(list, i) == {f \in DOMAIN list : f > i /\ IsFile(list, f)}
Lowest(S)           == CHOOSE i \in S : \A j \in S : i <= j

\* A list with one unsafe name is refused as a whole; the state stays as it was.
HostHearsNames ==
    LET list == lists[Heard.number]
        new  == Len(folders) + 1 IN
    /\ enabled
    /\ HostTakes({"Names"})
    /\ IF \E f \in DOMAIN list : list[f].kind = "unsafe"
       THEN UNCHANGED <<toViewer, hostVars>>
       ELSE /\ folders' = Append(folders, [of |-> Heard.number, files |-> <<>>])
            /\ IF FilesAfter(list, 0) = {}
               THEN /\ recv' = NoState
                    /\ pasted' = new
                    /\ UNCHANGED toViewer
               ELSE LET f == Lowest(FilesAfter(list, 0)) IN
                    /\ recv' = [files |-> list, index |-> f, offset |-> 0, waiting |-> TRUE,
                                folder |-> new]
                    /\ Asks(Question("Size", f, 0))
                    /\ UNCHANGED pasted
    /\ UNCHANGED pastVars

\* advance_to_next_file, with the state it is given: at the end the folder goes
\* onto the clipboard, and the state stays.
Advance_Slip(state) ==
    LET rest == FilesAfter(state.files, state.index) IN
    IF rest = {}
    THEN recv' = state /\ pasted' = state.folder /\ UNCHANGED toViewer
    ELSE /\ recv' = [state EXCEPT !.index = Lowest(rest), !.offset = 0]
         /\ Asks(Question("Size", Lowest(rest), 0))
         /\ UNCHANGED pasted
Advance(state) ==
    LET rest == FilesAfter(state.files, state.index) IN
    IF rest = {}
    THEN recv' = state /\ pasted' = state.folder /\ UNCHANGED toViewer
    ELSE /\ recv' = [state EXCEPT !.index = Lowest(rest), !.offset = 0, !.waiting = TRUE]
         /\ Asks(Question("Size", Lowest(rest), 0))
         /\ UNCHANGED pasted

With(files, f, content) ==
    [g \in DOMAIN files \cup {f} |-> IF g = f THEN content ELSE files[g]]
Writes(f, content) ==
    folders' = [folders EXCEPT ![recv.folder].files = With(@, f, content)]

HostHearsContents(types, waiting) ==
    /\ enabled
    /\ recv # NoState
    /\ recv.waiting \in waiting
    /\ HostTakes(types)

\* Answers that come when there is no state.
HostIgnores ==
    /\ enabled
    /\ recv = NoState
    /\ HostTakes({"Size", "Data", "No"})
    /\ UNCHANGED <<toViewer, hostVars, pastVars>>

HostHearsNo_Slip ==
    /\ HostHearsContents({"No"}, BOOLEAN)
    /\ UNCHANGED <<toViewer, hostVars, pastVars>>
HostHearsNo ==
    /\ HostHearsContents({"No"}, BOOLEAN)
    /\ Advance(recv)
    /\ UNCHANGED <<folders, pastVars>>

\* What is taken for the size: the number, what content happens to say, or,
\* when there are no 8 bytes, the size in the list.
SizesHeard ==
    CASE Heard.type = "Size"                   -> {Heard.number}
      [] Heard.type = "Data" /\ Heard.data # <<>> -> 0 .. MaxSize
      [] OTHER                                 -> {recv.files[recv.index].size}

HostHearsSize ==
    /\ HostHearsContents({"Size", "Data"}, {TRUE})
    /\ \E n \in SizesHeard :
        LET state == [recv EXCEPT !.files[recv.index].size = n, !.waiting = FALSE, !.offset = 0] IN
        IF n = 0
        THEN Writes(recv.index, <<>>) /\ Advance(state)
        ELSE /\ recv' = state
             /\ Asks(Question("Data", recv.index, 0))
             /\ UNCHANGED <<folders, pasted>>
    /\ UNCHANGED pastVars

\* The first write empties the file, the others append.
HostHearsData ==
    LET content == IF Heard.type = "Size" THEN <<NoUnit>> ELSE Heard.data
        old     == IF recv.offset = 0 THEN <<>> ELSE folders[recv.folder].files[recv.index]
        state   == [recv EXCEPT !.offset = @ + Len(content)] IN
    /\ HostHearsContents({"Size", "Data"}, {FALSE})
    /\ Writes(recv.index, old \o content)
    /\ IF state.offset >= state.files[state.index].size
       THEN Advance(state)
       ELSE /\ recv' = state
            /\ Asks(Question("Data", recv.index, state.offset))
            /\ UNCHANGED pasted
    /\ UNCHANGED pastVars

HostCannotWrite ==
    /\ HostHearsContents({"Size", "Data"}, {FALSE})
    /\ spoiled' = spoiled \cup {<<folders[recv.folder].of, recv.index>>}
    /\ Advance(recv)
    /\ UNCHANGED <<folders, disturbed>>

\* The owner's switch in the dialog, and the viewer's in its menu.
Toggles ==
    /\ enabled' = ~enabled
    /\ UNCHANGED <<lists, toHost, toViewer, hostVars, pastVars>>

\* Another session ends: reset clears the state of the process.
OtherSessionEnds ==
    /\ recv # NoState
    /\ recv' = NoState
    /\ disturbed' = IF Quiet THEN disturbed ELSE disturbed \cup {Latest}
    /\ UNCHANGED <<lists, toHost, toViewer, enabled, folders, pasted, spoiled>>

-----------------------------------------------------------------------------
ViewerAnswers == AnswersNames \/ AnswersSize \/ AnswersData \/ CannotRead

HostTurn ==
    \/ HostRefuses
    \/ HostHearsList
    \/ HostHearsNames
    \/ HostIgnores
    \/ HostHearsNo
    \/ HostHearsSize
    \/ HostHearsData
    \/ HostCannotWrite

Next ==
    \/ \E list \in Lists : Copy(list)
    \/ ViewerAnswers
    \/ HostTurn
    \/ Toggles
    \/ OtherSessionEnds

Spec == Init /\ [][Next]_vars

\* Both loops read what has arrived.
Fairness == WF_vars(ViewerAnswers) /\ WF_vars(HostTurn)

FairSpec == Spec /\ Fairness

-----------------------------------------------------------------------------
\* What can be pasted at the host is what was copied at the viewer: the last
\* copy but for later ones under way, and every file of it whole, or as much of
\* it as could be read and written; unless copies overlapped, or the owner or
\* another session interfered (clipboard_file.rs, RECV_STATE).
PasteFaithful ==
    pasted # 0 /\ folders[pasted].of \notin disturbed =>
        LET copy == folders[pasted].of
            got  == folders[pasted].files IN
        \A f \in DOMAIN lists[copy] : IsFile(lists[copy], f) =>
            IF <<copy, f>> \in spoiled
            THEN f \in DOMAIN got => IsPrefix(got[f], Source(copy, f))
            ELSE f \in DOMAIN got /\ got[f] = Source(copy, f)

Refused(copy) == copy # 0 /\ \E f \in DOMAIN lists[copy] : lists[copy][f].kind = "unsafe"
CanBePasted(copy) == pasted # 0 /\ folders[pasted].of = copy

\* What was copied can be pasted at the host in the end, files that cannot be
\* read or written among it or not (clipboard_file.rs, advance_to_next_file).
PasteEnds ==
    Latest # 0 ~> CanBePasted(Latest) \/ Latest \in disturbed \/ Refused(Latest)
=============================================================================
