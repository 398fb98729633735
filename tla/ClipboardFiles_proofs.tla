----------------------- MODULE ClipboardFiles_proofs -----------------------
(***************************************************************************)
(* What is pasted is what was copied (PasteFaithful), for every number of  *)
(* copies, every list of files and every size.                             *)
(*                                                                         *)
(* No answer says which question it is for, so that the invariant has to   *)
(* say it: while the latest copy has met nothing, at most one message is   *)
(* on its way (OneAtATime), and what is asked and answered is what the     *)
(* state of the host stands at (Chain); a state an earlier copy has left   *)
(* behind is not touched (OldLeftAlone).                                   *)
(***************************************************************************)
EXTENDS ClipboardFiles, WellFoundedInduction, TLAPS

-----------------------------------------------------------------------------
(* Numbers, sequences, contents.                                               *)

LEMMA LowestIsLowest ==
    ASSUME NEW S \in SUBSET Nat, S # {}
    PROVE  Lowest(S) \in S /\ \A j \in S : Lowest(S) <= j
<1> DEFINE R == OpToRel(<, Nat)
<1>1. IsWellFoundedOn(R, Nat)
  BY NatLessThanWellFounded
<1>2. \A x, y \in Nat : <<y, x>> \in R <=> y < x
  BY DEF OpToRel
<1> HIDE DEF R
<1>3. PICK x \in S : \A y \in S : ~(<<y, x>> \in R)
  BY <1>1, WFMin
<1>4. \A y \in S : ~(y < x)
  BY <1>2, <1>3
<1>5. \A y \in S : x <= y
  BY <1>4
<1> QED
  BY <1>5 DEF Lowest

LEMMA TailOf ==
    ASSUME NEW S, NEW s \in Seq(S), s # <<>>
    PROVE  /\ Head(s) \in S /\ Head(s) = s[1] /\ 1 \in DOMAIN s
           /\ Tail(s) \in Seq(S)
           /\ Len(s) \in Nat \ {0} /\ Len(Tail(s)) = Len(s) - 1
           /\ \A i \in DOMAIN Tail(s) : i + 1 \in DOMAIN s /\ Tail(s)[i] = s[i + 1]
OBVIOUS

LEMMA Appended ==
    ASSUME NEW S, NEW s \in Seq(S), NEW e \in S
    PROVE  /\ Append(s, e) \in Seq(S)
           /\ Len(Append(s, e)) = Len(s) + 1 /\ Len(s) \in Nat
           /\ \A i \in DOMAIN s : i \in DOMAIN Append(s, e) /\ Append(s, e)[i] = s[i]
           /\ Append(s, e)[Len(s) + 1] = e
           /\ DOMAIN Append(s, e) = DOMAIN s \cup {Len(s) + 1}
OBVIOUS

\* What may be in a folder.
Kept == UNION {[D -> Seq(Seq(Nat))] : D \in SUBSET Nat}

LEMMA OneMoreFile ==
    ASSUME NEW g \in Kept, NEW f \in Nat, NEW c \in Seq(Seq(Nat))
    PROVE  With(g, f, c) \in Kept
<1>1. PICK D \in SUBSET Nat : g \in [D -> Seq(Seq(Nat))]
  BY DEF Kept
<1>2. DOMAIN g = D /\ \A x \in D : g[x] \in Seq(Seq(Nat))
  BY <1>1
<1>3. With(g, f, c) \in [D \cup {f} -> Seq(Seq(Nat))]
  BY <1>2 DEF With
<1>4. D \cup {f} \in SUBSET Nat
  BY <1>1
<1> QED
  BY <1>3, <1>4 DEF Kept

LEMMA KeptContent ==
    ASSUME NEW g \in Kept, NEW f \in DOMAIN g
    PROVE  g[f] \in Seq(Seq(Nat))
BY DEF Kept

\* The first n units of a file.
Part(copy, f, n) == [i \in 1 .. n |-> Unit(copy, f, i)]

LEMMA UnitType ==
    ASSUME NEW copy \in Nat, NEW f \in Nat, NEW n \in Nat
    PROVE  /\ Unit(copy, f, n) \in Seq(Nat)
           /\ <<Unit(copy, f, n)>> \in Seq(Seq(Nat)) /\ Len(<<Unit(copy, f, n)>>) = 1
<1>1. Unit(copy, f, n) \in Seq(Nat)
  BY DEF Unit
<1> QED
  BY <1>1

LEMMA PartsAreContent ==
    ASSUME NEW copy \in Nat, NEW f \in Nat, NEW n \in Nat
    PROVE  /\ Part(copy, f, n) \in Seq(Seq(Nat)) /\ Len(Part(copy, f, n)) = n
           /\ Part(copy, f, n) \o <<Unit(copy, f, n + 1)>> = Part(copy, f, n + 1)
<1>1. \A i \in Nat : Unit(copy, f, i) \in Seq(Nat)
  BY UnitType
<1>2. Part(copy, f, n) \in Seq(Seq(Nat)) /\ Len(Part(copy, f, n)) = n
  BY <1>1 DEF Part
<1>3. Part(copy, f, n + 1) \in Seq(Seq(Nat)) /\ Len(Part(copy, f, n + 1)) = n + 1
  BY <1>1 DEF Part
<1>4. \A i \in 1 .. n : Part(copy, f, n)[i] = Part(copy, f, n + 1)[i]
  BY DEF Part
<1>5. Part(copy, f, n + 1)[n + 1] = Unit(copy, f, n + 1)
  BY DEF Part
<1> DEFINE p == Part(copy, f, n)
           q == Part(copy, f, n + 1)
           u == Unit(copy, f, n + 1)
<1>6. p \in Seq(Seq(Nat)) /\ Len(p) = n /\ q \in Seq(Seq(Nat)) /\ Len(q) = n + 1
  BY <1>2, <1>3
<1>7. u \in Seq(Nat) /\ q[n + 1] = u /\ \A i \in 1 .. n : p[i] = q[i]
  BY <1>1, <1>4, <1>5
<1> HIDE DEF p, q, u
<1>8. p \o <<u>> \in Seq(Seq(Nat)) /\ Len(p \o <<u>>) = n + 1
  BY <1>6, <1>7
<1>9. \A i \in 1 .. n + 1 : (p \o <<u>>)[i] = q[i]
  BY <1>6, <1>7
<1>10. p \o <<u>> = q
  BY <1>6, <1>8, <1>9
<1> QED
  BY <1>2, <1>10 DEF p, q, u

LEMMA PartsArePrefixes ==
    ASSUME NEW copy \in Nat, NEW f \in Nat, NEW n \in Nat, NEW m \in Nat, n <= m
    PROVE  IsPrefix(Part(copy, f, n), Part(copy, f, m))
<1> DEFINE p == Part(copy, f, n)
           q == Part(copy, f, m)
<1>1. p \in Seq(Seq(Nat)) /\ Len(p) = n /\ q \in Seq(Seq(Nat)) /\ Len(q) = m
  BY PartsAreContent
<1>2. \A i \in 1 .. n : p[i] = q[i]
  BY DEF Part
<1> HIDE DEF p, q
<1>3. /\ SubSeq(p, 1, n) \in Seq(Seq(Nat)) /\ Len(SubSeq(p, 1, n)) = n
      /\ \A i \in 1 .. n : SubSeq(p, 1, n)[i] = p[i]
  BY <1>1
<1>4. /\ SubSeq(q, 1, n) \in Seq(Seq(Nat)) /\ Len(SubSeq(q, 1, n)) = n
      /\ \A i \in 1 .. n : SubSeq(q, 1, n)[i] = q[i]
  BY <1>1
<1>5. SubSeq(p, 1, n) = SubSeq(q, 1, n)
  BY <1>2, <1>3, <1>4
<1>6. IsPrefix(p, q)
  BY <1>1, <1>5 DEF IsPrefix
<1> QED
  BY <1>6 DEF p, q

-----------------------------------------------------------------------------
(* Types, and what the state of the host is about.                             *)

Mail      == [type : {"List", "Names", "Size", "Data", "No"}, number : Nat,
              data : Seq(Seq(Nat))]
Questions == [type : {"Names", "Size", "Data"}, file : Nat, at : Nat]
Folder    == [of : Nat, files : Kept]
States    == [files : Seq(Entries), index : Nat \ {0}, offset : Nat, waiting : BOOLEAN,
              folder : Nat]

Types == TypeOK /\ folders \in Seq(Folder)

\* A state has a folder, for a copy with the same names, and a file of it to ask
\* about; when some of it has been written, it is there.
Shaped(s, dirs, all) ==
    /\ s \in States
    /\ s.folder \in DOMAIN dirs
    /\ IsFile(s.files, s.index)
    /\ DOMAIN s.files = DOMAIN all[dirs[s.folder].of]
    /\ \A f \in DOMAIN s.files : s.files[f].kind = all[dirs[s.folder].of][f].kind
    /\ s.offset > 0 => ~s.waiting /\ s.index \in DOMAIN dirs[s.folder].files

Shape == recv # NoState => Shaped(recv, folders, lists)

\* Nothing is on its way before something has been copied.
SomethingCopied == toHost # <<>> \/ toViewer # <<>> => Latest # 0

\* The names that are on their way are those of a copy.
NamesAreCopies ==
    \A i \in DOMAIN toHost : toHost[i].type = "Names" =>
        /\ toHost[i].number \in 1 .. Latest
        /\ toHost[i].number # Latest => {toHost[i].number, Latest} \subseteq disturbed

Base == Types /\ Shape /\ SomethingCopied /\ NamesAreCopies

LEMMA TypeFacts ==
    ASSUME ClipboardAssumption, Types
    PROVE  /\ lists \in Seq(Lists) /\ Latest \in Nat /\ Latest <= MaxCopies /\ MaxCopies \in Nat
           /\ \A c \in 1 .. Latest : lists[c] \in Seq(Entries)
           /\ toHost \in Seq(Mail) /\ toViewer \in Seq(Questions)
           /\ recv \in States
           /\ folders \in Seq(Folder) /\ Len(folders) \in Nat
           /\ \A t \in DOMAIN folders : folders[t] \in Folder
BY DEF ClipboardAssumption, Types, TypeOK, Mail, Questions, States, Latest

LEMMA EntryTypes ==
    ASSUME NEW list \in Seq(Entries), NEW f \in DOMAIN list
    PROVE  f \in Nat \ {0} /\ list[f] \in Entries /\ list[f].size \in Nat
<1>1. f \in Nat \ {0} /\ list[f] \in Entries
  OBVIOUS
<1>2. \A e \in Entries : e.size \in Nat
  BY DEF Entries
<1> QED
  BY <1>1, <1>2

LEMMA AfterTypes ==
    ASSUME NEW list \in Seq(Entries), NEW i \in Nat, FilesAfter(list, i) # {}
    PROVE  LET g == Lowest(FilesAfter(list, i)) IN
           /\ g \in Nat \ {0} /\ g > i /\ IsFile(list, g)
           /\ \A f \in Nat : IsFile(list, f) /\ f > i => g <= f
<1>1. FilesAfter(list, i) \in SUBSET Nat
  BY DEF FilesAfter
<1>2. /\ Lowest(FilesAfter(list, i)) \in FilesAfter(list, i)
      /\ \A j \in FilesAfter(list, i) : Lowest(FilesAfter(list, i)) <= j
  BY <1>1, LowestIsLowest
<1>3. \A f \in Nat : IsFile(list, f) /\ f > i => f \in FilesAfter(list, i)
  BY DEF FilesAfter, IsFile
<1>4. \A f \in FilesAfter(list, i) : f \in Nat \ {0} /\ f > i /\ IsFile(list, f)
  BY DEF FilesAfter
<1> QED
  BY <1>2, <1>3, <1>4

\* advance_to_next_file: the folder is done, or the next file is asked for.
Finished(s) ==
    /\ \A f \in Nat : IsFile(s.files, f) => f <= s.index
    /\ recv' = s
    /\ pasted' = s.folder
    /\ UNCHANGED toViewer

MovesTo(s, g) ==
    /\ g > s.index /\ IsFile(s.files, g)
    /\ \A f \in Nat : IsFile(s.files, f) /\ f > s.index => g <= f
    /\ recv' = [files |-> s.files, index |-> g, offset |-> 0, waiting |-> TRUE,
                folder |-> s.folder]
    /\ toViewer' = Append(toViewer, Question("Size", g, 0))
    /\ UNCHANGED pasted

LEMMA AdvanceEffect ==
    ASSUME NEW s \in States, Advance(s)
    PROVE  Finished(s) \/ \E g \in Nat \ {0} : MovesTo(s, g)
<1>1. s.files \in Seq(Entries) /\ s.index \in Nat
  BY DEF States
<1>2. CASE FilesAfter(s.files, s.index) = {}
  <2>1. \A f \in Nat : IsFile(s.files, f) => f <= s.index
    BY <1>1, <1>2 DEF FilesAfter, IsFile
  <2> QED
    BY <1>2, <2>1 DEF Advance, Finished
<1>3. CASE FilesAfter(s.files, s.index) # {}
  <2> DEFINE g == Lowest(FilesAfter(s.files, s.index))
  <2>1. /\ g \in Nat \ {0} /\ g > s.index /\ IsFile(s.files, g)
        /\ \A f \in Nat : IsFile(s.files, f) /\ f > s.index => g <= f
    BY <1>1, <1>3, AfterTypes
  <2>2. /\ recv' = [s EXCEPT !.index = g, !.offset = 0, !.waiting = TRUE]
        /\ toViewer' = Append(toViewer, Question("Size", g, 0))
        /\ UNCHANGED pasted
    BY <1>3 DEF Advance, Asks
  <2> HIDE DEF g
  <2>3. recv' = [files |-> s.files, index |-> g, offset |-> 0, waiting |-> TRUE,
                 folder |-> s.folder]
    BY <2>2 DEF States
  <2> QED
    BY <2>1, <2>2, <2>3 DEF MovesTo
<1> QED
  BY <1>2, <1>3

LEMMA AdvanceKeepsShape ==
    ASSUME NEW s, NEW dirs, NEW all, Shaped(s, dirs, all), Advance(s),
           toViewer \in Seq(Questions)
    PROVE  /\ Shaped(recv', dirs, all)
           /\ recv'.folder = s.folder
           /\ toViewer' \in Seq(Questions)
           /\ pasted' \in {pasted, s.folder}
<1>1. s \in States
  BY DEF Shaped
<1>2. CASE Finished(s)
  BY <1>2 DEF Finished
<1>3. ASSUME NEW g \in Nat \ {0}, MovesTo(s, g)
      PROVE  /\ Shaped(recv', dirs, all)
             /\ recv'.folder = s.folder
             /\ toViewer' \in Seq(Questions)
             /\ pasted' \in {pasted, s.folder}
  <2>1. recv' \in States /\ recv'.folder = s.folder /\ recv'.files = s.files
        /\ recv'.index = g /\ recv'.offset = 0
    BY <1>1, <1>3 DEF MovesTo, States
  <2>2. Shaped(recv', dirs, all)
    BY <1>3, <2>1 DEF Shaped, MovesTo
  <2>3. Question("Size", g, 0) \in Questions
    BY DEF Question, Questions
  <2>4. toViewer' \in Seq(Questions)
    BY <1>3, <2>3, Appended DEF MovesTo
  <2> QED
    BY <1>3, <2>1, <2>2, <2>4 DEF MovesTo
<1> QED
  BY <1>1, <1>2, <1>3, AdvanceEffect

-----------------------------------------------------------------------------
(* Every action keeps the types and the shape.                                 *)

LEMMA InitBase ==
    ASSUME ClipboardAssumption, Init
    PROVE  Base
<1>1. NoState \in [files : Seq(Entries), index : Nat \ {0}, offset : Nat, waiting : BOOLEAN,
                   folder : 0 .. 0]
  BY DEF NoState
<1>2. Types
  BY <1>1 DEF Init, Types, TypeOK, ClipboardAssumption, Latest
<1> QED
  BY <1>2 DEF Init, Base, Shape, SomethingCopied, NamesAreCopies

LEMMA CopyBase ==
    ASSUME ClipboardAssumption, Base, NEW list \in Lists, Copy(list)
    PROVE  Base'
<1> USE DEF Base
<1>1. /\ lists' \in Seq(Lists) /\ Latest' = Latest + 1 /\ Latest \in Nat /\ Latest' <= MaxCopies
      /\ MaxCopies \in Nat
      /\ \A c \in 1 .. Latest : c \in 1 .. Latest' /\ lists'[c] = lists[c]
  BY TypeFacts DEF Copy, Latest
<1>2. Answer("List", 0, <<>>) \in Mail
  BY DEF Answer, Mail
<1>3. /\ toHost' \in Seq(Mail)
      /\ \A i \in DOMAIN toHost' : toHost'[i].type = "Names" =>
            i \in DOMAIN toHost /\ toHost'[i] = toHost[i]
  BY <1>2, TypeFacts, Appended DEF Copy, Answer
<1>4. disturbed' \subseteq Copies
  BY <1>1, TypeFacts DEF Copy, Copies, Types, TypeOK
<1>5. UNCHANGED <<toViewer, enabled, recv, folders, pasted, spoiled>>
  BY DEF Copy, hostVars
<1>6. \A t \in DOMAIN folders : folders[t].of \in 1 .. Latest
  BY DEF Types, TypeOK
<1>7. \A x \in spoiled : x[1] \in 1 .. Latest /\ x[2] \in DOMAIN lists[x[1]]
  BY DEF Types, TypeOK
<1>8. Types'
  <2>1. \A t \in DOMAIN folders' : folders'[t].of \in 1 .. Latest'
    BY <1>1, <1>5, <1>6
  <2>2. \A x \in spoiled' : x[1] \in 1 .. Latest' /\ x[2] \in DOMAIN lists'[x[1]]
    BY <1>1, <1>5, <1>7
  <2> QED
    BY <1>1, <1>3, <1>4, <1>5, <2>1, <2>2 DEF Types, TypeOK, Mail
<1>9. Shape'
  <2> SUFFICES ASSUME recv # NoState PROVE Shaped(recv, folders, lists')
    BY <1>5 DEF Shape
  <2>1. Shaped(recv, folders, lists)
    BY DEF Shape
  <2>2. lists'[folders[recv.folder].of] = lists[folders[recv.folder].of]
    BY <1>1, <1>6, <2>1 DEF Shaped
  <2> QED
    BY <2>1, <2>2 DEF Shaped
<1>10. NamesAreCopies'
  <2> SUFFICES ASSUME NEW i \in DOMAIN toHost', toHost'[i].type = "Names"
               PROVE  /\ toHost'[i].number \in 1 .. Latest'
                      /\ {toHost'[i].number, Latest'} \subseteq disturbed'
    BY DEF NamesAreCopies
  <2>1. i \in DOMAIN toHost /\ toHost'[i] = toHost[i]
    BY <1>3
  <2>2. /\ toHost[i].number \in 1 .. Latest
        /\ toHost[i].number # Latest => toHost[i].number \in disturbed
    BY <2>1 DEF NamesAreCopies
  <2>3. disturbed' = disturbed \cup {Latest, Latest + 1}
    BY <2>1, <2>2, <1>1 DEF Copy, Quiet
  <2> QED
    BY <1>1, <2>1, <2>2, <2>3
<1>11. SomethingCopied'
  BY <1>1 DEF SomethingCopied
<1> QED
  BY <1>8, <1>9, <1>10, <1>11

LEMMA AnswersBase ==
    ASSUME ClipboardAssumption, Base, NEW type, NEW answer \in Mail, Answers(type, answer),
           answer.type = "Names" => answer.number = Latest,
           \A x \in spoiled' : x[1] \in 1 .. Latest /\ x[2] \in DOMAIN lists[x[1]]
    PROVE  Base'
<1> USE DEF Base
<1>1. /\ toViewer # <<>> /\ toViewer' = Tail(toViewer) /\ toHost' = Append(toHost, answer)
      /\ UNCHANGED <<lists, enabled, recv, folders, pasted, disturbed>> /\ Latest' = Latest
  BY DEF Answers, hostVars, Latest
<1>2. Latest \in 1 .. Latest
  BY <1>1, TypeFacts DEF SomethingCopied
<1>3. toViewer' \in Seq(Questions) /\ toHost' \in Seq(Mail)
  BY <1>1, TypeFacts, TailOf, Appended
<1>4. Types'
  BY <1>1, <1>3 DEF Types, TypeOK, Questions, Mail
<1>5. Shape'
  BY <1>1 DEF Shape
<1>6. NamesAreCopies'
  <2> SUFFICES ASSUME NEW i \in DOMAIN toHost', toHost'[i].type = "Names"
               PROVE  /\ toHost'[i].number \in 1 .. Latest
                      /\ toHost'[i].number # Latest
                            => {toHost'[i].number, Latest} \subseteq disturbed
    BY <1>1 DEF NamesAreCopies
  <2>1. \/ i \in DOMAIN toHost /\ toHost'[i] = toHost[i]
        \/ toHost'[i] = answer
    BY <1>1, TypeFacts, Appended
  <2>2. CASE i \in DOMAIN toHost /\ toHost'[i] = toHost[i]
    BY <2>2 DEF NamesAreCopies
  <2>3. CASE toHost'[i] = answer
    BY <2>3, <1>2
  <2> QED
    BY <2>1, <2>2, <2>3
<1>7. SomethingCopied'
  BY <1>1, <1>2 DEF SomethingCopied
<1> QED
  BY <1>4, <1>5, <1>6, <1>7

\* What the viewer answers about content.
AnswerIsMail ==
    \A n \in Nat, d \in Seq(Seq(Nat)) :
        /\ Answer("Size", n, d) \in Mail /\ Answer("Size", n, d).type = "Size"
        /\ Answer("Data", n, d) \in Mail /\ Answer("Data", n, d).type = "Data"
        /\ Answer("No", n, d) \in Mail /\ Answer("No", n, d).type = "No"

LEMMA AnswersAreMail == AnswerIsMail
BY DEF AnswerIsMail, Answer, Mail

LEMMA NamesAreMail ==
    ASSUME NEW n \in Nat
    PROVE  /\ Answer("Names", n, <<>>) \in Mail
           /\ Answer("Names", n, <<>>).type = "Names" /\ Answer("Names", n, <<>>).number = n
BY DEF Answer, Mail

LEMMA AskedTypes ==
    ASSUME ClipboardAssumption, Base, toViewer # <<>>
    PROVE  /\ Asked \in Questions /\ Asked.file \in Nat /\ Asked.at \in Nat
           /\ Asked = toViewer[1] /\ 1 \in DOMAIN toViewer
           /\ Latest \in 1 .. Latest /\ lists[Latest] \in Seq(Entries)
<1>1. toViewer \in Seq(Questions)
  BY TypeFacts DEF Base
<1>2. Asked \in Questions /\ Asked = toViewer[1] /\ 1 \in DOMAIN toViewer
  BY <1>1, TailOf DEF Asked
<1>3. \A q \in Questions : q.file \in Nat /\ q.at \in Nat
  BY DEF Questions
<1>4. Latest \in 1 .. Latest
  BY TypeFacts DEF Base, SomethingCopied
<1> QED
  BY <1>2, <1>3, <1>4, TypeFacts DEF Base

LEMMA ViewerBase ==
    ASSUME ClipboardAssumption, Base, ViewerAnswers
    PROVE  Base'
<1>1. \A x \in spoiled : x[1] \in 1 .. Latest /\ x[2] \in DOMAIN lists[x[1]]
  BY DEF Base, Types, TypeOK
<1>2. <<>> \in Seq(Seq(Nat)) /\ 0 \in Nat
  OBVIOUS
<1>3. toViewer # <<>>
  BY DEF ViewerAnswers, AnswersNames, AnswersSize, AnswersData, CannotRead, Answers
<1>4. Latest \in Nat
  BY TypeFacts DEF Base
<1>5. CASE AnswersNames
  <2>1. Answers("Names", Answer("Names", Latest, <<>>)) /\ spoiled' = spoiled
    BY <1>5 DEF AnswersNames
  <2>2. /\ Answer("Names", Latest, <<>>) \in Mail
        /\ Answer("Names", Latest, <<>>).number = Latest
    BY <1>4, NamesAreMail
  <2> QED
    BY <1>1, <2>1, <2>2, AnswersBase
<1>6. CASE AnswersSize
  <2> DEFINE answer == IF There THEN Answer("Size", lists[Latest][Asked.file].size, <<>>)
                                ELSE Answer("No", 0, <<>>)
  <2>1. Answers("Size", answer) /\ spoiled' = spoiled
    BY <1>6 DEF AnswersSize
  <2>2. There => lists[Latest][Asked.file].size \in Nat
    BY <1>3, AskedTypes, EntryTypes DEF There
  <2>3. answer \in Mail /\ answer.type # "Names"
    BY <1>2, <2>2, AnswersAreMail DEF AnswerIsMail
  <2> HIDE DEF answer
  <2> QED
    BY <1>1, <2>1, <2>3, AnswersBase
<1>7. CASE AnswersData
  <2> DEFINE entry  == lists[Latest][Asked.file]
             data   == IF entry.kind # "folder" /\ Asked.at < entry.size
                       THEN <<Unit(Latest, Asked.file, Asked.at + 1)>> ELSE <<>>
             answer == IF There THEN Answer("Data", 0, data) ELSE Answer("No", 0, <<>>)
  <2>1. Answers("Data", answer) /\ spoiled' = spoiled
    BY <1>7 DEF AnswersData
  <2>2. <<Unit(Latest, Asked.file, Asked.at + 1)>> \in Seq(Seq(Nat))
    <3>1. Asked.file \in Nat /\ Asked.at \in Nat
      BY <1>3, AskedTypes
    <3>2. Asked.at + 1 \in Nat
      BY <3>1
    <3> QED
      BY <1>4, <3>1, <3>2, UnitType
  <2>3. data \in Seq(Seq(Nat))
    BY <1>2, <2>2
  <2> HIDE DEF data
  <2>4. answer \in Mail /\ answer.type # "Names"
    BY <1>2, <2>3, AnswersAreMail DEF AnswerIsMail
  <2> HIDE DEF answer
  <2> QED
    BY <1>1, <2>1, <2>4, AnswersBase
<1>8. CASE CannotRead
  <2>1. Answers("Data", Answer("No", 0, <<>>)) /\ There
        /\ spoiled' = spoiled \cup {<<Latest, Asked.file>>}
    BY <1>8 DEF CannotRead
  <2>2. Answer("No", 0, <<>>) \in Mail /\ Answer("No", 0, <<>>).type # "Names"
    BY <1>2, AnswersAreMail DEF AnswerIsMail
  <2>3. \A x \in spoiled' : x[1] \in 1 .. Latest /\ x[2] \in DOMAIN lists[x[1]]
    BY <1>1, <1>3, <2>1, AskedTypes DEF There
  <2> QED
    BY <2>1, <2>2, <2>3, AnswersBase
<1> QED
  BY <1>5, <1>6, <1>7, <1>8 DEF ViewerAnswers

LEMMA HostTakesKeeps ==
    ASSUME ClipboardAssumption, Base, NEW types, HostTakes(types), disturbed \subseteq disturbed'
    PROVE  /\ toHost # <<>> /\ toHost' \in Seq(Mail) /\ UNCHANGED <<lists, enabled>>
           /\ Latest' = Latest /\ Latest \in 1 .. MaxCopies
           /\ Heard \in Mail /\ Heard = toHost[1] /\ 1 \in DOMAIN toHost /\ Heard.type \in types
           /\ NamesAreCopies' /\ SomethingCopied'
<1> USE DEF Base
<1>1. /\ toHost # <<>> /\ toHost' = Tail(toHost) /\ UNCHANGED <<lists, enabled>>
      /\ Heard.type \in types
  BY DEF HostTakes
<1>2. Latest' = Latest
  BY <1>1 DEF Latest
<1>3. /\ toHost' \in Seq(Mail)
      /\ \A i \in DOMAIN toHost' : i + 1 \in DOMAIN toHost /\ toHost'[i] = toHost[i + 1]
      /\ Heard \in Mail /\ Heard = toHost[1] /\ 1 \in DOMAIN toHost
  BY <1>1, TypeFacts, TailOf DEF Heard
<1>4. Latest \in 1 .. MaxCopies
  BY <1>1, TypeFacts DEF SomethingCopied
<1>5. NamesAreCopies'
  BY <1>2, <1>3 DEF NamesAreCopies
<1>6. SomethingCopied'
  BY <1>2, <1>4 DEF SomethingCopied
<1> QED
  BY <1>1, <1>2, <1>3, <1>4, <1>5, <1>6

\* What is left to show of a step of the host.
LEMMA HostBase ==
    ASSUME ClipboardAssumption, Base, NEW types, HostTakes(types),
           disturbed \subseteq disturbed', disturbed' \subseteq disturbed \cup {Latest},
           toViewer' \in Seq(Questions),
           folders' \in Seq(Folder), \A t \in DOMAIN folders' : folders'[t].of \in 1 .. Latest,
           pasted' \in 0 .. Len(folders'),
           \A x \in spoiled' : x[1] \in 1 .. Latest /\ x[2] \in DOMAIN lists[x[1]],
           recv' = NoState \/ Shaped(recv', folders', lists)
    PROVE  Base'
<1>1. /\ toHost' \in Seq(Mail) /\ UNCHANGED <<lists, enabled>>
      /\ Latest' = Latest /\ Latest \in 1 .. MaxCopies
      /\ NamesAreCopies' /\ SomethingCopied'
  BY HostTakesKeeps
<1>2. disturbed' \subseteq Copies
  BY <1>1 DEF Base, Types, TypeOK, Copies
<1>3. Shape'
  BY <1>1 DEF Shape
<1>4. /\ recv' \in [files : Seq(Entries), index : Nat \ {0}, offset : Nat, waiting : BOOLEAN,
                    folder : 0 .. Len(folders')]
      /\ recv' # NoState => IsFile(recv'.files, recv'.index)
  <2>1. Len(folders') \in Nat /\ DOMAIN folders' = 1 .. Len(folders')
    OBVIOUS
  <2>2. CASE recv' = NoState
    BY <2>1, <2>2 DEF NoState
  <2>3. CASE Shaped(recv', folders', lists)
    BY <2>1, <2>3 DEF Shaped, States
  <2> QED
    BY <2>2, <2>3
<1>5. Types'
  <2>1. /\ lists' \in Seq(Lists) /\ Latest' <= MaxCopies /\ enabled' \in BOOLEAN
    BY <1>1 DEF Base, Types, TypeOK
  <2>2. \A t \in DOMAIN folders' : folders'[t].of \in 1 .. Latest'
    BY <1>1
  <2>3. \A x \in spoiled' : x[1] \in 1 .. Latest' /\ x[2] \in DOMAIN lists'[x[1]]
    BY <1>1
  <2> QED
    BY <1>1, <1>2, <1>4, <2>1, <2>2, <2>3 DEF Types, TypeOK, Mail, Questions
<1> QED
  BY <1>1, <1>3, <1>5 DEF Base

LEMMA OldFolders ==
    ASSUME ClipboardAssumption, Base
    PROVE  /\ folders \in Seq(Folder) /\ \A t \in DOMAIN folders : folders[t].of \in 1 .. Latest
           /\ \A t \in DOMAIN folders : folders[t] \in Folder /\ folders[t].files \in Kept
           /\ DOMAIN folders = 1 .. Len(folders) /\ Len(folders) \in Nat
           /\ pasted \in 0 .. Len(folders)
           /\ \A x \in spoiled : x[1] \in 1 .. Latest /\ x[2] \in DOMAIN lists[x[1]]
           /\ recv = NoState \/ Shaped(recv, folders, lists)
           /\ toViewer \in Seq(Questions)
<1>1. \A x \in Folder : x.files \in Kept
  BY DEF Folder
<1> QED
  BY <1>1, TypeFacts DEF Base, Types, TypeOK, Shape

\* Steps of the host that leave its own state alone.
LEMMA HostAloneBase ==
    ASSUME ClipboardAssumption, Base,
           HostRefuses \/ HostHearsList \/ HostIgnores
    PROVE  Base'
<1>1. CASE HostRefuses \/ HostIgnores
  <2>1. PICK types : HostTakes(types)
    BY <1>1 DEF HostRefuses, HostIgnores
  <2>2. /\ UNCHANGED <<toViewer, recv, folders, pasted, spoiled>>
        /\ disturbed \subseteq disturbed' /\ disturbed' \subseteq disturbed \cup {Latest}
    BY <1>1 DEF HostRefuses, HostIgnores, hostVars, pastVars
  <2> QED
    BY <2>1, <2>2, OldFolders, HostBase
<1>2. CASE HostHearsList
  <2>1. /\ HostTakes({"List"}) /\ UNCHANGED <<recv, folders, pasted, disturbed, spoiled>>
        /\ toViewer' = Append(toViewer, Question("Names", 0, 0))
    BY <1>2 DEF HostHearsList, Asks, hostVars, pastVars
  <2>2. Question("Names", 0, 0) \in Questions
    BY DEF Question, Questions
  <2>3. toViewer' \in Seq(Questions)
    BY <2>1, <2>2, OldFolders, Appended
  <2> QED
    BY <2>1, <2>3, OldFolders, HostBase
<1> QED
  BY <1>1, <1>2

\* The names of a copy: nothing of it can be had, there is nothing to ask for, or
\* the first file is asked for.
NamesRefused ==
    UNCHANGED <<recv, folders, pasted, toViewer>>

NamesEmpty ==
    LET new == Len(folders) + 1 IN
    /\ folders' = Append(folders, [of |-> Heard.number, files |-> <<>>])
    /\ \A f \in Nat : ~IsFile(lists[Heard.number], f)
    /\ recv' = NoState /\ pasted' = new /\ UNCHANGED toViewer

NamesBegin(f) ==
    LET new == Len(folders) + 1 IN
    /\ folders' = Append(folders, [of |-> Heard.number, files |-> <<>>])
    /\ IsFile(lists[Heard.number], f)
    /\ \A g \in Nat : IsFile(lists[Heard.number], g) => f <= g
    /\ recv' = [files |-> lists[Heard.number], index |-> f, offset |-> 0, waiting |-> TRUE,
                folder |-> new]
    /\ toViewer' = Append(toViewer, Question("Size", f, 0))
    /\ UNCHANGED pasted

LEMMA NamesEffect ==
    ASSUME ClipboardAssumption, Base, HostHearsNames
    PROVE  /\ HostTakes({"Names"}) /\ UNCHANGED <<disturbed, spoiled>>
           /\ Heard.number \in 1 .. Latest
           /\ lists[Heard.number] \in Seq(Entries)
           /\ [of |-> Heard.number, files |-> <<>>] \in Folder
           /\ NamesRefused \/ NamesEmpty \/ \E f \in Nat \ {0} : NamesBegin(f)
<1> DEFINE list == lists[Heard.number]
<1>1. /\ HostTakes({"Names"}) /\ UNCHANGED <<disturbed, spoiled>>
  BY DEF HostHearsNames, pastVars
<1>2. Heard = toHost[1] /\ 1 \in DOMAIN toHost /\ Heard.type = "Names"
  BY <1>1, HostTakesKeeps
<1>3. Heard.number \in 1 .. Latest
  BY <1>2 DEF Base, NamesAreCopies
<1>4. list \in Seq(Entries)
  BY <1>3, TypeFacts DEF Base
<1>5. <<>> \in Kept
  <2>1. <<>> \in [{} -> Seq(Seq(Nat))]
    OBVIOUS
  <2> QED
    BY <2>1 DEF Kept
<1>6. [of |-> Heard.number, files |-> <<>>] \in Folder
  BY <1>3, <1>5, TypeFacts DEF Folder, Base
<1>7. CASE \E f \in DOMAIN list : list[f].kind = "unsafe"
  BY <1>1, <1>3, <1>4, <1>6, <1>7 DEF HostHearsNames, NamesRefused, hostVars
<1>8. CASE ~(\E f \in DOMAIN list : list[f].kind = "unsafe") /\ FilesAfter(list, 0) = {}
  <2>1. \A f \in Nat : ~IsFile(list, f)
    BY <1>4, <1>8 DEF FilesAfter, IsFile
  <2> QED
    BY <1>1, <1>3, <1>4, <1>6, <1>8, <2>1 DEF HostHearsNames, NamesEmpty
<1>9. CASE ~(\E f \in DOMAIN list : list[f].kind = "unsafe") /\ FilesAfter(list, 0) # {}
  <2> DEFINE g == Lowest(FilesAfter(list, 0))
  <2>1. /\ g \in Nat \ {0} /\ IsFile(list, g)
        /\ \A f \in Nat : IsFile(list, f) /\ f > 0 => g <= f
    BY <1>4, <1>9, AfterTypes
  <2>2. \A f \in Nat : IsFile(list, f) => f > 0
    BY <1>4 DEF IsFile
  <2>3. /\ folders' = Append(folders, [of |-> Heard.number, files |-> <<>>])
        /\ recv' = [files |-> list, index |-> g, offset |-> 0, waiting |-> TRUE,
                    folder |-> Len(folders) + 1]
        /\ toViewer' = Append(toViewer, Question("Size", g, 0))
        /\ UNCHANGED pasted
    BY <1>9 DEF HostHearsNames, Asks
  <2> HIDE DEF g
  <2>4. NamesBegin(g)
    BY <2>1, <2>2, <2>3 DEF NamesBegin
  <2> QED
    BY <1>1, <1>3, <1>4, <1>6, <2>1, <2>4
<1> QED
  BY <1>7, <1>8, <1>9

LEMMA NamesBase ==
    ASSUME ClipboardAssumption, Base, HostHearsNames
    PROVE  Base'
<1> DEFINE dir == [of |-> Heard.number, files |-> <<>>]
           new == Len(folders) + 1
<1>1. /\ HostTakes({"Names"}) /\ UNCHANGED <<disturbed, spoiled>>
      /\ Heard.number \in 1 .. Latest /\ lists[Heard.number] \in Seq(Entries) /\ dir \in Folder
      /\ NamesRefused \/ NamesEmpty \/ \E f \in Nat \ {0} : NamesBegin(f)
  BY NamesEffect
<1>2. CASE NamesRefused
  BY <1>1, <1>2, OldFolders, HostBase DEF NamesRefused
<1>3. ASSUME folders' = Append(folders, dir)
      PROVE  /\ folders' \in Seq(Folder) /\ Len(folders') = new /\ DOMAIN folders' = 1 .. new
             /\ new \in Nat /\ folders'[new] = dir
             /\ \A t \in DOMAIN folders' : folders'[t].of \in 1 .. Latest
  <2>1. dir.of = Heard.number
    OBVIOUS
  <2> HIDE DEF dir
  <2>2. /\ folders' \in Seq(Folder) /\ Len(folders') = new /\ new \in Nat
        /\ folders'[new] = dir
        /\ \A t \in DOMAIN folders : folders'[t] = folders[t]
        /\ DOMAIN folders' = DOMAIN folders \cup {new}
    BY <1>1, <1>3, OldFolders, Appended
  <2>3. DOMAIN folders' = 1 .. new
    BY <2>2
  <2> QED
    BY <1>1, <2>1, <2>2, <2>3, OldFolders
<1>4. CASE NamesEmpty
  <2>1. /\ folders' = Append(folders, dir) /\ recv' = NoState /\ pasted' = new
        /\ UNCHANGED toViewer
    BY <1>4 DEF NamesEmpty
  <2>2. pasted' \in 0 .. Len(folders')
    BY <1>3, <2>1
  <2> QED
    BY <1>1, <1>3, <2>1, <2>2, OldFolders, HostBase
<1>5. ASSUME NEW f \in Nat \ {0}, NamesBegin(f)
      PROVE  Base'
  <2>1. /\ folders' = Append(folders, dir)
        /\ IsFile(lists[Heard.number], f)
        /\ recv' = [files |-> lists[Heard.number], index |-> f, offset |-> 0, waiting |-> TRUE,
                    folder |-> new]
        /\ toViewer' = Append(toViewer, Question("Size", f, 0))
        /\ UNCHANGED pasted
    BY <1>5 DEF NamesBegin
  <2>2. Question("Size", f, 0) \in Questions
    BY DEF Question, Questions
  <2>3. toViewer' \in Seq(Questions)
    BY <2>1, <2>2, OldFolders, Appended
  <2>4. recv' \in States
    BY <1>1, <1>3, <2>1 DEF States
  <2>5. Shaped(recv', folders', lists)
    BY <1>1, <1>3, <2>1, <2>4 DEF Shaped
  <2>6. pasted' \in 0 .. Len(folders')
    BY <1>3, <2>1, OldFolders
  <2> QED
    BY <1>1, <1>3, <2>1, <2>3, <2>5, <2>6, OldFolders, HostBase
<1> QED
  BY <1>1, <1>2, <1>4, <1>5

\* What becomes of a folder that is written to.
LEMMA WritesEffect ==
    ASSUME ClipboardAssumption, Base, recv # NoState, NEW content \in Seq(Seq(Nat)),
           Writes(recv.index, content)
    PROVE  /\ folders' \in Seq(Folder) /\ Len(folders') = Len(folders)
           /\ DOMAIN folders' = DOMAIN folders
           /\ \A t \in DOMAIN folders : folders'[t].of = folders[t].of
           /\ \A t \in DOMAIN folders : t # recv.folder => folders'[t] = folders[t]
           /\ LET old == folders[recv.folder].files
                  now == folders'[recv.folder].files IN
              /\ DOMAIN now = DOMAIN old \cup {recv.index}
              /\ now[recv.index] = content
              /\ \A f \in DOMAIN old \ {recv.index} : now[f] = old[f]
<1> DEFINE old == folders[recv.folder].files
           now == With(old, recv.index, content)
           dir == [of |-> folders[recv.folder].of, files |-> now]
<1>1. /\ folders \in Seq(Folder) /\ recv.folder \in DOMAIN folders /\ recv.index \in Nat
      /\ folders[recv.folder] \in Folder
      /\ Shaped(recv, folders, lists)
  BY OldFolders DEF Shaped, States
<1>2. old \in Kept
  BY <1>1, OldFolders
<1>3. /\ now \in Kept /\ DOMAIN now = DOMAIN old \cup {recv.index} /\ now[recv.index] = content
      /\ \A f \in DOMAIN old \ {recv.index} : now[f] = old[f]
  <2> DEFINE i == recv.index
  <2>1. i \in Nat
    BY <1>1
  <2> HIDE DEF old, i
  <2>2. With(old, i, content) \in Kept
    BY <1>2, <2>1, OneMoreFile
  <2>3. /\ DOMAIN With(old, i, content) = DOMAIN old \cup {i}
        /\ With(old, i, content)[i] = content
        /\ \A f \in DOMAIN old \ {i} : With(old, i, content)[f] = old[f]
    BY DEF With
  <2> QED
    BY <2>2, <2>3 DEF i
<1>4. folders' = [folders EXCEPT ![recv.folder].files = With(@, recv.index, content)]
  BY DEF Writes
<1>5. folders' = [folders EXCEPT ![recv.folder].files = now]
  BY <1>4
<1> HIDE DEF now
<1>6. [folders[recv.folder] EXCEPT !.files = now] = dir
  <2>1. \A x \in Folder : [x EXCEPT !.files = now] = [of |-> x.of, files |-> now]
    BY DEF Folder
  <2> QED
    BY <1>1, <2>1
<1>7. dir \in Folder /\ dir.files = now /\ dir.of = folders[recv.folder].of
  <2>1. folders[recv.folder].of \in Nat
    <3>1. \A x \in Folder : x.of \in Nat
      BY DEF Folder
    <3> QED
      BY <1>1, <3>1
  <2> QED
    BY <1>3, <2>1 DEF Folder
<1>8. folders' = [folders EXCEPT ![recv.folder] = dir]
  BY <1>5, <1>6
<1> HIDE DEF old, dir
<1>9. /\ folders' \in Seq(Folder) /\ Len(folders') = Len(folders)
      /\ DOMAIN folders' = DOMAIN folders /\ folders'[recv.folder] = dir
      /\ \A t \in DOMAIN folders : t # recv.folder => folders'[t] = folders[t]
  BY <1>1, <1>7, <1>8
<1>10. \A t \in DOMAIN folders : folders'[t].of = folders[t].of
  BY <1>7, <1>9
<1>11. folders'[recv.folder].files = now
  BY <1>7, <1>9
<1> QED
  BY <1>3, <1>9, <1>10, <1>11 DEF old

\* The host that hears about content: a step that has the state s in the end, or
\* goes on from it to the next file.
Hearing(types) ==
    /\ HostTakes(types)
    /\ recv # NoState
    /\ UNCHANGED disturbed

LEMMA HearingBase ==
    ASSUME ClipboardAssumption, Base, NEW types, Hearing(types),
           NEW s, Shaped(s, folders', lists), s.folder = recv.folder,
           \/ Advance(s)
           \/ recv' = s /\ UNCHANGED pasted /\ toViewer' \in Seq(Questions),
           folders' \in Seq(Folder), Len(folders') = Len(folders),
           \A t \in DOMAIN folders : folders'[t].of = folders[t].of,
           \A x \in spoiled' : x[1] \in 1 .. Latest /\ x[2] \in DOMAIN lists[x[1]]
    PROVE  Base'
<1>1. /\ HostTakes(types) /\ disturbed' = disturbed
      /\ \A t \in DOMAIN folders' : folders'[t].of \in 1 .. Latest
  BY OldFolders DEF Hearing
<1>2. recv.folder \in 0 .. Len(folders) /\ pasted \in 0 .. Len(folders)
  BY OldFolders DEF Shaped, Hearing
<1>3. /\ Shaped(recv', folders', lists) /\ toViewer' \in Seq(Questions)
      /\ pasted' \in {pasted, s.folder}
  BY OldFolders, AdvanceKeepsShape
<1> QED
  BY <1>1, <1>2, <1>3, HostBase

\* The state after an answer about the size.
Sized(n) == [recv EXCEPT !.files[recv.index].size = n, !.waiting = FALSE, !.offset = 0]

LEMMA SizedEffect ==
    ASSUME ClipboardAssumption, Base, recv # NoState, NEW n \in Nat
    PROVE  /\ Sized(n).files = [recv.files EXCEPT ![recv.index].size = n]
           /\ Sized(n).index = recv.index /\ Sized(n).offset = 0 /\ Sized(n).waiting = FALSE
           /\ Sized(n).folder = recv.folder
           /\ Sized(n) \in States
           /\ DOMAIN Sized(n).files = DOMAIN recv.files
           /\ \A f \in DOMAIN recv.files : Sized(n).files[f].kind = recv.files[f].kind
           /\ n = recv.files[recv.index].size => Sized(n).files = recv.files
<1>1. recv \in States /\ recv.files \in Seq(Entries) /\ recv.index \in DOMAIN recv.files
      /\ recv.index \in Nat \ {0} /\ recv.folder \in Nat
  BY OldFolders DEF Shaped, States, IsFile
<1> DEFINE files == [recv.files EXCEPT ![recv.index].size = n]
           entry == [kind |-> recv.files[recv.index].kind, size |-> n]
<1>2. recv.files[recv.index] \in Entries
  BY <1>1
<1>3. [recv.files[recv.index] EXCEPT !.size = n] = entry /\ entry \in Entries
      /\ entry.kind = recv.files[recv.index].kind
  <2>1. \A e \in Entries : [e EXCEPT !.size = n] = [kind |-> e.kind, size |-> n]
    BY DEF Entries
  <2>2. entry \in Entries
    BY <1>2 DEF Entries
  <2> QED
    BY <1>2, <2>1, <2>2
<1>4. files = [recv.files EXCEPT ![recv.index] = entry]
  BY <1>3
<1>5. n = recv.files[recv.index].size => entry = recv.files[recv.index]
  <2>1. \A e \in Entries : [kind |-> e.kind, size |-> e.size] = e
    BY DEF Entries
  <2> QED
    BY <1>2, <2>1
<1> HIDE DEF entry
<1>6. /\ files \in Seq(Entries) /\ DOMAIN files = DOMAIN recv.files
      /\ \A f \in DOMAIN recv.files : files[f].kind = recv.files[f].kind
      /\ entry = recv.files[recv.index] => files = recv.files
  BY <1>1, <1>3, <1>4
<1>7. Sized(n) = [files |-> files, index |-> recv.index, offset |-> 0, waiting |-> FALSE,
                  folder |-> recv.folder]
  <2>1. Sized(n) = [recv EXCEPT !.files = files, !.waiting = FALSE, !.offset = 0]
    BY DEF Sized
  <2> HIDE DEF files
  <2> QED
    BY <1>1, <2>1 DEF States
<1> HIDE DEF files
<1>8. /\ Sized(n) \in States /\ Sized(n).files = files
      /\ Sized(n).index = recv.index /\ Sized(n).offset = 0 /\ Sized(n).waiting = FALSE
      /\ Sized(n).folder = recv.folder
  BY <1>1, <1>6, <1>7 DEF States
<1> QED
  BY <1>5, <1>6, <1>8 DEF files

LEMMA SizedShape ==
    ASSUME ClipboardAssumption, Base, recv # NoState, NEW n \in Nat, NEW dirs,
           recv.folder \in DOMAIN dirs, dirs[recv.folder].of = folders[recv.folder].of
    PROVE  Shaped(Sized(n), dirs, lists)
<1>1. /\ Sized(n) \in States /\ Sized(n).index = recv.index /\ Sized(n).folder = recv.folder
      /\ Sized(n).offset = 0
      /\ DOMAIN Sized(n).files = DOMAIN recv.files
      /\ \A f \in DOMAIN recv.files : Sized(n).files[f].kind = recv.files[f].kind
  BY SizedEffect
<1>2. Shaped(recv, folders, lists)
  BY OldFolders
<1>3. IsFile(Sized(n).files, Sized(n).index)
  BY <1>1, <1>2 DEF Shaped, IsFile
<1> QED
  BY <1>1, <1>2, <1>3 DEF Shaped

\* The state, and the file, after content.
Content == IF Heard.type = "Size" THEN <<NoUnit>> ELSE Heard.data
Longer  == (IF recv.offset = 0 THEN <<>> ELSE folders[recv.folder].files[recv.index]) \o Content
Grown   == [recv EXCEPT !.offset = @ + Len(Content)]

LEMMA GrownEffect ==
    ASSUME ClipboardAssumption, Base, recv # NoState, Heard \in Mail
    PROVE  /\ Content \in Seq(Seq(Nat)) /\ Longer \in Seq(Seq(Nat))
           /\ Grown \in States
           /\ Grown.files = recv.files /\ Grown.index = recv.index
           /\ Grown.offset = recv.offset + Len(Content) /\ Grown.waiting = recv.waiting
           /\ Grown.folder = recv.folder
<1>1. recv \in States /\ Shaped(recv, folders, lists)
  BY OldFolders DEF Shaped
<1>2. Content \in Seq(Seq(Nat))
  <2>1. Heard.data \in Seq(Seq(Nat))
    BY DEF Mail
  <2>2. NoUnit \in Seq(Nat)
    BY DEF NoUnit
  <2> QED
    BY <2>1, <2>2 DEF Content
<1>3. recv.offset # 0 => folders[recv.folder].files[recv.index] \in Seq(Seq(Nat))
  <2>1. recv.offset # 0 => /\ recv.folder \in DOMAIN folders
                           /\ recv.index \in DOMAIN folders[recv.folder].files
    BY <1>1 DEF Shaped, States
  <2> QED
    BY <2>1, OldFolders, KeptContent
<1>4. Longer \in Seq(Seq(Nat))
  <2> DEFINE o == IF recv.offset = 0 THEN <<>> ELSE folders[recv.folder].files[recv.index]
  <2>1. o \in Seq(Seq(Nat))
    BY <1>3
  <2>2. Longer = o \o Content
    BY DEF Longer
  <2> HIDE DEF o
  <2> QED
    BY <1>2, <2>1, <2>2
<1>5. Grown = [files |-> recv.files, index |-> recv.index,
               offset |-> recv.offset + Len(Content), waiting |-> recv.waiting,
               folder |-> recv.folder]
  <2>1. \A r \in States, n \in Nat : [r EXCEPT !.offset = @ + n]
            = [files |-> r.files, index |-> r.index, offset |-> r.offset + n,
               waiting |-> r.waiting, folder |-> r.folder]
    BY DEF States
  <2>2. Len(Content) \in Nat
    BY <1>2
  <2> QED
    BY <1>1, <2>1, <2>2 DEF Grown
<1>6. Grown \in States
  <2>1. Len(Content) \in Nat
    BY <1>2
  <2> QED
    BY <1>1, <1>5, <2>1 DEF States
<1> QED
  BY <1>2, <1>4, <1>5, <1>6

LEMMA ContentBase ==
    ASSUME ClipboardAssumption, Base,
           HostHearsNo \/ HostHearsSize \/ HostHearsData \/ HostCannotWrite
    PROVE  Base'
<1>1. /\ recv # NoState /\ Shaped(recv, folders, lists) /\ recv \in States
      /\ recv.folder \in DOMAIN folders
  BY OldFolders DEF Shaped, HostHearsNo, HostHearsSize, HostHearsData, HostCannotWrite,
                    HostHearsContents
<1>2. CASE HostHearsNo
  <2>1. /\ Hearing({"No"}) /\ Advance(recv) /\ UNCHANGED <<folders, disturbed, spoiled>>
    BY <1>2 DEF HostHearsNo, HostHearsContents, Hearing, pastVars
  <2> QED
    BY <1>1, <2>1, OldFolders, HearingBase
<1>3. CASE HostCannotWrite
  <2>1. /\ Hearing({"Size", "Data"}) /\ Advance(recv) /\ UNCHANGED <<folders, disturbed>>
        /\ spoiled' = spoiled \cup {<<folders[recv.folder].of, recv.index>>}
    BY <1>3 DEF HostCannotWrite, HostHearsContents, Hearing
  <2>2. \A x \in spoiled' : x[1] \in 1 .. Latest /\ x[2] \in DOMAIN lists[x[1]]
    BY <1>1, <2>1, OldFolders DEF Shaped, IsFile
  <2> QED
    BY <1>1, <2>1, <2>2, OldFolders, HearingBase
<1>4. CASE HostHearsSize
  <2>1. /\ Hearing({"Size", "Data"}) /\ UNCHANGED <<disturbed, spoiled>>
    BY <1>4 DEF HostHearsSize, HostHearsContents, Hearing, pastVars
  <2>2. PICK n \in SizesHeard :
            IF n = 0
            THEN Writes(recv.index, <<>>) /\ Advance(Sized(n))
            ELSE /\ recv' = Sized(n)
                 /\ Asks(Question("Data", recv.index, 0))
                 /\ UNCHANGED <<folders, pasted>>
    BY <1>4 DEF HostHearsSize, Sized
  <2>3. n \in Nat
    <3>1. Heard \in Mail
      BY <2>1, HostTakesKeeps DEF Hearing
    <3>2. Heard.number \in Nat
      BY <3>1 DEF Mail
    <3>3. recv.files[recv.index].size \in Nat
      BY <1>1, EntryTypes DEF States, Shaped, IsFile
    <3>4. MaxSize \in Nat
      BY DEF ClipboardAssumption
    <3> QED
      BY <3>2, <3>3, <3>4 DEF SizesHeard
  <2>4. Sized(n).folder = recv.folder
    BY <1>1, <2>3, SizedEffect
  <2>5. CASE n = 0
    <3>1. Writes(recv.index, <<>>) /\ Advance(Sized(n))
      BY <2>2, <2>5
    <3>2. <<>> \in Seq(Seq(Nat))
      OBVIOUS
    <3>3. /\ folders' \in Seq(Folder) /\ Len(folders') = Len(folders)
          /\ DOMAIN folders' = DOMAIN folders
          /\ \A t \in DOMAIN folders : folders'[t].of = folders[t].of
      BY <1>1, <3>1, <3>2, WritesEffect
    <3>4. Shaped(Sized(n), folders', lists)
      BY <1>1, <2>3, <3>3, SizedShape
    <3> QED
      BY <2>1, <2>4, <3>1, <3>3, <3>4, OldFolders, HearingBase
  <2>6. CASE n # 0
    <3>1. /\ recv' = Sized(n) /\ UNCHANGED <<folders, pasted>>
          /\ toViewer' = Append(toViewer, Question("Data", recv.index, 0))
      BY <2>2, <2>6 DEF Asks
    <3>2. Question("Data", recv.index, 0) \in Questions
      BY <1>1 DEF Question, Questions, States
    <3>3. toViewer' \in Seq(Questions)
      BY <3>1, <3>2, OldFolders, Appended
    <3>4. Shaped(Sized(n), folders', lists)
      BY <1>1, <2>3, <3>1, SizedShape
    <3> QED
      BY <2>1, <2>4, <3>1, <3>3, <3>4, OldFolders, HearingBase
  <2> QED
    BY <2>5, <2>6
<1>5. CASE HostHearsData
  <2>1. /\ Hearing({"Size", "Data"}) /\ UNCHANGED <<disturbed, spoiled>> /\ ~recv.waiting
    BY <1>5 DEF HostHearsData, HostHearsContents, Hearing, pastVars
  <2>2. /\ Writes(recv.index, Longer)
        /\ IF Grown.offset >= Grown.files[Grown.index].size
           THEN Advance(Grown)
           ELSE /\ recv' = Grown
                /\ Asks(Question("Data", recv.index, Grown.offset))
                /\ UNCHANGED pasted
    BY <1>5 DEF HostHearsData, Grown, Longer, Content
  <2>3. Heard \in Mail
    BY <2>1, HostTakesKeeps DEF Hearing
  <2>4. /\ Longer \in Seq(Seq(Nat)) /\ Grown \in States
        /\ Grown.files = recv.files /\ Grown.index = recv.index /\ Grown.waiting = recv.waiting
        /\ Grown.folder = recv.folder
    BY <1>1, <2>3, GrownEffect
  <2>5. /\ folders' \in Seq(Folder) /\ Len(folders') = Len(folders)
        /\ DOMAIN folders' = DOMAIN folders
        /\ \A t \in DOMAIN folders : folders'[t].of = folders[t].of
        /\ recv.index \in DOMAIN folders'[recv.folder].files
    BY <1>1, <2>2, <2>4, WritesEffect
  <2>6. Shaped(Grown, folders', lists)
    BY <1>1, <2>1, <2>4, <2>5 DEF Shaped
  <2>7. \/ Advance(Grown)
        \/ recv' = Grown /\ UNCHANGED pasted /\ toViewer' \in Seq(Questions)
    <3>1. Question("Data", recv.index, Grown.offset) \in Questions
      BY <1>1, <2>4 DEF Question, Questions, States
    <3>2. Append(toViewer, Question("Data", recv.index, Grown.offset)) \in Seq(Questions)
      BY <3>1, OldFolders, Appended
    <3> QED
      BY <2>2, <3>2 DEF Asks
  <2> QED
    BY <2>1, <2>4, <2>5, <2>6, <2>7, OldFolders, HearingBase
<1> QED
  BY <1>2, <1>3, <1>4, <1>5

LEMMA OtherBase ==
    ASSUME ClipboardAssumption, Base, Toggles \/ OtherSessionEnds \/ UNCHANGED vars
    PROVE  Base'
<1>1. /\ UNCHANGED <<lists, toHost, toViewer, folders, pasted, spoiled>> /\ enabled' \in BOOLEAN
      /\ recv' = recv \/ recv' = NoState
      /\ disturbed \subseteq disturbed' /\ disturbed' \subseteq Copies
  <2>1. disturbed \subseteq Copies /\ enabled \in BOOLEAN
    BY DEF Base, Types, TypeOK
  <2>2. OtherSessionEnds /\ ~Quiet => Latest \in Copies
    BY TypeFacts DEF Base, SomethingCopied, Quiet, Copies
  <2> QED
    BY <2>1, <2>2 DEF Toggles, OtherSessionEnds, vars, hostVars, pastVars
<1>2. Latest' = Latest
  BY <1>1 DEF Latest
<1>3. /\ recv' \in [files : Seq(Entries), index : Nat \ {0}, offset : Nat, waiting : BOOLEAN,
                    folder : 0 .. Len(folders')]
      /\ recv' # NoState => IsFile(recv'.files, recv'.index)
  <2>1. NoState \in [files : Seq(Entries), index : Nat \ {0}, offset : Nat, waiting : BOOLEAN,
                     folder : 0 .. Len(folders)]
    BY OldFolders DEF NoState
  <2> QED
    BY <1>1, <2>1 DEF Base, Types, TypeOK
<1>4. Types'
  BY <1>1, <1>2, <1>3 DEF Base, Types, TypeOK
<1>5. Shape'
  BY <1>1 DEF Base, Shape
<1>6. NamesAreCopies' /\ SomethingCopied'
  BY <1>1, <1>2 DEF Base, NamesAreCopies, SomethingCopied
<1> QED
  BY <1>4, <1>5, <1>6 DEF Base

LEMMA BaseStep ==
    ASSUME ClipboardAssumption, Base, [Next]_vars
    PROVE  Base'
BY CopyBase, ViewerBase, HostAloneBase, NamesBase, ContentBase, OtherBase DEF Next, HostTurn

-----------------------------------------------------------------------------
(* What is asked, what is answered, and what is in the folders.                *)

\* A file of a copy is in a folder as PasteFaithful wants it.
WholeIn(c, f, files, all, bad) ==
    IF <<c, f>> \in bad
    THEN f \in DOMAIN files => IsPrefix(files[f], Part(c, f, all[c][f].size))
    ELSE f \in DOMAIN files /\ files[f] = Part(c, f, all[c][f].size)

Faithful(t, dirs, all, bad) ==
    \A f \in DOMAIN all[dirs[t].of] : IsFile(all[dirs[t].of], f) =>
        WholeIn(dirs[t].of, f, dirs[t].files, all, bad)

PastedIsFaithful ==
    pasted # 0 /\ folders[pasted].of \notin disturbed
        => Faithful(pasted, folders, lists, spoiled)

OwnCopy == folders[recv.folder].of

\* Nothing has met the latest copy.
Alone == Latest \notin disturbed

OneAtATime == Alone => Len(toHost) + Len(toViewer) <= 1

\* A question about a size or about content, or its answer, is on its way.
Asking ==
    \/ \E i \in DOMAIN toViewer : toViewer[i].type # "Names"
    \/ \E i \in DOMAIN toHost : toHost[i].type \notin {"List", "Names"}

OldLeftAlone == recv # NoState /\ Asking /\ OwnCopy \notin disturbed => OwnCopy = Latest

\* The state s stands at what its folder holds: all files before the one it is
\* at, nothing of those after it, and of that one what the offset says.
Ready(s, dirs, all, bad, c) ==
    LET files == dirs[s.folder].files IN
    /\ dirs[s.folder].of = c
    /\ s.files = all[c]
    /\ \A f \in Nat : IsFile(all[c], f) /\ f < s.index => WholeIn(c, f, files, all, bad)
    /\ \A f \in DOMAIN files : f <= s.index
    /\ IF s.offset = 0 THEN s.index \notin DOMAIN files
                       ELSE files[s.index] = Part(c, s.index, s.offset)
    /\ s.waiting \/ s.offset < s.files[s.index].size

FitsQuestion(q, s) ==
    /\ q.type = "Size" => s.waiting /\ q.file = s.index
    /\ q.type = "Data" => ~s.waiting /\ q.file = s.index /\ q.at = s.offset

FitsAnswer(a, s, bad, c) ==
    /\ a.type = "Size" => s.waiting /\ a.number = s.files[s.index].size
    /\ a.type = "Data" => ~s.waiting /\ a.data = <<Unit(c, s.index, s.offset + 1)>>
    /\ a.type = "No"   => ~s.waiting /\ <<c, s.index>> \in bad

Underway ==
    /\ recv # NoState
    /\ Ready(recv, folders, lists, spoiled, Latest)
    /\ pasted # recv.folder
    /\ \A i \in DOMAIN toViewer : FitsQuestion(toViewer[i], recv)
    /\ \A i \in DOMAIN toHost : FitsAnswer(toHost[i], recv, spoiled, Latest)

Chain == Alone /\ Asking => Underway

Flow == OneAtATime /\ OldLeftAlone /\ Chain /\ PastedIsFaithful

IInv == Base /\ Flow

LEMMA FlowIsFaithful ==
    ASSUME PastedIsFaithful
    PROVE  PasteFaithful
BY DEF PastedIsFaithful, PasteFaithful, Faithful, WholeIn, Source, Part

LEMMA WholeGrows ==
    ASSUME NEW c \in Nat, NEW f \in Nat, NEW files, NEW all, NEW bad, NEW bad2,
           all[c][f].size \in Nat, WholeIn(c, f, files, all, bad), bad \subseteq bad2
    PROVE  WholeIn(c, f, files, all, bad2)
BY PartsArePrefixes DEF WholeIn

LEMMA CompleteIsWhole ==
    ASSUME NEW c \in Nat, NEW f \in Nat, NEW files, NEW all, NEW bad,
           all[c][f].size \in Nat,
           f \in DOMAIN files, files[f] = Part(c, f, all[c][f].size)
    PROVE  WholeIn(c, f, files, all, bad)
BY PartsArePrefixes DEF WholeIn

LEMMA PartIsWhole ==
    ASSUME NEW s, NEW dirs, NEW all, NEW bad, NEW bad2, NEW c \in Nat,
           Shaped(s, dirs, all), Ready(s, dirs, all, bad, c), all[c] \in Seq(Entries),
           <<c, s.index>> \in bad2
    PROVE  WholeIn(c, s.index, dirs[s.folder].files, all, bad2)
<1>1. s.index \in Nat /\ s.offset \in Nat /\ s.files = all[c] /\ s.index \in DOMAIN all[c]
      /\ all[c][s.index].size \in Nat
  <2>1. s.index \in Nat /\ s.offset \in Nat /\ s.files = all[c] /\ s.index \in DOMAIN all[c]
    BY DEF Shaped, Ready, States, IsFile
  <2> QED
    BY <2>1, EntryTypes
<1>2. CASE s.offset = 0
  BY <1>2 DEF Ready, WholeIn
<1>3. CASE s.offset # 0
  <2>1. s.offset <= all[c][s.index].size
    BY <1>1, <1>3 DEF Shaped, Ready
  <2>2. IsPrefix(Part(c, s.index, s.offset), Part(c, s.index, all[c][s.index].size))
    BY <1>1, <2>1, PartsArePrefixes
  <2> QED
    BY <1>3, <2>2 DEF Ready, WholeIn
<1> QED
  BY <1>2, <1>3

LEMMA FaithfulKept ==
    ASSUME NEW t, NEW dirs, NEW dirs2, NEW all, NEW all2, NEW bad, NEW bad2,
           Faithful(t, dirs, all, bad), dirs2[t] = dirs[t], dirs[t].of \in Nat,
           all2[dirs[t].of] = all[dirs[t].of], all[dirs[t].of] \in Seq(Entries),
           bad \subseteq bad2
    PROVE  Faithful(t, dirs2, all2, bad2)
<1> DEFINE c == dirs[t].of
<1> SUFFICES ASSUME NEW f \in DOMAIN all[c], IsFile(all[c], f)
             PROVE  WholeIn(c, f, dirs[t].files, all2, bad2)
  BY DEF Faithful
<1>1. WholeIn(c, f, dirs[t].files, all, bad)
  BY DEF Faithful
<1>2. f \in Nat /\ all[c][f].size \in Nat
  BY EntryTypes
<1>3. WholeIn(c, f, dirs[t].files, all, bad2)
  BY <1>1, <1>2, WholeGrows
<1> QED
  BY <1>3 DEF WholeIn

LEMMA ReadyKept ==
    ASSUME NEW s, NEW dirs, NEW all, NEW bad, NEW bad2, NEW c \in Nat,
           Ready(s, dirs, all, bad, c), all[c] \in Seq(Entries), bad \subseteq bad2
    PROVE  Ready(s, dirs, all, bad2, c)
<1>1. ASSUME NEW f \in Nat, IsFile(all[c], f), f < s.index
      PROVE  WholeIn(c, f, dirs[s.folder].files, all, bad2)
  <2>1. WholeIn(c, f, dirs[s.folder].files, all, bad)
    BY <1>1 DEF Ready
  <2>2. all[c][f].size \in Nat
    BY <1>1, EntryTypes DEF IsFile
  <2> QED
    BY <2>1, <2>2, WholeGrows
<1> QED
  BY <1>1 DEF Ready

\* The pasted folder of a copy stays what it is.
LEMMA PastedKept ==
    ASSUME ClipboardAssumption, Base, PastedIsFaithful,
           pasted' = pasted, disturbed \subseteq disturbed', spoiled \subseteq spoiled',
           pasted # 0 => folders'[pasted].of = folders[pasted].of,
           pasted # 0 /\ folders[pasted].of \notin disturbed => folders'[pasted] = folders[pasted],
           \A c \in 1 .. Latest : lists'[c] = lists[c]
    PROVE  PastedIsFaithful'
<1> SUFFICES ASSUME pasted # 0, folders'[pasted].of \notin disturbed'
             PROVE  Faithful(pasted, folders', lists', spoiled')
  BY DEF PastedIsFaithful
<1>1. pasted \in DOMAIN folders
  BY OldFolders
<1>2. CASE folders[pasted].of \in disturbed
  <2>1. folders'[pasted].of = folders[pasted].of
    OBVIOUS
  <2> QED
    BY <1>2, <2>1
<1>3. CASE folders[pasted].of \notin disturbed
  <2> DEFINE c == folders[pasted].of
  <2>1. /\ Faithful(pasted, folders, lists, spoiled) /\ folders'[pasted] = folders[pasted]
        /\ c \in 1 .. Latest /\ c \in Nat /\ lists'[c] = lists[c] /\ lists[c] \in Seq(Entries)
    BY <1>1, <1>3, OldFolders, TypeFacts DEF PastedIsFaithful, Base
  <2> QED
    BY <2>1, FaithfulKept
<1> QED
  BY <1>2, <1>3

LEMMA InitFlow ==
    ASSUME Init
    PROVE  Flow
BY DEF Init, Flow, OneAtATime, OldLeftAlone, Chain, Asking, PastedIsFaithful

LEMMA EmptyOnly ==
    ASSUME NEW S, NEW s \in Seq(S), Len(s) = 0
    PROVE  s = <<>>
OBVIOUS

LEMMA OneOfTwo ==
    ASSUME NEW a \in Nat, NEW b \in Nat \ {0}, a + b <= 1 \/ b + a <= 1
    PROVE  a = 0 /\ b = 1
OBVIOUS

LEMMA OneMessage ==
    /\ Len(<<>>) = 0
    /\ \A q : Len(<<q>>) = 1 /\ DOMAIN <<q>> = {1} /\ <<q>>[1] = q
    /\ \A q : Append(<<>>, q) = <<q>>
    /\ DOMAIN <<>> = {}
OBVIOUS

\* While nothing has met the latest copy: what is read was the only message.
LEMMA OnlyAnswer ==
    ASSUME ClipboardAssumption, IInv, Alone, NEW types, HostTakes(types)
    PROVE  toHost' = <<>> /\ toViewer = <<>>
<1>1. toHost \in Seq(Mail) /\ toViewer \in Seq(Questions)
  BY TypeFacts DEF IInv, Base
<1>2. Len(toHost) + Len(toViewer) <= 1
  BY DEF IInv, Flow, OneAtATime
<1>3. toHost # <<>> /\ toHost' = Tail(toHost)
  BY DEF HostTakes
<1>4. Len(toHost) \in Nat \ {0} /\ Len(toViewer) \in Nat
  BY <1>1, <1>3
<1>5. Len(toHost) = 1 /\ Len(toViewer) = 0
  BY <1>2, <1>4, OneOfTwo
<1> QED
  BY <1>1, <1>3, <1>5

LEMMA OnlyQuestion ==
    ASSUME ClipboardAssumption, IInv, Alone, NEW type, NEW answer, Answers(type, answer)
    PROVE  toHost' = <<answer>> /\ toViewer' = <<>>
<1>1. toHost \in Seq(Mail) /\ toViewer \in Seq(Questions)
  BY TypeFacts DEF IInv, Base
<1>2. Len(toHost) + Len(toViewer) <= 1
  BY DEF IInv, Flow, OneAtATime
<1>3. toViewer # <<>> /\ toViewer' = Tail(toViewer) /\ toHost' = Append(toHost, answer)
  BY DEF Answers
<1>4. Len(toViewer) \in Nat \ {0} /\ Len(toHost) \in Nat
  BY <1>1, <1>3
<1>5. Len(toHost) = 0 /\ Len(toViewer) = 1
  BY <1>2, <1>4, OneOfTwo
<1>6. toHost = <<>>
  BY <1>1, <1>5
<1>7. Tail(toViewer) = <<>>
  <2>1. Tail(toViewer) \in Seq(Questions) /\ Len(Tail(toViewer)) = 0
    BY <1>1, <1>3, <1>5, TailOf
  <2> QED
    BY <2>1, EmptyOnly
<1> QED
  BY <1>3, <1>6, <1>7, OneMessage

LEMMA CopyFlow ==
    ASSUME ClipboardAssumption, IInv, NEW list \in Lists, Copy(list)
    PROVE  Flow'
<1>1. /\ Latest' = Latest + 1 /\ Latest \in Nat
      /\ \A c \in 1 .. Latest : lists'[c] = lists[c]
  BY TypeFacts DEF Copy, Latest, IInv, Base
<1>2. /\ UNCHANGED <<toViewer, recv, folders, pasted, spoiled>>
      /\ toHost' = Append(toHost, Answer("List", 0, <<>>))
      /\ disturbed' = IF Quiet THEN disturbed ELSE disturbed \cup ({Latest, Latest + 1} \ {0})
  BY DEF Copy, hostVars
<1>3. /\ toHost' \in Seq(Mail)
      /\ \A i \in DOMAIN toHost' : \/ i \in DOMAIN toHost /\ toHost'[i] = toHost[i]
                                   \/ toHost'[i].type = "List"
  <2>1. Answer("List", 0, <<>>) \in Mail /\ Answer("List", 0, <<>>).type = "List"
    BY DEF Answer, Mail
  <2> QED
    BY <1>2, <2>1, TypeFacts, Appended DEF IInv, Base
<1>4. Asking' => Asking
  BY <1>2, <1>3 DEF Asking
<1>5. PastedIsFaithful'
  BY <1>1, <1>2, PastedKept DEF IInv, Flow
<1>6. CASE Quiet
  <2>1. toHost = <<>> /\ toViewer = <<>> /\ ~Asking
    BY <1>6 DEF Quiet, Asking
  <2>2. Len(toHost') + Len(toViewer') <= 1
    BY <1>2, <2>1
  <2> QED
    BY <1>4, <1>5, <2>1, <2>2 DEF Flow, OneAtATime, OldLeftAlone, Chain
<1>7. CASE ~Quiet
  <2>1. ~Alone'
    BY <1>1, <1>2, <1>7 DEF Alone
  <2>2. ASSUME recv' # NoState, Asking', OwnCopy' \notin disturbed'
        PROVE  FALSE
    <3>1. recv # NoState /\ Asking /\ OwnCopy \notin disturbed
      BY <1>2, <1>4, <2>2 DEF OwnCopy
    <3>2. OwnCopy = Latest
      BY <3>1 DEF IInv, Flow, OldLeftAlone
    <3>3. OwnCopy \in 1 .. Latest
      BY <3>1, OldFolders DEF IInv, OwnCopy, Shaped
    <3>4. Latest \in disturbed'
      BY <1>1, <1>2, <1>7, <3>2, <3>3
    <3> QED
      BY <1>2, <2>2, <3>2, <3>4 DEF OwnCopy
  <2> QED
    BY <1>5, <2>1, <2>2 DEF Flow, OneAtATime, OldLeftAlone, Chain
<1> QED
  BY <1>6, <1>7

LEMMA AnswersFlow ==
    ASSUME ClipboardAssumption, IInv, NEW type, NEW answer \in Mail, Answers(type, answer),
           type = "Names" => answer.type = "Names",
           spoiled \subseteq spoiled',
           Underway /\ type # "Names" /\ FitsQuestion(Asked, recv)
              => FitsAnswer(answer, recv, spoiled', Latest)
    PROVE  Flow'
<1>1. /\ toViewer # <<>> /\ Asked.type = type
      /\ toViewer' = Tail(toViewer) /\ toHost' = Append(toHost, answer)
      /\ UNCHANGED <<lists, recv, folders, pasted, disturbed>>
      /\ Latest' = Latest /\ Alone' = Alone /\ OwnCopy' = OwnCopy
  BY DEF Answers, hostVars, Latest, Alone, OwnCopy
<1>2. /\ toHost \in Seq(Mail) /\ toViewer \in Seq(Questions)
      /\ Asked = toViewer[1] /\ 1 \in DOMAIN toViewer
      /\ Latest \in 1 .. Latest /\ Latest \in Nat /\ lists[Latest] \in Seq(Entries)
  BY <1>1, TypeFacts, AskedTypes DEF IInv, Base
<1>3. Asking' => Asking
  <2>1. CASE \E i \in DOMAIN toViewer' : toViewer'[i].type # "Names"
    BY <1>1, <1>2, <2>1, TailOf DEF Asking
  <2>2. CASE \E i \in DOMAIN toHost' : toHost'[i].type \notin {"List", "Names"}
    <3>1. PICK i \in DOMAIN toHost' : toHost'[i].type \notin {"List", "Names"}
      BY <2>2
    <3>2. \/ i \in DOMAIN toHost /\ toHost'[i] = toHost[i]
          \/ toHost'[i] = answer
      BY <1>1, <1>2, <3>1, Appended
    <3>3. CASE toHost'[i] = answer
      BY <1>1, <1>2, <3>1, <3>3 DEF Asking
    <3> QED
      BY <3>1, <3>2, <3>3 DEF Asking
  <2> QED
    BY <2>1, <2>2 DEF Asking
<1>4. OldLeftAlone'
  BY <1>1, <1>3 DEF IInv, Flow, OldLeftAlone
<1>5. PastedIsFaithful'
  BY <1>1, PastedKept DEF IInv, Flow
<1>6. Alone => toHost' = <<answer>> /\ toViewer' = <<>>
  BY OnlyQuestion
<1>7. OneAtATime'
  BY <1>1, <1>6 DEF OneAtATime
<1>8. Chain'
  <2> SUFFICES ASSUME Alone, Asking' PROVE Underway'
    BY <1>1 DEF Chain
  <2>1. Underway
    BY <1>3 DEF IInv, Flow, Chain
  <2>2. type # "Names"
    <3>1. answer.type # "Names"
      BY <1>6 DEF Asking
    <3> QED
      BY <3>1
  <2>3. FitsQuestion(Asked, recv)
    BY <1>2, <2>1 DEF Underway
  <2>4. FitsAnswer(answer, recv, spoiled', Latest)
    BY <2>1, <2>2, <2>3
  <2>5. Ready(recv, folders, lists, spoiled', Latest)
    BY <1>2, <2>1, ReadyKept DEF Underway
  <2>6. \A i \in DOMAIN toViewer' : FitsQuestion(toViewer'[i], recv)
    BY <1>6
  <2>7. \A i \in DOMAIN toHost' : FitsAnswer(toHost'[i], recv, spoiled', Latest)
    BY <1>6, <2>4
  <2> QED
    BY <1>1, <2>1, <2>5, <2>6, <2>7 DEF Underway
<1> QED
  BY <1>4, <1>5, <1>7, <1>8 DEF Flow

LEMMA ViewerFlow ==
    ASSUME ClipboardAssumption, IInv, ViewerAnswers
    PROVE  Flow'
<1>1. <<>> \in Seq(Seq(Nat)) /\ 0 \in Nat
  OBVIOUS
<1>2. toViewer # <<>>
  BY DEF ViewerAnswers, AnswersNames, AnswersSize, AnswersData, CannotRead, Answers
<1>3. /\ Latest \in Nat /\ lists[Latest] \in Seq(Entries)
      /\ Asked.file \in Nat /\ Asked.at \in Nat
  BY <1>2, TypeFacts, AskedTypes DEF IInv, Base
<1>4. Underway => /\ recv \in States /\ recv.files = lists[Latest]
                  /\ recv.index \in DOMAIN lists[Latest]
                  /\ lists[Latest][recv.index].kind # "folder"
                  /\ recv.waiting \/ recv.offset < lists[Latest][recv.index].size
  BY OldFolders DEF Underway, Ready, Shaped, IsFile, IInv
<1>5. CASE AnswersNames
  <2>1. Answers("Names", Answer("Names", Latest, <<>>)) /\ spoiled' = spoiled
    BY <1>5 DEF AnswersNames
  <2>2. /\ Answer("Names", Latest, <<>>) \in Mail
        /\ Answer("Names", Latest, <<>>).type = "Names"
    BY <1>3, NamesAreMail
  <2> QED
    BY <2>1, <2>2, AnswersFlow
<1>6. CASE AnswersSize
  <2> DEFINE answer == IF There THEN Answer("Size", lists[Latest][Asked.file].size, <<>>)
                                ELSE Answer("No", 0, <<>>)
  <2>1. Answers("Size", answer) /\ spoiled' = spoiled
    BY <1>6 DEF AnswersSize
  <2>2. There => lists[Latest][Asked.file].size \in Nat
    BY <1>3, EntryTypes DEF There
  <2>3. answer \in Mail
    BY <1>1, <2>2, AnswersAreMail DEF AnswerIsMail
  <2>4. Asked.type = "Size"
    BY <2>1 DEF Answers
  <2>5. ASSUME Underway, FitsQuestion(Asked, recv)
        PROVE  FitsAnswer(answer, recv, spoiled', Latest)
    <3>1. recv.waiting /\ Asked.file = recv.index
      BY <2>4, <2>5 DEF FitsQuestion
    <3>2. answer = Answer("Size", lists[Latest][recv.index].size, <<>>)
      BY <1>4, <2>5, <3>1 DEF There
    <3> QED
      BY <1>4, <2>5, <3>1, <3>2 DEF FitsAnswer, Answer
  <2> HIDE DEF answer
  <2> QED
    BY <2>1, <2>3, <2>5, AnswersFlow
<1>7. CASE AnswersData
  <2> DEFINE entry  == lists[Latest][Asked.file]
             data   == IF entry.kind # "folder" /\ Asked.at < entry.size
                       THEN <<Unit(Latest, Asked.file, Asked.at + 1)>> ELSE <<>>
             answer == IF There THEN Answer("Data", 0, data) ELSE Answer("No", 0, <<>>)
  <2>1. Answers("Data", answer) /\ spoiled' = spoiled
    BY <1>7 DEF AnswersData
  <2>2. <<Unit(Latest, Asked.file, Asked.at + 1)>> \in Seq(Seq(Nat))
    <3>1. Asked.at + 1 \in Nat
      BY <1>3
    <3> QED
      BY <1>3, <3>1, UnitType
  <2>3. data \in Seq(Seq(Nat))
    BY <1>1, <2>2
  <2>4. answer \in Mail
    <3> HIDE DEF data
    <3> QED
      BY <1>1, <2>3, AnswersAreMail DEF AnswerIsMail
  <2>5. Asked.type = "Data"
    BY <2>1 DEF Answers
  <2>6. ASSUME Underway, FitsQuestion(Asked, recv)
        PROVE  FitsAnswer(answer, recv, spoiled', Latest)
    <3>1. ~recv.waiting /\ Asked.file = recv.index /\ Asked.at = recv.offset
      BY <2>5, <2>6 DEF FitsQuestion
    <3>2. data = <<Unit(Latest, recv.index, recv.offset + 1)>>
      BY <1>4, <2>6, <3>1
    <3>3. There
      BY <1>4, <2>6, <3>1 DEF There
    <3> HIDE DEF data
    <3>4. answer = Answer("Data", 0, data)
      BY <3>3
    <3>5. answer.type = "Data" /\ answer.data = data
      BY <3>4 DEF Answer
    <3> QED
      BY <3>1, <3>2, <3>5 DEF FitsAnswer
  <2> HIDE DEF answer
  <2> QED
    BY <2>1, <2>4, <2>6, AnswersFlow
<1>8. CASE CannotRead
  <2>1. /\ Answers("Data", Answer("No", 0, <<>>)) /\ There
        /\ spoiled' = spoiled \cup {<<Latest, Asked.file>>}
    BY <1>8 DEF CannotRead
  <2>2. Answer("No", 0, <<>>) \in Mail /\ Answer("No", 0, <<>>).type = "No"
    BY <1>1, AnswersAreMail DEF AnswerIsMail
  <2>3. Asked.type = "Data"
    BY <2>1 DEF Answers
  <2>4. FitsQuestion(Asked, recv) => FitsAnswer(Answer("No", 0, <<>>), recv, spoiled', Latest)
    BY <2>1, <2>2, <2>3 DEF FitsAnswer, FitsQuestion
  <2> QED
    BY <2>1, <2>2, <2>4, AnswersFlow
<1> QED
  BY <1>5, <1>6, <1>7, <1>8 DEF ViewerAnswers

LEMMA HostAloneFlow ==
    ASSUME ClipboardAssumption, IInv, HostRefuses \/ HostHearsList \/ HostIgnores
    PROVE  Flow'
<1>1. PICK types : HostTakes(types)
  BY DEF HostRefuses, HostHearsList, HostIgnores
<1>2. /\ toHost # <<>> /\ toHost' = Tail(toHost) /\ UNCHANGED lists /\ Latest' = Latest
      /\ UNCHANGED <<recv, folders, pasted, spoiled>> /\ disturbed \subseteq disturbed'
      /\ OwnCopy' = OwnCopy
  BY <1>1 DEF HostTakes, HostRefuses, HostHearsList, HostIgnores, hostVars, pastVars, Latest,
              OwnCopy
<1>3. PastedIsFaithful'
  BY <1>2, PastedKept DEF IInv, Flow
<1>4. Alone => toHost' = <<>> /\ toViewer = <<>>
  BY <1>1, OnlyAnswer
<1>5. toViewer' = toViewer \/ toViewer' = Append(toViewer, Question("Names", 0, 0))
  BY DEF HostRefuses, HostHearsList, HostIgnores, Asks
<1>6. /\ Question("Names", 0, 0) \in Questions /\ Question("Names", 0, 0).type = "Names"
      /\ toViewer \in Seq(Questions) /\ toHost \in Seq(Mail)
  BY TypeFacts DEF Question, Questions, IInv, Base
<1>7. \A i \in DOMAIN toViewer' : \/ i \in DOMAIN toViewer /\ toViewer'[i] = toViewer[i]
                                  \/ toViewer'[i].type = "Names"
  BY <1>5, <1>6, Appended
<1>8. Asking' => Asking
  BY <1>2, <1>6, <1>7, TailOf DEF Asking
<1>9. ASSUME Alone, Alone' PROVE Len(toHost') + Len(toViewer') <= 1 /\ ~Asking'
  <2>1. toHost' = <<>> /\ toViewer' \in {<<>>, <<Question("Names", 0, 0)>>}
    BY <1>4, <1>5, <1>9, OneMessage
  <2>2. Len(toHost') = 0 /\ Len(toViewer') \in {0, 1}
    BY <2>1, OneMessage
  <2>3. ~Asking'
    BY <1>6, <2>1, OneMessage DEF Asking
  <2> QED
    BY <2>2, <2>3
<1>10. Alone' => Alone
  BY <1>2 DEF Alone
<1>11. OldLeftAlone'
  <2> SUFFICES ASSUME recv # NoState, Asking, OwnCopy \notin disturbed'
               PROVE  OwnCopy = Latest
    BY <1>2, <1>8 DEF OldLeftAlone
  <2> QED
    BY <1>2 DEF IInv, Flow, OldLeftAlone
<1> QED
  BY <1>3, <1>9, <1>10, <1>11 DEF Flow, OneAtATime, Chain

LEMMA NamesFlow ==
    ASSUME ClipboardAssumption, IInv, HostHearsNames
    PROVE  Flow'
<1> DEFINE dir == [of |-> Heard.number, files |-> <<>>]
           new == Len(folders) + 1
<1>1. /\ HostTakes({"Names"}) /\ UNCHANGED <<disturbed, spoiled>>
      /\ Heard.number \in 1 .. Latest /\ lists[Heard.number] \in Seq(Entries) /\ dir \in Folder
      /\ NamesRefused \/ NamesEmpty \/ \E f \in Nat \ {0} : NamesBegin(f)
  BY NamesEffect DEF IInv
<1>2. /\ toHost # <<>> /\ toHost' = Tail(toHost) /\ UNCHANGED lists /\ Latest' = Latest
      /\ Alone' = Alone
      /\ Heard = toHost[1] /\ 1 \in DOMAIN toHost /\ Heard.type = "Names"
  BY <1>1, HostTakesKeeps DEF IInv, HostTakes, Alone, Latest
<1>3. Alone => toHost' = <<>> /\ toViewer = <<>>
  BY <1>1, OnlyAnswer
<1>4. Alone => Heard.number = Latest
  BY <1>2 DEF IInv, Base, NamesAreCopies, Alone
<1>5. Heard.number \notin disturbed => Heard.number = Latest
  BY <1>2 DEF IInv, Base, NamesAreCopies
<1>6. /\ toViewer \in Seq(Questions) /\ toHost \in Seq(Mail)
      /\ folders \in Seq(Folder) /\ DOMAIN folders = 1 .. Len(folders) /\ Len(folders) \in Nat
      /\ pasted \in 0 .. Len(folders)
  BY TypeFacts, OldFolders DEF IInv, Base
<1>7. ASSUME folders' = Append(folders, dir)
      PROVE  /\ folders'[new] = dir /\ new \in Nat
             /\ \A t \in DOMAIN folders : folders'[t] = folders[t]
  <2> HIDE DEF dir
  <2> QED
    BY <1>1, <1>6, <1>7, Appended
<1>8. toViewer' = toViewer /\ Asking' => Asking
  BY <1>2, <1>6, TailOf DEF Asking
<1>9. toViewer' = toViewer => OneAtATime' /\ Chain'
  BY <1>2, <1>3, OneMessage DEF OneAtATime, Chain, Asking
<1>10. CASE NamesRefused
  <2>1. UNCHANGED <<recv, folders, pasted, toViewer>> /\ OwnCopy' = OwnCopy
    BY <1>10 DEF NamesRefused, OwnCopy
  <2>2. PastedIsFaithful'
    BY <1>1, <1>2, <2>1, PastedKept DEF IInv, Flow
  <2>3. OldLeftAlone'
    BY <1>1, <1>2, <1>8, <2>1 DEF OldLeftAlone, IInv, Flow
  <2> QED
    BY <1>9, <2>1, <2>2, <2>3 DEF Flow
<1>11. CASE NamesEmpty
  <2>1. /\ folders' = Append(folders, dir) /\ recv' = NoState /\ pasted' = new
        /\ UNCHANGED toViewer
        /\ \A f \in Nat : ~IsFile(lists[Heard.number], f)
    BY <1>11 DEF NamesEmpty
  <2>2. folders'[new].of = Heard.number
    BY <1>7, <2>1
  <2>3. Faithful(new, folders', lists', spoiled')
    BY <1>1, <1>2, <2>1, <2>2 DEF Faithful
  <2>4. PastedIsFaithful'
    BY <2>1, <2>3 DEF PastedIsFaithful
  <2> QED
    BY <1>9, <2>1, <2>4 DEF Flow, OldLeftAlone
<1>12. ASSUME NEW f \in Nat \ {0}, NamesBegin(f)
       PROVE  Flow'
  <2>1. /\ folders' = Append(folders, dir)
        /\ IsFile(lists[Heard.number], f)
        /\ \A g \in Nat : IsFile(lists[Heard.number], g) => f <= g
        /\ recv' = [files |-> lists[Heard.number], index |-> f, offset |-> 0, waiting |-> TRUE,
                    folder |-> new]
        /\ toViewer' = Append(toViewer, Question("Size", f, 0))
        /\ UNCHANGED pasted
    BY <1>12 DEF NamesBegin
  <2>2. /\ folders'[new].of = Heard.number /\ folders'[new].files = <<>>
        /\ \A t \in DOMAIN folders : folders'[t] = folders[t]
    BY <1>7, <2>1
  <2>3. PastedIsFaithful'
    <3>1. pasted # 0 => folders'[pasted] = folders[pasted]
      BY <1>6, <2>2
    <3> QED
      BY <1>1, <1>2, <2>1, <3>1, PastedKept DEF IInv, Flow
  <2>4. OwnCopy' = Heard.number
    BY <2>1, <2>2 DEF OwnCopy
  <2>5. OldLeftAlone'
    BY <1>1, <1>2, <1>5, <2>4 DEF OldLeftAlone
  <2>6. Alone => toHost' = <<>> /\ toViewer' = <<Question("Size", f, 0)>>
    BY <1>3, <2>1, OneMessage
  <2>7. OneAtATime'
    <3>1. Alone => Len(toHost') = 0 /\ Len(toViewer') = 1
      BY <2>6, OneMessage
    <3>2. Alone' => Alone
      BY <1>2
    <3>3. ASSUME Alone' PROVE Len(toHost') + Len(toViewer') <= 1
      <4>1. Len(toHost') = 0 /\ Len(toViewer') = 1
        BY <3>1, <3>2, <3>3
      <4> QED
        BY <4>1
    <3> QED
      BY <3>3 DEF OneAtATime
  <2>8. ASSUME Alone PROVE Underway'
    <3>1. Heard.number = Latest
      BY <1>4, <2>8
    <3>2. Ready(recv', folders', lists, spoiled, Latest)
      BY <2>1, <2>2, <3>1 DEF Ready
    <3>3. FitsQuestion(Question("Size", f, 0), recv')
      BY <2>1 DEF FitsQuestion, Question
    <3>4. recv' # NoState /\ pasted' # recv'.folder
      <4>1. recv'.folder = new /\ new # 0 /\ NoState.folder = 0
        BY <1>6, <2>1 DEF NoState
      <4> QED
        BY <1>6, <2>1, <4>1
    <3>5. \A i \in DOMAIN toViewer' : FitsQuestion(toViewer'[i], recv')
      BY <2>6, <2>8, <3>3
    <3>6. \A i \in DOMAIN toHost' : FitsAnswer(toHost'[i], recv', spoiled', Latest)
      BY <2>6, <2>8
    <3> QED
      BY <1>1, <1>2, <3>2, <3>4, <3>5, <3>6 DEF Underway
  <2> QED
    BY <1>2, <2>3, <2>5, <2>7, <2>8 DEF Flow, Chain
<1> QED
  BY <1>1, <1>10, <1>11, <1>12

-----------------------------------------------------------------------------
(* Answers about content.                                                      *)

ContentTypes == {"Size", "Data", "No"}

\* What every such step does.
Hears(types) ==
    /\ Hearing(types) /\ types \subseteq ContentTypes
    /\ spoiled \subseteq spoiled'
    /\ Len(folders') = Len(folders)
    /\ \A t \in DOMAIN folders : folders'[t].of = folders[t].of
    /\ \A t \in DOMAIN folders : t # recv.folder => folders'[t] = folders[t]

LEMMA HearsFacts ==
    ASSUME ClipboardAssumption, IInv, NEW types, Hears(types)
    PROVE  /\ Asking /\ Latest' = Latest /\ Alone' = Alone /\ UNCHANGED <<lists, disturbed>>
           /\ recv # NoState /\ recv.folder \in DOMAIN folders
           /\ pasted # 0 => pasted \in DOMAIN folders
           /\ toHost # <<>> /\ toHost' = Tail(toHost)
           /\ Heard = toHost[1] /\ 1 \in DOMAIN toHost /\ Heard.type \in types
           /\ Heard \in Mail /\ Latest \in Nat /\ Latest \in 1 .. Latest
           /\ lists[Latest] \in Seq(Entries)
           /\ Shaped(recv, folders, lists) /\ recv \in States
<1>1. /\ HostTakes(types) /\ recv # NoState /\ UNCHANGED disturbed
      /\ types \subseteq ContentTypes
  BY DEF Hears, Hearing
<1>2. /\ toHost # <<>> /\ toHost' = Tail(toHost) /\ UNCHANGED lists
      /\ Heard = toHost[1] /\ 1 \in DOMAIN toHost /\ Heard.type \in types
      /\ Heard \in Mail /\ Latest' = Latest /\ Latest \in 1 .. MaxCopies
  BY <1>1, HostTakesKeeps DEF IInv, HostTakes
<1>3. Asking
  BY <1>1, <1>2 DEF Asking, ContentTypes
<1>4. Alone' = Alone
  BY <1>1, <1>2 DEF Alone
<1>5. /\ Shaped(recv, folders, lists) /\ recv \in States /\ recv.folder \in DOMAIN folders
      /\ pasted # 0 => pasted \in DOMAIN folders
  BY <1>1, OldFolders DEF Shaped, IInv
<1>6. Latest \in Nat /\ Latest \in 1 .. Latest /\ lists[Latest] \in Seq(Entries)
  BY <1>2, TypeFacts DEF IInv, Base
<1> QED
  BY <1>1, <1>2, <1>3, <1>4, <1>5, <1>6

\* A copy that met something is not promised anything.
LEMMA DisturbedFlow ==
    ASSUME ClipboardAssumption, IInv, NEW types, Hears(types), ~Alone,
           recv'.folder = recv.folder, pasted' \in {pasted, recv.folder}
    PROVE  Flow'
<1>1. /\ Asking /\ Latest' = Latest /\ ~Alone' /\ UNCHANGED <<lists, disturbed>>
      /\ recv # NoState /\ recv.folder \in DOMAIN folders
      /\ pasted # 0 => pasted \in DOMAIN folders
  BY HearsFacts
<1>2. OwnCopy \in disturbed
  BY <1>1 DEF IInv, Flow, OldLeftAlone, Alone
<1>3. folders'[recv.folder].of = OwnCopy /\ OwnCopy' = OwnCopy
  BY <1>1 DEF Hears, OwnCopy
<1>4. OldLeftAlone'
  BY <1>1, <1>2, <1>3 DEF OldLeftAlone
<1>5. PastedIsFaithful'
  <2>1. CASE pasted' = recv.folder
    BY <1>1, <1>2, <1>3, <2>1 DEF PastedIsFaithful
  <2>2. CASE pasted' = pasted /\ pasted # recv.folder
    <3>1. pasted # 0 => folders'[pasted] = folders[pasted]
      BY <1>1, <2>2 DEF Hears
    <3>2. spoiled \subseteq spoiled'
      BY DEF Hears
    <3> QED
      BY <1>1, <2>2, <3>1, <3>2, PastedKept DEF IInv, Flow
  <2> QED
    BY <2>1, <2>2
<1> QED
  BY <1>1, <1>4, <1>5 DEF Flow, OneAtATime, Chain

\* What was asked for the latest copy has come.
LEMMA AnswerFits ==
    ASSUME ClipboardAssumption, IInv, NEW types, Hears(types), Alone
    PROVE  /\ Underway /\ FitsAnswer(Heard, recv, spoiled, Latest)
           /\ Ready(recv, folders, lists, spoiled', Latest)
           /\ OwnCopy = Latest /\ recv.files = lists[Latest] /\ pasted # recv.folder
           /\ toHost' = <<>> /\ toViewer = <<>>
<1>1. Underway
  BY HearsFacts DEF IInv, Flow, Chain
<1>2. FitsAnswer(Heard, recv, spoiled, Latest)
  BY <1>1, HearsFacts DEF Underway
<1>3. toHost' = <<>> /\ toViewer = <<>>
  BY OnlyAnswer DEF Hears, Hearing
<1>4. Ready(recv, folders, lists, spoiled', Latest)
  BY <1>1, HearsFacts, ReadyKept DEF Underway, Hears
<1> QED
  BY <1>1, <1>2, <1>3, <1>4 DEF Underway, Ready, OwnCopy

LEMMA GoesOnFlow ==
    ASSUME ClipboardAssumption, IInv, NEW types, Hears(types), Alone,
           recv' # NoState, recv'.folder = recv.folder, pasted' = pasted,
           Ready(recv', folders', lists, spoiled', Latest),
           NEW q, toViewer' = Append(toViewer, q), FitsQuestion(q, recv')
    PROVE  Flow'
<1>1. /\ Latest' = Latest /\ UNCHANGED <<lists, disturbed>> /\ recv.folder \in DOMAIN folders
      /\ pasted # 0 => pasted \in DOMAIN folders
  BY HearsFacts
<1>2. pasted # recv.folder /\ toHost' = <<>> /\ toViewer' = <<q>>
  BY AnswerFits, OneMessage
<1>3. pasted # 0 => folders'[pasted] = folders[pasted]
  BY <1>1, <1>2 DEF Hears
<1>4. PastedIsFaithful'
  BY <1>1, <1>3, PastedKept DEF IInv, Flow, Hears
<1>5. \A i \in DOMAIN toViewer' : FitsQuestion(toViewer'[i], recv')
  BY <1>2
<1>6. \A i \in DOMAIN toHost' : FitsAnswer(toHost'[i], recv', spoiled', Latest)
  BY <1>2
<1>7. Underway'
  BY <1>1, <1>2, <1>5, <1>6 DEF Underway
<1>8. OldLeftAlone'
  BY <1>1 DEF OldLeftAlone, OwnCopy, Ready
<1>9. OneAtATime'
  BY <1>2, OneMessage DEF OneAtATime
<1> QED
  BY <1>4, <1>7, <1>8, <1>9 DEF Flow, Chain

LEMMA EndsFlow ==
    ASSUME ClipboardAssumption, IInv, NEW types, Hears(types), Alone,
           recv'.folder = recv.folder, pasted' = recv.folder, toViewer' = toViewer,
           \A f \in Nat : IsFile(lists[Latest], f)
                => WholeIn(Latest, f, folders'[recv.folder].files, lists, spoiled')
    PROVE  Flow'
<1>1. /\ Latest' = Latest /\ UNCHANGED <<lists, disturbed>> /\ recv.folder \in DOMAIN folders
      /\ lists[Latest] \in Seq(Entries)
  BY HearsFacts
<1>2. OwnCopy = Latest /\ toHost' = <<>> /\ toViewer' = <<>>
  BY AnswerFits
<1>3. folders'[recv.folder].of = Latest
  BY <1>1, <1>2 DEF Hears, OwnCopy
<1>4. Faithful(recv.folder, folders', lists, spoiled')
  BY <1>1, <1>3 DEF Faithful
<1>5. PastedIsFaithful'
  BY <1>1, <1>4 DEF PastedIsFaithful
<1>6. ~Asking'
  BY <1>2 DEF Asking
<1> QED
  BY <1>2, <1>5, <1>6, OneMessage DEF Flow, OneAtATime, OldLeftAlone, Chain

\* The next file, if there is one.
LEMMA AdvanceFlow ==
    ASSUME ClipboardAssumption, IInv, NEW types, Hears(types), Alone,
           NEW s, Shaped(s, folders', lists), Advance(s),
           s.folder = recv.folder, s.files = recv.files, s.index = recv.index,
           WholeIn(Latest, recv.index, folders'[recv.folder].files, lists, spoiled'),
           \A f \in Nat : IsFile(lists[Latest], f) /\ f < recv.index
                => WholeIn(Latest, f, folders'[recv.folder].files, lists, spoiled'),
           \A f \in DOMAIN folders'[recv.folder].files : f \in Nat /\ f <= recv.index
    PROVE  Flow'
<1>1. /\ Latest' = Latest /\ UNCHANGED <<lists, disturbed>> /\ recv.folder \in DOMAIN folders
      /\ recv.index \in Nat
  BY HearsFacts DEF States
<1>2. OwnCopy = Latest /\ recv.files = lists[Latest] /\ toViewer = <<>>
  BY AnswerFits
<1>3. folders'[recv.folder].of = Latest
  BY <1>1, <1>2 DEF Hears, OwnCopy
<1>4. \A f \in Nat : IsFile(lists[Latest], f) /\ f <= recv.index
            => WholeIn(Latest, f, folders'[recv.folder].files, lists, spoiled')
  BY <1>1
<1>5. CASE Finished(s)
  <2>1. \A f \in Nat : IsFile(lists[Latest], f)
                => WholeIn(Latest, f, folders'[recv.folder].files, lists, spoiled')
    BY <1>2, <1>4, <1>5 DEF Finished
  <2>2. recv' = s /\ pasted' = recv.folder /\ toViewer' = toViewer
    BY <1>5 DEF Finished
  <2> QED
    BY <2>1, <2>2, EndsFlow
<1>6. ASSUME NEW g \in Nat \ {0}, MovesTo(s, g)
      PROVE  Flow'
  <2>1. /\ g > recv.index
        /\ \A f \in Nat : IsFile(lists[Latest], f) /\ f > recv.index => g <= f
        /\ recv' = [files |-> lists[Latest], index |-> g, offset |-> 0, waiting |-> TRUE,
                    folder |-> recv.folder]
        /\ toViewer' = Append(toViewer, Question("Size", g, 0))
        /\ pasted' = pasted
    BY <1>2, <1>6 DEF MovesTo
  <2>2. \A f \in Nat : IsFile(lists[Latest], f) /\ f < g => f <= recv.index
    BY <1>1, <2>1
  <2>3. \A f \in DOMAIN folders'[recv.folder].files : f <= g /\ f # g
    BY <1>1, <2>1
  <2>4. Ready(recv', folders', lists, spoiled', Latest)
    BY <1>3, <1>4, <2>1, <2>2, <2>3 DEF Ready
  <2>5. FitsQuestion(Question("Size", g, 0), recv')
    BY <2>1 DEF FitsQuestion, Question
  <2>6. recv' # NoState /\ recv'.folder = recv.folder
    <3>1. recv'.index = g /\ recv'.folder = recv.folder
      BY <2>1
    <3>2. recv'.folder # 0 /\ NoState.folder = 0
      <4>1. recv.folder \in DOMAIN folders
        BY HearsFacts
      <4>2. 0 \notin DOMAIN folders
        BY OldFolders DEF IInv
      <4>3. NoState.folder = 0
        BY DEF NoState
      <4> QED
        BY <3>1, <4>1, <4>2, <4>3
    <3> QED
      BY <3>1, <3>2
  <2> QED
    BY <2>1, <2>4, <2>5, <2>6, GoesOnFlow
<1>7. s \in States
  BY DEF Shaped
<1> QED
  BY <1>5, <1>6, <1>7, AdvanceEffect

LEMMA NoFlow ==
    ASSUME ClipboardAssumption, IInv, HostHearsNo \/ HostCannotWrite
    PROVE  Flow'
<1>1. PICK types : Hears(types) /\ Advance(recv) /\ folders' = folders
  BY DEF HostHearsNo, HostCannotWrite, HostHearsContents, Hears, Hearing, ContentTypes, pastVars
<1>2. /\ Shaped(recv, folders', lists) /\ recv.folder \in DOMAIN folders
      /\ Shaped(recv, folders, lists) /\ recv \in States
      /\ Latest \in Nat /\ lists[Latest] \in Seq(Entries) /\ toViewer \in Seq(Questions)
  BY <1>1, HearsFacts, OldFolders DEF IInv
<1>3. CASE ~Alone
  <2>1. recv'.folder = recv.folder /\ pasted' \in {pasted, recv.folder}
    BY <1>1, <1>2, AdvanceKeepsShape
  <2> QED
    BY <1>1, <1>3, <2>1, DisturbedFlow
<1>4. CASE Alone
  <2>1. /\ FitsAnswer(Heard, recv, spoiled, Latest)
        /\ Ready(recv, folders, lists, spoiled', Latest) /\ OwnCopy = Latest
    BY <1>1, <1>4, AnswerFits
  <2>2. <<Latest, recv.index>> \in spoiled'
    <3>1. CASE HostHearsNo
      <4>1. Heard.type = "No" /\ spoiled' = spoiled
        BY <3>1 DEF HostHearsNo, HostHearsContents, HostTakes, pastVars
      <4> QED
        BY <2>1, <4>1 DEF FitsAnswer
    <3>2. CASE HostCannotWrite
      BY <2>1, <3>2 DEF HostCannotWrite, OwnCopy
    <3> QED
      BY <3>1, <3>2
  <2>3. WholeIn(Latest, recv.index, folders'[recv.folder].files, lists, spoiled')
    BY <1>1, <1>2, <2>1, <2>2, PartIsWhole
  <2>4. /\ \A f \in Nat : IsFile(lists[Latest], f) /\ f < recv.index
                => WholeIn(Latest, f, folders'[recv.folder].files, lists, spoiled')
        /\ \A f \in DOMAIN folders'[recv.folder].files : f <= recv.index
    BY <1>1, <2>1 DEF Ready
  <2>5. \A f \in DOMAIN folders'[recv.folder].files : f \in Nat
    BY <1>1, <1>2, OldFolders DEF Kept, IInv
  <2> QED
    BY <1>1, <1>2, <1>4, <2>3, <2>4, <2>5, AdvanceFlow
<1> QED
  BY <1>3, <1>4

LEMMA SizeFlow ==
    ASSUME ClipboardAssumption, IInv, HostHearsSize
    PROVE  Flow'
<1>1. /\ Hearing({"Size", "Data"}) /\ UNCHANGED <<disturbed, spoiled>> /\ recv.waiting
      /\ recv # NoState /\ Base
  BY DEF HostHearsSize, HostHearsContents, Hearing, pastVars, IInv
<1>2. PICK n \in SizesHeard :
            IF n = 0
            THEN Writes(recv.index, <<>>) /\ Advance(Sized(n))
            ELSE /\ recv' = Sized(n)
                 /\ Asks(Question("Data", recv.index, 0))
                 /\ UNCHANGED <<folders, pasted>>
  BY DEF HostHearsSize, Sized
<1>3. <<>> \in Seq(Seq(Nat))
  OBVIOUS
<1>4. n = 0 => /\ Len(folders') = Len(folders)
               /\ \A t \in DOMAIN folders : folders'[t].of = folders[t].of
               /\ \A t \in DOMAIN folders : t # recv.folder => folders'[t] = folders[t]
               /\ DOMAIN folders'[recv.folder].files
                    = DOMAIN folders[recv.folder].files \cup {recv.index}
               /\ folders'[recv.folder].files[recv.index] = <<>>
               /\ \A f \in DOMAIN folders[recv.folder].files \ {recv.index} :
                    folders'[recv.folder].files[f] = folders[recv.folder].files[f]
               /\ DOMAIN folders' = DOMAIN folders
  BY <1>1, <1>2, <1>3, WritesEffect
<1>5. Hears({"Size", "Data"})
  BY <1>1, <1>2, <1>4 DEF Hears, ContentTypes
<1>6. /\ Shaped(recv, folders, lists) /\ recv \in States /\ recv.folder \in DOMAIN folders
      /\ Latest \in Nat /\ lists[Latest] \in Seq(Entries) /\ toViewer \in Seq(Questions)
      /\ Heard \in Mail /\ Heard.type \in {"Size", "Data"}
      /\ recv.index \in DOMAIN recv.files /\ recv.index \in Nat
      /\ recv.files[recv.index].size \in Nat /\ recv.offset = 0
  <2>1. /\ Shaped(recv, folders, lists) /\ recv \in States /\ recv.folder \in DOMAIN folders
        /\ Latest \in Nat /\ lists[Latest] \in Seq(Entries)
        /\ Heard \in Mail /\ Heard.type \in {"Size", "Data"}
    BY <1>5, HearsFacts
  <2>2. recv.index \in DOMAIN recv.files /\ recv.index \in Nat /\ recv.offset = 0
    BY <1>1, <2>1 DEF Shaped, States, IsFile
  <2>3. recv.files[recv.index].size \in Nat
    BY <2>1, <2>2, EntryTypes DEF States
  <2> QED
    BY <1>1, <2>1, <2>2, <2>3, OldFolders
<1>7. n \in Nat
  <2>1. Heard.number \in Nat
    BY <1>6 DEF Mail
  <2>2. MaxSize \in Nat
    BY DEF ClipboardAssumption
  <2> QED
    BY <1>6, <2>1, <2>2 DEF SizesHeard
<1>8. /\ Sized(n).index = recv.index /\ Sized(n).offset = 0 /\ Sized(n).waiting = FALSE
      /\ Sized(n).folder = recv.folder
      /\ n = recv.files[recv.index].size => Sized(n).files = recv.files
  BY <1>1, <1>7, SizedEffect
<1>9. Shaped(Sized(n), folders', lists)
  <2>1. recv.folder \in DOMAIN folders' /\ folders'[recv.folder].of = folders[recv.folder].of
    BY <1>2, <1>4, <1>6
  <2> QED
    BY <1>1, <1>7, <2>1, SizedShape
<1>10. CASE ~Alone
  <2>1. recv'.folder = recv.folder /\ pasted' \in {pasted, recv.folder}
    <3>1. CASE n = 0
      BY <1>2, <1>6, <1>8, <1>9, <3>1, AdvanceKeepsShape
    <3>2. CASE n # 0
      BY <1>2, <1>8, <3>2
    <3> QED
      BY <3>1, <3>2
  <2> QED
    BY <1>5, <1>10, <2>1, DisturbedFlow
<1>11. CASE Alone
  <2>1. /\ FitsAnswer(Heard, recv, spoiled, Latest)
        /\ Ready(recv, folders, lists, spoiled', Latest)
        /\ recv.files = lists[Latest] /\ OwnCopy = Latest
    BY <1>5, <1>11, AnswerFits
  <2>2. n = recv.files[recv.index].size
    BY <1>1, <1>2, <1>6, <2>1 DEF FitsAnswer, SizesHeard
  <2>3. Sized(n).files = recv.files
    BY <1>8, <2>2
  <2>4. CASE n = 0
    <3>1. Advance(Sized(n))
      BY <1>2, <2>4
    <3>2. WholeIn(Latest, recv.index, folders'[recv.folder].files, lists, spoiled')
      <4>1. Part(Latest, recv.index, 0) = <<>>
        BY DEF Part
      <4>2. /\ recv.index \in DOMAIN folders'[recv.folder].files
            /\ folders'[recv.folder].files[recv.index]
                    = Part(Latest, recv.index, lists[Latest][recv.index].size)
            /\ lists[Latest][recv.index].size \in Nat
        BY <1>4, <2>1, <2>2, <2>4, <4>1
      <4> QED
        BY <1>6, <4>2, CompleteIsWhole
    <3>3. ASSUME NEW f \in Nat, IsFile(lists[Latest], f), f < recv.index
          PROVE  WholeIn(Latest, f, folders'[recv.folder].files, lists, spoiled')
      <4>1. WholeIn(Latest, f, folders[recv.folder].files, lists, spoiled')
        BY <2>1, <3>3 DEF Ready
      <4>2. f # recv.index
        BY <1>6, <3>3
      <4> DEFINE files == folders[recv.folder].files
                 now   == folders'[recv.folder].files
      <4>3. /\ DOMAIN now = DOMAIN files \cup {recv.index}
            /\ \A g \in DOMAIN files \ {recv.index} : now[g] = files[g]
        BY <1>4, <2>4
      <4>4. WholeIn(Latest, f, files, lists, spoiled')
        BY <4>1
      <4> HIDE DEF files, now
      <4>5. WholeIn(Latest, f, now, lists, spoiled')
        BY <4>2, <4>3, <4>4 DEF WholeIn
      <4> QED
        BY <4>5 DEF now
    <3>4. \A f \in DOMAIN folders'[recv.folder].files : f \in Nat /\ f <= recv.index
      <4>1. \A f \in DOMAIN folders[recv.folder].files : f \in Nat
        BY <1>1, <1>6, OldFolders DEF Kept
      <4>2. \A f \in DOMAIN folders[recv.folder].files : f <= recv.index
        BY <2>1 DEF Ready
      <4> QED
        BY <1>4, <1>6, <2>4, <4>1, <4>2
    <3> QED
      BY <1>5, <1>8, <1>9, <1>11, <2>3, <3>1, <3>2, <3>3, <3>4, AdvanceFlow
  <2>5. CASE n # 0
    <3> DEFINE q == Question("Data", recv.index, 0)
    <3>1. /\ recv' = Sized(n) /\ UNCHANGED <<folders, pasted>>
          /\ toViewer' = Append(toViewer, q)
      BY <1>2, <2>5 DEF Asks
    <3>2. Ready(recv', folders', lists, spoiled', Latest)
      <4>1. 0 < recv.files[recv.index].size
        BY <1>6, <2>2, <2>5
      <4> QED
        BY <1>6, <1>8, <2>1, <2>3, <3>1, <4>1 DEF Ready
    <3>3. FitsQuestion(q, recv')
      BY <1>8, <3>1 DEF FitsQuestion, Question
    <3>4. recv' # NoState /\ recv'.folder = recv.folder /\ pasted' = pasted
      BY <1>8, <3>1 DEF NoState
    <3> HIDE DEF q
    <3> QED
      BY <1>5, <1>11, <3>1, <3>2, <3>3, <3>4, GoesOnFlow
  <2> QED
    BY <2>4, <2>5
<1> QED
  BY <1>10, <1>11

LEMMA DataFlow ==
    ASSUME ClipboardAssumption, IInv, HostHearsData
    PROVE  Flow'
<1>1. /\ Hearing({"Size", "Data"}) /\ UNCHANGED <<disturbed, spoiled>> /\ ~recv.waiting
      /\ recv # NoState /\ Base
  BY DEF HostHearsData, HostHearsContents, Hearing, pastVars, IInv
<1>2. /\ Writes(recv.index, Longer)
      /\ IF Grown.offset >= Grown.files[Grown.index].size
         THEN Advance(Grown)
         ELSE /\ recv' = Grown
              /\ Asks(Question("Data", recv.index, Grown.offset))
              /\ UNCHANGED pasted
  BY DEF HostHearsData, Grown, Longer, Content
<1>3. Heard \in Mail
  BY <1>1, HostTakesKeeps DEF Hearing
<1>4. /\ Content \in Seq(Seq(Nat)) /\ Longer \in Seq(Seq(Nat)) /\ Grown \in States
      /\ Grown.files = recv.files /\ Grown.index = recv.index /\ Grown.waiting = recv.waiting
      /\ Grown.folder = recv.folder /\ Grown.offset = recv.offset + Len(Content)
  BY <1>1, <1>3, GrownEffect
<1>5. /\ Len(folders') = Len(folders)
      /\ \A t \in DOMAIN folders : folders'[t].of = folders[t].of
      /\ \A t \in DOMAIN folders : t # recv.folder => folders'[t] = folders[t]
      /\ DOMAIN folders'[recv.folder].files = DOMAIN folders[recv.folder].files \cup {recv.index}
      /\ folders'[recv.folder].files[recv.index] = Longer
      /\ \A f \in DOMAIN folders[recv.folder].files \ {recv.index} :
            folders'[recv.folder].files[f] = folders[recv.folder].files[f]
      /\ DOMAIN folders' = DOMAIN folders
  BY <1>1, <1>2, <1>4, WritesEffect
<1>6. Hears({"Size", "Data"})
  BY <1>1, <1>5 DEF Hears, ContentTypes
<1>7. /\ Shaped(recv, folders, lists) /\ recv \in States /\ recv.folder \in DOMAIN folders
      /\ Latest \in Nat /\ lists[Latest] \in Seq(Entries) /\ toViewer \in Seq(Questions)
      /\ Heard.type \in {"Size", "Data"}
      /\ recv.index \in DOMAIN recv.files /\ recv.index \in Nat /\ recv.offset \in Nat
      /\ recv.files[recv.index].size \in Nat
  <2>1. /\ Shaped(recv, folders, lists) /\ recv \in States /\ recv.folder \in DOMAIN folders
        /\ Latest \in Nat /\ lists[Latest] \in Seq(Entries) /\ Heard.type \in {"Size", "Data"}
    BY <1>6, HearsFacts
  <2>2. recv.index \in DOMAIN recv.files /\ recv.index \in Nat /\ recv.offset \in Nat
    BY <2>1 DEF Shaped, States, IsFile
  <2>3. recv.files[recv.index].size \in Nat
    BY <2>1, <2>2, EntryTypes DEF States
  <2> QED
    BY <1>1, <2>1, <2>2, <2>3, OldFolders
<1>8. Shaped(Grown, folders', lists)
  BY <1>1, <1>4, <1>5, <1>7 DEF Shaped
<1>9. CASE ~Alone
  <2>1. recv'.folder = recv.folder /\ pasted' \in {pasted, recv.folder}
    <3>1. CASE Advance(Grown)
      BY <1>4, <1>7, <1>8, <3>1, AdvanceKeepsShape
    <3>2. CASE recv' = Grown /\ pasted' = pasted
      BY <1>4, <3>2
    <3> QED
      BY <1>2, <3>1, <3>2
  <2> QED
    BY <1>6, <1>9, <2>1, DisturbedFlow
<1>10. CASE Alone
  <2> DEFINE old == folders[recv.folder].files
             now == folders'[recv.folder].files
  <2>1. /\ FitsAnswer(Heard, recv, spoiled, Latest)
        /\ Ready(recv, folders, lists, spoiled', Latest)
        /\ recv.files = lists[Latest] /\ OwnCopy = Latest
    BY <1>6, <1>10, AnswerFits
  <2>2. Content = <<Unit(Latest, recv.index, recv.offset + 1)>> /\ Len(Content) = 1
    <3>1. Content = <<Unit(Latest, recv.index, recv.offset + 1)>>
      BY <1>1, <1>7, <2>1 DEF FitsAnswer, Content
    <3> QED
      BY <3>1, OneMessage
  <2>3. recv.offset < recv.files[recv.index].size
    BY <1>1, <2>1 DEF Ready
  <2>4. Longer = Part(Latest, recv.index, recv.offset + 1)
    <3>1. Part(Latest, recv.index, recv.offset) \o <<Unit(Latest, recv.index, recv.offset + 1)>>
            = Part(Latest, recv.index, recv.offset + 1)
      BY <1>7, PartsAreContent
    <3>2. recv.offset = 0 => Part(Latest, recv.index, recv.offset) = <<>>
      BY DEF Part
    <3>3. recv.offset # 0
            => folders[recv.folder].files[recv.index] = Part(Latest, recv.index, recv.offset)
      BY <2>1 DEF Ready
    <3>4. Longer = Part(Latest, recv.index, recv.offset) \o Content
      BY <3>2, <3>3 DEF Longer
    <3> QED
      BY <2>2, <3>1, <3>4
  <2>5. Grown.offset = recv.offset + 1
    BY <1>4, <2>2
  <2>6. /\ DOMAIN now = DOMAIN old \cup {recv.index} /\ now[recv.index] = Longer
        /\ \A g \in DOMAIN old \ {recv.index} : now[g] = old[g]
    BY <1>5
  <2>7. /\ \A f \in Nat : IsFile(lists[Latest], f) /\ f < recv.index
                => WholeIn(Latest, f, old, lists, spoiled')
        /\ \A f \in DOMAIN old : f <= recv.index
    BY <2>1 DEF Ready
  <2>8. \A f \in DOMAIN old : f \in Nat
    BY <1>1, <1>7, OldFolders DEF Kept
  <2>9. folders'[recv.folder].of = Latest
    BY <1>5, <1>7, <2>1 DEF OwnCopy
  <2> HIDE DEF old, now
  <2>10. ASSUME NEW f \in Nat, IsFile(lists[Latest], f), f < recv.index
         PROVE  WholeIn(Latest, f, now, lists, spoiled')
    <3>1. WholeIn(Latest, f, old, lists, spoiled') /\ f # recv.index
      BY <1>7, <2>7, <2>10
    <3> QED
      BY <2>6, <3>1 DEF WholeIn
  <2>11. \A f \in DOMAIN now : f \in Nat /\ f <= recv.index
    BY <1>7, <2>6, <2>7, <2>8
  <2>12. CASE Grown.offset >= Grown.files[Grown.index].size
    <3>1. Advance(Grown)
      BY <1>2, <2>12
    <3>2. recv.offset + 1 = lists[Latest][recv.index].size
      BY <1>4, <1>7, <2>1, <2>3, <2>5, <2>12
    <3>3. WholeIn(Latest, recv.index, now, lists, spoiled')
      <4>1. recv.index \in DOMAIN now /\ lists[Latest][recv.index].size \in Nat
        BY <1>7, <2>1, <2>6
      <4>2. now[recv.index] = Part(Latest, recv.index, lists[Latest][recv.index].size)
        BY <2>4, <2>6, <3>2
      <4> QED
        BY <1>7, <4>1, <4>2, CompleteIsWhole
    <3> QED
      BY <1>4, <1>6, <1>8, <1>10, <2>10, <2>11, <3>1, <3>3, AdvanceFlow DEF now
  <2>13. CASE ~(Grown.offset >= Grown.files[Grown.index].size)
    <3> DEFINE q == Question("Data", recv.index, Grown.offset)
    <3>1. /\ recv' = Grown /\ pasted' = pasted /\ toViewer' = Append(toViewer, q)
      BY <1>2, <2>13 DEF Asks
    <3>2. /\ recv'.folder = recv.folder /\ recv'.files = lists[Latest]
          /\ recv'.index = recv.index /\ recv'.offset = recv.offset + 1 /\ recv'.waiting = FALSE
      BY <1>1, <1>4, <1>7, <2>1, <2>5, <3>1 DEF States
    <3>3. recv'.offset < recv'.files[recv'.index].size
      <4>1. ~(recv.offset + 1 >= recv.files[recv.index].size)
        BY <1>4, <2>5, <2>13
      <4>2. recv'.files[recv'.index].size = recv.files[recv.index].size
        BY <2>1, <3>2
      <4> QED
        BY <1>7, <3>2, <4>1, <4>2
    <3>4. Ready(recv', folders', lists, spoiled', Latest)
      <4>1. recv'.offset # 0
        BY <1>7, <3>2
      <4>2. now[recv'.index] = Part(Latest, recv'.index, recv'.offset)
        BY <2>4, <2>6, <3>2
      <4>3. folders'[recv'.folder].files = now
        BY <3>2 DEF now
      <4> QED
        BY <2>9, <2>10, <2>11, <3>2, <3>3, <4>1, <4>2, <4>3 DEF Ready
    <3>5. FitsQuestion(q, recv')
      BY <1>4, <2>5, <3>1, <3>2 DEF FitsQuestion, Question
    <3>6. recv' # NoState
      BY <3>2 DEF NoState
    <3> HIDE DEF q
    <3> QED
      BY <1>6, <1>10, <3>1, <3>2, <3>4, <3>5, <3>6, GoesOnFlow
  <2> QED
    BY <2>12, <2>13
<1> QED
  BY <1>9, <1>10

LEMMA OtherFlow ==
    ASSUME ClipboardAssumption, IInv, Toggles \/ OtherSessionEnds \/ UNCHANGED vars
    PROVE  Flow'
<1>1. /\ UNCHANGED <<lists, toHost, toViewer, folders, pasted, spoiled>>
      /\ disturbed \subseteq disturbed' /\ Latest' = Latest
  BY DEF Toggles, OtherSessionEnds, vars, hostVars, pastVars, Latest
<1>2. PastedIsFaithful'
  BY <1>1, PastedKept DEF IInv, Flow
<1>3. OneAtATime'
  BY <1>1 DEF OneAtATime, Alone, IInv, Flow
<1>4. Asking' <=> Asking
  BY <1>1 DEF Asking
<1>5. CASE Toggles \/ UNCHANGED vars
  <2>1. recv' = recv /\ disturbed' = disturbed
    BY <1>5 DEF Toggles, vars, hostVars, pastVars
  <2>2. Underway' <=> Underway
    BY <1>1, <2>1 DEF Underway
  <2>3. OldLeftAlone' /\ Chain'
    BY <1>1, <1>4, <2>1, <2>2 DEF IInv, Flow, OldLeftAlone, OwnCopy, Chain, Alone
  <2> QED
    BY <1>2, <1>3, <2>3 DEF Flow
<1>6. CASE OtherSessionEnds
  <2>1. OldLeftAlone'
    BY <1>6 DEF OtherSessionEnds, OldLeftAlone
  <2>2. CASE Quiet
    BY <1>2, <1>3, <1>4, <2>1, <2>2 DEF Flow, Chain, Asking, Quiet
  <2>3. CASE ~Quiet
    <3>1. ~Alone'
      BY <1>1, <1>6, <2>3 DEF OtherSessionEnds, Alone
    <3> QED
      BY <1>2, <1>3, <2>1, <3>1 DEF Flow, Chain
  <2> QED
    BY <2>2, <2>3
<1> QED
  BY <1>5, <1>6

-----------------------------------------------------------------------------
\* The invariant of every behaviour.
LEMMA InitialState ==
    ASSUME ClipboardAssumption, Init
    PROVE  IInv
BY InitBase, InitFlow DEF IInv

LEMMA Step ==
    ASSUME ClipboardAssumption, IInv, [Next]_vars
    PROVE  IInv'
<1>1. Base'
  BY BaseStep DEF IInv
<1>2. Flow'
  BY CopyFlow, ViewerFlow, HostAloneFlow, NamesFlow, NoFlow, SizeFlow, DataFlow, OtherFlow
     DEF Next, HostTurn
<1> QED
  BY <1>1, <1>2 DEF IInv

\* What TLC checks on small lists holds for all of them: TypeOK.
THEOREM TypeCorrect ==
    ASSUME ClipboardAssumption
    PROVE  Spec => []TypeOK
<1>1. IInv => TypeOK
  BY DEF IInv, Base, Types
<1> QED
  BY <1>1, InitialState, Step, PTL DEF Spec

\* What can be pasted at the host is what was copied at the viewer, with the
\* exceptions the module names (clipboard_file.rs, RECV_STATE): PasteFaithful.
THEOREM PasteIsFaithful ==
    ASSUME ClipboardAssumption
    PROVE  Spec => []PasteFaithful
<1>1. IInv => PasteFaithful
  BY FlowIsFaithful DEF IInv, Flow
<1> QED
  BY <1>1, InitialState, Step, PTL DEF Spec
=============================================================================
