--------------------------- MODULE CommandLine_proofs --------------------------
(*****************************************************************************)
(* Proofs about CommandLine, for any scripts, any number of processes and    *)
(* any of the failures.                                                      *)
(*****************************************************************************)
EXTENDS CommandLine, ScriptLine_proofs

-----------------------------------------------------------------------------
(* The inductive invariant.                                                   *)

Editable == Editing \cup {"cat-manifest"}
InBuild == Editable \cup {"annotate", "check", "fill", "rename"}
ModifyPc == InBuild \cup {"idle", "refused", "stat", "modify begin", "finish",
                          "remove tmpdir", "exit"}
PlainPc == Commands \cup {"idle", "annotate", "fill", "new script", "remove tmpdir",
                          "lines", "exit"}

\* Every variable has its type.
Typed ==
    /\ exit \in BOOLEAN /\ killed \in BOOLEAN /\ calls \in 0..MaxCalls
    /\ call \in [cmd : Commands, modify : BOOLEAN, history : BOOLEAN, id : Nat]
    /\ call.id = calls /\ (Idle \/ calls > 0)
    /\ work \in Image \cup {None} /\ before \in Image \cup {None}
    /\ disk \in [{"image", "temp", "output"} -> Image \cup {None, Torn}]
    /\ tmpdirs \subseteq {"modify", "script"}
    /\ script \in Seq(Commands) \cup {None}

\* Where a process can be, by what it was called with.
Control ==
    /\ call.modify => pc \in ModifyPc
    /\ ~call.modify => pc \in PlainPc
    /\ pc \in Commands => pc = call.cmd
    /\ call.modify /\ pc \notin {"idle", "refused", "exit"} => call.cmd \notin NotWithModify
    /\ ~call.modify /\ pc = "fill" => call.cmd = "write"
    /\ ~call.modify /\ pc \in {"new script", "remove tmpdir"} => call.cmd = "script"
    /\ pc = "annotate" => Recorded /\ exit
    /\ script # None => ~Idle /\ ~call.modify
    /\ pc = "lines" => script # None

\* Whoever works on a build or a file has one.
HasBuild ==
    /\ pc \in {"annotate", "check", "fill", "rename"} => work # None
    /\ call.modify /\ pc = "modify begin" => disk["image"] # None
    /\ call.modify /\ pc \in InBuild => work # None /\ disk["image"] \notin {None, Torn}
    /\ pc = "rename" => disk["temp"] # None

\* With a build of the user's in the directory, --modify gets no further than begin.
UserInv ==
    ~Idle /\ call.modify /\ before # None =>
        /\ work = before
        /\ pc \in {"refused", "stat", "modify begin", "remove tmpdir", "exit"}
        /\ pc \in {"remove tmpdir", "exit"} => ~exit

\* Where there may be a .tmp file or a directory in /tmp, and what End has done.
LeftInv ==
    /\ ~killed =>
          /\ disk["temp"] # None => call.modify /\ pc \in {"fill", "rename"}
          /\ tmpdirs # {} =>
                IF call.modify THEN pc \in InBuild \cup {"modify begin", "finish", "remove tmpdir"}
                ELSE pc \in {"new script", "remove tmpdir"}
    /\ call.modify /\ pc \in {"remove tmpdir", "exit"} /\ exit => work = before

\* What the build of a --modify is to the file it began from, and to the .tmp file.
GrownFrom(old, new) ==
    new.done = old.done \/ \E half \in BOOLEAN : new.done = Append(old.done, Step(half))
FileInv ==
    /\ call.modify /\ pc \in Editable => work = disk["image"]
    /\ call.modify /\ pc \in InBuild \ Editable => GrownFrom(disk["image"], work)
    /\ pc = "rename" /\ "flush" \notin Faults => disk["temp"] = work

\* The processes that tell their user of success, or will unless they fail yet.
After == {"check", "fill", "rename", "finish", "remove tmpdir", "exit"}
Counts == exit /\ Recorded /\ pc \in After
BookInv ==
    /\ succeeded \subseteq 1..calls /\ reported \subseteq succeeded
    /\ Counts \/ pc = "annotate" => call.id \in succeeded
    /\ pc \notin {"idle", "lines"} => call.id \notin reported

\* Annotations that are left of a finite number of them: some have the highest number.
HasHighest(notes) ==
    \A some \in SUBSET notes : some # {} => \E m \in some : \A n \in some : n.n <= m.n

\* Every image tells its history, to all that are covered; before a process has
\* written an image, its number is in none, and before it annotates, in no annotation.
Ordered(notes) ==
    \A m, n \in notes : (m.n < n.n <=> m.id < n.id) /\ (m.n = n.n <=> m = n)
Told(image) ==
    \A i \in DOMAIN image.done :
        image.done[i].id \in reported \/ (Counts /\ image.done[i].id = call.id) =>
            Forgets(image, i) \/ \E m \in image.notes : m.id = image.done[i].id
Right(image) ==
    /\ \A i \in DOMAIN image.done : image.done[i].id \in 1..calls
    /\ \A m \in Own(image.notes) : m.id \in succeeded
    /\ HasHighest(image.notes) /\ Ordered(Own(image.notes))
    /\ Told(image)

Settled == {"fill", "rename", "finish", "remove tmpdir", "exit", "idle", "lines"}
Packed == {disk["image"], disk["temp"], disk["output"]} \ {None, Torn}
Unseen(image) == \A i \in DOMAIN image.done : image.done[i].id # call.id
Fresh(image) == \A m \in Own(image.notes) : m.id # call.id
HistoryInv ==
    /\ \A image \in Images : Right(image)
    /\ pc \notin Settled => \A image \in Packed : Unseen(image)
    /\ pc \notin Settled \cup {"check"} => \A image \in Images : Fresh(image)

-----------------------------------------------------------------------------
\* MaxNote is the highest number, and 0 if there is none.
LEMMA MaxNoteIsHighest ==
    ASSUME NEW notes \in SUBSET [n : Nat, id : Nat], HasHighest(notes)
    PROVE  /\ MaxNote(notes) \in Nat
           /\ \A m \in notes : m.n <= MaxNote(notes)
<1>1. CASE notes = {}
  BY <1>1 DEF MaxNote
<1>2. CASE notes # {}
  <2>1. \E n \in {m.n : m \in notes} : \A m \in notes : m.n <= n
    BY <1>2 DEF HasHighest
  <2>2. MaxNote(notes) \in {m.n : m \in notes} /\ \A m \in notes : m.n <= MaxNote(notes)
    BY <1>2, <2>1 DEF MaxNote
  <2> QED  BY <2>2
<1> QED  BY <1>1, <1>2

\* So does what a user makes of them.
LEMMA HighestAmong ==
    ASSUME NEW notes \in SUBSET [n : Nat, id : Nat], HasHighest(notes),
           NEW kept \in SUBSET (notes \cup Theirs)
    PROVE  HasHighest(kept)
<1> SUFFICES ASSUME NEW some \in SUBSET kept, some # {}
             PROVE  \E m \in some : \A n \in some : n.n <= m.n
  BY DEF HasHighest
<1> DEFINE old == some \cap notes
           new == some \cap Theirs
           numbers == {t.n : t \in new}
<1>1. \A n \in some : n.n \in Nat
  BY NumbersAssumption DEF Theirs
<1>2. old # {} => \E m \in old : \A n \in old : n.n <= m.n
  BY DEF HasHighest
<1>3. new # {} => \E m \in new : \A n \in new : n.n <= m.n
  <2> SUFFICES ASSUME new # {} PROVE \E m \in new : \A n \in new : n.n <= m.n
    OBVIOUS
  <2>1. numbers \in SUBSET Numbers /\ numbers # {}
    BY DEF Theirs
  <2>2. PICK top \in numbers : \A n \in numbers : n <= top
    BY <2>1, NumbersAssumption
  <2> QED  BY <2>2
<1>4. some = old \cup new
  OBVIOUS
<1> HIDE DEF old, new
<1>5. CASE old = {} \/ new = {}
  BY <1>2, <1>3, <1>4, <1>5
<1>6. CASE old # {} /\ new # {}
  <2>1. PICK m \in old : \A n \in old : n.n <= m.n
    BY <1>2, <1>6
  <2>2. PICK t \in new : \A n \in new : n.n <= t.n
    BY <1>3, <1>6
  <2>3. m.n <= t.n \/ t.n <= m.n
    BY <1>1, <1>4
  <2> QED  BY <1>1, <1>4, <2>1, <2>2, <2>3
<1> QED  BY <1>5, <1>6

\* Adding an annotation leaves a highest number.
LEMMA HighestKept ==
    ASSUME NEW notes \in SUBSET [n : Nat, id : Nat], HasHighest(notes),
           NEW note \in [n : Nat, id : Nat]
    PROVE  HasHighest(notes \cup {note})
<1>2. ASSUME NEW some \in SUBSET (notes \cup {note}), some # {}
      PROVE  \E m \in some : \A n \in some : n.n <= m.n
  <2>1. CASE some \ {note} = {}
    BY <1>2, <2>1
  <2>2. CASE some \ {note} # {}
    <3>1. some \ {note} \in SUBSET notes
      BY <1>2
    <3>2. PICK m \in some \ {note} : \A n \in some \ {note} : n.n <= m.n
      BY <2>2, <3>1 DEF HasHighest
    <3>3. \A n \in some : n.n \in Nat
      BY <1>2
    <3> QED  BY <1>2, <3>2, <3>3
  <2> QED  BY <2>1, <2>2
<1> QED  BY <1>2 DEF HasHighest

-----------------------------------------------------------------------------
LEMMA ControlStep == Typed /\ Control /\ Next => Control'
<1> SUFFICES ASSUME Typed, Control, Next PROVE Control'
  OBVIOUS
<1> USE DEF Typed, Control, ModifyPc, PlainPc, InBuild, Editable, Editing, Rewriting, Commands, NotWithModify,
            NotRecorded, Recorded, Idle, Goto, Fail, FailFor
<1>1. CASE Process
  <2>1. CASE Invoke
    <3>1. PICK cmd \in Commands, modify \in BOOLEAN, recorded \in BOOLEAN :
             Start([cmd |-> cmd, modify |-> modify, history |-> recorded, id |-> calls + 1])
      BY <2>1 DEF Invoke
    <3>2. /\ call'.cmd = cmd /\ call'.modify = modify
          /\ pc' = IF modify THEN (IF cmd \in NotWithModify THEN "refused" ELSE "stat") ELSE cmd
      BY <3>1 DEF Start
    <3> QED  BY <2>1, <3>2 DEF Invoke
  <2>2. CASE Refused   BY <2>2 DEF Refused
  <2>3. CASE Exit      BY <2>3 DEF Exit
  <2>4. CASE Kill      BY <2>4 DEF Kill
  <2> QED  BY <1>1, <2>1, <2>2, <2>3, <2>4 DEF Process
<1>2. CASE Command
  <2> USE DEF Returned, AfterCommand, commandVars
  <2>1. CASE NoBuild      BY <2>1 DEF NoBuild
  <2>2. CASE Edit         BY <2>2 DEF Edit
  <2>3. CASE EditFails    BY <2>3 DEF EditFails
  <2>4. CASE Rewrite       BY <2>4 DEF Rewrite
  <2>5. CASE CatManifest  BY <2>5 DEF CatManifest
  <2>6. CASE Begin        BY <2>6 DEF Begin
  <2>7. CASE End          BY <2>7 DEF End
  <2> QED  BY <1>2, <2>1, <2>2, <2>3, <2>4, <2>5, <2>6, <2>7 DEF Command
<1>3. CASE Annotation
  BY <1>3 DEF Annotation, Annotate, AnnotateFails, commandVars
<1>4. CASE Write
  <2> USE DEF writeVars, AfterWrite
  <2>1. CASE WriteRefused  BY <2>1 DEF WriteRefused
  <2>2. CASE OpenOutput    BY <2>2 DEF OpenOutput
  <2>3. CASE FillOutput    BY <2>3 DEF FillOutput
  <2>4. CASE FillFails     BY <2>4 DEF FillFails
  <2> QED  BY <1>4, <2>1, <2>2, <2>3, <2>4 DEF Write
<1>5. CASE Modify
  <2> USE DEF modifyVars
  <2>1. CASE Stat          BY <2>1 DEF Stat
  <2>2. CASE ModifyBegin   BY <2>2 DEF ModifyBegin
  <2>3. CASE Rename        BY <2>3 DEF Rename
  <2>4. CASE RenameFails   BY <2>4 DEF RenameFails
  <2>5. CASE Finish        BY <2>5 DEF Finish
  <2>6. CASE RemoveTmpdir  BY <2>6 DEF RemoveTmpdir
  <2> QED  BY <1>5, <2>1, <2>2, <2>3, <2>4, <2>5, <2>6 DEF Modify
<1>6. CASE Script
  <2> USE ScriptsAssumption DEF scriptVars
  <2>1. CASE StartScript  BY <2>1 DEF StartScript
  <2>2. CASE NewScript    BY <2>2 DEF NewScript
  <2>3. CASE NextLine
    <3>1. Head(script) \in Commands /\ Tail(script) \in Seq(Commands)
      BY <2>3, HeadTailProperties DEF NextLine
    <3>2. /\ ~call'.modify /\ call'.cmd = Head(script)
          /\ pc' = Head(script) /\ script' = Tail(script)
      BY <2>3 DEF NextLine, Start
    <3> QED  BY <3>1, <3>2
  <2>4. CASE EndOfScript  BY <2>4 DEF EndOfScript
  <2> QED  BY <1>6, <2>1, <2>2, <2>3, <2>4 DEF Script
<1> QED  BY <1>1, <1>2, <1>3, <1>4, <1>5, <1>6 DEF Next

-----------------------------------------------------------------------------
\* What Last and Front say of a sequence with one more element.
LEMMA LastOfAppend ==
    ASSUME NEW S, NEW old \in Seq(S), NEW elt \in S
    PROVE  /\ Append(old, elt) # <<>>
           /\ Last(Append(old, elt)) = elt
           /\ Front(Append(old, elt)) = old
<1> DEFINE new == Append(old, elt)
<1>1. new \in Seq(S) /\ new # <<>> /\ Len(new) = Len(old) + 1 /\ new[Len(old) + 1] = elt
  BY AppendProperties
<1>2. SubSeq(new, 1, Len(old)) = old
  OBVIOUS
<1>3. Len(old) \in Nat
  BY LenProperties
<1> HIDE DEF new
<1>4. Last(new) = elt
  BY <1>1 DEF Last
<1>5. Front(new) = old
  BY <1>1, <1>2, <1>3 DEF Front
<1> QED  BY <1>1, <1>4, <1>5 DEF new

\* An image with one more command in it is an image.
LEMMA DoneIsImage ==
    ASSUME NEW image \in Image, NEW step \in [id : Nat, cmd : Commands, half : BOOLEAN]
    PROVE  /\ Done(image, step) \in Image
           /\ Done(image, step).done = Append(image.done, step)
           /\ Done(image, step).notes = image.notes
<1>1. image.done \in Seq([id : Nat, cmd : Commands, half : BOOLEAN])
  BY DEF Image
<1>2. Append(image.done, step) \in Seq([id : Nat, cmd : Commands, half : BOOLEAN])
  BY <1>1
<1>3. DOMAIN image = {"named", "done", "notes"}
  BY DEF Image
<1> QED  BY <1>2, <1>3 DEF Done, Image

\* The user's annotations are numbered.
LEMMA TheirsTyped == Theirs \subseteq [n : Nat, id : Nat]
<1>1. Numbers \subseteq Nat
  BY NumbersAssumption
<1>2. SUFFICES ASSUME NEW t \in [n : Numbers, id : {0}]
               PROVE  t \in [n : Nat, id : Nat]
  BY DEF Theirs
<1>3. PICK k \in Numbers : t = [n |-> k, id |-> 0]
  BY <1>2
<1> QED  BY <1>1, <1>3

\* Commands on annotations bring none but the user's.
LEMMA RewrittenFrom ==
    ASSUME NEW cmd, NEW notes, NEW some \in Rewritten(cmd, notes)
    PROVE  some \subseteq notes \cup Theirs
<1>1. CASE cmd = "annotation-remove"
  BY <1>1 DEF Rewritten
<1>2. CASE cmd = "annotation-add"
  BY <1>2 DEF Rewritten
<1>3. CASE cmd \notin {"annotation-remove", "annotation-add"}
  BY <1>3 DEF Rewritten
<1> QED  BY <1>1, <1>2, <1>3

\* What a command that changes the build leaves is an image.
LEMMA EditedIsImage ==
    ASSUME Typed, Edit \/ EditFails \/ Rewrite
    PROVE  /\ work \in Image /\ work' \in Image
           /\ work' = work \/ \E half \in BOOLEAN : work'.done = Append(work.done, Step(half))
           /\ \/ work'.notes = work.notes
              \/ /\ pc \in Rewriting /\ work'.notes \subseteq work.notes \cup Theirs
                 /\ work'.done = Append(work.done, Step(FALSE))
<1>1. work \in Image
  BY DEF Typed, Edit, EditFails, Rewrite
<1>2. \A half \in BOOLEAN : Step(half) \in [id : Nat, cmd : Commands, half : BOOLEAN]
  BY DEF Step, Typed
<1>3. \A half \in BOOLEAN : /\ Done(work, Step(half)) \in Image
                            /\ Done(work, Step(half)).done = Append(work.done, Step(half))
                            /\ Done(work, Step(half)).notes = work.notes
  BY <1>1, <1>2, DoneIsImage
<1>4. CASE Edit
  <2> DEFINE image == Done(work, Step(FALSE))
  <2>1. PICK named \in BOOLEAN : work' = [image EXCEPT !.named = named]
    <3>1. CASE pc = "set-name"
      BY <1>3, <1>4, <3>1 DEF Edit, Image
    <3>2. CASE pc # "set-name"
      BY <1>3, <1>4, <3>2 DEF Edit, Image
    <3> QED  BY <3>1, <3>2
  <2> HIDE DEF image
  <2>2. /\ image \in Image /\ image.done = Append(work.done, Step(FALSE))
        /\ image.notes = work.notes
    BY <1>3 DEF image
  <2>3. work' \in Image /\ work'.done = image.done /\ work'.notes = image.notes
    BY <2>1, <2>2 DEF Image
  <2> QED  BY <1>1, <2>2, <2>3
<1>5. CASE EditFails
  <2>1. work' = work \/ work' = Done(work, Step(TRUE))
    BY <1>5 DEF EditFails
  <2> QED  BY <1>1, <1>3, <2>1
<1>6. CASE Rewrite
  <2>1. CASE work' = work
    BY <1>1, <2>1
  <2>2. CASE \E notes \in Rewritten(pc, work.notes), named \in BOOLEAN :
                work' = Done([work EXCEPT !.notes = notes, !.named = named], Step(FALSE))
    <3>1. PICK notes \in Rewritten(pc, work.notes), named \in BOOLEAN :
             work' = Done([work EXCEPT !.notes = notes, !.named = named], Step(FALSE))
      BY <2>2
    <3> DEFINE image == [work EXCEPT !.notes = notes, !.named = named]
    <3>0. notes \subseteq work.notes \cup Theirs
      BY <1>6, RewrittenFrom
    <3>2. image \in Image /\ image.done = work.done /\ image.notes = notes
      <4>1. Theirs \subseteq [n : Nat, id : Nat]
        BY TheirsTyped
      <4>2. notes \in SUBSET [n : Nat, id : Nat]
        BY <1>1, <3>0, <4>1 DEF Image
      <4> QED  BY <1>1, <4>2 DEF Image
    <3> HIDE DEF image
    <3>3. work' = Done(image, Step(FALSE))
      BY <3>1 DEF image
    <3>4. /\ work' \in Image /\ work'.done = Append(image.done, Step(FALSE))
          /\ work'.notes = image.notes
      BY <1>2, <3>2, <3>3, DoneIsImage
    <3>5. pc \in Rewriting /\ work'.notes \subseteq work.notes \cup Theirs
          /\ work'.done = Append(work.done, Step(FALSE))
      BY <1>6, <3>0, <3>2, <3>4 DEF Rewrite
    <3> QED  BY <1>1, <3>4, <3>5
  <2> QED  BY <1>6, <2>1, <2>2 DEF Rewrite
<1> QED  BY <1>4, <1>5, <1>6

\* An annotated image is an image.
LEMMA AnnotatedIsImage ==
    ASSUME Typed, HasBuild, Annotate, HasHighest(work.notes)
    PROVE  /\ work \in Image /\ work' \in Image
           /\ work'.done = work.done
           /\ work'.notes = work.notes \cup {[n |-> MaxNote(work.notes) + 1, id |-> call.id]}
<1>1. work \in Image
  BY DEF Typed, HasBuild, Annotate
<1>2. MaxNote(work.notes) \in Nat
  BY <1>1, MaxNoteIsHighest DEF Image
<1>3. call.id \in Nat
  BY DEF Typed
<1> QED  BY <1>1, <1>2, <1>3 DEF Annotate, Image

\* The last command of an image that a command was added to is that command.
LEMMA LastIsStep ==
    ASSUME Typed, NEW image \in Image, NEW half \in BOOLEAN,
           NEW new, new = Append(image.done, Step(half))
    PROVE  new # <<>> /\ Last(new) = Step(half) /\ Front(new) = image.done
<1> DEFINE T == [id : Nat, cmd : Commands, half : BOOLEAN]
<1>1. image.done \in Seq(T) /\ Step(half) \in T
  BY DEF Image, Step, Typed
<1> HIDE DEF T
<1> QED  BY <1>1, LastOfAppend

LEMMA TypedStep ==
    ASSUME Typed, Control, HasBuild, Next,
           pc = "annotate" => HasHighest(work.notes)
    PROVE  Typed'
<1> USE NoneAssumption, BoundAssumption, ScriptsAssumption
<1> USE DEF Typed, Idle, Goto, Fail, FailFor, procVars, history
<1>2. Empty \in Image
  BY DEF Empty, Image
<1>3. CASE Process
  <2>1. CASE Invoke
    <3>1. PICK cmd \in Commands, modify \in BOOLEAN, recorded \in BOOLEAN :
             Start([cmd |-> cmd, modify |-> modify, history |-> recorded, id |-> calls + 1])
      BY <2>1 DEF Invoke
    <3>2. call' \in [cmd : Commands, modify : BOOLEAN, history : BOOLEAN, id : Nat]
      BY <3>1 DEF Start
    <3> QED  BY <2>1, <3>1, <3>2 DEF Invoke, Start
  <2>2. CASE Refused   BY <2>2 DEF Refused
  <2>3. CASE Exit      BY <2>3 DEF Exit
  <2>4. CASE Kill      BY <2>4 DEF Kill
  <2> QED  BY <1>3, <2>1, <2>2, <2>3, <2>4 DEF Process
<1>4. CASE Command
  <2> USE DEF Returned, AfterCommand, commandVars
  <2>1. CASE NoBuild      BY <2>1 DEF NoBuild, Editing, Rewriting
  <2>2. CASE Edit
    <3>1. work' \in Image
      BY <2>2, EditedIsImage
    <3> QED  BY <2>2, <3>1 DEF Edit
  <2>3. CASE EditFails
    <3>1. work' \in Image
      BY <2>3, EditedIsImage
    <3> QED  BY <2>3, <3>1 DEF EditFails, Editing, Rewriting
  <2>4. CASE Rewrite
    <3>1. work' \in Image
      BY <2>4, EditedIsImage
    <3>2. pc \in {"annotation-remove", "annotation-add", "replace-manifest"}
      BY <2>4 DEF Rewrite, Rewriting
    <3>3. \E ok \in BOOLEAN : Returned(ok)
      BY <2>4 DEF Rewrite
    <3>4. UNCHANGED commandVars
      BY <2>4 DEF Rewrite
    <3> HIDE DEF Image, Rewritten
    <3> QED  BY <3>1, <3>2, <3>3, <3>4
  <2>5. CASE CatManifest  BY <2>5 DEF CatManifest
  <2>6. CASE Begin        BY <1>2, <2>6 DEF Begin
  <2>7. CASE End          BY <2>7 DEF End
  <2> QED  BY <1>4, <2>1, <2>2, <2>3, <2>4, <2>5, <2>6, <2>7 DEF Command
<1>5. CASE Annotation
  <2>1. CASE Annotate
    <3>1. work' \in Image
      BY <2>1, AnnotatedIsImage DEF Annotate
    <3> QED  BY <2>1, <3>1 DEF Annotate, commandVars
  <2>2. CASE AnnotateFails  BY <2>2 DEF AnnotateFails, commandVars
  <2> QED  BY <1>5, <2>1, <2>2 DEF Annotation
<1>6. CASE Write
  <2> USE DEF writeVars, AfterWrite, Output
  <2>1. CASE WriteRefused  BY <2>1 DEF WriteRefused
  <2>2. CASE OpenOutput    BY <2>2 DEF OpenOutput
  <2>3. CASE FillOutput    BY <2>3 DEF FillOutput
  <2>4. CASE FillFails     BY <2>4 DEF FillFails
  <2> QED  BY <1>6, <2>1, <2>2, <2>3, <2>4 DEF Write
<1>7. CASE Modify
  <2> USE DEF modifyVars
  <2>1. CASE Stat          BY <2>1 DEF Stat
  <2>2. CASE ModifyBegin   BY <2>2 DEF ModifyBegin
  <2>3. CASE Rename        BY <2>3 DEF Rename
  <2>4. CASE RenameFails   BY <2>4 DEF RenameFails
  <2>5. CASE Finish        BY <2>5 DEF Finish
  <2>6. CASE RemoveTmpdir  BY <2>6 DEF RemoveTmpdir
  <2> QED  BY <1>7, <2>1, <2>2, <2>3, <2>4, <2>5, <2>6 DEF Modify
<1>8. CASE Script
  <2> USE DEF scriptVars
  <2>1. CASE StartScript  BY <2>1 DEF StartScript
  <2>2. CASE NewScript    BY <2>2 DEF NewScript
  <2>3. CASE NextLine
    <3>1. Head(script) \in Commands /\ Tail(script) \in Seq(Commands)
      BY <2>3, HeadTailProperties DEF NextLine, Control
    <3>2. call' \in [cmd : Commands, modify : BOOLEAN, history : BOOLEAN, id : Nat]
      BY <2>3, <3>1 DEF NextLine, Start
    <3> QED  BY <2>3, <3>1, <3>2 DEF NextLine, Start
  <2>4. CASE EndOfScript  BY <2>4 DEF EndOfScript
  <2> QED  BY <1>8, <2>1, <2>2, <2>3, <2>4 DEF Script
<1> QED  BY <1>3, <1>4, <1>5, <1>6, <1>7, <1>8 DEF Next

LEMMA HasBuildStep ==
    ASSUME Typed, Control, HasBuild, Next,
           pc = "annotate" => HasHighest(work.notes)
    PROVE  HasBuild'
<1> USE NoneAssumption
<1> USE DEF Typed, Control, HasBuild, InBuild, Editable, Editing, Rewriting, NotWithModify, NotRecorded, Recorded,
            Idle, Goto, Fail, FailFor
<1>1. CASE Process
  <2>1. CASE Invoke
    <3>1. PICK cmd \in Commands, modify \in BOOLEAN, recorded \in BOOLEAN :
             Start([cmd |-> cmd, modify |-> modify, history |-> recorded, id |-> calls + 1])
      BY <2>1 DEF Invoke
    <3>2. call'.modify => pc' \in {"refused", "stat"}
      BY <3>1 DEF Start
    <3>3. pc' \in {"refused", "stat"} \cup Commands
      BY <3>1 DEF Start
    <3> QED  BY <3>2, <3>3 DEF Commands
  <2>2. CASE Refused   BY <2>2 DEF Refused
  <2>3. CASE Exit      BY <2>3 DEF Exit
  <2>4. CASE Kill      BY <2>4 DEF Kill
  <2> QED  BY <1>1, <2>1, <2>2, <2>3, <2>4 DEF Process
<1>2. CASE Command
  <2> USE DEF Returned, AfterCommand, commandVars, Commands
  <2>1. CASE NoBuild      BY <2>1 DEF NoBuild
  <2>2. CASE Edit
    <3>1. work' # None
      BY <2>2, EditedIsImage
    <3> QED  BY <2>2, <3>1 DEF Edit
  <2>3. CASE EditFails
    <3>1. work' # None
      BY <2>3, EditedIsImage
    <3> QED  BY <2>3, <3>1 DEF EditFails
  <2>4. CASE Rewrite
    <3>1. work' # None
      BY <2>4, EditedIsImage
    <3> QED  BY <2>4, <3>1 DEF Rewrite
  <2>5. CASE CatManifest  BY <2>5 DEF CatManifest
  <2>6. CASE Begin        BY <2>6 DEF Begin
  <2>7. CASE End          BY <2>7 DEF End
  <2> QED  BY <1>2, <2>1, <2>2, <2>3, <2>4, <2>5, <2>6, <2>7 DEF Command
<1>3. CASE Annotation
  <2>1. CASE Annotate
    <3>1. work' # None
      BY <2>1, AnnotatedIsImage DEF Annotate
    <3> QED  BY <2>1, <3>1 DEF Annotate, commandVars
  <2>2. CASE AnnotateFails  BY <2>2 DEF AnnotateFails, commandVars
  <2> QED  BY <1>3, <2>1, <2>2 DEF Annotation
<1>4. CASE Write
  <2> USE DEF writeVars, AfterWrite, Output
  <2>1. CASE WriteRefused  BY <2>1 DEF WriteRefused
  <2>2. CASE OpenOutput
    <3>1. disk'["image"] = disk["image"]
      BY <2>2 DEF OpenOutput
    <3>2. work # None /\ pc' = "fill" /\ UNCHANGED <<work, call>>
      BY <2>2 DEF OpenOutput
    <3> QED  BY <2>2, <3>1, <3>2 DEF OpenOutput, Commands
  <2>3. CASE FillOutput    BY <2>3 DEF FillOutput
  <2>4. CASE FillFails     BY <2>4 DEF FillFails
  <2> QED  BY <1>4, <2>1, <2>2, <2>3, <2>4 DEF Write
<1>5. CASE Modify
  <2> USE DEF modifyVars
  <2>1. CASE Stat          BY <2>1 DEF Stat
  <2>2. CASE ModifyBegin
    <3>1. call.modify /\ pc = "modify begin"
      BY <2>2 DEF ModifyBegin, PlainPc, Commands
    <3>2. call.cmd \in Editable
      BY <3>1 DEF Commands
    <3> QED  BY <2>2, <3>1, <3>2 DEF ModifyBegin
  <2>3. CASE Rename        BY <2>3 DEF Rename
  <2>4. CASE RenameFails   BY <2>4 DEF RenameFails
  <2>5. CASE Finish        BY <2>5 DEF Finish
  <2>6. CASE RemoveTmpdir  BY <2>6 DEF RemoveTmpdir
  <2> QED  BY <1>5, <2>1, <2>2, <2>3, <2>4, <2>5, <2>6 DEF Modify
<1>6. CASE Script
  <2> USE DEF scriptVars
  <2>1. CASE StartScript  BY <2>1 DEF StartScript
  <2>2. CASE NewScript    BY <2>2 DEF NewScript
  <2>3. CASE NextLine
    <3>1. Head(script) \in Commands
      BY <2>3, HeadTailProperties DEF NextLine
    <3>2. ~call'.modify /\ pc' = Head(script)
      BY <2>3 DEF NextLine, Start
    <3> QED  BY <3>1, <3>2 DEF Commands
  <2>4. CASE EndOfScript  BY <2>4 DEF EndOfScript
  <2> QED  BY <1>6, <2>1, <2>2, <2>3, <2>4 DEF Script
<1> QED  BY <1>1, <1>2, <1>3, <1>4, <1>5, <1>6 DEF Next

-----------------------------------------------------------------------------
LEMMA UserStep ==
    ASSUME Typed, Control, UserInv, Next
    PROVE  UserInv'
<1> USE NoneAssumption
<1> USE DEF Control, UserInv, ModifyPc, PlainPc, InBuild, Editable, Editing, Rewriting, Commands, NotWithModify,
            Idle, Goto, Fail, FailFor
<1>1. CASE Process
  <2>1. CASE Invoke
    <3>1. PICK cmd \in Commands, modify \in BOOLEAN, recorded \in BOOLEAN :
             Start([cmd |-> cmd, modify |-> modify, history |-> recorded, id |-> calls + 1])
      BY <2>1 DEF Invoke
    <3>2. /\ call'.modify => pc' \in {"refused", "stat"}
          /\ before' = work
      BY <3>1 DEF Start
    <3> QED  BY <2>1, <3>2 DEF Invoke
  <2>2. CASE Refused   BY <2>2 DEF Refused, history
  <2>3. CASE Exit      BY <2>3 DEF Exit
  <2>4. CASE Kill      BY <2>4 DEF Kill
  <2> QED  BY <1>1, <2>1, <2>2, <2>3, <2>4 DEF Process
<1>2. CASE Command
  <2> USE DEF Returned, AfterCommand, commandVars
  <2>1. CASE NoBuild      BY <2>1 DEF NoBuild
  <2>2. CASE Edit         BY <2>2 DEF Edit
  <2>3. CASE EditFails    BY <2>3 DEF EditFails
  <2>4. CASE Rewrite       BY <2>4 DEF Rewrite
  <2>5. CASE CatManifest  BY <2>5 DEF CatManifest
  <2>6. CASE Begin        BY <2>6 DEF Begin
  <2>7. CASE End          BY <2>7 DEF End
  <2> QED  BY <1>2, <2>1, <2>2, <2>3, <2>4, <2>5, <2>6, <2>7 DEF Command
<1>3. CASE Annotation
  BY <1>3 DEF Annotation, Annotate, AnnotateFails, commandVars
<1>4. CASE Write
  BY <1>4 DEF Write, WriteRefused, OpenOutput, FillOutput, FillFails, writeVars, AfterWrite
<1>5. CASE Modify
  <2> USE DEF modifyVars
  <2>1. CASE Stat          BY <2>1 DEF Stat
  <2>2. CASE ModifyBegin   BY <2>2 DEF ModifyBegin
  <2>3. CASE Rename        BY <2>3 DEF Rename
  <2>4. CASE RenameFails   BY <2>4 DEF RenameFails
  <2>5. CASE Finish        BY <2>5 DEF Finish
  <2>6. CASE RemoveTmpdir  BY <2>6 DEF RemoveTmpdir
  <2> QED  BY <1>5, <2>1, <2>2, <2>3, <2>4, <2>5, <2>6 DEF Modify
<1>6. CASE Script
  <2> USE DEF scriptVars
  <2>1. CASE StartScript  BY <2>1 DEF StartScript
  <2>2. CASE NewScript    BY <2>2 DEF NewScript
  <2>3. CASE NextLine
    <3>1. ~call'.modify
      BY <2>3 DEF NextLine, Start
    <3> QED  BY <3>1
  <2>4. CASE EndOfScript  BY <2>4 DEF EndOfScript
  <2> QED  BY <1>6, <2>1, <2>2, <2>3, <2>4 DEF Script
<1> QED  BY <1>1, <1>2, <1>3, <1>4, <1>5, <1>6 DEF Next

LEMMA LeftStep ==
    ASSUME Typed, Control, UserInv, LeftInv, Next
    PROVE  LeftInv'
<1> USE NoneAssumption
<1> USE DEF Typed, Control, LeftInv, ModifyPc, PlainPc, InBuild, Editable, Editing, Rewriting, Commands, NotWithModify,
            Idle, Goto, Fail, FailFor
<1>1. CASE Process
  <2>1. CASE Invoke
    <3>1. PICK cmd \in Commands, modify \in BOOLEAN, recorded \in BOOLEAN :
             Start([cmd |-> cmd, modify |-> modify, history |-> recorded, id |-> calls + 1])
      BY <2>1 DEF Invoke
    <3>2. pc' \in {"refused", "stat"} \cup Commands
      BY <3>1 DEF Start
    <3>3. UNCHANGED <<disk, tmpdirs, killed>>
      BY <2>1 DEF Invoke
    <3>4. ~killed => disk["temp"] = None /\ tmpdirs = {}
      BY <2>1 DEF Invoke
    <3> QED  BY <3>2, <3>3, <3>4
  <2>2. CASE Refused   BY <2>2 DEF Refused, history
  <2>3. CASE Exit      BY <2>3 DEF Exit
  <2>4. CASE Kill      BY <2>4 DEF Kill
  <2> QED  BY <1>1, <2>1, <2>2, <2>3, <2>4 DEF Process
<1>2. CASE Command
  <2> USE DEF Returned, AfterCommand, commandVars
  <2>1. CASE NoBuild      BY <2>1 DEF NoBuild
  <2>2. CASE Edit         BY <2>2 DEF Edit
  <2>3. CASE EditFails    BY <2>3 DEF EditFails
  <2>4. CASE Rewrite       BY <2>4 DEF Rewrite
  <2>5. CASE CatManifest  BY <2>5 DEF CatManifest
  <2>6. CASE Begin        BY <2>6 DEF Begin
  <2>7. CASE End          BY <2>7 DEF End
  <2> QED  BY <1>2, <2>1, <2>2, <2>3, <2>4, <2>5, <2>6, <2>7 DEF Command
<1>3. CASE Annotation
  BY <1>3 DEF Annotation, Annotate, AnnotateFails, commandVars
<1>4. CASE Write
  <2> USE DEF writeVars, AfterWrite, Output
  <2>1. CASE WriteRefused  BY <2>1 DEF WriteRefused
  <2>2. CASE OpenOutput    BY <2>2 DEF OpenOutput
  <2>3. CASE FillOutput    BY <2>3 DEF FillOutput
  <2>4. CASE FillFails     BY <2>4 DEF FillFails
  <2> QED  BY <1>4, <2>1, <2>2, <2>3, <2>4 DEF Write
<1>5. CASE Modify
  <2> USE DEF modifyVars
  <2>1. CASE Stat          BY <2>1 DEF Stat
  <2>2. CASE ModifyBegin   BY <2>2 DEF ModifyBegin
  <2>3. CASE Rename        BY <2>3 DEF Rename
  <2>4. CASE RenameFails   BY <2>4 DEF RenameFails
  <2>5. CASE Finish
    <3>1. call.modify => before = None
      BY <2>5 DEF Finish, UserInv
    <3> QED  BY <2>5, <3>1 DEF Finish
  <2>6. CASE RemoveTmpdir  BY <2>6 DEF RemoveTmpdir
  <2> QED  BY <1>5, <2>1, <2>2, <2>3, <2>4, <2>5, <2>6 DEF Modify
<1>6. CASE Script
  <2> USE DEF scriptVars
  <2>1. CASE StartScript  BY <2>1 DEF StartScript
  <2>2. CASE NewScript    BY <2>2 DEF NewScript
  <2>3. CASE NextLine
    <3>1. ~call'.modify /\ UNCHANGED <<disk, tmpdirs, killed>>
      BY <2>3 DEF NextLine, Start
    <3>2. ~killed => disk["temp"] = None /\ tmpdirs = {}
      BY <2>3 DEF NextLine
    <3> QED  BY <3>1, <3>2
  <2>4. CASE EndOfScript  BY <2>4 DEF EndOfScript
  <2> QED  BY <1>6, <2>1, <2>2, <2>3, <2>4 DEF Script
<1> QED  BY <1>1, <1>2, <1>3, <1>4, <1>5, <1>6 DEF Next

LEMMA FileStep ==
    ASSUME Typed, Control, HasBuild, FileInv, Next,
           pc = "annotate" => HasHighest(work.notes)
    PROVE  FileInv'
<1> USE NoneAssumption
<1> USE DEF Typed, Control, FileInv, ModifyPc, PlainPc, InBuild, Editable, Editing, Rewriting, Commands,
            NotWithModify, Idle, Goto, Fail, FailFor
<1>1. ASSUME UNCHANGED <<call, work>>, disk'["image"] = disk["image"]
      PROVE  GrownFrom(disk["image"], work) => GrownFrom(disk["image"], work)'
  BY <1>1 DEF GrownFrom, Step
<1>2. CASE Process
  <2>1. CASE Invoke
    <3>1. PICK cmd \in Commands, modify \in BOOLEAN, recorded \in BOOLEAN :
             Start([cmd |-> cmd, modify |-> modify, history |-> recorded, id |-> calls + 1])
      BY <2>1 DEF Invoke
    <3>2. /\ call'.modify => pc' \in {"refused", "stat"}
          /\ pc' \in {"refused", "stat"} \cup Commands
      BY <3>1 DEF Start
    <3> QED  BY <3>2
  <2>2. CASE Refused   BY <2>2 DEF Refused
  <2>3. CASE Exit      BY <2>3 DEF Exit
  <2>4. CASE Kill      BY <2>4 DEF Kill
  <2> QED  BY <1>2, <2>1, <2>2, <2>3, <2>4 DEF Process
<1>3. CASE Command
  <2>1. /\ UNCHANGED <<call, disk>>
        /\ pc' \in {"annotate", "check", "exit"}
    BY <1>3 DEF Command, NoBuild, Edit, EditFails, Rewrite, CatManifest, Begin, End,
                Returned, AfterCommand, commandVars
  <2>2. ASSUME call.modify PROVE GrownFrom(disk["image"], work)'
    <3>1. work = disk["image"] /\ call.cmd \notin NotWithModify /\ pc \in Editable
      BY <1>3, <2>2 DEF Command, NoBuild, Edit, EditFails, Rewrite, CatManifest, Begin, End
    <3>2. CASE NoBuild \/ CatManifest \/ Begin \/ End
      BY <2>1, <3>1, <3>2 DEF NoBuild, CatManifest, Begin, End, GrownFrom
    <3>3. CASE Edit \/ EditFails \/ Rewrite
      BY <2>1, <3>1, <3>3, EditedIsImage DEF GrownFrom, Step
    <3> QED  BY <1>3, <3>2, <3>3 DEF Command
  <2> QED  BY <2>1, <2>2
<1>4. CASE Annotation
  <2>1. /\ UNCHANGED <<call, disk>>
        /\ pc' \in {"check", "finish", "exit"}
    BY <1>4 DEF Annotation, Annotate, AnnotateFails, commandVars
  <2>2. CASE Annotate
    <3>1. work'.done = work.done
      BY <2>2, AnnotatedIsImage DEF Annotate
    <3>2. call.modify => GrownFrom(disk["image"], work)
      BY <2>2 DEF Annotate
    <3> QED  BY <2>1, <3>1, <3>2 DEF GrownFrom, Step
  <2>3. CASE AnnotateFails
    <3>1. pc' \in {"finish", "exit"}
      BY <2>3 DEF AnnotateFails
    <3> QED  BY <2>1, <3>1
  <2> QED  BY <1>4, <2>2, <2>3 DEF Annotation
<1>5. CASE Write
  <2> USE DEF writeVars, AfterWrite, Output
  <2>1. CASE WriteRefused  BY <2>1 DEF WriteRefused
  <2>2. CASE OpenOutput
    <3>1. UNCHANGED <<call, work>> /\ disk'["image"] = disk["image"] /\ pc' = "fill"
      BY <2>2 DEF OpenOutput
    <3>2. call.modify => pc = "check"
      BY <2>2 DEF OpenOutput
    <3> QED  BY <1>1, <3>1, <3>2
  <2>3. CASE FillOutput
    <3>1. UNCHANGED <<call, work>> /\ disk'["image"] = disk["image"] /\ pc = "fill"
      BY <2>3 DEF FillOutput
    <3>2. pc' = "rename" /\ "flush" \notin Faults => disk'["temp"] = work
      BY <2>3 DEF FillOutput
    <3>3. pc' \in {"rename", "exit"}
      BY <2>3 DEF FillOutput
    <3> QED  BY <1>1, <3>1, <3>2, <3>3
  <2>4. CASE FillFails     BY <2>4 DEF FillFails
  <2> QED  BY <1>5, <2>1, <2>2, <2>3, <2>4 DEF Write
<1>6. CASE Modify
  <2> USE DEF modifyVars
  <2>1. CASE Stat          BY <2>1 DEF Stat
  <2>2. CASE ModifyBegin   BY <2>2 DEF ModifyBegin
  <2>3. CASE Rename        BY <2>3 DEF Rename
  <2>4. CASE RenameFails   BY <2>4 DEF RenameFails
  <2>5. CASE Finish        BY <2>5 DEF Finish
  <2>6. CASE RemoveTmpdir  BY <2>6 DEF RemoveTmpdir
  <2> QED  BY <1>6, <2>1, <2>2, <2>3, <2>4, <2>5, <2>6 DEF Modify
<1>7. CASE Script
  <2> USE DEF scriptVars
  <2>1. CASE StartScript  BY <2>1 DEF StartScript
  <2>2. CASE NewScript    BY <2>2 DEF NewScript
  <2>3. CASE NextLine
    <3>1. Head(script) \in Commands
      BY <2>3, HeadTailProperties DEF NextLine
    <3>2. ~call'.modify /\ pc' = Head(script)
      BY <2>3 DEF NextLine, Start
    <3> QED  BY <3>1, <3>2
  <2>4. CASE EndOfScript  BY <2>4 DEF EndOfScript
  <2> QED  BY <1>7, <2>1, <2>2, <2>3, <2>4 DEF Script
<1> QED  BY <1>2, <1>3, <1>4, <1>5, <1>6, <1>7 DEF Next

-----------------------------------------------------------------------------
\* The number of a new process is none of those before.
LEMMA NewNumber ==
    ASSUME NEW n \in Nat
    PROVE  1..n \subseteq 1..(n + 1) /\ n + 1 \notin 1..n
OBVIOUS

LEMMA BookStep ==
    ASSUME Typed, Control, BookInv, Next
    PROVE  /\ BookInv'
           /\ succeeded \subseteq succeeded' /\ calls' \in {calls, calls + 1}
           /\ Counts' => UNCHANGED call /\ (Counts \/ Annotate)
           /\ reported' = reported \/ (Counts /\ reported' = reported \cup {call.id})
<1> USE DEF Control, BookInv, Counts, After, Recorded, ModifyPc, PlainPc, InBuild, Editable,
            Editing, Rewriting, Commands, NotWithModify, NotRecorded, Idle, Goto, Fail, FailFor
<1>0. /\ exit \in BOOLEAN /\ calls \in Nat /\ call.id = calls /\ (pc = "idle" \/ calls > 0)
      /\ call.modify \in BOOLEAN /\ call.history \in BOOLEAN /\ call.cmd \in Commands
  BY BoundAssumption DEF Typed
<1> USE <1>0
<1>1. CASE Process
  <2>1. CASE Invoke
    <3>1. PICK cmd \in Commands, modify \in BOOLEAN, recorded \in BOOLEAN :
             Start([cmd |-> cmd, modify |-> modify, history |-> recorded, id |-> calls + 1])
      BY <2>1 DEF Invoke
    <3>2. /\ call'.id = calls + 1 /\ calls' = calls + 1
          /\ pc' \in {"refused", "stat"} \cup Commands
      BY <3>1 DEF Start
    <3>3. reported \subseteq succeeded /\ UNCHANGED <<reported, succeeded>>
      BY <2>1 DEF Invoke
    <3>4. 1..calls \subseteq 1..calls' /\ call'.id \notin 1..calls
      <4> HIDE DEF BookInv, Control, Counts
      <4> QED  BY <3>2, NewNumber
    <3>5. call'.id \notin reported' /\ ~Counts' /\ pc' # "annotate"
      BY <3>2, <3>3, <3>4
    <3> QED  BY <3>2, <3>3, <3>4, <3>5
  <2>2. CASE Refused   BY <2>2 DEF Refused, history
  <2>3. CASE Exit      BY <2>3 DEF Exit
  <2>4. CASE Kill      BY <2>4 DEF Kill
  <2> QED  BY <1>1, <2>1, <2>2, <2>3, <2>4 DEF Process
<1>2. CASE Command
  <2>1. PICK ok \in BOOLEAN : Returned(ok)
    BY <1>2 DEF Command, NoBuild, Edit, EditFails, Rewrite, CatManifest, Begin, End
  <2>2. pc \in Commands /\ UNCHANGED <<call, calls, reported>>
    BY <1>2 DEF Command, NoBuild, Edit, EditFails, Rewrite, CatManifest, Begin, End, commandVars
  <2>3. succeeded' = succeeded \/ (ok /\ succeeded' = succeeded \cup {call.id})
    BY <2>1 DEF Returned
  <2>4. pc' = "annotate" => succeeded' = succeeded \cup {call.id}
    BY <2>1 DEF Returned, AfterCommand
  <2>5. ~Counts'
    BY <2>1, <2>2 DEF Returned, AfterCommand
  <2>6. pc' \in {"annotate", "check", "exit"}
    BY <2>1 DEF Returned, AfterCommand
  <2>7. call.id \in 1..calls
    <3> HIDE DEF BookInv, Control, Counts
    <3> QED  BY <2>2
  <2> QED  BY <2>2, <2>3, <2>4, <2>5, <2>6, <2>7
<1>3. CASE Annotation
  BY <1>3 DEF Annotation, Annotate, AnnotateFails, commandVars
<1>4. CASE Write
  <2> USE DEF writeVars, AfterWrite
  <2>1. CASE WriteRefused  BY <2>1 DEF WriteRefused
  <2>2. CASE OpenOutput    BY <2>2 DEF OpenOutput
  <2>3. CASE FillOutput    BY <2>3 DEF FillOutput
  <2>4. CASE FillFails     BY <2>4 DEF FillFails
  <2> QED  BY <1>4, <2>1, <2>2, <2>3, <2>4 DEF Write
<1>5. CASE Modify
  <2> USE DEF modifyVars
  <2>1. CASE Stat          BY <2>1 DEF Stat
  <2>2. CASE ModifyBegin   BY <2>2 DEF ModifyBegin
  <2>3. CASE Rename        BY <2>3 DEF Rename
  <2>4. CASE RenameFails   BY <2>4 DEF RenameFails
  <2>5. CASE Finish
    <3>1. /\ pc = "finish" /\ pc' = "remove tmpdir" /\ (exit' = exit \/ exit' = FALSE)
          /\ UNCHANGED <<call, calls, succeeded, reported>>
      BY <2>5 DEF Finish
    <3>2. Counts' => Counts
      BY <3>1
    <3> HIDE DEF Control, Counts
    <3> QED  BY <3>1, <3>2
  <2>6. CASE RemoveTmpdir  BY <2>6 DEF RemoveTmpdir
  <2> QED  BY <1>5, <2>1, <2>2, <2>3, <2>4, <2>5, <2>6 DEF Modify
<1>6. CASE Script
  <2> USE DEF scriptVars
  <2>1. CASE StartScript  BY <2>1 DEF StartScript
  <2>2. CASE NewScript    BY <2>2 DEF NewScript
  <2>3. CASE NextLine
    <3>1. Head(script) \in Commands
      BY <2>3, HeadTailProperties DEF NextLine, Typed
    <3>2. /\ call'.id = calls + 1 /\ calls' = calls + 1
          /\ pc' = Head(script)
      BY <2>3 DEF NextLine, Start
    <3>3. reported \subseteq succeeded /\ UNCHANGED <<reported, succeeded>>
      BY <2>3 DEF NextLine
    <3>4. 1..calls \subseteq 1..calls' /\ call'.id \notin 1..calls
      <4> HIDE DEF BookInv, Control, Counts
      <4> QED  BY <3>2, NewNumber
    <3>5. call'.id \notin reported' /\ ~Counts' /\ pc' # "annotate"
      BY <3>1, <3>2, <3>3, <3>4
    <3> QED  BY <3>2, <3>3, <3>4, <3>5
  <2>4. CASE EndOfScript  BY <2>4 DEF EndOfScript
  <2> QED  BY <1>6, <2>1, <2>2, <2>3, <2>4 DEF Script
<1> QED  BY <1>1, <1>2, <1>3, <1>4, <1>5, <1>6 DEF Next

\* A new process: its number is the next one, and it finds everything as it was.
Starts == call'.id = calls' /\ calls' = calls + 1 /\ UNCHANGED <<work, disk>>

\* Which images a step makes, and when a process has not written or annotated yet.
LEMMA ImagesStep ==
    ASSUME Typed, Control, Next
    PROVE  /\ \/ Edit \/ EditFails \/ Rewrite \/ Annotate
              \/ work' \in {work, None, Empty, disk["image"]}
           /\ Packed' \subseteq Packed \cup {work}
           /\ pc' \notin Settled =>
                 Starts \/ (pc \notin Settled /\ UNCHANGED <<call, disk>>)
           /\ pc' \notin Settled \cup {"check"} =>
                 Starts \/ (pc \notin Settled \cup {"check", "annotate"} /\ UNCHANGED call)
<1> USE DEF Settled, Idle, Goto, Fail, FailFor
<1>1. CASE Process
  <2>1. CASE Invoke    BY <2>1 DEF Invoke, Start, Starts, Packed
  <2>2. CASE Refused   BY <2>2 DEF Refused, Packed
  <2>3. CASE Exit      BY <2>3 DEF Exit, Packed
  <2>4. CASE Kill      BY <2>4 DEF Kill, Packed
  <2> QED  BY <1>1, <2>1, <2>2, <2>3, <2>4 DEF Process
<1>2. CASE Command
  <2>1. UNCHANGED <<call, disk>> /\ Packed' = Packed
    BY <1>2 DEF Command, NoBuild, Edit, EditFails, Rewrite, CatManifest, Begin, End, commandVars, Packed
  <2>2. pc \in Commands
    BY <1>2 DEF Command, NoBuild, Edit, EditFails, Rewrite, CatManifest, Begin, End, Commands, Editing, Rewriting
  <2>3. pc \notin Settled \cup {"check", "annotate"}
    BY <2>2 DEF Commands, Editing, Rewriting
  <2>4. \/ Edit \/ EditFails \/ Rewrite \/ work' \in {work, None, Empty, disk["image"]}
    BY <1>2 DEF Command, NoBuild, CatManifest, Begin, End
  <2> QED  BY <2>1, <2>3, <2>4
<1>3. CASE Annotation
  BY <1>3 DEF Annotation, Annotate, AnnotateFails, commandVars, Packed
<1>4. CASE Write
  <2> USE DEF writeVars, AfterWrite
  <2>1. CASE WriteRefused
    <3>1. UNCHANGED <<work, disk>> /\ pc' \in Settled
      BY <2>1 DEF WriteRefused
    <3> QED  BY <3>1 DEF Packed
  <2>2. ASSUME NEW f \in {"image", "temp", "output"}, NEW content \in {work, None, Torn},
               disk' = [disk EXCEPT ![f] = content]
        PROVE  Packed' \subseteq Packed \cup {work}
    BY <2>2 DEF Packed, Typed
  <2>3. Output \in {"image", "temp", "output"}
    BY DEF Output
  <2>4. CASE OpenOutput \/ FillOutput \/ FillFails
    <3>1. UNCHANGED work /\ pc' \in Settled
      BY <2>4 DEF OpenOutput, FillOutput, FillFails
    <3>2. \E content \in {work, None, Torn} : disk' = [disk EXCEPT ![Output] = content]
      BY <2>4 DEF OpenOutput, FillOutput, FillFails
    <3> QED  BY <2>2, <2>3, <3>1, <3>2
  <2> QED  BY <1>4, <2>1, <2>4 DEF Write
<1>5. CASE Modify
  <2> USE DEF modifyVars
  <2>1. CASE Stat          BY <2>1 DEF Stat, Packed
  <2>2. CASE ModifyBegin   BY <2>2 DEF ModifyBegin, Packed
  <2>3. CASE Rename \/ RenameFails
    <3>1. /\ UNCHANGED work /\ pc' \in Settled
          /\ disk'["output"] = disk["output"] /\ disk'["temp"] = None
          /\ disk'["image"] \in {disk["image"], disk["temp"]}
      BY <2>3 DEF Rename, RenameFails, Typed
    <3> QED  BY <3>1 DEF Packed
  <2>4. CASE Finish        BY <2>4 DEF Finish, Packed
  <2>5. CASE RemoveTmpdir  BY <2>5 DEF RemoveTmpdir, Packed
  <2> QED  BY <1>5, <2>1, <2>2, <2>3, <2>4, <2>5 DEF Modify
<1>6. CASE Script
  <2> USE DEF scriptVars
  <2>1. CASE StartScript  BY <2>1 DEF StartScript, Packed
  <2>2. CASE NewScript    BY <2>2 DEF NewScript, Packed
  <2>3. CASE NextLine     BY <2>3 DEF NextLine, Start, Starts, Packed
  <2>4. CASE EndOfScript  BY <2>4 DEF EndOfScript, Packed
  <2> QED  BY <1>6, <2>1, <2>2, <2>3, <2>4 DEF Script
<1> QED  BY <1>1, <1>2, <1>3, <1>4, <1>5, <1>6 DEF Next

\* An image that stays as it is stays right.
LEMMA RightKept ==
    ASSUME Typed, Control, BookInv, Next,
           NEW image, Right(image), Annotate => Unseen(image)
    PROVE  Right(image)'
<1>1. /\ succeeded \subseteq succeeded' /\ calls' \in {calls, calls + 1}
      /\ Counts' => UNCHANGED call /\ (Counts \/ Annotate)
      /\ reported' = reported \/ (Counts /\ reported' = reported \cup {call.id})
  BY BookStep
<1>2. 1..calls \subseteq 1..calls'
  BY <1>1, NewNumber, BoundAssumption DEF Typed
<1>3. Told(image)'
  <2> SUFFICES ASSUME NEW i \in DOMAIN image.done,
                      image.done[i].id \in reported' \/ (Counts' /\ image.done[i].id = call'.id)
               PROVE  Forgets(image, i) \/ \E m \in image.notes : m.id = image.done[i].id
    BY DEF Told, Forgets
  <2>1. image.done[i].id \in reported \/ (Counts /\ image.done[i].id = call.id)
    <3>1. CASE image.done[i].id \in reported'
      BY <1>1, <3>1
    <3>2. CASE Counts' /\ image.done[i].id = call'.id
      BY <1>1, <3>2 DEF Unseen
    <3> QED  BY <3>1, <3>2
  <2> QED  BY <2>1 DEF Right, Told
<1> QED  BY <1>1, <1>2, <1>3 DEF Right

\* A command that changes the build leaves it right, whether it reports success or not.
LEMMA EditKeepsRight ==
    ASSUME Typed, Control, BookInv, Next, Edit \/ EditFails \/ Rewrite, Right(work),
           NEW image, image = work'
    PROVE  Right(image)'
<1>1. /\ work \in Image /\ image \in Image
      /\ image = work \/ \E half \in BOOLEAN : image.done = Append(work.done, Step(half))
      /\ \/ image.notes = work.notes
         \/ /\ pc \in Rewriting /\ image.notes \subseteq work.notes \cup Theirs
            /\ image.done = Append(work.done, Step(FALSE))
  BY EditedIsImage
<1>2. ~Annotate
  BY DEF Edit, EditFails, Rewrite, Annotate, Editing, Rewriting
<1>3. CASE image = work
  <2>1. \A x : x = work => Right(x)
    OBVIOUS
  <2> QED  BY <1>2, <1>3, <2>1, RightKept
<1>4. CASE \E half \in BOOLEAN : image.done = Append(work.done, Step(half))
  <2>1. PICK half \in BOOLEAN : image.done = Append(work.done, Step(half))
    BY <1>4
  <2>2. /\ UNCHANGED <<call, calls, reported>> /\ pc \in Editing
        /\ \E ok \in BOOLEAN : Returned(ok)
    BY DEF Edit, EditFails, Rewrite, commandVars, Editing, Rewriting
  <2>3. ~Counts'
    BY <2>2 DEF Returned, AfterCommand, Counts, Recorded, After
  <2>4. call.id \in 1..calls /\ call.id \notin reported
    BY <2>2, BoundAssumption DEF Typed, BookInv, Idle, Editing, Rewriting
  <2>5. succeeded \subseteq succeeded'
    BY BookStep
  <2> DEFINE n == Len(work.done)
  <2>6. /\ work.done \in Seq([id : Nat, cmd : Commands, half : BOOLEAN]) /\ n \in Nat
        /\ DOMAIN work.done = 1..n /\ DOMAIN image.done = 1..(n + 1) /\ Len(image.done) = n + 1
        /\ \A i \in 1..n : image.done[i] = work.done[i]
        /\ image.done[n + 1] = Step(half)
    BY <1>1, <2>1 DEF Image
  <2>7. Step(half).id = call.id /\ Step(half).cmd = call.cmd
    BY DEF Step
  <2> HIDE DEF n
  <2>8. \A i \in DOMAIN image.done : image.done[i].id \in (1..calls)'
    <3> SUFFICES ASSUME NEW i \in 1..(n + 1) PROVE image.done[i].id \in 1..calls
      BY <2>2, <2>6
    <3>1. CASE i \in 1..n
      BY <2>6, <3>1 DEF Right
    <3>2. CASE i = n + 1
      BY <2>4, <2>6, <2>7, <3>2
    <3> QED  BY <2>6, <3>1, <3>2
  <2>9. /\ HasHighest(image.notes) /\ Ordered(Own(image.notes))
        /\ \A m \in Own(image.notes) : m.id \in succeeded'
    <3>1. image.notes \in SUBSET (work.notes \cup Theirs)
      BY <1>1
    <3>2. HasHighest(image.notes)
      <4>1. work.notes \in SUBSET [n : Nat, id : Nat] /\ HasHighest(work.notes)
        BY <1>1 DEF Image, Right
      <4> QED  BY <3>1, <4>1, HighestAmong
    <3>3. Own(image.notes) \subseteq Own(work.notes)
      BY <3>1 DEF Own, Theirs
    <3> QED  BY <2>5, <3>2, <3>3 DEF Right, Ordered
  <2>10. Told(image)'
    <3> SUFFICES ASSUME NEW i \in DOMAIN image.done, image.done[i].id \in reported
                 PROVE  Forgets(image, i) \/ \E m \in image.notes : m.id = image.done[i].id
      BY <2>2, <2>3 DEF Told, Forgets
    <3>1. i \in 1..n /\ image.done[i] = work.done[i]
      BY <2>4, <2>6, <2>7
    <3>2. Forgets(work, i) \/ \E m \in work.notes : m.id = work.done[i].id
      BY <2>6, <3>1 DEF Right, Told
    <3>3. CASE Forgets(work, i)
      <4>1. PICK j \in (i + 1)..n : work.done[j].cmd \in Rewriting
        BY <3>3 DEF Forgets, n
      <4>2. j \in (i + 1)..(n + 1) /\ image.done[j].cmd \in Rewriting
        BY <2>6, <3>1, <4>1
      <4> QED  BY <2>6, <4>2 DEF Forgets
    <3>4. CASE pc \in Rewriting
      <4>1. image.done[n + 1].cmd \in Rewriting
        BY <2>2, <2>6, <2>7, <3>4 DEF Control, Commands, Editing, Rewriting
      <4>2. n + 1 \in (i + 1)..(n + 1)
        BY <2>6, <3>1
      <4> QED  BY <2>6, <4>1, <4>2 DEF Forgets
    <3>5. CASE image.notes = work.notes /\ \E m \in work.notes : m.id = work.done[i].id
      BY <3>1, <3>5
    <3> QED  BY <1>1, <3>2, <3>3, <3>4, <3>5
  <2> QED  BY <2>8, <2>9, <2>10 DEF Right
<1> QED  BY <1>1, <1>3, <1>4

\* The annotation is the newest, of the process with the highest number.
LEMMA AnnotateKeepsRight ==
    ASSUME Typed, Control, HasBuild, BookInv, HistoryInv, Next, Annotate, Right(work),
           NEW image, image = work'
    PROVE  Right(image)'
<1> DEFINE note == [n |-> MaxNote(work.notes) + 1, id |-> call.id]
<1>1. HasHighest(work.notes)
  BY DEF Right
<1>2. work \in Image /\ image \in Image /\ image.done = work.done /\ image.notes = work.notes \cup {note}
  BY <1>1, AnnotatedIsImage
<1>3. /\ work.notes \in SUBSET [n : Nat, id : Nat]
      /\ MaxNote(work.notes) \in Nat /\ \A m \in work.notes : m.n <= MaxNote(work.notes)
  BY <1>1, <1>2, MaxNoteIsHighest DEF Image
<1>4. UNCHANGED <<call, calls, reported, succeeded>> /\ pc = "annotate"
  BY DEF Annotate, commandVars
<1>5. call.id \in 1..calls /\ call.id \in succeeded /\ call.id = calls
  BY <1>4, BoundAssumption DEF Typed, BookInv, Idle
<1>6. \A m \in Own(work.notes) : m.id \in 1..calls /\ m.id # call.id
  <2>1. work \in Images
    BY <1>2, NoneAssumption DEF Images
  <2> QED  BY <1>4, <2>1 DEF HistoryInv, Fresh, Right, BookInv, Settled
<1>7. note \in [n : Nat, id : Nat] /\ note.n = MaxNote(work.notes) + 1 /\ note.id = call.id
  BY <1>3, <1>5
<1> HIDE DEF note
<1>8. HasHighest(image.notes)
  BY <1>1, <1>2, <1>3, <1>7, HighestKept
<1>12. Own(image.notes) = Own(work.notes) \cup {note} /\ Own(work.notes) \subseteq work.notes
  BY <1>2, <1>5, <1>7 DEF Own
<1>9. Ordered(Own(image.notes))
  <2>1. \A m \in Own(work.notes) : m.n < note.n /\ m.id < note.id
    BY <1>3, <1>5, <1>6, <1>7, <1>12, BoundAssumption DEF Typed
  <2>2. \A m \in Own(work.notes) : m.n \in Nat /\ m.id \in Nat
    BY <1>3, <1>12
  <2>3. Ordered(Own(work.notes))
    BY DEF Right
  <2> QED  BY <1>7, <1>12, <2>1, <2>2, <2>3 DEF Ordered
<1>10. \A m \in Own(image.notes) : m.id \in succeeded
  BY <1>5, <1>7, <1>12 DEF Right
<1>11. Told(image)'
  <2> SUFFICES ASSUME NEW i \in DOMAIN image.done,
                      image.done[i].id \in reported \/ image.done[i].id = call.id
               PROVE  Forgets(image, i) \/ \E m \in image.notes : m.id = image.done[i].id
    BY <1>4 DEF Told, Forgets
  <2>1. CASE image.done[i].id = call.id
    BY <1>2, <1>7, <2>1
  <2>2. CASE image.done[i].id \in reported
    BY <1>2, <2>2 DEF Right, Told, Forgets
  <2> QED  BY <2>1, <2>2
<1> QED  BY <1>2, <1>4, <1>8, <1>9, <1>10, <1>11 DEF Right

LEMMA HistoryStep ==
    ASSUME Typed, Control, HasBuild, BookInv, HistoryInv, Next
    PROVE  HistoryInv'
<1> USE NoneAssumption
<1>1. Images = Packed \cup ({work} \ {None, Torn})
  BY DEF Images, Packed
<1>2. Images' = Packed' \cup ({work'} \ {None, Torn})
  BY DEF Images, Packed
<1>3. /\ \/ Edit \/ EditFails \/ Rewrite \/ Annotate
         \/ work' \in {work, None, Empty, disk["image"]}
      /\ Packed' \subseteq Packed \cup {work}
      /\ pc' \notin Settled => Starts \/ (pc \notin Settled /\ UNCHANGED <<call, disk>>)
      /\ pc' \notin Settled \cup {"check"} =>
            Starts \/ (pc \notin Settled \cup {"check", "annotate"} /\ UNCHANGED call)
  BY ImagesStep
<1>4. Annotate => Packed' = Packed /\ \A image \in Packed : Unseen(image)
  BY DEF Annotate, commandVars, Packed, HistoryInv, Settled
<1>5. \A image \in Images : (Annotate => Unseen(image)) => Right(image)'
  <2> TAKE image \in Images
  <2>1. Right(image)
    BY DEF HistoryInv
  <2> QED  BY <2>1, RightKept
<1>6. \A image \in Packed' : image \in Images /\ (Annotate => Unseen(image))
  BY <1>1, <1>2, <1>3, <1>4 DEF Packed
<1>7. \A image : image = Empty => Right(image)' /\ Fresh(image)'
  BY DEF Empty, Right, HasHighest, Ordered, Own, Told, Fresh
<1>8. disk["image"] \notin {None, Torn} => disk["image"] \in Packed
  BY DEF Packed
<1>9. \A image \in Images' : Right(image)'
  <2> TAKE image \in Images'
  <2>1. CASE image \in Packed'
    BY <1>5, <1>6, <2>1
  <2>2. CASE image = work' /\ image \notin {None, Torn}
    <3>1. CASE Edit \/ EditFails \/ Rewrite
      <4>1. work \in Images
        BY <1>1, <3>1, EditedIsImage
      <4> QED  BY <2>2, <3>1, <4>1, EditKeepsRight DEF HistoryInv
    <3>2. CASE Annotate
      <4>1. work \in Images
        BY <1>1, <3>2 DEF Annotate, HasBuild, Typed
      <4> QED  BY <2>2, <3>2, <4>1, AnnotateKeepsRight DEF HistoryInv
    <3>3. CASE ~Annotate /\ work' \in {work, Empty, disk["image"]}
      BY <1>1, <1>5, <1>7, <1>8, <2>2, <3>3
    <3> QED  BY <1>3, <2>2, <3>1, <3>2, <3>3
  <2> QED  BY <1>2, <2>1, <2>2
<1>10. Starts => /\ \A image \in Images : Fresh(image)' /\ Unseen(image)'
                 /\ Images' = Images /\ Packed' = Packed
  <2> SUFFICES ASSUME Starts
               PROVE  /\ \A image \in Images : Fresh(image)' /\ Unseen(image)'
                      /\ Images' = Images /\ Packed' = Packed
    OBVIOUS
  <2>1. call'.id \notin 1..calls
    BY BoundAssumption DEF Starts, Typed
  <2>2. ASSUME NEW image \in Images
        PROVE  Fresh(image)' /\ Unseen(image)'
    BY <2>1, <2>2 DEF HistoryInv, Right, BookInv, Fresh, Unseen
  <2> QED  BY <2>2 DEF Starts, Images, Packed
<1>11. pc' \notin Settled => \A image \in Packed' : Unseen(image)'
  BY <1>1, <1>3, <1>10 DEF HistoryInv, Unseen, Packed
<1>12. pc' \notin Settled \cup {"check"} => \A image \in Images' : Fresh(image)'
  <2> SUFFICES ASSUME pc \notin Settled \cup {"check", "annotate"}, UNCHANGED call,
                      NEW image \in Images'
               PROVE  Fresh(image)'
    BY <1>3, <1>10
  <2>1. \A x \in Images : Fresh(x)'
    BY DEF HistoryInv, Fresh
  <2>2. CASE image \in Packed'
    BY <1>6, <2>1, <2>2
  <2>3. CASE image = work' /\ image \notin {None, Torn}
    <3>1. CASE Edit \/ EditFails \/ Rewrite
      <4>1. work \in Images /\ work'.notes \subseteq work.notes \cup Theirs
        BY <1>1, <3>1, EditedIsImage
      <4>2. Own(work'.notes) \subseteq Own(work.notes)
        BY <4>1 DEF Own, Theirs
      <4> QED  BY <2>1, <2>3, <4>1, <4>2 DEF Fresh
    <3>2. CASE work' \in {work, Empty, disk["image"]}
      BY <1>1, <1>7, <1>8, <2>1, <2>3, <3>2
    <3> QED  BY <1>3, <2>3, <3>1, <3>2 DEF Annotate
  <2> QED  BY <1>2, <2>2, <2>3
<1> QED  BY <1>9, <1>11, <1>12 DEF HistoryInv

-----------------------------------------------------------------------------
IInv == Typed /\ Control /\ HasBuild /\ UserInv /\ LeftInv /\ FileInv /\ BookInv /\ HistoryInv

LEMMA InitIInv == Init => IInv
<1> SUFFICES ASSUME Init PROVE IInv
  OBVIOUS
<1> USE NoneAssumption, BoundAssumption DEF Init, Idle
<1> DEFINE image == [Empty EXCEPT !.named = TRUE]
<1>1. image \in Image /\ image.done = <<>> /\ image.notes = {}
  <2>1. Empty \in Image /\ Empty.done = <<>> /\ Empty.notes = {}
    BY DEF Empty, Image
  <2> QED  BY <2>1 DEF Image
<1> HIDE DEF image
<1>2. disk \in [{"image", "temp", "output"} -> {None, image}]
  BY DEF image
<1>3. Typed
  <2>1. call \in [cmd : Commands, modify : BOOLEAN, history : BOOLEAN, id : Nat]
    BY DEF Commands
  <2>2. disk \in [{"image", "temp", "output"} -> Image \cup {None, Torn}]
    BY <1>1, <1>2
  <2>3. call.id = calls /\ Idle /\ calls \in 0..MaxCalls
    OBVIOUS
  <2>4. exit \in BOOLEAN /\ killed \in BOOLEAN /\ tmpdirs = {}
    OBVIOUS
  <2>5. work = None /\ before = None /\ script = None
    OBVIOUS
  <2> HIDE DEF Init, Idle
  <2> QED  BY <2>1, <2>2, <2>3, <2>4, <2>5 DEF Typed
<1>4. Control /\ HasBuild
  BY DEF Control, HasBuild, ModifyPc, PlainPc, Commands, Editing, Rewriting
<1>5. UserInv /\ LeftInv /\ FileInv
  BY DEF UserInv, LeftInv, FileInv
<1>6. BookInv
  BY DEF BookInv, Counts, After
<1>7. \A x \in Images : x = image
  BY <1>2 DEF Images
<1>8. Right(image)
  BY <1>1 DEF Right, HasHighest, Ordered, Own, Told
<1>9. HistoryInv
  BY <1>7, <1>8 DEF HistoryInv, Settled
<1> QED  BY <1>3, <1>4, <1>5, <1>6, <1>9 DEF IInv

LEMMA NextIInv == IInv /\ [Next]_vars => IInv'
<1> SUFFICES ASSUME IInv, [Next]_vars PROVE IInv'
  OBVIOUS
<1> USE DEF IInv
<1>1. pc = "annotate" => HasHighest(work.notes)
  <2>1. pc = "annotate" => work \in Images
    BY NoneAssumption DEF HasBuild, Typed, Images
  <2> QED  BY <2>1 DEF HistoryInv, Right
<1>2. CASE Next
  BY <1>1, <1>2, TypedStep, ControlStep, HasBuildStep, UserStep, LeftStep, FileStep, BookStep, HistoryStep
<1>3. CASE UNCHANGED vars
  <2> USE <1>3 DEF vars, procVars, history
  <2>1. Typed' /\ Control'
    BY DEF Typed, Control, Idle, Recorded
  <2>2. HasBuild' /\ UserInv' /\ LeftInv'
    BY DEF HasBuild, UserInv, LeftInv, Idle
  <2>3. FileInv'
    BY DEF FileInv, GrownFrom, Step
  <2>4. BookInv' /\ HistoryInv'
    BY DEF BookInv, Counts, Recorded, HistoryInv, Images, Right, Told, Forgets, Packed, Unseen, Fresh
  <2> QED  BY <2>1, <2>2, <2>3, <2>4
<1> QED  BY <1>2, <1>3

LEMMA Invariance == Spec => []IInv
BY InitIInv, NextIInv, PTL DEF Spec

-----------------------------------------------------------------------------
(* What follows for users.                                                    *)

\* TypeOK: what every step of runWrapper, Write and the script driver relies on, the
\* build a step works on among it, is there.
THEOREM TypeCorrect == Spec => []TypeOK
<1>1. IInv => TypeOK
  <2> SUFFICES ASSUME IInv PROVE TypeOK
    OBVIOUS
  <2> USE DEF IInv
  <2>1. /\ exit \in BOOLEAN /\ killed \in BOOLEAN /\ calls \in 0..MaxCalls
        /\ call.cmd \in Commands /\ call.id <= calls
        /\ tmpdirs \subseteq {"modify", "script"}
    BY BoundAssumption DEF Typed
  <2>2. /\ script # None => ~Idle /\ ~call.modify
        /\ pc = "rename" => disk["temp"] # None
    BY DEF Control, HasBuild
  <2>3. pc \in {"annotate", "check", "fill", "rename"} => work \notin {None, Torn}
    BY NoneAssumption DEF Typed, HasBuild
  <2>4. \A image \in Images : \A i \in DOMAIN image.done : image.done[i].id \in 1..calls
    BY DEF HistoryInv, Right
  <2> QED  BY <2>1, <2>2, <2>3, <2>4 DEF TypeOK, BookInv
<1> QED  BY <1>1, Invariance, PTL

\* HistoryTellsTheBuild: in every build and every written image the numbers that
\* addACBuildAnnotation gives are in the order of the commands, and no command that
\* reported success is missing unless a later one removed, overwrote or replaced
\* annotations, for any number of commands, with and without --modify, killed and
\* failing anywhere, and any annotations that users make up.
THEOREM HistoryIsRight == Spec => []HistoryTellsTheBuild
<1>1. IInv => HistoryTellsTheBuild
  BY DEF IInv, HistoryTellsTheBuild, HistoryInv, Right, Ordered, Told
<1> QED  BY <1>1, Invariance, PTL

\* UserBuildUntouched: a build that is open where --modify is used stays as it is.
THEOREM UserBuildIsSafe == Spec => []UserBuildUntouched
<1>1. IInv => UserBuildUntouched
  BY DEF IInv, UserInv, UserBuildUntouched
<1> QED  BY <1>1, Invariance, PTL

\* NothingLeft: the deferred calls of runWrapper and Write leave no .tmp file and no
\* directory behind, and a build only with an exit code that says so.
THEOREM ProcessCleansUp == Spec => []NothingLeft
<1>1. IInv => NothingLeft
  BY DEF IInv, LeftInv, NothingLeft, InBuild, Editable, Editing, Rewriting
<1> QED  BY <1>1, Invariance, PTL

\* ModifyIsAtomic: when closing the compressor cannot fail, the file of --modify is
\* only ever replaced by a whole image with one more command.
THEOREM ModifyReplacesWhole == "flush" \notin Faults /\ Spec => ModifyIsAtomic
<1> DEFINE Replaced ==
             disk'["image"] # disk["image"] =>
                /\ call.modify /\ disk'["image"] \notin {None, Torn}
                /\ LET old == disk["image"].done
                       new == disk'["image"].done
                   IN  new = old \/ (new # <<>> /\ Front(new) = old /\ Last(new).id = call.id)
<1> SUFFICES ASSUME "flush" \notin Faults PROVE Spec => ModifyIsAtomic
  OBVIOUS
<1>1. ASSUME IInv, Next PROVE Replaced
  <2> USE DEF IInv
  <2>1. CASE Rename
    <3>1. /\ call.modify /\ pc = "rename"
          /\ disk'["image"] = work /\ GrownFrom(disk["image"], work)
          /\ disk["image"] \in Image /\ work \in Image
      BY <1>1, <2>1 DEF Rename, Typed, Control, PlainPc, Commands, Editing, Rewriting, HasBuild, FileInv,
                        InBuild, Editable
    <3>2. ASSUME NEW half \in BOOLEAN, work.done = Append(disk["image"].done, Step(half))
          PROVE  /\ work.done # <<>> /\ Front(work.done) = disk["image"].done
                 /\ Last(work.done).id = call.id
      <4>1. Step(half).id = call.id
        BY DEF Step
      <4> QED  BY <1>1, <3>1, <3>2, <4>1, LastIsStep
    <3> QED  BY <3>1, <3>2, NoneAssumption DEF GrownFrom
  <2>2. CASE ~Rename
    <3>1. disk'["image"] = disk["image"]
      <4>1. CASE Process
        BY <4>1 DEF Process, Invoke, Refused, Exit, Kill
      <4>2. CASE Command \/ Annotation
        BY <4>2 DEF Command, NoBuild, Edit, EditFails, Rewrite, CatManifest, Begin, End,
                    Annotation, Annotate, AnnotateFails, commandVars
      <4>3. CASE Write
        BY <1>1, <4>3 DEF Write, WriteRefused, OpenOutput, FillOutput, FillFails, Output, Typed
      <4>4. CASE Modify
        BY <1>1, <2>2, <4>4 DEF Modify, Stat, ModifyBegin, RenameFails, Finish, RemoveTmpdir, Typed
      <4>5. CASE Script
        BY <4>5 DEF Script, StartScript, NewScript, NextLine, EndOfScript, scriptVars
      <4> QED  BY <1>1, <4>1, <4>2, <4>3, <4>4, <4>5 DEF Next
    <3> QED  BY <3>1
  <2> QED  BY <2>1, <2>2
<1>2. IInv /\ [Next]_vars => [Replaced]_vars
  BY <1>1
<1> QED  BY <1>2, Invariance, PTL DEF Spec, ModifyIsAtomic

-----------------------------------------------------------------------------
(* Exit code 0.                                                               *)

\* What a command with exit code 0 has done to an image, and where that image is.
Ran(image) == image.done # <<>> /\ Last(image.done) = Step(FALSE)
Noted(image) == call.history => \E m \in image.notes : m.id = call.id
SuccessInv ==
    /\ exit /\ call.modify /\ call.cmd \in Editing =>
          /\ pc \in {"annotate", "check", "fill", "rename"} => Ran(work)
          /\ pc \in {"check", "fill", "rename"} => Noted(work)
          /\ pc \in {"finish", "remove tmpdir", "exit"} => Ran(disk["image"]) /\ Noted(disk["image"])
    /\ exit /\ call.cmd = "write" /\ pc = "exit" => ~call.modify /\ disk["output"] = work

LEMMA SuccessStep ==
    ASSUME "flush" \notin Faults, IInv, SuccessInv, Next
    PROVE  SuccessInv'
<1> USE DEF SuccessInv, Idle, Goto, Fail, FailFor
<1>1. ASSUME NEW image, UNCHANGED call
      PROVE  Ran(image)' = Ran(image) /\ Noted(image)' = Noted(image)
  BY <1>1 DEF Ran, Noted, Step
<1>2. Typed /\ Control /\ HasBuild /\ FileInv
  BY DEF IInv
<1>3. CASE Process
  <2>1. CASE Invoke
    <3>1. PICK cmd \in Commands, modify \in BOOLEAN, recorded \in BOOLEAN :
             Start([cmd |-> cmd, modify |-> modify, history |-> recorded, id |-> calls + 1])
      BY <2>1 DEF Invoke
    <3>2. pc' \in {"refused", "stat"} \cup Commands
      BY <3>1 DEF Start
    <3> QED  BY <3>2 DEF Commands, Editing, Rewriting
  <2>2. CASE Refused   BY <2>2 DEF Refused
  <2>3. CASE Exit      BY <2>3 DEF Exit
  <2>4. CASE Kill      BY <2>4 DEF Kill
  <2> QED  BY <1>3, <2>1, <2>2, <2>3, <2>4 DEF Process
<1>4. CASE Command
  <2>0. PICK ok \in BOOLEAN : Returned(ok)
    BY <1>4 DEF Command, NoBuild, Edit, EditFails, Rewrite, CatManifest, Begin, End
  <2>1. /\ UNCHANGED call /\ pc' \in {"annotate", "check", "exit"}
        /\ pc = call.cmd
        /\ exit' => (pc' = "check" => call.modify /\ ~Recorded) /\ (pc' = "exit" => ~call.modify)
    <3>1. UNCHANGED call /\ pc \in Commands
      BY <1>4 DEF Command, NoBuild, Edit, EditFails, Rewrite, CatManifest, Begin, End, commandVars,
                  Commands, Editing, Rewriting
    <3>2. pc = call.cmd
      BY <1>2, <3>1 DEF Control
    <3> QED  BY <2>0, <3>1, <3>2 DEF Returned, AfterCommand
  <2>2. CASE exit' /\ call.modify /\ call.cmd \in Editing
    <3>1. (Edit \/ Rewrite) /\ work \in Image
      BY <1>2, <1>4, <2>1, <2>2 DEF Command, NoBuild, Edit, EditFails, Rewrite, CatManifest, Begin, End,
                                    Returned, Editing, Rewriting, Typed
    <3>2. work'.done = Append(work.done, Step(FALSE))
      <4>1. Step(FALSE) \in [id : Nat, cmd : Commands, half : BOOLEAN]
        BY <1>2 DEF Step, Typed
      <4>2. CASE Edit
        <5>1. Done(work, Step(FALSE)) \in Image /\ Done(work, Step(FALSE)).done = Append(work.done, Step(FALSE))
          BY <3>1, <4>1, DoneIsImage
        <5> QED  BY <4>2, <5>1 DEF Edit, Image
      <4>3. CASE Rewrite
        <5>1. PICK notes \in Rewritten(pc, work.notes), named \in BOOLEAN :
                 work' = Done([work EXCEPT !.notes = notes, !.named = named], Step(FALSE))
          BY <2>2, <4>3 DEF Rewrite, Returned
        <5> DEFINE image == [work EXCEPT !.notes = notes, !.named = named]
        <5>2. image \in Image /\ image.done = work.done
          <6>1. Theirs \subseteq [n : Nat, id : Nat] /\ notes \subseteq work.notes \cup Theirs
            BY <5>1, RewrittenFrom, TheirsTyped
          <6>2. notes \in SUBSET [n : Nat, id : Nat]
            BY <3>1, <6>1 DEF Image
          <6> QED  BY <3>1, <6>2 DEF Image
        <5> HIDE DEF image
        <5>3. work' = Done(image, Step(FALSE))
          BY <5>1 DEF image
        <5> QED  BY <4>1, <5>2, <5>3, DoneIsImage
      <4> QED  BY <3>1, <4>2, <4>3
    <3>3. Ran(work')
      <4>1. work'.done # <<>> /\ Last(work'.done) = Step(FALSE)
        BY <1>2, <3>1, <3>2, LastIsStep
      <4> QED  BY <4>1 DEF Ran
    <3>4. pc' = "check" => ~call.history
      BY <2>1, <2>2 DEF Recorded
    <3> QED  BY <1>1, <2>1, <2>2, <3>3, <3>4 DEF Ran, Noted, Step, Editing, Rewriting
  <2>3. CASE ~(exit' /\ call.modify /\ call.cmd \in Editing)
    <3>1. exit' /\ call.cmd = "write" => FALSE
      BY <1>4, <2>1 DEF Command, NoBuild, Edit, EditFails, Rewrite, CatManifest, Begin, End, Returned,
                        Editing, Rewriting
    <3> QED  BY <2>1, <2>3, <3>1
  <2> QED  BY <2>2, <2>3
<1>5. CASE Annotation
  <2>1. CASE Annotate
    <3>1. /\ work'.done = work.done
          /\ work'.notes = work.notes \cup {[n |-> MaxNote(work.notes) + 1, id |-> call.id]}
      <4>1. work \in Images
        BY <1>2, <2>1, NoneAssumption DEF Annotate, HasBuild, Typed, Images
      <4> QED  BY <1>2, <2>1, <4>1, AnnotatedIsImage DEF IInv, HistoryInv, Right
    <3>2. UNCHANGED <<call, exit>> /\ pc = "annotate"
          /\ pc' = IF call.modify THEN "check" ELSE "exit"
      BY <2>1 DEF Annotate, commandVars
    <3>3. Noted(work')
      <4> DEFINE note == [n |-> MaxNote(work.notes) + 1, id |-> call.id]
      <4>1. note \in work'.notes /\ note.id = call.id
        BY <3>1
      <4> QED  BY <4>1 DEF Noted
    <3>4. exit /\ call.modify /\ call.cmd \in Editing => Ran(work')
      BY <3>1, <3>2 DEF Ran
    <3>5. call.cmd # "write" \/ call.modify
      BY <1>2, <3>2 DEF Control, Recorded, NotRecorded
    <3> QED  BY <3>2, <3>3, <3>4, <3>5 DEF Ran, Noted, Step
  <2>2. CASE AnnotateFails  BY <2>2 DEF AnnotateFails
  <2> QED  BY <1>5, <2>1, <2>2 DEF Annotation
<1>6. CASE Write
  <2> USE DEF writeVars, AfterWrite
  <2>1. CASE WriteRefused  BY <2>1 DEF WriteRefused
  <2>2. CASE OpenOutput
    <3>1. UNCHANGED <<call, work, exit>> /\ pc' = "fill" /\ (call.modify => pc = "check")
      BY <1>2, <2>2 DEF OpenOutput, Control, ModifyPc, InBuild, Editable, Editing, Rewriting
    <3> QED  BY <3>1 DEF Ran, Noted, Step
  <2>3. CASE FillOutput
    <3>1. UNCHANGED <<call, work, exit>> /\ pc = "fill"
          /\ pc' = IF call.modify THEN "rename" ELSE "exit"
      BY <2>3 DEF FillOutput
    <3>2. ~call.modify => disk'["output"] = work
      BY <1>2, <2>3 DEF FillOutput, Output, Typed
    <3> QED  BY <3>1, <3>2 DEF Ran, Noted, Step
  <2>4. CASE FillFails     BY <2>4 DEF FillFails
  <2> QED  BY <1>6, <2>1, <2>2, <2>3, <2>4 DEF Write
<1>7. CASE Modify
  <2> USE DEF modifyVars
  <2>1. CASE Stat          BY <2>1 DEF Stat
  <2>2. CASE ModifyBegin
    <3>1. (pc' = "remove tmpdir" /\ ~exit') \/ pc' = call.cmd
      BY <2>2 DEF ModifyBegin
    <3> QED  BY <1>2, <2>2, <3>1 DEF ModifyBegin, Typed, Commands, Editing, Rewriting
  <2>3. CASE Rename
    <3>1. /\ UNCHANGED <<call, exit>> /\ pc = "rename" /\ pc' = "finish"
          /\ disk'["image"] = work
      BY <1>2, <2>3 DEF Rename, Typed, FileInv
    <3> QED  BY <3>1 DEF Ran, Noted, Step
  <2>4. CASE RenameFails   BY <2>4 DEF RenameFails
  <2>5. CASE Finish
    <3>1. /\ UNCHANGED <<call, disk>> /\ (exit' = exit \/ exit' = FALSE)
          /\ pc = "finish" /\ pc' = "remove tmpdir"
      BY <2>5 DEF Finish
    <3>2. CASE exit' = FALSE
      BY <3>1, <3>2
    <3>3. CASE exit' = exit
      BY <3>1, <3>3 DEF Ran, Noted, Step
    <3> QED  BY <3>1, <3>2, <3>3
  <2>6. CASE RemoveTmpdir
    <3>1. /\ UNCHANGED <<call, exit, disk>> /\ pc = "remove tmpdir" /\ pc' = "exit"
      BY <2>6 DEF RemoveTmpdir
    <3>2. call.cmd # "write"
      BY <1>2, <3>1 DEF Control, NotWithModify
    <3> QED  BY <3>1, <3>2 DEF Ran, Noted, Step
  <2> QED  BY <1>7, <2>1, <2>2, <2>3, <2>4, <2>5, <2>6 DEF Modify
<1>8. CASE Script
  <2> USE DEF scriptVars
  <2>1. CASE StartScript
    <3>1. ~call.modify /\ call.cmd = "script" /\ UNCHANGED call
      BY <1>2, <2>1 DEF StartScript, Control, ModifyPc, InBuild, Editable, Editing, Rewriting, Commands
    <3> QED  BY <3>1
  <2>2. CASE NewScript    BY <2>2 DEF NewScript
  <2>3. CASE NextLine
    <3>1. Head(script) \in Commands
      BY <1>2, <2>3, HeadTailProperties DEF NextLine, Typed, Control
    <3>2. ~call'.modify /\ pc' = Head(script)
      BY <2>3 DEF NextLine, Start
    <3> QED  BY <3>1, <3>2 DEF Commands, Editing, Rewriting
  <2>4. CASE EndOfScript  BY <2>4 DEF EndOfScript
  <2> QED  BY <1>8, <2>1, <2>2, <2>3, <2>4 DEF Script
<1> QED  BY <1>3, <1>4, <1>5, <1>6, <1>7, <1>8 DEF Next

\* SuccessIsInTheFile: when closing the compressor cannot fail, exit code 0 of --modify
\* and of write means that the image is in the file, with the command and its annotation.
THEOREM SuccessIsTrue == "flush" \notin Faults /\ Spec => []SuccessIsInTheFile
<1> SUFFICES ASSUME "flush" \notin Faults PROVE Spec => []SuccessIsInTheFile
  OBVIOUS
<1>1. Init => SuccessInv
  BY DEF Init, SuccessInv
<1>2. IInv /\ SuccessInv /\ [Next]_vars => SuccessInv'
  <2> SUFFICES ASSUME IInv, SuccessInv, [Next]_vars PROVE SuccessInv'
    OBVIOUS
  <2>1. CASE Next
    BY <2>1, SuccessStep
  <2>2. CASE UNCHANGED vars
    BY <2>2 DEF vars, procVars, SuccessInv, Ran, Noted, Step
  <2> QED  BY <2>1, <2>2
<1>3. SuccessInv => SuccessIsInTheFile
  BY DEF SuccessInv, SuccessIsInTheFile, Ran, Noted
<1> QED  BY <1>1, <1>2, <1>3, Invariance, PTL DEF Spec

-----------------------------------------------------------------------------
(* The line of a script.                                                      *)

\* It is the first line of a text that someone wrote for the command.
LineInv == line # <<>> => asked \in Calls /\ \E text \in Texts(asked) : line = FirstLine(text)

LEMMA LineStep == LineInv /\ [Next]_vars => LineInv'
<1> SUFFICES ASSUME LineInv, [Next]_vars PROVE LineInv'
  OBVIOUS
<1>1. CASE UNCHANGED <<line, asked>>
  BY <1>1 DEF LineInv
<1>2. CASE line' = <<>>
  BY <1>2 DEF LineInv
<1>3. CASE NextLine
  <2>1. CASE Head(script) = "run"
    <3>1. PICK c \in Calls : \E text \in Texts(c) : asked' = c /\ line' = FirstLine(text)
      BY <1>3, <2>1 DEF NextLine
    <3> QED  BY <3>1 DEF LineInv
  <2>2. CASE Head(script) # "run"
    BY <1>1, <1>3, <2>2 DEF NextLine
  <2> QED  BY <2>1, <2>2
<1>4. UNCHANGED <<line, asked>> \/ line' = <<>> \/ NextLine
  <2>1. CASE Process
    BY <2>1 DEF Process, Invoke, Refused, Exit, Kill
  <2>2. CASE Command
    BY <2>2 DEF Command, NoBuild, Edit, EditFails, Rewrite, CatManifest, Begin, End, commandVars
  <2>3. CASE Annotation
    BY <2>3 DEF Annotation, Annotate, AnnotateFails, commandVars
  <2>4. CASE Write
    BY <2>4 DEF Write, WriteRefused, OpenOutput, FillOutput, FillFails, writeVars
  <2>5. CASE Modify
    BY <2>5 DEF Modify, Stat, ModifyBegin, Rename, RenameFails, Finish, RemoveTmpdir, modifyVars
  <2>6. CASE Script
    BY <2>6 DEF Script, StartScript, NewScript, EndOfScript
  <2>7. CASE UNCHANGED vars
    BY <2>7 DEF vars
  <2> QED  BY <2>1, <2>2, <2>3, <2>4, <2>5, <2>6, <2>7 DEF Next
<1> QED  BY <1>1, <1>2, <1>3, <1>4

LEMMA LineInvariance == Spec => []LineInv
<1>1. Init => LineInv
  BY DEF Init, LineInv
<1> QED  BY <1>1, LineStep, PTL DEF Spec

\* ScriptArgsArrive: joinLines, tokenizeLine and insertRunTacks give the command of a
\* run line its arguments as they were meant, for any characters, any words and flags,
\* in each way to quote the words, on one line or two.
THEOREM ScriptArgsAreRight == Spec => []ScriptArgsArrive
<1>1. LineInv => ScriptArgsArrive
  BY TextsArrive DEF LineInv, ScriptArgsArrive
<1> QED  BY <1>1, LineInvariance, PTL

\* ChrootArgsArrive: what chroot.Engine.Run writes into the flag of acbuild-chroot is
\* read there as the arguments it was made from, if they are without commas and double
\* quotes, for any number of arguments of any length.
THEOREM ChrootArgsAreRight == Spec => []ChrootArgsArrive
<1>1. LineInv => ChrootArgsArrive
  <2> SUFFICES ASSUME LineInv, line # <<>>, \A i \in DOMAIN asked : Harmless(asked[i])
               PROVE  ChrootArgs(Tail(asked)) = Tail(asked)
    BY DEF ChrootArgsArrive
  <2>1. asked \in Seq(Word) /\ asked # <<>>
    BY CallsAssumption DEF LineInv
  <2> DEFINE args == Tail(asked)
  <2>2. /\ args \in Seq(Word) /\ Len(args) = Len(asked) - 1 /\ Len(asked) \in Nat
        /\ \A i \in 1..Len(args) : args[i] = asked[i + 1]
    BY <2>1, HeadTailProperties
  <2> HIDE DEF args
  <2>3. ASSUME NEW i \in DOMAIN args PROVE Harmless(args[i])
    <3>1. i \in 1..Len(args) /\ i + 1 \in DOMAIN asked
      BY <2>1, <2>2
    <3> QED  BY <2>2, <3>1
  <2>4. ChrootArgs(args) = args
    BY <2>2, <2>3, ChrootArgsAre
  <2> QED  BY <2>4 DEF args
<1> QED  BY <1>1, LineInvariance, PTL
================================================================================
