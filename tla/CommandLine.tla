------------------------------- MODULE CommandLine -----------------------------
(*****************************************************************************)
(* The command line of acbuild (package main) and the write command: a user  *)
(* runs one acbuild command after the other in a working directory.  Around  *)
(* most commands runWrapper adds an annotation with the command's history;   *)
(* with a --modify flag it puts a whole build around the command, begun from *)
(* an image file and written back over it; a script runs commands of its     *)
(* own.  A process may be killed at any step.                                *)
(*****************************************************************************)
EXTENDS FiniteSets, ScriptLine

CONSTANTS
    None,        \* no build, no file, no script
    Torn,        \* a file that holds a part of an image
    Scripts,     \* the scripts there are: sequences of commands
    Nested,      \* values of "ACBUILD_NESTED_SCRIPT is set", a subset of BOOLEAN
    Numbers,     \* numbers of the history annotations that a user makes up
    Faults,      \* what may go wrong, a subset of AllFaults
    MaxCalls     \* bound on the acbuild processes of a behaviour

\* "cmd"    the command itself fails
\* "begin"  begin cannot unpack the image or write the context
\* "note"   adding the annotation fails
\* "write"  writing the image fails before all of it is handed over
\* "flush"  ... or when the compressor is closed
\* "rename" the image cannot be replaced
\* "end"    end cannot unmount or delete the context
\* "kill"   the process is killed
AllFaults == {"cmd", "begin", "note", "write", "flush", "rename", "end", "kill"}

ASSUME FaultsAssumption == Faults \subseteq AllFaults /\ Nested \subseteq BOOLEAN
ASSUME BoundAssumption == MaxCalls \in Nat
\* There are finitely many.
ASSUME NumbersAssumption ==
    Numbers \subseteq Nat /\ \A some \in SUBSET Numbers : some # {} => \E m \in some : \A n \in some : n <= m

VARIABLES
    pc,        \* what the process is about to do
    exit,      \* cmdExitCode = 0
    call,      \* the command: [cmd, modify, history, id]
    script,    \* the lines a nested script has left, None outside of one
    work,      \* the build in the working directory: its image, or None
    disk,      \* "image": the file to modify, "temp": its .tmp, "output": of write
    tmpdirs,   \* the directories made in /tmp: "modify", "script"
    line,      \* the text of the script line that is being run
    calls,     \* processes so far
    killed,    \* one of them was killed
    before,    \* work when the process started
    asked,     \* the arguments that the author of line meant
    succeeded, \* the commands that have returned exit code 0 to the wrapper
    reported   \* ... those whose process exited with 0, with the history on

procVars == <<pc, exit, call, script>>
history == <<killed, before, succeeded, reported>>
vars == <<procVars, work, disk, tmpdirs, line, asked, calls, history>>

\* An image, and so a build: the commands that changed it in their order, the
\* numbered annotations, and whether its name was ever set.  An annotation has the
\* id of the command it tells of, or 0 if its text is the user's.
Step(half) == [id |-> call.id, cmd |-> call.cmd, half |-> half]
Empty == [named |-> FALSE, done |-> <<>>, notes |-> {}]
Done(image, step) == [image EXCEPT !.done = Append(@, step)]

\* Commands that change the image; the last three may change the numbered
\* annotations, replace-manifest in an AppC build.
Rewriting == {"annotation-remove", "annotation-add", "replace-manifest"}
Editing == {"edit", "set-name", "run"} \cup Rewriting
Commands == Editing \cup {"cat-manifest", "begin", "write", "end", "script"}
NotRecorded == {"cat-manifest", "begin", "write", "end", "script"}
NotWithModify == {"begin", "write", "end", "script"}

Image == [named : BOOLEAN,
          done : Seq([id : Nat, cmd : Commands, half : BOOLEAN]),
          notes : SUBSET [n : Nat, id : Nat]]
ASSUME NoneAssumption == None \notin Image /\ Torn \notin Image /\ None # Torn
ASSUME ScriptsAssumption == None \notin Scripts /\ \A lines \in Scripts : lines \in Seq(Commands)

Goto(l) == pc' = l /\ UNCHANGED exit
Fail(l) == pc' = l /\ exit' = FALSE
FailFor(fault, l) == fault \in Faults /\ Fail(l)
Idle == pc = "idle"

-----------------------------------------------------------------------------
(* A process starts and ends.                                                 *)

Start(c) ==
    /\ calls' = calls + 1
    /\ call' = c
    /\ exit' = TRUE /\ before' = work
    /\ pc' = IF c.modify THEN (IF c.cmd \in NotWithModify THEN "refused" ELSE "stat") ELSE c.cmd

Invoke ==
    /\ Idle /\ calls < MaxCalls
    /\ \E cmd \in Commands, modify \in BOOLEAN, recorded \in BOOLEAN :
          Start([cmd |-> cmd, modify |-> modify, history |-> recorded, id |-> calls + 1])
    /\ UNCHANGED <<script, work, disk, tmpdirs, line, asked, killed, succeeded, reported>>

\* "Can't use --modify flags with ..."
Refused ==
    /\ pc = "refused"
    /\ Fail("exit")
    /\ UNCHANGED <<call, script, work, disk, tmpdirs, line, asked, calls, history>>

Recorded == call.history /\ (call.modify \/ call.cmd \notin NotRecorded)

\* A variant with a bug: a script forgets to stop when one of its lines fails.
BugExit ==
    /\ pc = "exit"
    /\ reported' = IF exit /\ Recorded THEN reported \cup {call.id} ELSE reported
    /\ pc' = IF script # None /\ exit THEN "lines" ELSE "idle"
    /\ line' = <<>> /\ asked' = <<>>
    /\ UNCHANGED <<exit, call, script, work, disk, tmpdirs, calls, killed, before, succeeded>>

\* The exit code; the script that started the process goes on, or returns the
\* error.
Exit ==
    /\ pc = "exit"
    /\ reported' = IF exit /\ Recorded THEN reported \cup {call.id} ELSE reported
    /\ pc' = IF script # None /\ exit THEN "lines" ELSE "idle"
    /\ script' = IF script # None /\ exit THEN script ELSE None
    /\ line' = <<>> /\ asked' = <<>>
    /\ UNCHANGED <<exit, call, work, disk, tmpdirs, calls, killed, before, succeeded>>

Kill ==
    /\ ~Idle /\ "kill" \in Faults
    /\ pc' = "idle" /\ killed' = TRUE /\ script' = None
    /\ line' = <<>> /\ asked' = <<>>
    /\ UNCHANGED <<exit, call, work, disk, tmpdirs, calls, before, succeeded, reported>>

-----------------------------------------------------------------------------
(* The commands.  After one, the wrapper looks at its exit code.              *)

AfterCommand(ok) ==
    IF ok /\ Recorded THEN "annotate"
    ELSE IF call.modify THEN "check" ELSE "exit"

Returned(ok) ==
    /\ pc' = AfterCommand(ok)
    /\ exit' = ok
    /\ succeeded' = IF ok THEN succeeded \cup {call.id} ELSE succeeded

commandVars == <<call, script, disk, tmpdirs, line, asked, calls, killed, before, reported>>

\* newACBuild fails without a build.
NoBuild ==
    /\ pc \in Editing \cup {"cat-manifest", "end", "write"} /\ work = None
    /\ Returned(FALSE)
    /\ UNCHANGED <<commandVars, work>>

Edit ==
    /\ pc \in {"edit", "set-name", "run"} /\ work # None
    /\ Returned(TRUE)
    /\ work' = [Done(work, Step(FALSE)) EXCEPT !.named = @ \/ pc = "set-name"]
    /\ UNCHANGED commandVars

\* A run or copy that fails may have changed files by then.
EditFails ==
    /\ pc \in Editing /\ work # None
    /\ "cmd" \in Faults
    /\ Returned(FALSE)
    /\ work' \in {work} \cup (IF pc = "run" THEN {Done(work, Step(TRUE))} ELSE {})
    /\ UNCHANGED commandVars

\* What they may leave of the numbered annotations: all but one, one of the user's
\* in place of that with its number, or what the user's manifest has, which may be
\* made from one of this build.
Theirs == [n : Numbers, id : {0}]
Rewritten(cmd, notes) ==
    CASE cmd = "annotation-remove" -> {notes \ {m} : m \in notes}
      [] cmd = "annotation-add"    -> {{m \in notes : m.n # t.n} \cup {t} : t \in Theirs}
      [] OTHER -> {some \in SUBSET (notes \cup Theirs) : \A m, t \in some : m.n = t.n => m = t}

\* A manifest may have a name, too.
Rewrite ==
    /\ pc \in Rewriting /\ work # None
    /\ \/ /\ Rewritten(pc, work.notes) = {}
          /\ Returned(FALSE) /\ UNCHANGED work
       \/ \E notes \in Rewritten(pc, work.notes), named \in BOOLEAN :
             /\ named = work.named \/ pc = "replace-manifest"
             /\ Returned(TRUE)
             /\ work' = Done([work EXCEPT !.notes = notes, !.named = named], Step(FALSE))
    /\ UNCHANGED commandVars

CatManifest ==
    /\ pc = "cat-manifest" /\ work # None
    /\ Returned(TRUE)
    /\ UNCHANGED <<commandVars, work>>

\* begin, from nothing or from the image file.
Begin ==
    /\ pc = "begin"
    /\ IF work # None THEN Returned(FALSE) /\ UNCHANGED work
       ELSE \/ Returned(TRUE) /\ work' \in {Empty, disk["image"]} \ {None, Torn}
            \/ "begin" \in Faults /\ Returned(FALSE) /\ UNCHANGED work
    /\ UNCHANGED commandVars

End ==
    /\ pc = "end" /\ work # None
    /\ \/ Returned(TRUE) /\ work' = None
       \/ "end" \in Faults /\ Returned(FALSE) /\ UNCHANGED work
    /\ UNCHANGED commandVars

-----------------------------------------------------------------------------
(* addACBuildAnnotation.                                                      *)

MaxNote(notes) == IF notes = {} THEN 0
                  ELSE CHOOSE n \in {m.n : m \in notes} : \A m \in notes : m.n <= n

\* A variant with a bug: the annotations are counted.
BugAnnotate ==
    /\ pc = "annotate"
    /\ work' = [work EXCEPT !.notes = @ \cup {[n |-> Cardinality(@) + 1, id |-> call.id]}]
    /\ Goto(IF call.modify THEN "check" ELSE "exit")
    /\ UNCHANGED <<commandVars, succeeded>>

\* One more than the highest number there is.
Annotate ==
    /\ pc = "annotate"
    /\ work' = [work EXCEPT !.notes = @ \cup {[n |-> MaxNote(@) + 1, id |-> call.id]}]
    /\ Goto(IF call.modify THEN "check" ELSE "exit")
    /\ UNCHANGED <<commandVars, succeeded>>

\* With --modify the image is not written then.
AnnotateFails ==
    /\ pc = "annotate"
    /\ FailFor("note", IF call.modify THEN "finish" ELSE "exit")
    /\ UNCHANGED <<commandVars, work, succeeded>>

-----------------------------------------------------------------------------
(* lib.Write, to the output of a write command or the .tmp of a modify.       *)

\* A variant with a bug: the image is written in place.
BugOutput == IF call.modify THEN "image" ELSE "output"
Output == IF call.modify THEN "temp" ELSE "output"
AfterWrite == IF call.modify THEN "finish" ELSE "exit"
writeVars == <<call, script, work, tmpdirs, line, asked, calls, killed, before, reported>>

\* No name was ever set, or the output is there and --overwrite was not given.
WriteRefused ==
    /\ pc \in {"write", "check"} /\ work # None
    /\ \/ ~work.named
       \/ pc = "write" /\ disk["output"] # None
    /\ Fail(AfterWrite)
    /\ UNCHANGED <<writeVars, disk, succeeded>>

OpenOutput ==
    /\ pc \in {"write", "check"} /\ work # None
    /\ work.named
    /\ disk' = [disk EXCEPT ![Output] = Torn]
    /\ Goto("fill")
    /\ UNCHANGED <<writeVars, succeeded>>

\* The deferred Close calls write the last of it, and nobody looks at their error.
FillOutput ==
    /\ pc = "fill"
    /\ \E content \in {work} \cup {Torn : fault \in Faults \cap {"flush"}} :
          disk' = [disk EXCEPT ![Output] = content]
    /\ Goto(IF call.modify THEN "rename" ELSE "exit")
    /\ UNCHANGED <<writeVars, succeeded>>

\* A variant with a bug: what was written so far stays.
BugFillFails ==
    /\ pc = "fill"
    /\ FailFor("write", AfterWrite)
    /\ UNCHANGED <<writeVars, disk, succeeded>>

\* The deferred removal of the output, also of one that was there before.
FillFails ==
    /\ pc = "fill"
    /\ FailFor("write", AfterWrite)
    /\ disk' = [disk EXCEPT ![Output] = None]
    /\ UNCHANGED <<writeVars, succeeded>>

-----------------------------------------------------------------------------
(* The modify branch of runWrapper.                                           *)

modifyVars == <<call, script, line, asked, calls, killed, before, succeeded, reported>>

Stat ==
    /\ pc = "stat"
    /\ IF disk["image"] = None
       THEN Fail("exit") /\ UNCHANGED tmpdirs
       ELSE Goto("modify begin") /\ tmpdirs' = tmpdirs \cup {"modify"}
    /\ UNCHANGED <<modifyVars, work, disk>>

\* A variant with a bug: a build that is there is replaced.
BugModifyBegin ==
    /\ pc = "modify begin"
    /\ work' = disk["image"] /\ Goto(call.cmd)
    /\ UNCHANGED <<modifyVars, disk, tmpdirs>>

\* The build is made in the working directory, not in the one in /tmp: the name
\* that was computed for it is that of another variable.
ModifyBegin ==
    /\ pc = "modify begin"
    /\ \/ /\ work = None /\ disk["image"] # Torn
          /\ work' = disk["image"] /\ Goto(call.cmd)
       \/ /\ work # None \/ disk["image"] = Torn \/ "begin" \in Faults
          /\ Fail("remove tmpdir") /\ UNCHANGED work
    /\ UNCHANGED <<modifyVars, disk, tmpdirs>>

\* The deferred End runs after this, whatever happens.
Rename ==
    /\ pc = "rename"
    /\ disk' = [disk EXCEPT !["image"] = disk["temp"], !["temp"] = None]
    /\ Goto("finish")
    /\ UNCHANGED <<modifyVars, work, tmpdirs>>

\* A variant with a bug: the error of the rename is printed and no more.
BugRenameFails ==
    /\ pc = "rename" /\ "rename" \in Faults
    /\ Goto("finish")
    /\ disk' = [disk EXCEPT !["temp"] = None]
    /\ UNCHANGED <<modifyVars, work, tmpdirs>>

RenameFails ==
    /\ pc = "rename"
    /\ FailFor("rename", "finish")
    /\ disk' = [disk EXCEPT !["temp"] = None]
    /\ UNCHANGED <<modifyVars, work, tmpdirs>>

\* A variant with a bug: the error of End is only printed.
BugFinish ==
    /\ pc = "finish"
    /\ \/ work' = None /\ Goto("remove tmpdir")
       \/ "end" \in Faults /\ Goto("remove tmpdir") /\ UNCHANGED work
    /\ UNCHANGED <<modifyVars, disk, tmpdirs>>

Finish ==
    /\ pc = "finish"
    /\ \/ work' = None /\ Goto("remove tmpdir")
       \/ FailFor("end", "remove tmpdir") /\ UNCHANGED work
    /\ UNCHANGED <<modifyVars, disk, tmpdirs>>

RemoveTmpdir ==
    /\ pc = "remove tmpdir"
    /\ tmpdirs' = {}
    /\ Goto("exit")
    /\ UNCHANGED <<modifyVars, work, disk>>

-----------------------------------------------------------------------------
(* script.                                                                    *)

scriptVars == <<call, work, disk, calls, killed, before, succeeded, reported>>

\* No line may be an end.  A script inside another one works in the directory of
\* the outer one, and newACBuild wants a build there; any other one makes a
\* directory of its own.
StartScript ==
    /\ pc = "script"
    /\ \E lines \in Scripts, nested \in Nested :
          IF "end" \in Range(lines) \/ (nested /\ work = None)
          THEN Fail("exit") /\ UNCHANGED <<script, tmpdirs>>
          ELSE IF nested THEN Goto("lines") /\ script' = lines /\ UNCHANGED tmpdirs
          ELSE Goto("new script") /\ tmpdirs' = tmpdirs \cup {"script"} /\ UNCHANGED script
    /\ UNCHANGED <<scriptVars, line, asked>>

\* There newACBuild finds no build, since no line has been run: the script ends
\* before its first line, and neither the lines nor a.End are ever reached.
NewScript ==
    /\ pc = "new script"
    /\ Fail("remove tmpdir")
    /\ UNCHANGED <<scriptVars, script, tmpdirs, line, asked>>

\* The next line: a process of its own, with the history on.  The text of a run
\* line is looked at in detail.
NextLine ==
    /\ pc = "lines" /\ script # <<>> /\ calls < MaxCalls
    /\ script' = Tail(script)
    /\ Start([cmd |-> Head(script), modify |-> FALSE, history |-> TRUE, id |-> calls + 1])
    /\ IF Head(script) = "run"
       THEN \E c \in Calls : \E text \in Texts(c) : asked' = c /\ line' = FirstLine(text)
       ELSE UNCHANGED <<asked, line>>
    /\ UNCHANGED <<work, disk, tmpdirs, killed, succeeded, reported>>

EndOfScript ==
    /\ pc = "lines" /\ script = <<>>
    /\ script' = None
    /\ Goto("idle")
    /\ UNCHANGED <<scriptVars, tmpdirs, line, asked>>

-----------------------------------------------------------------------------
Init ==
    /\ pc = "idle" /\ exit = TRUE
    /\ call = [cmd |-> "end", modify |-> FALSE, history |-> FALSE, id |-> 0]
    /\ script = None /\ work = None
    /\ disk \in [{"image", "temp", "output"} -> {None, [Empty EXCEPT !.named = TRUE]}]
    /\ disk["temp"] = None /\ disk["output"] = None
    /\ tmpdirs = {} /\ line = <<>> /\ asked = <<>> /\ calls = 0
    /\ killed = FALSE /\ before = None /\ succeeded = {} /\ reported = {}

Process == Invoke \/ Refused \/ Exit \/ Kill
Command == NoBuild \/ Edit \/ EditFails \/ Rewrite \/ CatManifest \/ Begin \/ End
Annotation == Annotate \/ AnnotateFails
Write == WriteRefused \/ OpenOutput \/ FillOutput \/ FillFails
Modify == Stat \/ ModifyBegin \/ Rename \/ RenameFails \/ Finish \/ RemoveTmpdir
Script == StartScript \/ NewScript \/ NextLine \/ EndOfScript

Next == Process \/ Command \/ Annotation \/ Write \/ Modify \/ Script

Spec == Init /\ [][Next]_vars
-----------------------------------------------------------------------------
(* Properties.                                                                *)

Images == {work, disk["image"], disk["temp"], disk["output"]} \ {None, Torn}

\* Type correctness; a script has lines left only while one of them runs or is
\* about to, and a build is around a command of --modify once it has begun.
TypeOK ==
    /\ exit \in BOOLEAN /\ killed \in BOOLEAN /\ calls \in 0..MaxCalls
    /\ call.cmd \in Commands /\ call.id <= calls
    /\ tmpdirs \subseteq {"modify", "script"}
    /\ script # None => ~Idle /\ ~call.modify
    /\ pc \in {"annotate", "check", "fill", "rename"} => work \notin {None, Torn}
    /\ pc = "rename" => disk["temp"] # None
    /\ \A image \in Images : \A i \in DOMAIN image.done : image.done[i].id \in 1..calls
    /\ reported \subseteq succeeded /\ succeeded \subseteq 1..calls

\* The history of every build and every written image: the numbers of acbuild's own
\* annotations give the order in which the commands ran, none of them failed, and
\* every command that told its user it had succeeded is there, unless a later one
\* changed the annotations themselves; whatever users remove, overwrite or replace,
\* what is numbered after it still is in order (runWrapper, addACBuildAnnotation).
Own(notes) == {m \in notes : m.id # 0}
Forgets(image, i) == \E j \in (i + 1)..Len(image.done) : image.done[j].cmd \in Rewriting
HistoryTellsTheBuild ==
    \A image \in Images :
        /\ \A m, n \in Own(image.notes) : (m.n < n.n <=> m.id < n.id) /\ (m.n = n.n <=> m = n)
        /\ \A m \in Own(image.notes) : m.id \in succeeded
        /\ \A i \in DOMAIN image.done :
              image.done[i].id \in reported =>
                  Forgets(image, i) \/ \E m \in image.notes : m.id = image.done[i].id

\* The image file is replaced by a whole image or not at all, however the process
\* ends, and what is new in it is the one command that was run (runWrapper).
ModifyIsAtomic ==
    [][disk'["image"] # disk["image"] =>
          /\ call.modify /\ disk'["image"] \notin {None, Torn}
          /\ LET old == disk["image"].done
                 new == disk'["image"].done
             IN  new = old \/ (new # <<>> /\ Front(new) = old /\ Last(new).id = call.id)]_vars

\* Exit code 0 means that the image is in the file: that of --modify with the
\* command and its annotation, that of write as it is in the build.
SuccessIsInTheFile ==
    pc = "exit" /\ exit =>
        /\ call.modify /\ call.cmd \in Editing =>
              /\ disk["image"].done # <<>> /\ Last(disk["image"].done) = Step(FALSE)
              /\ call.history => \E m \in disk["image"].notes : m.id = call.id
        /\ call.cmd = "write" => disk["output"] = work

\* A command with --modify leaves a build that the user has open as it is: the
\* build it makes is in the same place (runWrapper, Begin).
UserBuildUntouched == ~Idle /\ call.modify /\ before # None => work = before

\* A process that was not killed leaves no .tmp file and no directory in /tmp, and
\* if it leaves the build of a --modify behind its exit code says so.
NothingLeft ==
    /\ pc = "exit" /\ call.modify /\ exit => work = before
    /\ pc = "exit" /\ ~killed => disk["temp"] = None /\ tmpdirs = {}

\* A script whose lines are all right succeeds ("Runs an acbuild script",
\* src/acbuild/script.go:38; Documentation/subcommands/script.md).
ScriptWorks == (pc = "exit" /\ call.cmd = "script" /\ ~call.modify /\ Faults = {}) => exit

\* The command of a run line gets the arguments that were written, however they
\* were quoted or broken into lines, and none of them is taken for a flag of
\* acbuild (joinLines, tokenizeLine, insertRunTacks).
ScriptArgsArrive == line # <<>> => Positional(InsertRunTacks(TokenizeLine(line))) = asked

\* Arguments without commas and double quotes survive the flag of acbuild-chroot
\* (chroot.Engine.Run).
ChrootArgsArrive ==
    (line # <<>> /\ \A i \in DOMAIN asked : Harmless(asked[i])) =>
        ChrootArgs(Tail(asked)) = Tail(asked)
================================================================================
