------------------------------ MODULE ModEditor ------------------------------
(***************************************************************************)
(* The file view of the Claude pane (apps/claude-mod): a file of the       *)
(* session's folder is opened, followed while the agent writes it, edited  *)
(* in the editor of the surface or a line at a time, and saved.            *)
(*                                                                         *)
(* Three parties hold a copy of one file.  The disk, which the agent also  *)
(* writes.  The hooks module, which keeps the atom `file` and whose every  *)
(* handler is cut by awaits: openFile, loadExtras (the poll that follows   *)
(* the disk), hearEditor (what the editor posts) and editFile.  And the    *)
(* editor, a module of the surface, which keeps a buffer of its own and    *)
(* talks to the hooks module by posts.                                     *)
(*                                                                         *)
(* A text is its file of origin and a number; a time of writing is a       *)
(* count of writes, and 0 where there is none.  What makes a file one that *)
(* is not shown (its kind, its size, its bytes) is not told apart: a read  *)
(* may come out any way the code knows.  Windows, cursors, undo and        *)
(* highlighting are left out.                                              *)
(***************************************************************************)
EXTENDS Naturals, Sequences

CONSTANTS
    Files,      \* files of the session's folder
    Loads,      \* instances: the surface, the files in use, and the bounds on
                \* the texts made by the agent and the person and on the writes
    MaxPosts,   \* bound: posts of the editor not yet heard
    None        \* no record; the text of a file that is not shown

\* "terminal" and "desktop" run the editor, "lines" has none.
ASSUME LoadAssumption ==
    Loads \subseteq [host : {"terminal", "desktop", "lines"}, files : SUBSET Files,
                     texts : Nat, writes : Nat]

ASSUME BoundAssumption == MaxPosts \in Nat

VARIABLES
    load,        \* the instance, the same throughout
    disk,        \* what each file holds and when it was written
    inView,      \* the Files view of an open pane is in front
    file,        \* the atom `file`: the pane's copy of the file on screen
    editor,      \* the surface module's state, None when it is not mounted
    posts,       \* what the editor posted and nobody heard yet
    opening,     \* an openFile under way
    following,   \* a loadExtras round looking at the file on screen
    hearing,     \* a hearEditor under way with a save
    lining,      \* an editFile under way
    confirming,  \* the atom `confirming` is 'discard-edit'
    minted,      \* texts made so far
    clock        \* writes so far

vars == <<load, disk, inView, file, editor, posts, opening, following, hearing, lining,
          confirming, minted, clock>>

written == <<disk, minted, clock>>
surface == <<editor, posts>>
tasks == <<opening, following, hearing, lining>>

Text == [of : Files, v : 0 .. load.texts]
Time == 0 .. load.writes + 1
Stored == [text : Text, mtime : Time]
\* A note says why the text is not shown; `line`: a line is open for typing.
OpenFile ==
    [path : Files, text : Text, note : {FALSE}, mtime : Time,
     isEditing : BOOLEAN, line : BOOLEAN, isDirty : BOOLEAN]
        \cup [path : Files, text : Text \cup {None}, note : {TRUE}, mtime : Time,
              isEditing : BOOLEAN, line : BOOLEAN, isDirty : BOOLEAN]
Buffer == [path : Files, text : Text, rev : Time, isDirty : BOOLEAN]
Post == [type : {"dirty"}, path : Files]
        \cup [type : {"view"}, path : Files, isDirty : BOOLEAN]
        \cup [type : {"save"}, path : Files, text : Text]
\* A readFile: what the disk held at its stat, then what it answers.
Reading == [pc : {"read"}, path : Files, seen : Stored]
           \cup [pc : {"apply"}, fresh : OpenFile]
\* A round that a request to the daemon holds for good.
Hung == [pc |-> "hung"]
Hearing == [pc : {"check", "write", "stat", "update"}, path : Files,
            open : Text, text : Text, mtime : Time]
Lining == [pc : {"check", "write", "update"}, open : OpenFile, text : Text]
          \cup [pc : {"reread"}, open : OpenFile, read : Reading]

TypeOK ==
    /\ load \in Loads
    /\ disk \in [Files -> Stored]
    /\ inView \in BOOLEAN
    /\ file \in OpenFile \cup {None}
    /\ editor \in Buffer \cup {None}
    /\ posts \in Seq(Post) /\ Len(posts) <= MaxPosts
    /\ opening \in Reading \cup {None}
    /\ following \in Reading \cup {None, Hung}
    /\ hearing \in Hearing \cup {None}
    /\ lining \in Lining \cup {None}
    /\ confirming \in BOOLEAN
    /\ minted \in 0 .. load.texts
    /\ clock \in Time

Init ==
    /\ load \in Loads
    /\ disk = [f \in Files |-> [text |-> [of |-> f, v |-> 0], mtime |-> 1]]
    /\ inView = FALSE
    /\ file = None
    /\ editor = None
    /\ posts = <<>>
    /\ opening = None
    /\ following = None
    /\ hearing = None
    /\ lining = None
    /\ confirming = FALSE
    /\ minted = 0
    /\ clock = 1

-----------------------------------------------------------------------------
(* Helpers *)

opened(f, text, note, mtime) ==
    [path |-> f, text |-> text, note |-> note, mtime |-> mtime,
     isEditing |-> FALSE, line |-> FALSE, isDirty |-> FALSE]

Editing == file # None /\ file.isEditing

\* The text of a file being edited is drawn, in an editor where there is one.
DrawnForEditing == inView /\ Editing /\ ~file.note

\* What is pressed was drawn: a drawing without the editor has unmounted it.
Drawn == inView /\ (editor # None => DrawnForEditing)

Mint(f) == [of |-> f, v |-> minted + 1]
CanMint == minted < load.texts

\* A write to the disk, at a time no earlier write has.
Write(f, text) ==
    /\ clock <= load.writes
    /\ clock' = clock + 1
    /\ disk' = [disk EXCEPT ![f] = [text |-> text, mtime |-> clock + 1]]

-----------------------------------------------------------------------------
(* The agent, in the same folder *)

AgentWrite(f) ==
    /\ CanMint
    /\ minted' = minted + 1
    /\ Write(f, Mint(f))
    /\ UNCHANGED <<inView, file, surface, tasks, confirming>>

-----------------------------------------------------------------------------
(* The person, in the pane.  A file being edited has the pane to itself. *)

\* What readFile answers: the text, or why it is not shown.  The time of writing
\* of a file that is not shown is 0 or its stat's: nobody looks at it.
Shown(f, text, mtime) == [pc |-> "apply", fresh |-> opened(f, text, FALSE, mtime)]
NotShown(f) == [pc |-> "apply", fresh |-> opened(f, None, TRUE, 0)]

\* readFile, in two steps: the time of writing is asked first, then the text.
\* The stat is refused, or finds no file or one too large, or the read goes on.
ReadStat(f) == {NotShown(f), [pc |-> "read", path |-> f, seen |-> disk[f]]}

\* Mutation: the text is read first and the time of writing asked after it.
ReadTimeLast(task) == {Shown(task.path, task.seen.text, disk[task.path].mtime)}

\* The read is refused or finds no text, or the text.
ReadText(task) ==
    {NotShown(task.path), Shown(task.path, disk[task.path].text, task.seen.mtime)}

\* openFile, up to the stat.
OpenFileStart(f) ==
    /\ opening = None
    /\ ~Editing /\ editor = None
    /\ opening' \in ReadStat(f)
    /\ UNCHANGED <<written, inView, file, surface, following, hearing, lining, confirming>>

OpenFileRead ==
    /\ opening # None /\ opening.pc = "read"
    /\ opening' \in ReadText(opening)
    /\ UNCHANGED <<written, inView, file, surface, following, hearing, lining, confirming>>

\* The rest of openFile: the Files view is brought to the front, of a pane that
\* may be closed by now, with the file as read, whatever is there.
OpenFileApply ==
    /\ opening # None /\ opening.pc = "apply"
    /\ inView' \in {inView, TRUE}
    /\ file' = opening.fresh
    /\ opening' = None
    /\ UNCHANGED <<written, surface, following, hearing, lining, confirming>>

\* Another view is brought to the front, which a file being edited leaves no
\* press for, or the pane is closed; and back.  A pane closed under an editor
\* that is mounted is left out.
Leave ==
    /\ inView /\ ~Editing /\ editor = None
    /\ inView' = FALSE
    /\ confirming' \in {confirming, FALSE}
    /\ UNCHANGED <<written, file, surface, tasks>>

Return ==
    /\ ~inView
    /\ inView' = TRUE
    /\ confirming' \in {confirming, FALSE}
    /\ UNCHANGED <<written, file, surface, tasks>>

\* The `back` button.
closeFile ==
    /\ file # None /\ Drawn
    /\ file' = None
    /\ UNCHANGED <<written, inView, surface, tasks, confirming>>

toggleEdit ==
    /\ file # None /\ ~file.note /\ Drawn
    /\ file' = [file EXCEPT !.isEditing = ~@, !.isDirty = FALSE, !.line = FALSE]
    /\ UNCHANGED <<written, inView, surface, tasks, confirming>>

\* `edit` and `done` are drawn while the pane knows of no changes.
PressEditOrDone == file # None /\ ~file.isDirty /\ toggleEdit

\* `discard changes` is drawn in two: the press that asks, and the one that does.
ask ==
    /\ file # None /\ file.isDirty /\ ~file.note /\ ~confirming /\ Drawn
    /\ confirming' = TRUE
    /\ UNCHANGED <<written, inView, file, surface, tasks>>

cancel ==
    /\ file # None /\ file.isDirty /\ ~file.note /\ confirming /\ Drawn
    /\ confirming' = FALSE
    /\ UNCHANGED <<written, inView, file, surface, tasks>>

PressDiscardNow == file # None /\ file.isDirty /\ confirming /\ toggleEdit

-----------------------------------------------------------------------------
(* The editor of the surface *)

HasEditor == load.host # "lines"

\* Mutation: new text on disk replaces the buffer whatever was typed in it.
IsFreshOnDisk == editor = None \/ editor.rev # file.mtime

\* New text on disk replaces the buffer, unless the person has changes the
\* text does not hold.
IsFresh ==
    \/ editor = None
    \/ editor.rev # file.mtime /\ (~editor.isDirty \/ file.text = editor.text)

\* A drawing hands the editor its props.
RenderEditor ==
    /\ HasEditor /\ DrawnForEditing
    /\ editor' = IF IsFresh
                 THEN [path |-> file.path, text |-> file.text,
                       rev |-> file.mtime, isDirty |-> FALSE]
                 ELSE [editor EXCEPT !.path = file.path]
    /\ UNCHANGED <<written, inView, file, posts, tasks, confirming>>

\* A drawing without the editor: its state goes with it.
UnmountEditor ==
    /\ editor # None /\ ~DrawnForEditing
    /\ editor' = None
    /\ UNCHANGED <<written, inView, file, posts, tasks, confirming>>

\* A key that changes the text.  On a terminal the first change is posted; on
\* the desktop every key posts what is shown and whether there are changes.
Typed ==
    /\ editor # None /\ CanMint /\ Len(posts) < MaxPosts
    /\ minted' = minted + 1
    /\ editor' = [editor EXCEPT !.text = Mint(editor.text.of), !.isDirty = TRUE]
    /\ posts' = CASE load.host = "desktop" ->
                        Append(posts, [type |-> "view", path |-> editor.path,
                                       isDirty |-> TRUE])
                  [] load.host = "terminal" /\ ~editor.isDirty ->
                        Append(posts, [type |-> "dirty", path |-> editor.path])
                  [] OTHER -> posts
    /\ UNCHANGED <<disk, inView, file, tasks, confirming, clock>>

save ==
    /\ editor # None /\ Len(posts) < MaxPosts
    /\ posts' = Append(posts, [type |-> "save", path |-> editor.path,
                               text |-> editor.text])
    /\ UNCHANGED <<written, inView, file, editor, tasks, confirming>>

-----------------------------------------------------------------------------
(* hearEditor *)

\* The file on screen is the one the post is about, and its text is shown.
HeardOf(said) == file # None /\ ~file.note /\ said.path = file.path

HearDropped ==
    /\ hearing = None /\ posts # <<>> /\ ~HeardOf(Head(posts))
    /\ posts' = Tail(posts)
    /\ UNCHANGED <<written, inView, file, editor, tasks, confirming>>

HearChanges ==
    /\ hearing = None /\ posts # <<>> /\ HeardOf(Head(posts))
    /\ Head(posts).type \in {"dirty", "view"}
    /\ posts' = Tail(posts)
    /\ file' = [file EXCEPT !.isDirty = @ \/ Head(posts).type = "dirty"
                                          \/ Head(posts).isDirty]
    /\ UNCHANGED <<written, inView, editor, tasks, confirming>>

HearSave ==
    /\ hearing = None /\ posts # <<>> /\ HeardOf(Head(posts))
    /\ Head(posts).type = "save"
    /\ posts' = Tail(posts)
    /\ hearing' = [pc |-> "check", path |-> file.path, open |-> file.text,
                   text |-> Head(posts).text, mtime |-> 0]
    /\ UNCHANGED <<written, inView, file, editor, opening, following, lining, confirming>>

\* The disk is read: unless it is the pane's text, nothing is written.
HearCheck ==
    /\ hearing # None /\ hearing.pc = "check"
    /\ hearing' = IF disk[hearing.path].text = hearing.open
                  THEN [hearing EXCEPT !.pc = "write"]
                  ELSE None
    /\ UNCHANGED <<written, inView, file, surface, opening, following, lining, confirming>>

HearWrite ==
    /\ hearing # None /\ hearing.pc = "write"
    /\ Write(hearing.path, hearing.text)
    /\ hearing' = [hearing EXCEPT !.pc = "stat"]
    /\ UNCHANGED <<inView, file, surface, opening, following, lining, confirming, minted>>

HearStat ==
    /\ hearing # None /\ hearing.pc = "stat"
    /\ hearing' = [hearing EXCEPT !.pc = "update",
                                  !.mtime = disk[hearing.path].mtime]
    /\ UNCHANGED <<written, inView, file, surface, opening, following, lining, confirming>>

\* The file on screen now is given what was saved, whichever file it is.
HearUpdate ==
    /\ hearing # None /\ hearing.pc = "update"
    /\ file' = IF file = None THEN None
               ELSE [file EXCEPT !.text = hearing.text,
                                 !.mtime = hearing.mtime, !.isDirty = FALSE]
    /\ hearing' = None
    /\ UNCHANGED <<written, inView, surface, opening, following, lining, confirming>>

\* The read, the write or the stat is refused: the reason is told.
HearFail ==
    /\ hearing # None /\ hearing.pc # "update"
    /\ hearing' = None
    /\ UNCHANGED <<written, inView, file, surface, opening, following, lining, confirming>>

Hear == HearDropped \/ HearChanges \/ HearSave \/ HearCheck \/ HearWrite
        \/ HearStat \/ HearUpdate

-----------------------------------------------------------------------------
(* loadExtras, for the Files view: what is shown follows the disk *)

\* A file shown without a note, with no change known and no line open.
Followable == file # None /\ ~file.line /\ ~file.note /\ ~file.isDirty

\* The time of writing is asked, 0 where the stat is refused; another one than
\* the pane's has the file read again.
FollowStart ==
    /\ following = None
    /\ inView /\ Followable
    /\ \E mtime \in {disk[file.path].mtime, 0} : mtime # file.mtime
    /\ following' \in ReadStat(file.path)
    /\ UNCHANGED <<written, inView, file, surface, opening, hearing, lining, confirming>>

FollowRead ==
    /\ following # None /\ following.pc = "read"
    /\ following' \in ReadText(following)
    /\ UNCHANGED <<written, inView, file, surface, opening, hearing, lining, confirming>>

\* Mutation: the text is taken and the time of writing forgotten.
FollowedText == [following.fresh EXCEPT !.mtime = file.mtime, !.isEditing = file.isEditing]

\* Mutation: what was read goes into the file on screen, and its note nowhere.
FollowedSilently ==
    [file EXCEPT !.text = following.fresh.text, !.mtime = following.fresh.mtime]

Followed == [following.fresh EXCEPT !.isEditing = file.isEditing]

FollowApply ==
    /\ following # None /\ following.pc = "apply"
    /\ file' = IF file = None \/ file.path # following.fresh.path THEN file ELSE Followed
    /\ following' = None
    /\ UNCHANGED <<written, inView, surface, opening, hearing, lining, confirming>>

Follow == FollowStart \/ FollowRead \/ FollowApply

\* A request to the daemon is never answered, and the rounds with it: the next
\* polls join the round that waits.
RoundHangs ==
    /\ following = None
    /\ following' = Hung
    /\ UNCHANGED <<written, inView, file, surface, opening, hearing, lining, confirming>>

-----------------------------------------------------------------------------
(* editFile: one line of the file, where the surface has no editor or the    *)
(* file is too long for it                                                   *)

\* A line is pressed, which opens it for typing.
pickLine ==
    /\ ~HasEditor /\ DrawnForEditing /\ ~file.line
    /\ file' = [file EXCEPT !.line = TRUE]
    /\ UNCHANGED <<written, inView, surface, tasks, confirming>>

\* It is cancelled, or another page of the file is brought into view.
cancelLine ==
    /\ ~HasEditor /\ DrawnForEditing /\ file.line
    /\ file' = [file EXCEPT !.line = FALSE]
    /\ UNCHANGED <<written, inView, surface, tasks, confirming>>

\* A line is saved, deleted or put under the one that is open, or is the first
\* of an empty file.
EditLineStart ==
    /\ ~HasEditor /\ DrawnForEditing /\ lining = None
    /\ lining' = [pc |-> "check", open |-> file, text |-> file.text]
    /\ UNCHANGED <<written, inView, file, surface, opening, following, hearing, confirming>>

\* The disk is read again: the pane's copy must be what it holds.  A line that
\* is saved as it stood is not written.
EditLineCheck ==
    /\ lining # None /\ lining.pc = "check"
    /\ LET f == lining.open.path
       IN  \/ /\ disk[f].text = lining.open.text
              /\ CanMint
              /\ minted' = minted + 1
              /\ lining' = [lining EXCEPT !.pc = "write", !.text = Mint(disk[f].text.of)]
           \/ /\ disk[f].text = lining.open.text
              /\ lining' = [lining EXCEPT !.pc = "update"]
              /\ UNCHANGED minted
           \/ /\ disk[f].text # lining.open.text
              /\ \E r \in ReadStat(f) :
                    lining' = [pc |-> "reread", open |-> lining.open, read |-> r]
              /\ UNCHANGED minted
    /\ UNCHANGED <<disk, inView, file, surface, opening, following, hearing, confirming, clock>>

EditLineReread ==
    /\ lining # None /\ lining.pc = "reread" /\ lining.read.pc = "read"
    /\ \E r \in ReadText(lining.read) : lining' = [lining EXCEPT !.read = r]
    /\ UNCHANGED <<written, inView, file, surface, opening, following, hearing, confirming>>

\* The file is shown as read again, in place of whatever is on screen.
EditLineReopen ==
    /\ lining # None /\ lining.pc = "reread" /\ lining.read.pc = "apply"
    /\ file' = [lining.read.fresh EXCEPT !.isEditing = TRUE]
    /\ lining' = None
    /\ UNCHANGED <<written, inView, surface, opening, following, hearing, confirming>>

EditLineWrite ==
    /\ lining # None /\ lining.pc = "write"
    /\ Write(lining.open.path, lining.text)
    /\ lining' = [lining EXCEPT !.pc = "update"]
    /\ UNCHANGED <<inView, file, surface, opening, following, hearing, confirming, minted>>

\* The stat, and the file on screen is the one that was changed, with the line
\* that follows open for typing or none.
EditLineUpdate ==
    /\ lining # None /\ lining.pc = "update"
    /\ \E line \in BOOLEAN :
          file' = [lining.open EXCEPT !.text = lining.text, !.line = line,
                                      !.mtime = disk[lining.open.path].mtime]
    /\ lining' = None
    /\ UNCHANGED <<written, inView, surface, opening, following, hearing, confirming>>

\* The read, the write or the stat is refused, or the line is no longer there:
\* the reason is told.
EditLineFail ==
    /\ lining # None /\ lining.pc # "reread"
    /\ lining' = None
    /\ UNCHANGED <<written, inView, file, surface, opening, following, hearing, confirming>>

EditLine == EditLineCheck \/ EditLineReread \/ EditLineReopen \/ EditLineWrite
            \/ EditLineUpdate

-----------------------------------------------------------------------------
Next ==
    /\ \/ \E f \in load.files : AgentWrite(f) \/ OpenFileStart(f)
       \/ OpenFileRead \/ OpenFileApply
       \/ Leave \/ Return
       \/ closeFile \/ PressEditOrDone \/ ask \/ cancel \/ PressDiscardNow
       \/ RenderEditor \/ UnmountEditor \/ Typed \/ save
       \/ Hear \/ HearFail
       \/ Follow \/ RoundHangs
       \/ pickLine \/ cancelLine \/ EditLineStart \/ EditLine \/ EditLineFail
    /\ UNCHANGED load

Spec == Init /\ [][Next]_vars

\* While the Files view is in front and no request to the daemon hangs, the
\* poll that runs every five seconds looks at the file, and a read of the
\* session's folder ends.
FairSpec == Spec /\ WF_<<file, following>>(Follow)

-----------------------------------------------------------------------------
\* New text on disk never replaces changes of the person's own: a dirty
\* buffer that stays mounted is only changed by typing, or found saved
\* (register.tsx follows the disk, editor.tsx keeps the buffer).
WorkKept ==
    [][ (editor # None /\ editor.isDirty /\ editor' # None)
          => \/ editor'.text = editor.text
             \/ minted' = minted + 1 ]_editor

\* readFile asks the time of writing before the text, so a read that the
\* agent's write cut in two carries an old time and the next poll reads again:
\* a text read with the disk's time of writing is the disk's text.
ReadNotTorn ==
    \A r \in {opening, following} \ {None} :
        (r.pc = "apply" /\ ~r.fresh.note /\ r.fresh.mtime = disk[r.fresh.path].mtime)
            => r.fresh.text = disk[r.fresh.path].text

\* The poll settles: a file that is followed, and whose time of writing is not
\* the disk's, comes to have the disk's, or stops being followed: it is closed
\* or changed, a line of it is opened, it cannot be shown any more, another
\* view is in front, or a request to the daemon hangs.
TimeFollowed ==
    LET IsFollowed == inView /\ Followable /\ following # Hung
    IN  (IsFollowed /\ disk[file.path].mtime # file.mtime)
          ~> (~IsFollowed \/ disk[file.path].mtime = file.mtime)
=============================================================================
