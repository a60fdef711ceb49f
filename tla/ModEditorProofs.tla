--------------------------- MODULE ModEditorProofs ---------------------------
(***************************************************************************)
(* Proofs about the file view of the Claude pane: types, that a read torn  *)
(* by a write is told by its time, and that what a person has typed is     *)
(* never replaced by what is read, for any files, bounds and surfaces.     *)
(***************************************************************************)
EXTENDS ModEditor, TLAPS

-----------------------------------------------------------------------------
(* Types *)

\* The instance stays, and so does what its bounds make of the types.
LEMMA TypesStay ==
    ASSUME load' = load
    PROVE  /\ Text' = Text /\ Stored' = Stored /\ OpenFile' = OpenFile
           /\ Buffer' = Buffer /\ Post' = Post /\ Reading' = Reading
           /\ Hearing' = Hearing /\ Lining' = Lining
           /\ (0 .. load.texts)' = 0 .. load.texts
           /\ Time' = Time
  BY DEF Text, Time, Stored, OpenFile, Buffer, Post, Reading, Hearing, Lining

LEMMA LoadType ==
    ASSUME TypeOK
    PROVE  load.texts \in Nat /\ load.writes \in Nat /\ load.files \subseteq Files
  BY LoadAssumption DEF TypeOK

\* A new text of a file, and a write.
LEMMA MintType ==
    ASSUME TypeOK, CanMint, NEW f \in Files
    PROVE  Mint(f) \in Text /\ minted + 1 \in 0 .. load.texts
  BY LoadType DEF TypeOK, CanMint, Mint, Text

LEMMA WriteType ==
    ASSUME TypeOK, NEW f \in Files, NEW text \in Text, Write(f, text)
    PROVE  disk' \in [Files -> Stored] /\ clock' \in Time
  BY LoadType DEF TypeOK, Write, Stored, Time

LEMMA DiskType ==
    ASSUME TypeOK, NEW f \in Files
    PROVE  disk[f] \in Stored /\ disk[f].text \in Text /\ disk[f].mtime \in Time
  BY DEF TypeOK, Stored

\* What readFile answers is a file to show, with its text or a note.
LEMMA ShownType ==
    ASSUME TypeOK, NEW f \in Files
    PROVE  /\ NotShown(f) \in Reading
           /\ \A text \in Text, mtime \in Time : Shown(f, text, mtime) \in Reading
  <1>1. 0 \in Time
    BY LoadType DEF Time
  <1>2. opened(f, None, TRUE, 0) \in OpenFile
    BY <1>1 DEF opened, OpenFile
  <1>3. \A text \in Text, mtime \in Time : opened(f, text, FALSE, mtime) \in OpenFile
    BY DEF opened, OpenFile
  <1> QED
    BY <1>2, <1>3 DEF Shown, NotShown, Reading

LEMMA ReadTypes ==
    ASSUME TypeOK
    PROVE  /\ \A f \in Files : ReadStat(f) \subseteq Reading
           /\ \A task \in Reading : task.pc = "read" => ReadText(task) \subseteq Reading
  <1>1. ASSUME NEW f \in Files PROVE ReadStat(f) \subseteq Reading
    BY <1>1, DiskType, ShownType DEF ReadStat, Reading
  <1>2. ASSUME NEW task \in Reading, task.pc = "read" PROVE ReadText(task) \subseteq Reading
    <2>1. task.path \in Files /\ task.seen.mtime \in Time
      BY <1>2 DEF Reading, Stored
    <2> QED
      BY <2>1, DiskType, ShownType DEF ReadText
  <1> QED
    BY <1>1, <1>2

\* A task that reads is not a round that hangs.
LEMMA NotHung == Hung.pc # "read" /\ Hung.pc # "apply"
  BY DEF Hung

LEMMA InitTypes == Init => TypeOK
  <1> SUFFICES ASSUME Init PROVE TypeOK
    OBVIOUS
  <1>1. load.texts \in Nat /\ load.writes \in Nat
    BY LoadAssumption DEF Init
  <1>2. disk \in [Files -> Stored]
    BY <1>1 DEF Init, Stored, Text, Time
  <1>3. posts \in Seq(Post) /\ Len(posts) <= MaxPosts
    BY BoundAssumption DEF Init
  <1>4. minted \in 0 .. load.texts /\ clock \in Time
    BY <1>1 DEF Init, Time
  <1> QED
    BY <1>2, <1>3, <1>4 DEF Init, TypeOK

\* What the agent, the person and the reads do.
LEMMA AgentTypes == ASSUME TypeOK, load' = load, NEW f \in Files, AgentWrite(f) PROVE TypeOK'
  <1>1. CanMint /\ minted' = minted + 1 /\ Write(f, Mint(f))
    BY DEF AgentWrite
  <1>2. disk' \in [Files -> Stored] /\ clock' \in Time /\ minted' \in 0 .. load.texts
    BY <1>1, MintType, WriteType
  <1> QED
    BY <1>2, TypesStay DEF TypeOK, AgentWrite, surface, tasks

LEMMA OpenTypes ==
    ASSUME TypeOK, load' = load,
           (\E f \in Files : OpenFileStart(f)) \/ OpenFileRead \/ OpenFileApply
    PROVE  TypeOK'
  <1>1. CASE \E f \in Files : OpenFileStart(f)
    <2>1. opening' \in Reading
      BY <1>1, ReadTypes DEF OpenFileStart
    <2> QED
      BY <1>1, <2>1, TypesStay DEF TypeOK, OpenFileStart, written, surface
  <1>2. CASE OpenFileRead
    <2>1. opening' \in Reading
      BY <1>2, ReadTypes DEF TypeOK, OpenFileRead
    <2> QED
      BY <1>2, <2>1, TypesStay DEF TypeOK, OpenFileRead, written, surface
  <1>3. CASE OpenFileApply
    <2>1. opening.fresh \in OpenFile
      BY <1>3 DEF TypeOK, OpenFileApply, Reading
    <2> QED
      BY <1>3, <2>1, TypesStay DEF TypeOK, OpenFileApply, written, surface
  <1> QED
    BY <1>1, <1>2, <1>3

LEMMA ViewTypes == ASSUME TypeOK, load' = load, Leave \/ Return PROVE TypeOK'
  BY TypesStay DEF TypeOK, Leave, Return, written, surface, tasks

LEMMA PressTypes ==
    ASSUME TypeOK, load' = load,
           closeFile \/ PressEditOrDone \/ ask \/ cancel \/ PressDiscardNow
    PROVE  TypeOK'
  <1>1. CASE toggleEdit
    <2>1. file \in OpenFile
      BY <1>1 DEF TypeOK, toggleEdit
    <2>2. [file EXCEPT !.isEditing = ~@, !.isDirty = FALSE, !.line = FALSE] \in OpenFile
      BY <2>1 DEF OpenFile
    <2> QED
      BY <1>1, <2>2, TypesStay DEF TypeOK, toggleEdit, written, surface, tasks
  <1>2. CASE closeFile \/ ask \/ cancel
    BY <1>2, TypesStay DEF TypeOK, closeFile, ask, cancel, written, surface, tasks
  <1> QED
    BY <1>1, <1>2 DEF PressEditOrDone, PressDiscardNow

LEMMA EditorTypes ==
    ASSUME TypeOK, load' = load, RenderEditor \/ UnmountEditor \/ Typed \/ save
    PROVE  TypeOK'
  <1>1. CASE RenderEditor
    <2>1. file \in OpenFile /\ file.text \in Text
      BY <1>1 DEF TypeOK, RenderEditor, DrawnForEditing, Editing, OpenFile
    <2>2. editor' \in Buffer
      <3>1. CASE IsFresh
        BY <1>1, <2>1, <3>1 DEF RenderEditor, OpenFile, Buffer
      <3>2. CASE ~IsFresh
        <4>1. editor \in Buffer
          BY <3>2 DEF TypeOK, IsFresh
        <4> QED
          BY <1>1, <2>1, <3>2, <4>1 DEF RenderEditor, OpenFile, Buffer
      <3> QED
        BY <3>1, <3>2
    <2> QED
      BY <1>1, <2>2, TypesStay DEF TypeOK, RenderEditor, written, tasks
  <1>2. CASE UnmountEditor
    BY <1>2, TypesStay DEF TypeOK, UnmountEditor, written, tasks
  <1>3. CASE Typed
    <2>1. editor \in Buffer /\ CanMint /\ Len(posts) < MaxPosts
      BY <1>3 DEF TypeOK, Typed
    <2>2. editor.path \in Files /\ editor.text \in Text /\ editor.text.of \in Files
      BY <2>1 DEF Buffer, Text
    <2>3. /\ Mint(editor.text.of) \in Text
          /\ minted + 1 \in 0 .. load.texts
      BY <2>1, <2>2, MintType
    <2>4. editor' \in Buffer
      BY <1>3, <2>1, <2>3 DEF Typed, Buffer
    <2>5. posts' \in Seq(Post) /\ Len(posts') <= MaxPosts
      <3> DEFINE viewed  == [type |-> "view", path |-> editor.path, isDirty |-> TRUE]
                 dirtied == [type |-> "dirty", path |-> editor.path]
      <3>1. viewed \in Post /\ dirtied \in Post
        BY <2>2 DEF Post
      <3>2. posts' = Append(posts, viewed) \/ posts' = Append(posts, dirtied) \/ posts' = posts
        BY <1>3 DEF Typed
      <3> HIDE DEF viewed, dirtied
      <3>3. posts \in Seq(Post) /\ Len(posts) \in Nat /\ Len(posts) <= MaxPosts
        BY DEF TypeOK
      <3>4. /\ Append(posts, viewed) \in Seq(Post) /\ Append(posts, dirtied) \in Seq(Post)
            /\ Len(Append(posts, viewed)) = Len(posts) + 1
            /\ Len(Append(posts, dirtied)) = Len(posts) + 1
        BY <3>1, <3>3
      <3>5. Len(posts) + 1 <= MaxPosts
        BY <2>1, <3>3, BoundAssumption
      <3> QED
        BY <3>2, <3>3, <3>4, <3>5
    <2> QED
      BY <1>3, <2>3, <2>4, <2>5, TypesStay DEF TypeOK, Typed, tasks
  <1>4. CASE save
    <2>1. [type |-> "save", path |-> editor.path, text |-> editor.text] \in Post
      BY <1>4 DEF TypeOK, save, Buffer, Post
    <2>2. posts' \in Seq(Post) /\ Len(posts') <= MaxPosts
      BY <1>4, <2>1, BoundAssumption DEF TypeOK, save
    <2> QED
      BY <1>4, <2>2, TypesStay DEF TypeOK, save, written, tasks
  <1> QED
    BY <1>1, <1>2, <1>3, <1>4

\* A post that is heard is one of the editor's, and the others wait.
LEMMA PostsTypes ==
    ASSUME TypeOK, posts # <<>>
    PROVE  /\ Head(posts) \in Post
           /\ Tail(posts) \in Seq(Post) /\ Len(Tail(posts)) <= MaxPosts
  BY BoundAssumption DEF TypeOK

LEMMA HearTypes == ASSUME TypeOK, load' = load, Hear \/ HearFail PROVE TypeOK'
  <1>1. CASE HearDropped
    BY <1>1, PostsTypes, TypesStay DEF TypeOK, HearDropped, written, tasks
  <1>2. CASE HearChanges
    <2>1. file \in OpenFile
      BY <1>2 DEF TypeOK, HearChanges, HeardOf
    <2>2. Head(posts).type # "dirty" => Head(posts).isDirty \in BOOLEAN
      BY <1>2, PostsTypes DEF HearChanges, Post
    <2>3. (file.isDirty \/ Head(posts).type = "dirty" \/ Head(posts).isDirty) \in BOOLEAN
      BY <2>1, <2>2 DEF OpenFile
    <2>4. file' \in OpenFile
      BY <1>2, <2>1, <2>3 DEF HearChanges, OpenFile
    <2> QED
      BY <1>2, <2>4, PostsTypes, TypesStay DEF TypeOK, HearChanges, written, tasks
  <1>3. CASE HearSave
    <2>1. file.path \in Files /\ file.text \in Text
      BY <1>3 DEF TypeOK, HearSave, HeardOf, OpenFile
    <2>2. Head(posts).text \in Text
      BY <1>3, PostsTypes DEF HearSave, Post
    <2>3. hearing' \in Hearing
      BY <1>3, <2>1, <2>2, LoadType DEF HearSave, Hearing, Time
    <2> QED
      BY <1>3, <2>3, PostsTypes, TypesStay DEF TypeOK, HearSave, written
  <1>4. CASE HearCheck \/ HearWrite \/ HearStat
    <2>1. hearing \in Hearing
      BY <1>4 DEF TypeOK, HearCheck, HearWrite, HearStat
    <2>2. hearing.path \in Files /\ hearing.text \in Text
      BY <2>1 DEF Hearing
    <2>3. disk[hearing.path].mtime \in Time
      BY <2>2, DiskType
    <2>4. hearing' \in Hearing \cup {None}
      BY <1>4, <2>1, <2>3 DEF HearCheck, HearWrite, HearStat, Hearing
    <2>5. disk' \in [Files -> Stored] /\ clock' \in Time /\ minted' = minted
      BY <1>4, <2>2, WriteType DEF TypeOK, HearCheck, HearWrite, HearStat, written
    <2> QED
      BY <1>4, <2>4, <2>5, TypesStay DEF TypeOK, HearCheck, HearWrite, HearStat, surface
  <1>5. CASE HearUpdate
    <2>1. hearing \in Hearing
      BY <1>5 DEF TypeOK, HearUpdate
    <2>2. file' \in OpenFile \cup {None}
      BY <1>5, <2>1 DEF TypeOK, HearUpdate, OpenFile, Hearing
    <2> QED
      BY <1>5, <2>2, TypesStay DEF TypeOK, HearUpdate, written, surface
  <1>6. CASE HearFail
    BY <1>6, TypesStay DEF TypeOK, HearFail, written, surface
  <1> QED
    BY <1>1, <1>2, <1>3, <1>4, <1>5, <1>6 DEF Hear

LEMMA FollowTypes == ASSUME TypeOK, load' = load, Follow \/ RoundHangs PROVE TypeOK'
  <1>1. CASE FollowStart
    <2>1. file.path \in Files
      BY <1>1 DEF TypeOK, FollowStart, Followable, OpenFile
    <2>2. following' \in Reading
      BY <1>1, <2>1, ReadTypes DEF FollowStart
    <2> QED
      BY <1>1, <2>2, TypesStay DEF TypeOK, FollowStart, written, surface
  <1>2. CASE FollowRead
    <2>1. following' \in Reading
      BY <1>2, NotHung, ReadTypes DEF TypeOK, FollowRead
    <2> QED
      BY <1>2, <2>1, TypesStay DEF TypeOK, FollowRead, written, surface
  <1>3. CASE FollowApply
    <2>1. following.fresh \in OpenFile
      BY <1>3, NotHung DEF TypeOK, FollowApply, Reading
    <2>2. file # None => Followed \in OpenFile
      BY <2>1 DEF TypeOK, Followed, OpenFile
    <2> QED
      BY <1>3, <2>2, TypesStay DEF TypeOK, FollowApply, written, surface
  <1>4. CASE RoundHangs
    BY <1>4, TypesStay DEF TypeOK, RoundHangs, Hung, written, surface
  <1> QED
    BY <1>1, <1>2, <1>3, <1>4 DEF Follow

LEMMA PickTypes == ASSUME TypeOK, load' = load, pickLine \/ cancelLine PROVE TypeOK'
  <1>1. file \in OpenFile
    BY DEF TypeOK, pickLine, cancelLine, DrawnForEditing, Editing
  <1>2. file' \in OpenFile
    BY <1>1 DEF pickLine, cancelLine, OpenFile
  <1> QED
    BY <1>2, TypesStay DEF TypeOK, pickLine, cancelLine, written, surface, tasks

LEMMA LineTypes ==
    ASSUME TypeOK, load' = load, EditLineStart \/ EditLine \/ EditLineFail
    PROVE  TypeOK'
  <1>1. CASE EditLineStart
    <2>1. file \in OpenFile /\ file.text \in Text
      BY <1>1 DEF TypeOK, EditLineStart, DrawnForEditing, Editing, OpenFile
    <2>2. lining' \in Lining
      BY <1>1, <2>1 DEF EditLineStart, Lining
    <2> QED
      BY <1>1, <2>2, TypesStay DEF TypeOK, EditLineStart, written, surface
  <1>2. ASSUME EditLine
        PROVE  /\ lining \in Lining /\ lining.open \in OpenFile /\ lining.open.path \in Files
               /\ disk[lining.open.path].text \in Text
               /\ disk[lining.open.path].mtime \in Time
    <2>1. lining \in Lining
      BY <1>2 DEF TypeOK, EditLine, EditLineCheck, EditLineReread, EditLineReopen, EditLineWrite,
                  EditLineUpdate
    <2>2. lining.open \in OpenFile /\ lining.open.path \in Files
      BY <2>1 DEF Lining, OpenFile
    <2> QED
      BY <2>1, <2>2, DiskType
  <1>3. CASE EditLineCheck
    <2> DEFINE onDisk == disk[lining.open.path]
    <2>1. lining.text \in Text
      BY <1>2, <1>3 DEF EditLine, EditLineCheck, Lining
    <2>2. minted' \in 0 .. load.texts /\ lining' \in Lining
      <3>1. CASE CanMint /\ minted' = minted + 1
                 /\ lining' = [lining EXCEPT !.pc = "write", !.text = Mint(onDisk.text.of)]
        <4>1. Mint(onDisk.text.of) \in Text /\ minted' \in 0 .. load.texts
          BY <1>2, <1>3, <3>1, MintType DEF EditLine, Text
        <4> QED
          BY <1>2, <1>3, <3>1, <4>1 DEF EditLine, EditLineCheck, Lining
      <3>2. CASE UNCHANGED minted /\ lining' = [lining EXCEPT !.pc = "update"]
        BY <1>2, <1>3, <3>2 DEF EditLine, EditLineCheck, Lining, TypeOK
      <3>3. CASE /\ UNCHANGED minted
                 /\ \E r \in ReadStat(lining.open.path) :
                       lining' = [pc |-> "reread", open |-> lining.open, read |-> r]
        BY <1>2, <1>3, <3>3, ReadTypes DEF EditLine, Lining, TypeOK
      <3> QED
        BY <1>3, <3>1, <3>2, <3>3 DEF EditLineCheck
    <2> QED
      BY <1>3, <2>2, TypesStay DEF TypeOK, EditLineCheck, surface
  <1>4. CASE EditLineReread
    <2>1. lining.read \in Reading
      BY <1>2, <1>4 DEF EditLine, EditLineReread, Lining
    <2>2. lining' \in Lining
      BY <1>2, <1>4, <2>1, ReadTypes DEF EditLine, EditLineReread, Lining
    <2> QED
      BY <1>4, <2>2, TypesStay DEF TypeOK, EditLineReread, written, surface
  <1>5. CASE EditLineReopen
    <2>1. lining.read.fresh \in OpenFile
      BY <1>2, <1>5 DEF EditLine, EditLineReopen, Lining, Reading
    <2>2. file' \in OpenFile
      BY <1>5, <2>1 DEF EditLineReopen, OpenFile
    <2> QED
      BY <1>5, <2>2, TypesStay DEF TypeOK, EditLineReopen, written, surface
  <1>6. CASE EditLineWrite
    <2>1. lining.text \in Text /\ lining' \in Lining
      BY <1>2, <1>6 DEF EditLine, EditLineWrite, Lining
    <2>2. disk' \in [Files -> Stored] /\ clock' \in Time
      BY <1>2, <1>6, <2>1, WriteType DEF EditLine, EditLineWrite
    <2> QED
      BY <1>6, <2>1, <2>2, TypesStay DEF TypeOK, EditLineWrite, surface
  <1>7. CASE EditLineUpdate
    <2>1. lining.text \in Text
      BY <1>2, <1>7 DEF EditLine, EditLineUpdate, Lining
    <2>2. file' \in OpenFile
      BY <1>2, <1>7, <2>1 DEF EditLine, EditLineUpdate, OpenFile
    <2> QED
      BY <1>7, <2>2, TypesStay DEF TypeOK, EditLineUpdate, written, surface
  <1>8. CASE EditLineFail
    BY <1>8, TypesStay DEF TypeOK, EditLineFail, written, surface
  <1> QED
    BY <1>1, <1>3, <1>4, <1>5, <1>6, <1>7, <1>8 DEF EditLine

LEMMA TypesStep == TypeOK /\ [Next]_vars => TypeOK'
  <1>1. ASSUME TypeOK, Next PROVE TypeOK'
    BY <1>1, LoadType, AgentTypes, OpenTypes, ViewTypes, PressTypes, EditorTypes, HearTypes,
       FollowTypes, PickTypes, LineTypes DEF Next
  <1>2. ASSUME TypeOK, UNCHANGED vars PROVE TypeOK'
    BY <1>2, TypesStay DEF TypeOK, vars
  <1> QED
    BY <1>1, <1>2

\* Every variable of the pane, its editor and its tasks keeps its type.
THEOREM TypesCorrect == Spec => []TypeOK
  BY InitTypes, TypesStep, PTL DEF Spec

-----------------------------------------------------------------------------
(* Reads and the times of writing *)

\* No time of writing is in the future, and a write has a time of its own.
TimesArePast == \A f \in Files : disk[f].mtime <= clock

\* What a read remembers of the time of writing was it once.
ReadIsOfThePast(r) ==
    /\ (r # None /\ r.pc = "read") => r.seen.mtime <= disk[r.path].mtime
    /\ (r # None /\ r.pc = "apply") => r.fresh.mtime <= disk[r.fresh.path].mtime

ReadIsWhole(r) ==
    (r # None /\ r.pc = "apply" /\ ~r.fresh.note /\ r.fresh.mtime = disk[r.fresh.path].mtime)
        => r.fresh.text = disk[r.fresh.path].text

ReadsKnow ==
    /\ TypeOK
    /\ TimesArePast
    /\ ReadIsOfThePast(opening) /\ ReadIsOfThePast(following)
    /\ ReadIsWhole(opening) /\ ReadIsWhole(following)

\* A file that is written gets a later time; the others keep what they hold.
Later ==
    \A f \in Files : \/ disk'[f] = disk[f]
                     \/ disk'[f].mtime > disk[f].mtime

LEMMA WriteIsLater ==
    ASSUME TypeOK, TimesArePast, NEW f \in Files, NEW text \in Text, Write(f, text)
    PROVE  Later /\ TimesArePast'
  <1>1. \A g \in Files : disk[g].mtime \in Nat
    BY LoadType DEF TypeOK, Stored, Time
  <1>2. clock \in Nat
    BY LoadType DEF TypeOK, Time
  <1> QED
    BY <1>1, <1>2 DEF TypeOK, TimesArePast, Write, Later

LEMMA StepIsLater == ASSUME ReadsKnow, Next PROVE Later /\ TimesArePast'
  <1>1. CASE disk' = disk /\ clock' = clock
    BY <1>1 DEF ReadsKnow, TimesArePast, Later
  <1>2. ASSUME NEW f \in load.files, AgentWrite(f) PROVE Later /\ TimesArePast'
    BY <1>2, LoadType, MintType, WriteIsLater DEF ReadsKnow, AgentWrite
  <1>3. CASE HearWrite
    BY <1>3, WriteIsLater DEF ReadsKnow, TypeOK, HearWrite, Hearing
  <1>4. CASE EditLineWrite
    <2>1. lining \in Lining
      BY <1>4 DEF ReadsKnow, TypeOK, EditLineWrite
    <2>2. lining.open.path \in Files /\ lining.text \in Text
      BY <1>4, <2>1 DEF EditLineWrite, Lining, OpenFile
    <2> QED
      BY <1>4, <2>2, WriteIsLater DEF ReadsKnow, EditLineWrite
  <1>5. \/ disk' = disk /\ clock' = clock
        \/ \E f \in load.files : AgentWrite(f)
        \/ HearWrite \/ EditLineWrite
    BY DEF Next, OpenFileStart, OpenFileRead, OpenFileApply, Leave, Return, closeFile,
       PressEditOrDone, ask, cancel, PressDiscardNow, toggleEdit, RenderEditor, UnmountEditor, Typed, save, Hear,
       HearDropped, HearChanges, HearSave, HearCheck, HearStat, HearUpdate, HearFail, Follow,
       FollowStart, FollowRead, FollowApply, RoundHangs, pickLine, cancelLine, EditLineStart,
       EditLine, EditLineCheck, EditLineReread, EditLineReopen, EditLineUpdate, EditLineFail,
       written
  <1> QED
    BY <1>1, <1>2, <1>3, <1>4, <1>5

\* A read begins with a time, goes on with a text, ends, waits, or hangs.
ReadStep(r, s) ==
    \/ s \in {None, Hung}
    \/ s = r
    \/ \E f \in Files : s \in ReadStat(f) /\ disk' = disk
    \/ r # None /\ r.pc = "read" /\ s \in ReadText(r) /\ disk' = disk

LEMMA NextReads == ASSUME TypeOK, Next PROVE ReadStep(opening, opening') /\ ReadStep(following, following')
  <1>1. CASE (\E f \in load.files : OpenFileStart(f)) \/ OpenFileRead \/ OpenFileApply
    BY <1>1, LoadType DEF OpenFileStart, OpenFileRead, OpenFileApply, ReadStep, written
  <1>2. CASE Follow \/ RoundHangs
    <2>1. file # None => file.path \in Files
      BY DEF TypeOK, OpenFile
    <2> QED
      BY <1>2, <2>1 DEF Follow, FollowStart, Followable, FollowRead, FollowApply, RoundHangs,
                        ReadStep, written
  <1>3. \/ opening' = opening /\ following' = following
        \/ (\E f \in load.files : OpenFileStart(f)) \/ OpenFileRead \/ OpenFileApply
        \/ Follow \/ RoundHangs
    BY DEF Next, AgentWrite, Leave, Return, closeFile, PressEditOrDone, ask,
       cancel, PressDiscardNow, toggleEdit, RenderEditor, UnmountEditor, Typed, save, Hear,
       HearDropped, HearChanges, HearSave, HearCheck, HearWrite, HearStat, HearUpdate, HearFail,
       pickLine, cancelLine, EditLineStart, EditLine, EditLineCheck, EditLineReread,
       EditLineReopen, EditLineWrite, EditLineUpdate, EditLineFail, tasks
  <1> QED
    BY <1>1, <1>2, <1>3 DEF ReadStep

LEMMA ReadStepKnows ==
    ASSUME TypeOK, NEW r \in Reading \cup {None, Hung}, NEW s \in Reading \cup {None, Hung},
           ReadIsOfThePast(r), ReadIsWhole(r), Later, ReadStep(r, s), disk' \in [Files -> Stored]
    PROVE  /\ (s # None /\ s.pc = "read") => s.seen.mtime <= disk'[s.path].mtime
           /\ (s # None /\ s.pc = "apply") => s.fresh.mtime <= disk'[s.fresh.path].mtime
           /\ (s # None /\ s.pc = "apply" /\ ~s.fresh.note
                 /\ s.fresh.mtime = disk'[s.fresh.path].mtime)
                 => s.fresh.text = disk'[s.fresh.path].text
  <1> SUFFICES ASSUME s # None, s # Hung
               PROVE  /\ s.pc = "read" => s.seen.mtime <= disk'[s.path].mtime
                      /\ s.pc = "apply" => s.fresh.mtime <= disk'[s.fresh.path].mtime
                      /\ (s.pc = "apply" /\ ~s.fresh.note
                            /\ s.fresh.mtime = disk'[s.fresh.path].mtime)
                            => s.fresh.text = disk'[s.fresh.path].text
    BY NotHung
  <1>1. \A f \in Files : disk[f].mtime \in Nat /\ disk'[f].mtime \in Nat
    BY LoadType DEF TypeOK, Stored, Time
  <1>2. s \in Reading
    OBVIOUS
  <1>3. CASE s = r
    <2>1. CASE s.pc = "read"
      <3>1. s.path \in Files /\ s.seen.mtime \in Nat
        BY <1>2, <2>1, LoadType DEF Reading, Stored, Time
      <3> QED
        BY <1>1, <1>3, <2>1, <3>1 DEF ReadIsOfThePast, Later
    <2>2. CASE s.pc = "apply"
      <3>1. s.fresh \in OpenFile
        BY <1>2, <2>2 DEF Reading
      <3>2. s.fresh.path \in Files /\ s.fresh.mtime \in Time
        BY <3>1 DEF OpenFile
      <3>3. s.fresh.mtime \in Nat
        BY <3>2, LoadType DEF Time
      <3> QED
        BY <1>1, <1>3, <2>2, <3>2, <3>3 DEF ReadIsOfThePast, ReadIsWhole, Later
    <2> QED
      BY <2>1, <2>2
  <1>4. CASE \E f \in Files : s \in ReadStat(f) /\ disk' = disk
    BY <1>1, <1>4 DEF ReadStat, NotShown, opened
  <1>5. CASE r # None /\ r.pc = "read" /\ s \in ReadText(r) /\ disk' = disk
    <2>1. r \in Reading /\ r.path \in Files
      BY <1>5, NotHung DEF Reading
    <2> QED
      BY <1>1, <1>5, <2>1 DEF ReadText, NotShown, Shown, opened, ReadIsOfThePast
  <1> QED
    BY <1>3, <1>4, <1>5 DEF ReadStep

LEMMA ReadsStep == ReadsKnow /\ [Next]_vars => ReadsKnow'
  <1>1. ASSUME ReadsKnow, Next PROVE ReadsKnow'
    <2>1. TypeOK /\ TypeOK' /\ load' = load
      BY <1>1, TypesStep DEF ReadsKnow, Next
    <2>2. Later /\ TimesArePast'
      BY <1>1, StepIsLater
    <2>3. ReadStep(opening, opening') /\ ReadStep(following, following')
      BY <1>1, <2>1, NextReads
    <2>4. disk' \in [Files -> Stored]
      BY <2>1, TypesStay DEF TypeOK
    <2>5. /\ opening \in Reading \cup {None, Hung} /\ opening' \in Reading \cup {None, Hung}
          /\ following \in Reading \cup {None, Hung} /\ following' \in Reading \cup {None, Hung}
      BY <2>1, TypesStay DEF TypeOK, Hung
    <2>6. /\ ReadIsOfThePast(opening) /\ ReadIsWhole(opening)
          /\ ReadIsOfThePast(following) /\ ReadIsWhole(following)
      BY <1>1 DEF ReadsKnow
    <2>7. ReadIsOfThePast(opening)' /\ ReadIsWhole(opening)'
      BY <2>1, <2>2, <2>3, <2>4, <2>5, <2>6, ReadStepKnows DEF ReadIsOfThePast, ReadIsWhole
    <2>8. ReadIsOfThePast(following)' /\ ReadIsWhole(following)'
      BY <2>1, <2>2, <2>3, <2>4, <2>5, <2>6, ReadStepKnows DEF ReadIsOfThePast, ReadIsWhole
    <2> QED
      BY <2>1, <2>2, <2>7, <2>8 DEF ReadsKnow
  <1>2. ASSUME ReadsKnow, UNCHANGED vars PROVE ReadsKnow'
    <2>1. TypeOK'
      BY <1>2, TypesStep DEF ReadsKnow
    <2> QED
      BY <1>2, <2>1 DEF ReadsKnow, TimesArePast, ReadIsOfThePast, ReadIsWhole, vars
  <1> QED
    BY <1>1, <1>2

LEMMA ReadsInit == Init => ReadsKnow
  <1> SUFFICES ASSUME Init PROVE ReadsKnow
    OBVIOUS
  <1>1. ASSUME NEW f \in Files PROVE disk[f].mtime <= clock
    <2>1. disk[f].mtime = 1 /\ clock = 1
      BY DEF Init
    <2> QED
      BY <2>1
  <1> QED
    BY <1>1, InitTypes DEF Init, ReadsKnow, TimesArePast, ReadIsOfThePast, ReadIsWhole

\* readFile's order, the time of writing before the text, is what lets the
\* next poll tell a read that a write cut in two.
THEOREM ReadsAreNotTorn == Spec => []ReadNotTorn
  <1>1. ReadsKnow => ReadNotTorn
    BY DEF ReadsKnow, ReadIsWhole, ReadNotTorn
  <1>2. Spec => []ReadsKnow
    BY ReadsInit, ReadsStep, PTL DEF Spec
  <1> QED
    BY <1>1, <1>2, PTL

-----------------------------------------------------------------------------
(* What was typed *)

\* A drawing, a key and the end of the editor are all that touches its state.
LEMMA BuffersKeepWork ==
    ASSUME TypeOK, Next, editor # None, editor.isDirty, editor' # None
    PROVE  editor'.text = editor.text \/ minted' = minted + 1
  <1>1. CASE RenderEditor
    <2>1. editor \in Buffer
      BY DEF TypeOK
    <2>2. CASE IsFresh
      BY <1>1, <2>2 DEF RenderEditor, IsFresh
    <2>3. CASE ~IsFresh
      BY <1>1, <2>1, <2>3 DEF RenderEditor, Buffer
    <2> QED
      BY <2>2, <2>3
  <1>2. CASE UnmountEditor
    BY <1>2 DEF UnmountEditor
  <1>3. CASE Typed
    BY <1>3 DEF Typed
  <1>4. editor' = editor \/ RenderEditor \/ UnmountEditor \/ Typed
    BY DEF Next, AgentWrite, OpenFileStart, OpenFileRead, OpenFileApply, Leave, Return, closeFile,
       PressEditOrDone, ask, cancel, PressDiscardNow, toggleEdit, save, Hear, HearDropped,
       HearChanges, HearSave, HearCheck, HearWrite, HearStat, HearUpdate, HearFail, Follow,
       FollowStart, FollowRead, FollowApply, RoundHangs, pickLine, cancelLine, EditLineStart,
       EditLine, EditLineCheck, EditLineReread, EditLineReopen, EditLineWrite, EditLineUpdate,
       EditLineFail, surface
  <1> QED
    BY <1>1, <1>2, <1>3, <1>4

\* editor.tsx keeps a dirty buffer whatever the pane's copy of the file becomes.
THEOREM TypedTextStays == Spec => WorkKept
  <1>1. TypeOK /\ [Next]_vars =>
          [(editor # None /\ editor.isDirty /\ editor' # None)
             => \/ editor'.text = editor.text
                \/ minted' = minted + 1]_editor
    BY BuffersKeepWork DEF vars
  <1> QED
    BY <1>1, TypesCorrect, PTL DEF Spec, WorkKept
=============================================================================
