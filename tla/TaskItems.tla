----------------------------- MODULE TaskItems -----------------------------
(***************************************************************************)
(* What hangs on a task: subtasks, comments and attachments with their     *)
(* files (src/src/modules/task/task.service.ts, src/src/modules/upload).   *)
(* The module Tasks has the status of a task; here it only closes it for   *)
(* changes of its subtasks.  Left out: titles and texts, types and sizes.  *)
(***************************************************************************)
EXTENDS Directory, Sequences, SequencesExt, FiniteSetsExt

CONSTANTS
    Task, SubTask, Comment, Attachment,  \* ids, never used twice
    FileName,
    FileOf  \* the file an attachment is made for (an id is used once, so that
            \* which file it will stand for may as well be settled beforehand)

VARIABLES
    task,        \* the Task rows: who assigned it, and whether it is completed
    subtask,     \* the SubTask rows
    comment,     \* the TaskComment rows
    attachment,  \* the TaskAttachment rows
    stored,      \* the files at the storage service
    abandoned    \* history: the attachments whose removal broke off after their file

itemVars == <<task, subtask, comment, attachment, stored, abandoned>>

\* A file is stored under its task and the name that the client gave it.
File == [task: Task, name: FileName]

SubTaskRow == [task: Task, order: Nat, done: BOOLEAN]
CommentRow == [task: Task, by: User, parent: Comment \cup {Nil}]
AttachmentRow == [task: Task, by: User]

TaskExists(t) == task[t] \notin NoRow
Rows(table) == {i \in DOMAIN table : table[i] \notin NoRow}
Of(table, t) == {i \in Rows(table) : table[i].task = t}

\* load.orders are the lists of ids clients send.
ASSUME ItemAssumption ==
    /\ IsFiniteSet(SubTask) /\ Nil \notin Comment
    /\ NoRow \cap AttachmentRow = {} /\ FileOf \in [Attachment -> File]
    /\ \A l \in Load :
         /\ l.task \in [Task -> [by: User, done: BOOLEAN] \cup NoRow]
         /\ l.subtask \in [SubTask -> SubTaskRow \cup NoRow]
         /\ \A s \in SubTask : l.subtask[s] \notin NoRow => l.task[l.subtask[s].task] \notin NoRow
         /\ l.orders \subseteq Seq(SubTask)

ItemInit ==
    /\ task = load.task
    /\ subtask = load.subtask
    /\ comment = [c \in Comment |-> Nil]
    /\ attachment = [a \in Attachment |-> Nil]
    /\ stored = {}
    /\ abandoned = {}

ItemInFlight ==
    [op: {"addSubTask"}, task: Task]
    \cup [op: {"ordered"}, task: Task, order: Nat]
    \cup [op: {"editSubTask", "dropSubTask"}, subtask: SubTask]
    \cup [op: {"reorder"}, ids: Seq(SubTask)]
    \cup [op: {"comment"}, task: Task, by: User, parent: Comment \cup {Nil}]
    \cup [op: {"dropComment"}, comment: Comment]
    \cup [op: {"attach", "uploaded"}, file: File, by: User]
    \cup [op: {"detach", "deleted"}, attachment: Attachment]
    \cup [op: {"drop", "emptied"}, task: Task, files: SUBSET Attachment]

\* One's own, or that of somebody of a lower rank.
MayRemove(u, owner) == IsMember(u) /\ (owner = u \/ Outranks(u, owner))

OnlyItems == UNCHANGED <<directoryVars, task>>
KeepItems == UNCHANGED <<subtask, comment, attachment, stored, abandoned>>

----------------------------------------------------------------------------
(* Subtasks.                                                               *)

AddSubTaskRead(r, t) ==
    /\ TaskExists(t) /\ ~task[t].done
    /\ Begin(r, "addSubTask", [op |-> "addSubTask", task |-> t])
    /\ OnlyItems /\ KeepItems

AddSubTaskOrder(r) ==
    LET q == request[r] IN
    /\ q.op = "addSubTask"
    /\ Await(r, [op |-> "ordered", task |-> q.task,
                 order |-> Max({subtask[s].order : s \in Of(subtask, q.task)} \cup {0}) + 1])
    /\ OnlyItems /\ KeepItems

AddSubTaskCreate(r, s) ==
    LET q == request[r] IN
    /\ q.op = "ordered" /\ TaskExists(q.task) /\ subtask[s] = Nil
    /\ subtask' = [subtask EXCEPT ![s] = [task |-> q.task, order |-> q.order, done |-> FALSE]]
    /\ End(r)
    /\ OnlyItems /\ UNCHANGED <<comment, attachment, stored, abandoned>>

EditSubTaskRead(r, s) ==
    /\ s \in Rows(subtask) /\ ~task[subtask[s].task].done
    /\ Begin(r, "editSubTask", [op |-> "editSubTask", subtask |-> s])
    /\ OnlyItems /\ KeepItems

EditSubTaskCommit(r) ==
    LET q == request[r] IN
    /\ q.op = "editSubTask" /\ q.subtask \in Rows(subtask)
    /\ subtask' = [subtask EXCEPT ![q.subtask].done = ~@]
    /\ End(r)
    /\ OnlyItems /\ UNCHANGED <<comment, attachment, stored, abandoned>>

\* The task of the path is looked up; the ids of the body are not compared with it.
ReorderRead(r, ids) ==
    /\ \E t \in Task : TaskExists(t)
    /\ Begin(r, "reorder", [op |-> "reorder", ids |-> ids])
    /\ OnlyItems /\ KeepItems

\* One transaction of updates in turn: an id named twice has its last place.
ReorderCommit(r) ==
    LET q == request[r]
        LastPlace(s) == Max({k \in DOMAIN q.ids : q.ids[k] = s}) - 1
    IN
    /\ q.op = "reorder" /\ ToSet(q.ids) \subseteq Rows(subtask)
    /\ subtask' = [s \in SubTask |-> IF s \in ToSet(q.ids)
                                     THEN [subtask[s] EXCEPT !.order = LastPlace(s)] ELSE subtask[s]]
    /\ End(r)
    /\ OnlyItems /\ UNCHANGED <<comment, attachment, stored, abandoned>>

DropSubTaskRead(r, s, u) ==
    /\ s \in Rows(subtask) /\ ~task[subtask[s].task].done
    /\ MayRemove(u, task[subtask[s].task].by)
    /\ Begin(r, "dropSubTask", [op |-> "dropSubTask", subtask |-> s])
    /\ OnlyItems /\ KeepItems

DropSubTaskCommit(r) ==
    LET q == request[r] IN
    /\ q.op = "dropSubTask" /\ q.subtask \in Rows(subtask)
    /\ subtask' = [subtask EXCEPT ![q.subtask] = Gone]
    /\ End(r)
    /\ OnlyItems /\ UNCHANGED <<comment, attachment, stored, abandoned>>

----------------------------------------------------------------------------
(* Comments.                                                               *)

CommentRead(r, t, u, p) ==
    /\ TaskExists(t) /\ IsMember(u)
    /\ p # Nil => p \in Of(comment, t)
    /\ Begin(r, "comment", [op |-> "comment", task |-> t, by |-> u, parent |-> p])
    /\ OnlyItems /\ KeepItems

\* The foreign keys refuse a task or a parent that is gone.
CommentCreate(r, c) ==
    LET q == request[r] IN
    /\ q.op = "comment" /\ TaskExists(q.task) /\ comment[c] = Nil
    /\ q.parent # Nil => q.parent \in Rows(comment)
    /\ comment' = [comment EXCEPT ![c] = [task |-> q.task, by |-> q.by, parent |-> q.parent]]
    /\ End(r)
    /\ OnlyItems /\ UNCHANGED <<subtask, attachment, stored, abandoned>>

DropCommentRead(r, c, u) ==
    /\ c \in Rows(comment) /\ MayRemove(u, comment[c].by)
    /\ Begin(r, "dropComment", [op |-> "dropComment", comment |-> c])
    /\ OnlyItems /\ KeepItems

\* Fault: the replies to a comment stay.
Thread_OneRow(c) == {c}

\* ON DELETE CASCADE: a comment goes with its replies, and theirs.  These are
\* the rows in every set that has c, and the replies to what it has.
Thread(c) ==
    {x \in Rows(comment) :
        \A S \in SUBSET Comment :
            c \in S /\ (\A y \in Rows(comment) : comment[y].parent \in S => y \in S) => x \in S}

DropCommentCommit(r) ==
    LET q == request[r] IN
    /\ q.op = "dropComment" /\ q.comment \in Rows(comment)
    /\ comment' = [c \in Comment |-> IF c \in Thread(q.comment) THEN Gone ELSE comment[c]]
    /\ End(r)
    /\ OnlyItems /\ UNCHANGED <<subtask, attachment, stored, abandoned>>

----------------------------------------------------------------------------
(* Attachments.                                                            *)

AttachRead(r, f, u) ==
    /\ TaskExists(f.task) /\ IsMember(u)
    /\ Begin(r, "attach", [op |-> "attach", file |-> f, by |-> u])
    /\ OnlyItems /\ KeepItems

\* Fault: the row is written without waiting for the upload, which may fail.
Upload_NotAwaited(r) ==
    LET q == request[r] IN
    /\ q.op = "attach"
    /\ Await(r, [q EXCEPT !.op = "uploaded"])
    /\ OnlyItems /\ KeepItems

\* A file of that name is overwritten.
Upload(r) ==
    LET q == request[r] IN
    /\ q.op = "attach"
    /\ stored' = stored \cup {q.file}
    /\ Await(r, [q EXCEPT !.op = "uploaded"])
    /\ OnlyItems /\ UNCHANGED <<subtask, comment, attachment, abandoned>>

AttachCreate(r, a) ==
    LET q == request[r] IN
    /\ q.op = "uploaded" /\ TaskExists(q.file.task)
    /\ attachment[a] = Nil /\ FileOf[a] = q.file
    /\ attachment' = [attachment EXCEPT ![a] = [task |-> q.file.task, by |-> q.by]]
    /\ End(r)
    /\ OnlyItems /\ UNCHANGED <<subtask, comment, stored, abandoned>>

DetachRead(r, a, u) ==
    /\ a \in Rows(attachment) /\ MayRemove(u, attachment[a].by)
    /\ Begin(r, "detach", [op |-> "detach", attachment |-> a])
    /\ OnlyItems /\ KeepItems

\* The file goes before the row; one that is not found by its url stays.
DetachFile(r) ==
    LET q == request[r] IN
    /\ q.op = "detach"
    /\ stored' \in {stored, stored \ {FileOf[q.attachment]}}
    /\ Await(r, [q EXCEPT !.op = "deleted"])
    /\ OnlyItems /\ UNCHANGED <<subtask, comment, attachment, abandoned>>

DetachCommit(r) ==
    LET q == request[r] IN
    /\ q.op = "deleted" /\ q.attachment \in Rows(attachment)
    /\ attachment' = [attachment EXCEPT ![q.attachment] = Gone]
    /\ End(r)
    /\ OnlyItems /\ UNCHANGED <<subtask, comment, stored, abandoned>>

\* remove, with the files it has read.  (The module Tasks has its other checks.)
DropRead(r, t, u) ==
    /\ TaskExists(t) /\ MayRemove(u, task[t].by)
    /\ Begin(r, "drop", [op |-> "drop", task |-> t, files |-> Of(attachment, t)])
    /\ OnlyItems /\ KeepItems

\* allSettled: a file that cannot be deleted, or is not found, stays.
DropFiles(r) ==
    LET q == request[r] IN
    /\ q.op = "drop"
    /\ \E lost \in SUBSET q.files : stored' = stored \ {FileOf[a] : a \in lost}
    /\ Await(r, [q EXCEPT !.op = "emptied"])
    /\ OnlyItems /\ UNCHANGED <<subtask, comment, attachment, abandoned>>

Cascade(table, t) == [i \in DOMAIN table |-> IF i \in Of(table, t) THEN Gone ELSE table[i]]

DropCommit(r) ==
    LET q == request[r] IN
    /\ q.op = "emptied" /\ TaskExists(q.task)
    /\ task' = [task EXCEPT ![q.task] = Gone]
    /\ subtask' = Cascade(subtask, q.task)
    /\ comment' = Cascade(comment, q.task)
    /\ attachment' = Cascade(attachment, q.task)
    /\ End(r)
    /\ UNCHANGED <<directoryVars, stored, abandoned>>

----------------------------------------------------------------------------

ItemStep(r) ==
    \/ \E t \in Task, u \in User :
         \/ AddSubTaskRead(r, t)
         \/ \E p \in Comment \cup {Nil} : CommentRead(r, t, u, p)
         \/ \E n \in FileName : AttachRead(r, [task |-> t, name |-> n], u)
         \/ DropRead(r, t, u)
    \/ AddSubTaskOrder(r)
    \/ \E s \in SubTask :
         \/ AddSubTaskCreate(r, s) \/ EditSubTaskRead(r, s)
         \/ \E u \in User : DropSubTaskRead(r, s, u)
    \/ EditSubTaskCommit(r) \/ DropSubTaskCommit(r)
    \/ \E ids \in load.orders : ReorderRead(r, ids)
    \/ ReorderCommit(r)
    \/ \E c \in Comment :
         \/ CommentCreate(r, c)
         \/ \E u \in User : DropCommentRead(r, c, u)
    \/ DropCommentCommit(r)
    \/ Upload(r)
    \/ \E a \in Attachment : AttachCreate(r, a) \/ \E u \in User : DetachRead(r, a, u)
    \/ DetachFile(r) \/ DetachCommit(r)
    \/ DropFiles(r) \/ DropCommit(r)

\* Every row is one of a task that exists, and a reply one to a comment of its task.
ItemTypeOK ==
    /\ task \in [Task -> [by: User, done: BOOLEAN] \cup NoRow]
    /\ subtask \in [SubTask -> SubTaskRow \cup NoRow]
    /\ comment \in [Comment -> CommentRow \cup NoRow]
    /\ attachment \in [Attachment -> AttachmentRow \cup NoRow]
    /\ stored \subseteq File
    /\ abandoned \subseteq Attachment
    /\ \A s \in Rows(subtask) : TaskExists(subtask[s].task)
    /\ \A a \in Rows(attachment) : TaskExists(attachment[a].task) /\ FileOf[a].task = attachment[a].task
    /\ \A c \in Rows(comment) :
         /\ TaskExists(comment[c].task)
         /\ comment[c].parent # Nil => comment[c].parent \in Of(comment, comment[c].task)

\* The attachments that a request is about to remove, and whose files it has deleted.
RemovedBy(q) ==
    CASE q.op = "deleted" -> {q.attachment}
      [] q.op = "emptied" -> q.files
      [] OTHER -> {}

Removing(a) == \E r \in Request : a \in RemovedBy(request[r])

\* An attachment that is shown has its file, however uploads, removals and
\* failures overlap, until it is removed itself; unless another one that was
\* stored for the task under the same name is or was removed.
FilesStay ==
    \A a \in Rows(attachment) :
        \/ FileOf[a] \in stored
        \/ Removing(a) \/ a \in abandoned
        \/ \E b \in Attachment \ {a} :
             FileOf[b] = FileOf[a] /\ (Removing(b) \/ b \in abandoned \/ attachment[b] = Gone)
=============================================================================
