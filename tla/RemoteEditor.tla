---------------------------- MODULE RemoteEditor ----------------------------
(***************************************************************************)
(* The file tabs of the window (remoteFileTabs of WorkspaceShell.tsx), the  *)
(* editor of a file (RemoteFileEditor.tsx) and what the backend does to the *)
(* remote files (remote_files.rs).  What also changes which tab is shown is *)
(* in Workspace.                                                            *)
(*                                                                         *)
(* A text is a number: 0 is the empty text, and every change, by the user   *)
(* or by somebody else on the remote machine, makes a text that was never   *)
(* there before, unless the user takes a change back.  What the backend     *)
(* reports of a file besides its text, its time and size, is its version:   *)
(* two writes are told apart.                                               *)
(***************************************************************************)
EXTENDS Naturals, Sequences, FiniteSets, Lists

CONSTANTS
    Host,           \* the connections whose files are edited
    Path,           \* the paths of files on each of them
    MaxTexts,       \* bound on the texts of a behaviour
    MaxCalls,       \* bound on the reads and saves in flight
    Nobody          \* no file

File == Host \X Path            \* remoteFileTabId: a connection and a path
Call == 1..MaxCalls
Text == 0..MaxTexts

ASSUME EditorAssumption ==
    /\ MaxTexts \in Nat \ {0} /\ MaxCalls \in Nat
    /\ Nobody \notin File

VARIABLES
    remote,         \* the files of the remote machines
    files,          \* the open tabs, in their order
    page,           \* what a tab holds
    call,           \* the reads and saves in flight
    renaming,       \* the renaming in flight: the old file, the new one, and whether
                    \* the old one was shown when it was asked for
    deletion,       \* the deletion in flight and the tabs it was confirmed over
    pendingClose,   \* pendingRemoteFileCloseId
    pendingConflict,\* pendingRemoteFileConflictId
    texts,          \* bookkeeping: the texts made so far
    astray          \* bookkeeping: tabs that were renamed, or put back by a
                    \* deletion, while they were read or saved

fileVars == <<remote, files, page, call, renaming, deletion, pendingClose, pendingConflict,
              texts, astray>>

FileTabs == {files[i] : i \in DOMAIN files}

States == {"loading", "ready", "dirty", "saving", "saved", "conflict", "error"}
Busy == {"loading", "saving"}

(* version: of `metadata'; 0 is none.                                       *)
Page == [text : Text, saved : Text, version : Nat, dirty : BOOLEAN, state : States]
NewPage == [text |-> 0, saved |-> 0, version |-> 0, dirty |-> FALSE, state |-> "loading"]

NoCall == [kind |-> "none", file |-> Nobody, at |-> "none", text |-> 0, version |-> 0,
           overwrite |-> FALSE]
NoDeletion == [target |-> {}, files |-> <<>>, page |-> [f \in File |-> NewPage]]

FileTypeOK ==
    /\ remote \in [File -> [text : Text, version : Nat, exists : BOOLEAN]]
    /\ files \in Seq(File)
    /\ page \in [File -> Page]
    /\ call \in [Call -> [kind : {"none", "load", "save"}, file : File \cup {Nobody},
                          at : {"none", "sent", "stat", "checked", "written", "done",
                                "conflict", "failed"},
                          text : Text, version : Nat, overwrite : BOOLEAN]]
    /\ renaming \in (File \X File \X BOOLEAN) \cup {<<>>}
    /\ deletion.target \subseteq File /\ deletion.files \in Seq(File)
    /\ deletion.page \in [File -> Page]
    /\ pendingClose \in File \cup {Nobody} /\ pendingConflict \in File \cup {Nobody}
    /\ texts \in Text
    /\ astray \subseteq File

FileInit ==
    /\ remote = [f \in File |-> [text |-> 1, version |-> 1, exists |-> TRUE]]
    /\ files = <<>>
    /\ page = [f \in File |-> NewPage]
    /\ call = [k \in Call |-> NoCall]
    /\ renaming = <<>> /\ deletion = NoDeletion
    /\ pendingClose = Nobody /\ pendingConflict = Nobody
    /\ texts = 1 /\ astray = {}

-----------------------------------------------------------------------------
(* Dialogs are modal: under one of them no editor gets a key or a click.    *)
(* One that names a tab that is gone is not shown.                          *)
Dialog ==
    pendingClose \in FileTabs \/ pendingConflict \in FileTabs \/ deletion.target # {}

FreeCall(k) == call[k] = NoCall /\ \A j \in Call : j < k => call[j] # NoCall

loadRemoteFileTab(k, f) ==
    /\ FreeCall(k)
    /\ call' = [call EXCEPT ![k] = [NoCall EXCEPT !.kind = "load", !.file = f, !.at = "sent"]]

(* openRemoteFile, of a file that is not open. *)
OpenFile(f, k) ==
    /\ f \notin FileTabs
    /\ files' = Append(files, f)
    /\ page' = [page EXCEPT ![f] = NewPage]
    /\ loadRemoteFileTab(k, f)
    /\ UNCHANGED <<remote, renaming, deletion, pendingClose, pendingConflict, texts, astray>>

(* The tab is no longer read or saved: whatever held it up is over. *)
Settle(f) == astray' = astray \ {f}

-----------------------------------------------------------------------------
(* The user in an editor.  Editors take keys at any time, while their file  *)
(* is read or saved too.                                                    *)

(* handleRemoteFileChange; a change that restores the saved text is none.   *)
handleRemoteFileChange(f, text) ==
    LET dirty == text # page[f].saved IN
    page' = [page EXCEPT ![f] = [@ EXCEPT !.text = text, !.dirty = dirty,
                                          !.state = IF dirty THEN "dirty" ELSE "ready"]]

Type(f) ==
    /\ f \in FileTabs /\ ~Dialog
    /\ \/ /\ texts < MaxTexts
          /\ texts' = texts + 1
          /\ handleRemoteFileChange(f, texts + 1)
       \/ /\ page[f].text # page[f].saved
          /\ handleRemoteFileChange(f, page[f].saved)
          /\ UNCHANGED texts
    /\ Settle(f)
    /\ UNCHANGED <<remote, files, call, renaming, deletion, pendingClose, pendingConflict>>

(* saveRemoteFile: not before the file was read, nor while it is saved.     *)
saveRemoteFile(f, k, overwrite) ==
    /\ f \in FileTabs
    /\ page[f].version # 0
    /\ page[f].state # "saving"
    /\ FreeCall(k)
    /\ page' = [page EXCEPT ![f].state = "saving"]
    /\ call' = [call EXCEPT ![k] =
            [kind |-> "save", file |-> f, at |-> "sent", text |-> page[f].text,
             version |-> page[f].version, overwrite |-> overwrite]]

(* Control-S asks whatever the state of the tab; the button is narrower.    *)
Save(f, k) ==
    /\ ~Dialog
    /\ saveRemoteFile(f, k, FALSE)
    /\ Settle(f)
    /\ UNCHANGED <<remote, files, renaming, deletion, pendingClose, pendingConflict, texts>>

reloadRemoteFile(f, k) ==
    /\ f \in FileTabs
    /\ page' = [page EXCEPT ![f].state = "loading"]
    /\ loadRemoteFileTab(k, f)

Reload(f, k) ==
    /\ ~Dialog /\ page[f].state \notin Busy
    /\ reloadRemoteFile(f, k)
    /\ UNCHANGED <<remote, files, renaming, deletion, pendingClose, pendingConflict,
                   texts, astray>>

Discard(f) ==
    /\ f \in FileTabs /\ ~Dialog
    /\ page[f].dirty /\ page[f].state # "saving"
    /\ page' = [page EXCEPT ![f] = [@ EXCEPT !.text = page[f].saved, !.dirty = FALSE,
                                             !.state = "ready"]]
    /\ Settle(f)
    /\ UNCHANGED <<remote, files, call, renaming, deletion, pendingClose, pendingConflict,
                   texts>>

(* The dialog about a conflict: reload, overwrite or neither; to overwrite is *)
(* nothing while the tab is saved, or was opened anew and not read yet.       *)
SettleConflict(k) ==
    LET f == pendingConflict IN
    /\ f \in FileTabs
    /\ pendingClose \notin FileTabs /\ deletion.target = {}
    /\ pendingConflict' = Nobody
    /\ \/ reloadRemoteFile(f, k) /\ UNCHANGED astray
       \/ saveRemoteFile(f, k, TRUE) /\ Settle(f)
       \/ UNCHANGED <<page, call, astray>>
    /\ UNCHANGED <<remote, files, renaming, deletion, pendingClose, texts>>

-----------------------------------------------------------------------------
(* The backend.  It looks at a file before it reads or writes it, and again *)
(* after it wrote it: each is a command of its own on the remote machine.   *)

Step(k, at, text, version) ==
    call' = [call EXCEPT ![k] = [@ EXCEPT !.at = at, !.text = text, !.version = version]]

Written(f, text) ==
    [remote EXCEPT ![f] = [text |-> text, version |-> @.version + 1, exists |-> TRUE]]

Removed(gone) ==
    [f \in File |-> IF f \in gone THEN [remote[f] EXCEPT !.exists = FALSE] ELSE remote[f]]

read_file(k) ==
    LET f == call[k].file IN
    /\ call[k].kind = "load" /\ remote[f].exists
    /\ \/ call[k].at = "sent" /\ Step(k, "stat", 0, remote[f].version)
       \/ call[k].at = "stat" /\ Step(k, "done", remote[f].text, call[k].version)
    /\ UNCHANGED <<remote, files, page, renaming, deletion, pendingClose, pendingConflict,
                   texts, astray>>

write_file(k) ==
    LET f == call[k].file IN
    /\ call[k].kind = "save"
    /\ \/ /\ call[k].at = "sent" /\ remote[f].exists
          /\ Step(k, IF remote[f].version = call[k].version \/ call[k].overwrite
                     THEN "checked" ELSE "conflict", call[k].text, call[k].version)
          /\ UNCHANGED remote
       \/ /\ call[k].at = "checked"
          /\ remote' = Written(f, call[k].text)
          /\ Step(k, "written", call[k].text, call[k].version)
       \/ /\ call[k].at = "written" /\ remote[f].exists
          /\ Step(k, "done", call[k].text, remote[f].version)
          /\ UNCHANGED remote
    /\ UNCHANGED <<files, page, renaming, deletion, pendingClose, pendingConflict,
                   texts, astray>>

(* Any of these commands may fail, and does when the file is gone: only what *)
(* is written makes a new one.                                              *)
Gone(k) == call[k].at \in {"sent", "stat", "written"} /\ ~remote[call[k].file].exists

CallFails(k) ==
    /\ call[k].at \in {"sent", "stat", "checked", "written"}
    /\ Step(k, "failed", call[k].text, call[k].version)
    /\ UNCHANGED <<remote, files, page, renaming, deletion, pendingClose, pendingConflict,
                   texts, astray>>

(* Somebody else writes the file. *)
OthersWrite(f) ==
    /\ texts < MaxTexts /\ f \in FileTabs
    /\ texts' = texts + 1
    /\ remote' = Written(f, texts + 1)
    /\ UNCHANGED <<files, page, call, renaming, deletion, pendingClose, pendingConflict, astray>>

-----------------------------------------------------------------------------
(* The answers: updateRemoteFileTab changes the tab of the id the call was   *)
(* made for, if there is one.                                               *)

Answer(k) == call' = [call EXCEPT ![k] = NoCall]

Loaded(k) ==
    LET f == call[k].file IN
    /\ call[k].kind = "load" /\ call[k].at \in {"done", "failed"}
    /\ Answer(k)
    /\ page' = IF f \notin FileTabs THEN page ELSE
               [page EXCEPT ![f] =
                    IF call[k].at = "done"
                    THEN [text |-> call[k].text, saved |-> call[k].text,
                          version |-> call[k].version, dirty |-> FALSE, state |-> "ready"]
                    ELSE [@ EXCEPT !.text = 0, !.dirty = FALSE, !.state = "error"]]
    /\ Settle(f)
    /\ UNCHANGED <<remote, files, renaming, deletion, pendingClose, pendingConflict, texts>>

(* A wrong variant: a save that failed leaves the tab as it is. *)
SavedSilently(k) ==
    LET f == call[k].file IN
    /\ call[k].kind = "save" /\ call[k].at \in {"done", "conflict", "failed"}
    /\ Answer(k)
    /\ page' = IF f \notin FileTabs \/ call[k].at = "failed" THEN page ELSE
               [page EXCEPT ![f] =
                    IF call[k].at = "done"
                    THEN [@ EXCEPT !.saved = page[f].text, !.dirty = FALSE,
                                   !.version = call[k].version, !.state = "saved"]
                    ELSE [@ EXCEPT !.state = "conflict"]]
    /\ pendingConflict' = IF call[k].at = "conflict" THEN f ELSE pendingConflict
    /\ Settle(f)
    /\ UNCHANGED <<remote, files, renaming, deletion, pendingClose, texts>>

Saved(k) ==
    LET f == call[k].file IN
    /\ call[k].kind = "save" /\ call[k].at \in {"done", "conflict", "failed"}
    /\ Answer(k)
    /\ page' = IF f \notin FileTabs THEN page ELSE
               [page EXCEPT ![f] =
                    CASE call[k].at = "done" ->
                            [@ EXCEPT !.saved = page[f].text, !.dirty = FALSE,
                                      !.version = call[k].version, !.state = "saved"]
                      [] call[k].at = "conflict" -> [@ EXCEPT !.state = "conflict"]
                      [] OTHER -> [@ EXCEPT !.state = "error"]]
    /\ pendingConflict' = IF call[k].at = "conflict" THEN f ELSE pendingConflict
    /\ Settle(f)
    /\ UNCHANGED <<remote, files, renaming, deletion, pendingClose, texts>>

-----------------------------------------------------------------------------
(* Renaming.  The dialog can be left while the command runs.                *)

Rename(f, g, active) ==
    /\ ~Dialog /\ renaming = <<>>
    /\ f # g /\ f[1] = g[1] /\ f \in FileTabs /\ g \notin FileTabs
    /\ renaming' = <<f, g, active>>
    /\ UNCHANGED <<remote, files, page, call, deletion, pendingClose, pendingConflict,
                   texts, astray>>

(* mv, and renameRemoteFileTabs: the tab goes on under the id of the new    *)
(* path, and what is in flight for the old id finds it no more.             *)
Swap(h, f, g) == IF h = f THEN g ELSE h

RenameDone(f, g) ==
    /\ renaming # <<>> /\ <<renaming[1], renaming[2]>> = <<f, g>> /\ g \notin FileTabs /\ remote[f].exists
    /\ renaming' = <<>>
    /\ remote' = [Removed({f}) EXCEPT ![g] = remote[f]]
    /\ files' = [i \in DOMAIN files |-> Swap(files[i], f, g)]
    /\ IF f \in FileTabs
       THEN /\ page' = [page EXCEPT ![g] = page[f], ![f] = NewPage]
            /\ astray' = (astray \ {f}) \cup
                         (IF page[f].state \in Busy \/ f \in astray THEN {g} ELSE {})
       ELSE UNCHANGED <<page, astray>>
    /\ UNCHANGED <<call, deletion, pendingClose, pendingConflict, texts>>

RenameFails ==
    /\ renaming # <<>>
    /\ renaming' = <<>>
    /\ UNCHANGED <<remote, files, page, call, deletion, pendingClose, pendingConflict,
                   texts, astray>>

-----------------------------------------------------------------------------
(* Closing and deleting.                                                   *)

Kept(order, gone) == Only(order, File \ gone)

(* The tabs are dropped. *)
Drop(gone) ==
    /\ files' = Kept(files, gone)
    /\ page' = [f \in File |-> IF f \in gone THEN NewPage ELSE page[f]]
    /\ astray' = astray \ gone

(* confirmRemoteFileDelete, until its commands are done.  The dialog stays, *)
(* but answers of other calls arrive; the tabs it goes on with are those it *)
(* was confirmed over.                                                      *)
Delete(target) ==
    /\ ~Dialog
    /\ deletion' = [target |-> target, files |-> files, page |-> page]
    /\ UNCHANGED <<remote, files, page, call, renaming, pendingClose, pendingConflict,
                   texts, astray>>

(* A page that is put back shows a call in flight that is over or moved on. *)
StalePage(f, old) == old.state \in Busy /\ (f \notin FileTabs \/ page[f] # old)

(* The commands are done: the tabs of the deleted files are dropped from    *)
(* what was open at the confirmation, and that is what is open now.         *)
Deleted ==
    /\ deletion.target # {}
    /\ remote' = Removed(deletion.target)
    /\ files' = Kept(deletion.files, deletion.target)
    /\ page' = [f \in File |-> IF f \in deletion.target THEN NewPage ELSE deletion.page[f]]
    /\ astray' = {f \in File \ deletion.target :
                    /\ \E i \in DOMAIN deletion.files : deletion.files[i] = f
                    /\ \/ f \in astray
                       \/ StalePage(f, deletion.page[f])}
    /\ deletion' = NoDeletion
    /\ pendingClose' = IF pendingClose \in deletion.target THEN Nobody ELSE pendingClose
    /\ pendingConflict' = IF pendingConflict \in deletion.target THEN Nobody ELSE pendingConflict
    /\ UNCHANGED <<call, renaming, texts>>

(* A command of it fails: the dialog is there again, and is left. *)
DeleteFails ==
    /\ deletion.target # {}
    /\ deletion' = NoDeletion
    /\ \E done \in SUBSET deletion.target : remote' = Removed(done)
    /\ UNCHANGED <<files, page, call, renaming, pendingClose, pendingConflict,
                   texts, astray>>

-----------------------------------------------------------------------------
(* What happens without the user. *)

CallSteps(k) ==
    read_file(k) \/ write_file(k) \/ (Gone(k) /\ CallFails(k)) \/ Loaded(k) \/ Saved(k)

FileSteps == \E k \in Call : CallSteps(k)

FileFaults ==
    \/ \E k \in Call : CallFails(k)
    \/ \E f \in File : OthersWrite(f)
    \/ RenameFails \/ DeleteFails

=============================================================================
