-------------------------- MODULE Workspace_proofs --------------------------
(***************************************************************************)
(* The window keeps what it holds of terminals, sessions and file tabs in   *)
(* order: the inductive invariant of Workspace, and the properties that     *)
(* follow from it.                                                         *)
(***************************************************************************)
EXTENDS Workspace, TerminalTabs_proofs

(* A call in flight is of a file.                                           *)
Calls == \A k \in Call : call[k].kind # "none" => call[k].file \in File

(* Where there is a terminal of a connection, a connection is shown.        *)
SomeConn == sshTabs # <<>> => shown.conn # None

IInv == TypeOK /\ TermInv /\ Calls /\ SomeConn

-----------------------------------------------------------------------------
(* The file tabs.                                                          *)

CallState ==
    [kind : {"none", "load", "save"}, file : File \cup {Nobody},
     at : {"none", "sent", "stat", "checked", "written", "done", "conflict", "failed"},
     text : Text, version : Nat, overwrite : BOOLEAN]

LEMMA EditorFacts ==
    /\ 0 \in Text /\ 1 \in Text /\ Text \subseteq Nat
    /\ NewPage \in Page /\ Nobody \notin File
    /\ NoCall \in CallState /\ NoCall.kind = "none"
    /\ NoDeletion.target = {} /\ NoDeletion.files = <<>>
    /\ NoDeletion.page \in [File -> Page]
  <1>1. 0 \in Text /\ 1 \in Text /\ Text \subseteq Nat /\ Nobody \notin File
    BY EditorAssumption DEF Text
  <1>2. NewPage \in Page
    BY <1>1 DEF NewPage, Page, States
  <1>3. NoCall \in CallState /\ NoCall.kind = "none"
    BY <1>1 DEF NoCall, CallState
  <1>4. /\ NoDeletion.target = {} /\ NoDeletion.files = <<>>
        /\ NoDeletion.page = [f \in File |-> NewPage]
    BY DEF NoDeletion
  <1> QED BY <1>1, <1>2, <1>3, <1>4

LEMMA FilesBegin ==
    ASSUME FileInit
    PROVE  FileTypeOK /\ Calls
  <1>1. /\ remote \in [File -> [text : Text, version : Nat, exists : BOOLEAN]]
        /\ texts \in Text
    BY EditorFacts DEF FileInit
  <1>2. page \in [File -> Page] /\ call \in [Call -> CallState]
    BY EditorFacts DEF FileInit
  <1>3. deletion.target \subseteq File /\ deletion.files \in Seq(File)
        /\ deletion.page \in [File -> Page]
    BY EditorFacts DEF FileInit
  <1>4. Calls
    BY EditorFacts DEF FileInit, Calls
  <1>5. files \in Seq(File) /\ renaming = <<>> /\ pendingClose = Nobody
        /\ pendingConflict = Nobody /\ astray = {}
    BY DEF FileInit
  <1> QED BY <1>1, <1>2, <1>3, <1>4, <1>5 DEF FileTypeOK, CallState

LEMMA PageChange ==
    ASSUME FileTypeOK, NEW f \in File, NEW p \in Page, page' = [page EXCEPT ![f] = p]
    PROVE  page' \in [File -> Page]
  BY DEF FileTypeOK

LEMMA CallChange ==
    ASSUME FileTypeOK, Calls, NEW k \in Call, NEW c \in CallState,
           c.kind # "none" => c.file \in File, call' = [call EXCEPT ![k] = c]
    PROVE  call' \in [Call -> CallState] /\ Calls'
  <1>1. call \in [Call -> CallState]
    BY DEF FileTypeOK, CallState
  <1> QED BY <1>1 DEF Calls

LEMMA LoadStarts ==
    ASSUME FileTypeOK, Calls, NEW k \in Call, NEW f \in File, loadRemoteFileTab(k, f)
    PROVE  call' \in [Call -> CallState] /\ Calls'
  <1> DEFINE c == [NoCall EXCEPT !.kind = "load", !.file = f, !.at = "sent"]
  <1>1. c \in CallState /\ c.file = f
    BY EditorFacts DEF CallState, NoCall
  <1>2. call' = [call EXCEPT ![k] = c]
    BY DEF loadRemoteFileTab
  <1> HIDE DEF c
  <1> QED BY <1>1, <1>2, CallChange

LEMMA SaveStarts ==
    ASSUME FileTypeOK, Calls, NEW k \in Call, NEW f \in File, NEW over \in BOOLEAN,
           saveRemoteFile(f, k, over)
    PROVE  page' \in [File -> Page] /\ call' \in [Call -> CallState] /\ Calls'
  <1> DEFINE c == [kind |-> "save", file |-> f, at |-> "sent", text |-> page[f].text,
                   version |-> page[f].version, overwrite |-> over]
             p == [page[f] EXCEPT !.state = "saving"]
  <1>1. page[f] \in Page
    BY DEF FileTypeOK
  <1>2. c \in CallState /\ c.file = f /\ p \in Page
    BY <1>1 DEF CallState, Page, States
  <1>3. call' = [call EXCEPT ![k] = c] /\ page' = [page EXCEPT ![f] = p]
    BY DEF saveRemoteFile
  <1> HIDE DEF c, p
  <1> QED BY <1>2, <1>3, CallChange, PageChange

(* What nothing of the above touches.                                       *)
LEMMA FileType ==
    ASSUME FileTypeOK,
           remote' \in [File -> [text : Text, version : Nat, exists : BOOLEAN]],
           files' \in Seq(File), page' \in [File -> Page], call' \in [Call -> CallState],
           texts' \in Text, astray' \subseteq File,
           UNCHANGED <<renaming, deletion>>,
           pendingClose' \in File \cup {Nobody}, pendingConflict' \in File \cup {Nobody}
    PROVE  FileTypeOK'
  BY DEF FileTypeOK, CallState

LEMMA TabIsFile ==
    ASSUME FileTypeOK
    PROVE  /\ FileTabs \subseteq File
           /\ \A f : f \in FileTabs <=> In(f, files)
  BY DEF FileTypeOK, FileTabs, In

LEMMA FilesFrame ==
    ASSUME FileTypeOK, Calls, UNCHANGED fileVars
    PROVE  FileTypeOK' /\ Calls'
  BY DEF fileVars, FileTypeOK, Calls, Page

LEMMA OpenFileKeeps ==
    ASSUME FileTypeOK, Calls, NEW f \in File, NEW k \in Call, OpenFile(f, k)
    PROVE  FileTypeOK' /\ Calls'
  <1>1. call' \in [Call -> CallState] /\ Calls'
    BY LoadStarts DEF OpenFile
  <1>2. page' \in [File -> Page]
    BY EditorFacts, PageChange DEF OpenFile
  <1>3. files' \in Seq(File)
    BY DEF OpenFile, FileTypeOK
  <1> QED BY <1>1, <1>2, <1>3, FileType DEF OpenFile, FileTypeOK

LEMMA PageKeeps ==
    ASSUME FileTypeOK, Calls, NEW f \in File, NEW p \in Page, page' = [page EXCEPT ![f] = p],
           texts' \in Text, Settle(f),
           UNCHANGED <<remote, files, call, renaming, deletion, pendingClose, pendingConflict>>
    PROVE  FileTypeOK' /\ Calls'
  <1>1. page' \in [File -> Page]
    BY PageChange
  <1>2. astray' \subseteq File /\ call' \in [Call -> CallState]
    BY DEF Settle, FileTypeOK, CallState
  <1>3. Calls'
    BY DEF Calls
  <1> QED BY <1>1, <1>2, <1>3, FileType DEF FileTypeOK

LEMMA TypeKeeps ==
    ASSUME FileTypeOK, Calls, NEW f \in File, Type(f)
    PROVE  FileTypeOK' /\ Calls'
  <1>1. ASSUME NEW text \in Text, handleRemoteFileChange(f, text), texts' \in Text
        PROVE  FileTypeOK' /\ Calls'
    <2> DEFINE dirty == text # page[f].saved
               p == [page[f] EXCEPT !.text = text, !.dirty = dirty,
                                    !.state = IF dirty THEN "dirty" ELSE "ready"]
    <2>1. page[f] \in Page
      BY DEF FileTypeOK
    <2>2. p \in Page
      BY <2>1 DEF Page, States
    <2>3. page' = [page EXCEPT ![f] = p]
      BY <1>1 DEF handleRemoteFileChange
    <2> HIDE DEF p
    <2> QED BY <1>1, <2>2, <2>3, PageKeeps DEF Type
  <1>2. texts \in Text /\ page[f].saved \in Text
    BY DEF FileTypeOK, Page
  <1>3. CASE texts < MaxTexts /\ texts' = texts + 1 /\ handleRemoteFileChange(f, texts + 1)
    <2>1. texts + 1 \in Text
      BY <1>2, <1>3, EditorAssumption DEF Text
    <2> QED BY <1>1, <1>3, <2>1
  <1>4. CASE handleRemoteFileChange(f, page[f].saved) /\ UNCHANGED texts
    BY <1>1, <1>2, <1>4
  <1> QED BY <1>3, <1>4 DEF Type

LEMMA DiscardKeeps ==
    ASSUME FileTypeOK, Calls, NEW f \in File, Discard(f)
    PROVE  FileTypeOK' /\ Calls'
  <1> DEFINE p == [page[f] EXCEPT !.text = page[f].saved, !.dirty = FALSE, !.state = "ready"]
  <1>1. page[f] \in Page
    BY DEF FileTypeOK
  <1>2. p \in Page
    BY <1>1 DEF Page, States
  <1>3. page' = [page EXCEPT ![f] = p] /\ texts' \in Text
    BY DEF Discard, FileTypeOK
  <1> HIDE DEF p
  <1> QED BY <1>2, <1>3, PageKeeps DEF Discard

LEMMA SaveKeeps ==
    ASSUME FileTypeOK, Calls, NEW f \in File, NEW k \in Call, NEW over \in BOOLEAN,
           saveRemoteFile(f, k, over), Settle(f),
           UNCHANGED <<remote, files, renaming, deletion, pendingClose, texts>>,
           pendingConflict' \in {pendingConflict, Nobody}
    PROVE  FileTypeOK' /\ Calls'
  <1>1. page' \in [File -> Page] /\ call' \in [Call -> CallState] /\ Calls'
    BY SaveStarts
  <1>2. astray' \subseteq File
    BY DEF Settle, FileTypeOK
  <1> QED BY <1>1, <1>2, FileType DEF FileTypeOK

LEMMA ReloadKeeps ==
    ASSUME FileTypeOK, Calls, NEW f \in File, NEW k \in Call, reloadRemoteFile(f, k),
           UNCHANGED <<remote, files, renaming, deletion, pendingClose, texts, astray>>,
           pendingConflict' \in {pendingConflict, Nobody}
    PROVE  FileTypeOK' /\ Calls'
  <1> DEFINE p == [page[f] EXCEPT !.state = "loading"]
  <1>1. page[f] \in Page
    BY DEF FileTypeOK
  <1>2. p \in Page
    BY <1>1 DEF Page, States
  <1>3. page' = [page EXCEPT ![f] = p]
    BY DEF reloadRemoteFile
  <1> HIDE DEF p
  <1>4. page' \in [File -> Page]
    BY <1>2, <1>3, PageChange
  <1>5. call' \in [Call -> CallState] /\ Calls'
    BY LoadStarts DEF reloadRemoteFile
  <1> QED BY <1>4, <1>5, FileType DEF FileTypeOK

LEMMA SettleConflictKeeps ==
    ASSUME FileTypeOK, Calls, NEW k \in Call, SettleConflict(k)
    PROVE  FileTypeOK' /\ Calls'
  <1> DEFINE f == pendingConflict
  <1>1. /\ f \in File /\ pendingConflict' = Nobody
        /\ UNCHANGED <<remote, files, renaming, deletion, pendingClose, texts>>
    BY TabIsFile DEF SettleConflict
  <1>2. CASE reloadRemoteFile(f, k) /\ UNCHANGED astray
    BY <1>1, <1>2, ReloadKeeps
  <1>3. CASE saveRemoteFile(f, k, TRUE) /\ Settle(f)
    BY <1>1, <1>3, SaveKeeps
  <1>4. CASE UNCHANGED <<page, call, astray>>
    BY <1>1, <1>4 DEF FileTypeOK, Calls
  <1> QED BY <1>2, <1>3, <1>4 DEF SettleConflict

(* A call goes on, or is answered; a file may be written.                   *)
LEMMA CallKeeps ==
    ASSUME FileTypeOK, Calls, NEW k \in Call, NEW c \in CallState,
           c.kind # "none" => c.file \in File, call' = [call EXCEPT ![k] = c],
           remote' \in [File -> [text : Text, version : Nat, exists : BOOLEAN]],
           page' \in [File -> Page], astray' \subseteq File,
           pendingConflict' \in File \cup {Nobody},
           UNCHANGED <<files, renaming, deletion, pendingClose, texts>>
    PROVE  FileTypeOK' /\ Calls'
  <1>1. call' \in [Call -> CallState] /\ Calls'
    BY CallChange
  <1> QED BY <1>1, FileType DEF FileTypeOK

LEMMA StepKeeps ==
    ASSUME FileTypeOK, Calls, NEW k \in Call, call[k].kind # "none",
           NEW at \in {"stat", "checked", "written", "done", "conflict", "failed"},
           NEW text \in Text, NEW version \in Nat, Step(k, at, text, version),
           remote' \in [File -> [text : Text, version : Nat, exists : BOOLEAN]],
           UNCHANGED <<files, page, renaming, deletion, pendingClose, pendingConflict,
                       texts, astray>>
    PROVE  FileTypeOK' /\ Calls'
  <1> DEFINE c == [call[k] EXCEPT !.at = at, !.text = text, !.version = version]
  <1>1. call[k] \in CallState /\ call[k].file \in File
    BY DEF FileTypeOK, CallState, Calls
  <1>2. c \in CallState /\ c.file = call[k].file
    BY <1>1 DEF CallState
  <1>3. call' = [call EXCEPT ![k] = c]
    BY DEF Step
  <1> HIDE DEF c
  <1> QED BY <1>1, <1>2, <1>3, CallKeeps DEF FileTypeOK

LEMMA WrittenType ==
    ASSUME FileTypeOK, NEW f \in File, NEW text \in Text
    PROVE  Written(f, text) \in [File -> [text : Text, version : Nat, exists : BOOLEAN]]
  <1> DEFINE w == [text |-> text, version |-> remote[f].version + 1, exists |-> TRUE]
  <1>1. remote \in [File -> [text : Text, version : Nat, exists : BOOLEAN]]
    BY DEF FileTypeOK
  <1>2. w \in [text : Text, version : Nat, exists : BOOLEAN]
    BY <1>1
  <1>3. Written(f, text) = [remote EXCEPT ![f] = w]
    BY DEF Written
  <1> HIDE DEF w
  <1> QED BY <1>1, <1>2, <1>3

LEMMA RemovedType ==
    ASSUME FileTypeOK, NEW gone
    PROVE  Removed(gone) \in [File -> [text : Text, version : Nat, exists : BOOLEAN]]
  <1> DEFINE none(f) == [remote[f] EXCEPT !.exists = FALSE]
  <1>1. remote \in [File -> [text : Text, version : Nat, exists : BOOLEAN]]
    BY DEF FileTypeOK
  <1>2. \A f \in File : none(f) \in [text : Text, version : Nat, exists : BOOLEAN]
    BY <1>1
  <1>3. Removed(gone) = [f \in File |-> IF f \in gone THEN none(f) ELSE remote[f]]
    BY DEF Removed
  <1> HIDE DEF none
  <1> QED BY <1>1, <1>2, <1>3

LEMMA BackendKeeps ==
    ASSUME FileTypeOK, Calls, NEW k \in Call, read_file(k) \/ write_file(k) \/ CallFails(k)
    PROVE  FileTypeOK' /\ Calls'
  <1> DEFINE f == call[k].file
  <1>1. call[k] \in CallState
    BY DEF FileTypeOK, CallState
  <1>2. call[k].text \in Text /\ call[k].version \in Nat /\ 0 \in Text
    BY <1>1, EditorFacts DEF CallState
  <1>3. remote \in [File -> [text : Text, version : Nat, exists : BOOLEAN]]
    BY DEF FileTypeOK
  <1>4. CASE read_file(k)
    <2>1. call[k].kind # "none" /\ f \in File
      BY <1>4 DEF read_file, Calls
    <2>2. remote[f].text \in Text /\ remote[f].version \in Nat
      BY <1>3, <2>1
    <2>3. CASE Step(k, "stat", 0, remote[f].version)
      BY <1>2, <1>3, <1>4, <2>1, <2>2, <2>3, StepKeeps DEF read_file
    <2>4. CASE Step(k, "done", remote[f].text, call[k].version)
      BY <1>2, <1>3, <1>4, <2>1, <2>2, <2>4, StepKeeps DEF read_file
    <2> QED BY <1>4, <2>3, <2>4 DEF read_file
  <1>5. CASE write_file(k)
    <2>1. call[k].kind # "none" /\ f \in File
      BY <1>5 DEF write_file, Calls
    <2>2. remote[f].version \in Nat
      BY <1>3, <2>1
    <2>3. /\ remote' \in [File -> [text : Text, version : Nat, exists : BOOLEAN]]
          /\ UNCHANGED <<files, page, renaming, deletion, pendingClose, pendingConflict,
                         texts, astray>>
      BY <1>2, <1>3, <1>5, <2>1, WrittenType DEF write_file
    <2>4. CASE Step(k, IF remote[f].version = call[k].version \/ call[k].overwrite
                       THEN "checked" ELSE "conflict", call[k].text, call[k].version)
      BY <1>2, <2>1, <2>3, <2>4, StepKeeps
    <2>5. CASE Step(k, "written", call[k].text, call[k].version)
      BY <1>2, <2>1, <2>3, <2>5, StepKeeps
    <2>6. CASE Step(k, "done", call[k].text, remote[f].version)
      BY <1>2, <2>1, <2>2, <2>3, <2>6, StepKeeps
    <2> QED BY <1>5, <2>4, <2>5, <2>6 DEF write_file
  <1>6. CASE CallFails(k)
    <2> DEFINE c == [call[k] EXCEPT !.at = "failed", !.text = call[k].text,
                                    !.version = call[k].version]
    <2>1. c \in CallState /\ c.file = f /\ c.kind = call[k].kind
      BY <1>1 DEF CallState
    <2>2. call' = [call EXCEPT ![k] = c]
      BY <1>6 DEF CallFails, Step
    <2> HIDE DEF c
    <2>3. c.kind # "none" => c.file \in File
      BY <2>1 DEF Calls
    <2> QED BY <1>3, <1>6, <2>1, <2>2, <2>3, CallKeeps DEF CallFails, FileTypeOK
  <1> QED BY <1>4, <1>5, <1>6

LEMMA OthersWriteKeeps ==
    ASSUME FileTypeOK, Calls, NEW f \in File, OthersWrite(f)
    PROVE  FileTypeOK' /\ Calls'
  <1>1. texts + 1 \in Text
    BY EditorAssumption DEF OthersWrite, FileTypeOK, Text
  <1>2. remote' \in [File -> [text : Text, version : Nat, exists : BOOLEAN]]
    BY <1>1, WrittenType DEF OthersWrite
  <1> QED BY <1>1, <1>2 DEF OthersWrite, FileTypeOK, Calls

(* The tab of an answered call, if there is one, changes.                   *)
LEMMA AnswerFileKeeps ==
    ASSUME FileTypeOK, Calls, NEW k \in Call, call[k].kind # "none", Answer(k),
           NEW p, call[k].file \in FileTabs => p \in Page,
           page' = IF call[k].file \notin FileTabs THEN page
                   ELSE [page EXCEPT ![call[k].file] = p],
           Settle(call[k].file), pendingConflict' \in File \cup {Nobody},
           UNCHANGED <<remote, files, renaming, deletion, pendingClose, texts>>
    PROVE  FileTypeOK' /\ Calls'
  <1>1. call[k].file \in File /\ page \in [File -> Page]
    BY DEF Calls, FileTypeOK
  <1>2. page' \in [File -> Page]
    BY <1>1, PageChange
  <1>3. astray' \subseteq File
    BY DEF Settle, FileTypeOK
  <1>4. call' = [call EXCEPT ![k] = NoCall]
    BY DEF Answer
  <1> QED BY <1>2, <1>3, <1>4, EditorFacts, CallKeeps DEF FileTypeOK

LEMMA LoadedKeeps ==
    ASSUME FileTypeOK, Calls, NEW k \in Call, Loaded(k)
    PROVE  FileTypeOK' /\ Calls'
  <1> DEFINE f == call[k].file
             read == [text |-> call[k].text, saved |-> call[k].text,
                      version |-> call[k].version, dirty |-> FALSE, state |-> "ready"]
             lost == [page[f] EXCEPT !.text = 0, !.dirty = FALSE, !.state = "error"]
             p == IF call[k].at = "done" THEN read ELSE lost
  <1>1. call[k].kind # "none" /\ call[k] \in CallState /\ f \in File
    BY DEF Loaded, FileTypeOK, CallState, Calls
  <1>2. page[f] \in Page
    BY <1>1 DEF FileTypeOK
  <1>3. read \in Page
    BY <1>1 DEF CallState, Page, States
  <1>4. lost \in Page
    BY <1>2, EditorFacts DEF Page, States
  <1>5. page' = IF f \notin FileTabs THEN page ELSE [page EXCEPT ![f] = p]
    BY DEF Loaded
  <1>6. p \in Page
    BY <1>3, <1>4
  <1> HIDE DEF p
  <1> QED BY <1>1, <1>5, <1>6, AnswerFileKeeps DEF Loaded, FileTypeOK

LEMMA SavedKeeps ==
    ASSUME FileTypeOK, Calls, NEW k \in Call, Saved(k)
    PROVE  FileTypeOK' /\ Calls'
  <1> DEFINE f == call[k].file
             kept == [page[f] EXCEPT !.saved = page[f].text, !.dirty = FALSE,
                                     !.version = call[k].version, !.state = "saved"]
             differs == [page[f] EXCEPT !.state = "conflict"]
             lost == [page[f] EXCEPT !.state = "error"]
             p == CASE call[k].at = "done" -> kept
                    [] call[k].at = "conflict" -> differs
                    [] OTHER -> lost
  <1>1. call[k].kind # "none" /\ call[k] \in CallState /\ f \in File
    BY DEF Saved, FileTypeOK, CallState, Calls
  <1>2. page[f] \in Page /\ call[k].version \in Nat
    BY <1>1 DEF FileTypeOK, CallState
  <1>3. kept \in Page /\ differs \in Page /\ lost \in Page
    BY <1>2 DEF Page, States
  <1>4. page' = IF f \notin FileTabs THEN page ELSE [page EXCEPT ![f] = p]
    BY DEF Saved
  <1> HIDE DEF kept, differs, lost
  <1>5. p \in Page
    BY <1>3
  <1> HIDE DEF p
  <1>6. pendingConflict' \in File \cup {Nobody}
    BY <1>1 DEF Saved, FileTypeOK
  <1> QED BY <1>1, <1>4, <1>5, <1>6, AnswerFileKeeps DEF Saved

LEMMA RenamingKeeps ==
    ASSUME FileTypeOK, Calls, renaming' \in (File \X File \X BOOLEAN) \cup {<<>>},
           UNCHANGED <<remote, files, page, call, deletion, pendingClose, pendingConflict,
                       texts, astray>>
    PROVE  FileTypeOK' /\ Calls'
  BY DEF FileTypeOK, Calls

LEMMA RenameDoneKeeps ==
    ASSUME FileTypeOK, Calls, NEW f \in File, NEW g \in File, RenameDone(f, g)
    PROVE  FileTypeOK' /\ Calls'
  <1>1. remote' \in [File -> [text : Text, version : Nat, exists : BOOLEAN]]
    <2>1. /\ Removed({f}) \in [File -> [text : Text, version : Nat, exists : BOOLEAN]]
          /\ remote[f] \in [text : Text, version : Nat, exists : BOOLEAN]
      BY RemovedType DEF FileTypeOK
    <2>2. remote' = [Removed({f}) EXCEPT ![g] = remote[f]]
      BY DEF RenameDone
    <2> QED BY <2>1, <2>2
  <1>2. files' \in Seq(File)
    <2>1. files \in Seq(File) /\ Len(files) \in Nat /\ DOMAIN files = 1..Len(files)
      BY DEF FileTypeOK
    <2>2. files' = [i \in 1..Len(files) |-> Swap(files[i], f, g)]
      BY <2>1 DEF RenameDone
    <2>3. \A i \in 1..Len(files) : Swap(files[i], f, g) \in File
      BY <2>1 DEF Swap
    <2> QED BY <2>1, <2>2, <2>3
  <1>3. page' \in [File -> Page] /\ astray' \subseteq File
    <2>1. page \in [File -> Page] /\ astray \subseteq File
      BY DEF FileTypeOK
    <2>2. CASE f \in FileTabs
      <3>1. page' = [page EXCEPT ![g] = page[f], ![f] = NewPage]
        BY <2>2 DEF RenameDone
      <3>2. astray' \subseteq astray \cup {g}
        BY <2>2 DEF RenameDone
      <3>3. page[f] \in Page /\ NewPage \in Page
        BY <2>1, EditorFacts
      <3> QED BY <2>1, <3>1, <3>2, <3>3
    <2>3. CASE f \notin FileTabs
      BY <2>1, <2>3 DEF RenameDone
    <2> QED BY <2>2, <2>3
  <1>4. /\ renaming' = <<>> /\ UNCHANGED <<call, deletion, pendingClose, pendingConflict, texts>>
    BY DEF RenameDone
  <1> QED BY <1>1, <1>2, <1>3, <1>4 DEF FileTypeOK, Calls

-----------------------------------------------------------------------------
(* Tabs that are dropped.                                                  *)

LEMMA KeptTabs ==
    ASSUME NEW order \in Seq(File), NEW gone
    PROVE  /\ Kept(order, gone) \in Seq(File)
           /\ \A f \in File : In(f, Kept(order, gone)) <=> In(f, order) /\ f \notin gone
  <1>1. Kept(order, gone) \in Seq(File)
    BY OnlyList DEF Kept
  <1>2. \A f : In(f, Kept(order, gone)) <=> In(f, order) /\ f \in File \ gone
    BY OnlyElements DEF Kept
  <1> QED BY <1>1, <1>2

LEMMA DropKeeps ==
    ASSUME FileTypeOK, Calls, NEW gone, Drop(gone),
           pendingClose' \in File \cup {Nobody}, pendingConflict' \in File \cup {Nobody},
           UNCHANGED <<remote, call, renaming, deletion, texts>>
    PROVE  /\ FileTypeOK' /\ Calls'
           /\ \A f \in FileTabs : f \notin FileTabs' => f \in gone
  <1>1. /\ files' \in Seq(File)
        /\ \A f \in File : In(f, files') <=> In(f, files) /\ f \notin gone
    BY KeptTabs DEF Drop, FileTypeOK
  <1>2. page' \in [File -> Page]
    BY EditorFacts DEF Drop, FileTypeOK
  <1>3. astray' \subseteq File
    BY DEF Drop, FileTypeOK
  <1>4. FileTypeOK' /\ Calls'
    BY <1>1, <1>2, <1>3, FileType DEF FileTypeOK, Calls, CallState
  <1>5. \A f : f \in FileTabs' <=> In(f, files')
    BY DEF FileTabs, In
  <1> QED BY <1>1, <1>4, <1>5, TabIsFile

LEMMA DeleteKeeps ==
    ASSUME FileTypeOK, Calls, NEW target \in SUBSET File, Delete(target)
    PROVE  FileTypeOK' /\ Calls'
  BY DEF Delete, FileTypeOK, Calls

LEMMA DeletedKeeps ==
    ASSUME FileTypeOK, Calls, Deleted
    PROVE  FileTypeOK' /\ Calls'
  <1>1. files' \in Seq(File)
    BY KeptTabs DEF Deleted, FileTypeOK
  <1>2. page' \in [File -> Page]
    BY EditorFacts DEF Deleted, FileTypeOK
  <1>3. astray' \subseteq File
    BY DEF Deleted
  <1>4. remote' \in [File -> [text : Text, version : Nat, exists : BOOLEAN]]
    BY RemovedType DEF Deleted
  <1>5. /\ deletion'.target \subseteq File /\ deletion'.files \in Seq(File)
        /\ deletion'.page \in [File -> Page]
    BY EditorFacts DEF Deleted
  <1>6. /\ pendingClose' \in File \cup {Nobody} /\ pendingConflict' \in File \cup {Nobody}
        /\ UNCHANGED <<call, renaming, texts>>
    BY DEF Deleted, FileTypeOK
  <1> QED BY <1>1, <1>2, <1>3, <1>4, <1>5, <1>6 DEF FileTypeOK, Calls

LEMMA DeleteFailsKeeps ==
    ASSUME FileTypeOK, Calls, DeleteFails
    PROVE  FileTypeOK' /\ Calls'
  <1>1. remote' \in [File -> [text : Text, version : Nat, exists : BOOLEAN]]
    BY RemovedType DEF DeleteFails
  <1>2. /\ deletion'.target \subseteq File /\ deletion'.files \in Seq(File)
        /\ deletion'.page \in [File -> Page]
    BY EditorFacts DEF DeleteFails
  <1>3. UNCHANGED <<files, page, call, renaming, pendingClose, pendingConflict, texts, astray>>
    BY DEF DeleteFails
  <1> QED BY <1>1, <1>2, <1>3 DEF FileTypeOK, Calls

(* The tabs of the connections that are closed, and those the caller did not *)
(* see, are dropped.                                                        *)
LEMMA ClearKeeps ==
    ASSUME FileTypeOK, Calls, NEW conns, NEW order \in Seq(File), NEW pages \in [File -> Page],
           clearRemoteFiles(conns, order, pages)
    PROVE  /\ FileTypeOK' /\ Calls'
           /\ \A f \in FileTabs : f \notin FileTabs' => f[1] \in conns \/ ~In(f, order)
  <1> DEFINE gone == {f \in File : f[1] \in conns}
             left == Kept(order, gone)
  <1>1. left \in Seq(File) /\ \A f \in File : In(f, left) <=> In(f, order) /\ f \notin gone
    BY KeptTabs
  <1>2. /\ pendingClose' \in File \cup {Nobody} /\ pendingConflict' \in File \cup {Nobody}
        /\ UNCHANGED <<remote, call, renaming, deletion, texts>>
    BY DEF clearRemoteFiles, FileTypeOK
  <1>3. \/ /\ files' = left
           /\ page' = [f \in File |-> IF f[1] \in conns THEN NewPage ELSE pages[f]]
           /\ astray' \subseteq File
        \/ UNCHANGED <<files, page, astray>>
    BY DEF clearRemoteFiles
  <1>4. files' \in Seq(File) /\ page' \in [File -> Page] /\ astray' \subseteq File
    <2> HIDE DEF left
    <2>1. [f \in File |-> IF f[1] \in conns THEN NewPage ELSE pages[f]] \in [File -> Page]
      BY EditorFacts
    <2> QED BY <1>1, <1>3, <2>1 DEF FileTypeOK
  <1>5. FileTypeOK' /\ Calls'
    BY <1>2, <1>4, FileType DEF FileTypeOK, Calls, CallState
  <1>6. \A f : f \in FileTabs' <=> In(f, files')
    BY DEF FileTabs, In
  <1>7. \A f \in File : In(f, left) <=> In(f, order) /\ f[1] \notin conns
    BY <1>1
  <1> HIDE DEF left
  <1>8. ASSUME NEW f \in FileTabs, f \notin FileTabs'
        PROVE  f[1] \in conns \/ ~In(f, order)
    <2>1. f \in File /\ In(f, files)
      BY <1>8, TabIsFile
    <2>2. files' = left
      BY <1>3, <1>6, <1>8, <2>1
    <2> QED BY <1>6, <1>7, <1>8, <2>1, <2>2
  <1> QED BY <1>5, <1>8

-----------------------------------------------------------------------------
(* What is shown.                                                          *)

LEMMA SshConn ==
    ASSUME TermInv, NEW t, In(t, sshTabs)
    PROVE  t \in Tab /\ tab[t].conn \in Conn /\ sshTabs # <<>>
  <1>1. t \in Tab /\ sshTabs # <<>>
    BY DEF TermInv, TermTypeOK, In
  <1>2. tab[t].conn \in Conn \cup {None} /\ tab[t].conn # None
    BY <1>1 DEF TermInv, TermTypeOK, TabState, Placed
  <1> QED BY <1>1, <1>2

LEMMA OfConnTabs ==
    ASSUME NEW order \in Seq(Tab), NEW conns
    PROVE  /\ OfConn(order, conns) \in Seq(Tab)
           /\ \A t : In(t, OfConn(order, conns)) => t \in Tab /\ In(t, order)
  <1>1. OfConn(order, conns) \in Seq(Tab)
    BY OnlyList DEF OfConn
  <1>2. \A t : In(t, OfConn(order, conns))
               <=> In(t, order) /\ t \in {u \in Tab : tab[u].conn \in conns}
    BY OnlyElements DEF OfConn
  <1> QED BY <1>1, <1>2

LEMMA FilesOfTabs ==
    ASSUME NEW order \in Seq(File), NEW conns
    PROVE  /\ FilesOf(order, conns) \in Seq(File)
           /\ \A f : In(f, FilesOf(order, conns)) => f \in File /\ In(f, order)
  <1>1. FilesOf(order, conns) \in Seq(File)
    BY OnlyList DEF FilesOf
  <1>2. \A f : In(f, FilesOf(order, conns))
               <=> In(f, order) /\ f \in {g \in File : g[1] \in conns}
    BY OnlyElements DEF FilesOf
  <1> QED BY <1>1, <1>2

(* The first terminal, or none; the first file, or none.                    *)
LEMMA FirstTab ==
    ASSUME NEW order \in Seq(Tab), NEW default \in Tab \cup {None}
    PROVE  /\ First(order, default) \in Tab \cup {None}
           /\ First(order, None) = None \/ In(First(order, None), order)
           /\ order # <<>> => In(First(order, default), order)
                              /\ First(order, default) \in Tab
           /\ order = <<>> => First(order, default) = default
  <1>1. \A d : /\ order = <<>> => First(order, d) = d
               /\ order # <<>> => In(First(order, d), order)
    BY FirstIn
  <1>2. \A t : In(t, order) => t \in Tab
    BY DEF In
  <1> QED BY <1>1, <1>2

LEMMA FirstFile ==
    ASSUME NEW order \in Seq(File), NEW default \in File \cup {Nobody}
    PROVE  First(order, default) \in File \cup {Nobody}
  <1>1. /\ order = <<>> => First(order, default) = default
        /\ order # <<>> => In(First(order, default), order)
    BY FirstIn
  <1>2. \A f : In(f, order) => f \in File
    BY DEF In
  <1> QED BY <1>1, <1>2

LEMMA HostConn ==
    \A f \in File : f[1] \in Conn
  BY WorkspaceAssumption DEF File

LEMMA ShownTerminal ==
    ASSUME NEW s \in Shown, NEW t \in Tab, tab[t].conn \in Conn
    PROVE  /\ activateTerminalTab(s, t) \in Shown
           /\ activateTerminalTab(s, t).tab = t
           /\ activateTerminalTab(s, t).conn = tab[t].conn
  BY DEF activateTerminalTab, Shown

LEMMA ShownLocal ==
    ASSUME NEW s \in Shown, NEW t \in Tab
    PROVE  /\ activateLocalTerminalTab(s, t) \in Shown
           /\ activateLocalTerminalTab(s, t).tab = s.tab
           /\ activateLocalTerminalTab(s, t).conn = s.conn
  BY DEF activateLocalTerminalTab, Shown

LEMMA ShownHome ==
    ASSUME NEW s \in Shown
    PROVE  Home(s) \in Shown /\ Home(s).tab = None
  BY DEF Home, Shown

LEMMA ShownForget ==
    ASSUME NEW s \in Shown, NEW conns
    PROVE  /\ Forget(s, conns) \in Shown /\ Forget(s, conns).tab = s.tab
           /\ Forget(s, conns).conn = s.conn
  <1> DEFINE left == [c \in Conn |-> IF c \in conns THEN None ELSE s.remembered[c]]
  <1>1. left \in [Conn -> Tab \cup {None}]
    BY DEF Shown
  <1>2. Forget(s, conns) = [s EXCEPT !.remembered = left]
    BY DEF Forget
  <1> HIDE DEF left
  <1> QED BY <1>1, <1>2 DEF Shown

LEMMA ShownPreferred ==
    ASSUME TermInv, NEW s \in Shown, NEW c \in Conn
    PROVE  LET t == preferredTabForConnection(s, c) IN
           t = None \/ (t \in Tab /\ In(t, sshTabs))
  <1>1. sshTabs \in Seq(Tab)
    BY DEF TermInv, TermTypeOK
  <1>2. /\ OfConn(sshTabs, {c}) \in Seq(Tab)
        /\ \A t : In(t, OfConn(sshTabs, {c})) => t \in Tab /\ In(t, sshTabs)
    BY <1>1, OfConnTabs
  <1>3. \/ First(OfConn(sshTabs, {c}), None) = None
        \/ In(First(OfConn(sshTabs, {c}), None), OfConn(sshTabs, {c}))
    BY <1>2, FirstTab
  <1> QED BY <1>2, <1>3 DEF preferredTabForConnection

(* Another terminal is shown than before only if it is open.                *)
Follows(s, n) == n \in Shown /\ (n.tab = s.tab \/ In(n.tab, sshTabs))

LEMMA ShownFile ==
    ASSUME TermInv, NEW s \in Shown, NEW f \in File
    PROVE  Follows(s, activateRemoteFileTab(s, f)) /\ activateRemoteFileTab(s, f).conn # None
  <1> DEFINE c == f[1]
             t == IF In(s.tab, OfConn(sshTabs, {c})) THEN s.tab
                  ELSE preferredTabForConnection(s, c)
             at == [s EXCEPT !.home = FALSE, !.mode = "ssh", !.conn = c, !.file = f]
  <1>1. c \in Conn /\ c # None
    BY HostConn, NoNone
  <1>2. t = None \/ (t \in Tab /\ In(t, sshTabs))
    <2>1. \A u : In(u, OfConn(sshTabs, {c})) => u \in Tab /\ In(u, sshTabs)
      BY OfConnTabs DEF TermInv, TermTypeOK
    <2> QED BY <1>1, <2>1, ShownPreferred
  <1>3. at \in Shown /\ at.tab = s.tab /\ at.conn = c
    BY <1>1 DEF Shown
  <1>4. activateRemoteFileTab(s, f)
        = IF t = None THEN at ELSE [at EXCEPT !.tab = t, !.remembered[c] = t]
    BY DEF activateRemoteFileTab
  <1> HIDE DEF c, t, at
  <1>5. CASE t = None
    BY <1>1, <1>3, <1>4, <1>5 DEF Follows
  <1>6. CASE t # None
    <2>1. LET n == [at EXCEPT !.tab = t, !.remembered[c] = t] IN
          n \in Shown /\ n.tab = t /\ n.conn = c
      BY <1>1, <1>2, <1>3, <1>6 DEF Shown
    <2> QED BY <1>1, <1>2, <1>4, <1>6, <2>1 DEF Follows
  <1> QED BY <1>5, <1>6

LEMMA ShownFallback ==
    ASSUME TermInv, NEW s \in Shown
    PROVE  LET n == activateTerminalFallbackAfterFilesClose(s) IN
           Follows(s, n) /\ (sshTabs # <<>> => n.conn # None)
  <1> DEFINE t == CASE In(s.tab, sshTabs) -> s.tab
                    [] ~In(s.tab, sshTabs) /\ s.conn # None
                       /\ OfConn(sshTabs, {s.conn}) # <<>> ->
                         preferredTabForConnection(s, s.conn)
                    [] OTHER -> First(sshTabs, None)
             home == [s EXCEPT !.home = TRUE, !.mode = "home", !.conn = None]
             n == activateTerminalFallbackAfterFilesClose(s)
  <1>1. sshTabs \in Seq(Tab) /\ s.conn \in Conn \cup {None}
    BY DEF TermInv, TermTypeOK, Shown
  <1>2. home \in Shown /\ home.tab = s.tab
    BY DEF Shown
  <1>3. n = IF t # None THEN activateTerminalTab(s, t) ELSE home
    BY DEF activateTerminalFallbackAfterFilesClose
  <1>4. t = None \/ In(t, sshTabs)
    BY <1>1, FirstTab, ShownPreferred
  <1>5. sshTabs # <<>> => t # None
    <2>1. In(s.tab, sshTabs) => s.tab # None
      BY SshConn, NoNone
    <2>2. ASSUME s.conn # None, OfConn(sshTabs, {s.conn}) # <<>>
          PROVE  preferredTabForConnection(s, s.conn) # None
      <3>1. \A u : In(u, OfConn(sshTabs, {s.conn})) => u \in Tab
        BY <1>1, OfConnTabs
      <3>2. First(OfConn(sshTabs, {s.conn}), None) \in Tab
        BY <1>1, <2>2, OfConnTabs, FirstTab
      <3> QED BY <3>1, <3>2, NoNone DEF preferredTabForConnection
    <2>3. sshTabs # <<>> => First(sshTabs, None) # None
      BY <1>1, FirstTab, NoNone
    <2> QED BY <2>1, <2>2, <2>3
  <1> HIDE DEF t, home, n
  <1>6. CASE t # None
    <2>1. t \in Tab /\ tab[t].conn \in Conn /\ In(t, sshTabs)
      BY <1>4, <1>6, SshConn
    <2>2. n \in Shown /\ n.tab = t /\ n.conn = tab[t].conn
      BY <1>3, <1>6, <2>1, ShownTerminal
    <2> QED BY <2>1, <2>2, NoNone DEF Follows, n
  <1>7. CASE t = None
    BY <1>2, <1>3, <1>5, <1>7 DEF Follows, n
  <1> QED BY <1>6, <1>7

LEMMA ShownRemoval ==
    ASSUME TermInv, NEW s \in Shown, NEW left \in Seq(File), NEW c \in Conn \cup {None}
    PROVE  LET n == activateRemoteFileFallbackAfterRemoval(s, left, c) IN
           Follows(s, n) /\ (sshTabs # <<>> => n.conn # None)
  <1> DEFINE f == First(FilesOf(left, {c}), First(left, Nobody))
             bare == [s EXCEPT !.file = Nobody]
             n == activateRemoteFileFallbackAfterRemoval(s, left, c)
  <1>1. f \in File \cup {Nobody}
    BY FilesOfTabs, FirstFile
  <1>2. bare \in Shown /\ bare.tab = s.tab
    BY DEF Shown
  <1>3. n = IF f # Nobody THEN activateRemoteFileTab(s, f)
            ELSE activateTerminalFallbackAfterFilesClose(bare)
    BY DEF activateRemoteFileFallbackAfterRemoval
  <1> HIDE DEF f, bare, n
  <1>4. CASE f # Nobody
    <2>1. f \in File
      BY <1>1, <1>4
    <2> QED BY <1>3, <1>4, <2>1, ShownFile DEF n
  <1>5. CASE f = Nobody
    <2>1. Follows(bare, n) /\ (sshTabs # <<>> => n.conn # None)
      BY <1>2, <1>3, <1>5, ShownFallback
    <2> QED BY <1>2, <2>1 DEF Follows, n
  <1> QED BY <1>4, <1>5

(* What is shown once terminals are closed is among those that are left.    *)
LEMMA ShownTerminalsClosed ==
    ASSUME TypeOK, TermInv, SomeConn, NEW closed \in SUBSET Tab
    PROVE  LET left == Without(sshTabs, closed)
               n == ShownAfterTerminals(closed) IN
           /\ n \in Shown
           /\ \/ n.tab = None \/ In(n.tab, left)
              \/ n.tab = shown.tab /\ (shown.tab \notin closed \/ ~In(shown.tab, sshTabs))
           /\ left # <<>> => n.conn # None
  <1> DEFINE left == Without(sshTabs, closed)
             home == IF left = <<>> /\ files = <<>> /\ localTabs = <<>> THEN Home(shown) ELSE shown
             gone == tab[shown.tab].conn
             next == First(OfConn(left, {gone}), First(left, None))
             fileFor(c) == First(FilesOf(files, {c}), First(files, Nobody))
             connFor(t, f) == IF t # None THEN tab[t].conn ELSE IF f # Nobody THEN f[1] ELSE None
             orLocal(s) == IF localTabs # <<>> THEN activateLocalTerminalTab(s, localTabs[1]) ELSE s
             moved == [home EXCEPT !.tab = next, !.conn = connFor(next, fileFor(gone))]
             n == ShownAfterTerminals(closed)
  <1>1. /\ left \in Seq(Tab)
        /\ \A t : In(t, left) => t \in Tab /\ In(t, sshTabs)
        /\ left # <<>> => sshTabs # <<>>
    <2>1. sshTabs \in Seq(Tab)
      BY DEF TermInv, TermTypeOK
    <2>2. /\ left \in Seq(Tab)
          /\ \A t : In(t, left) => t \in Tab /\ In(t, sshTabs)
      BY <2>1, OnlyList, OnlyElements DEF Without
    <2>3. left # <<>> => In(First(left, None), left)
      BY <2>2, FirstIn
    <2> QED BY <2>2, <2>3, SshConn
  <1>2. /\ localTabs \in Seq(Tab) /\ files \in Seq(File) /\ shown \in Shown
        /\ sshTabs # <<>> => shown.conn # None
    BY DEF TypeOK, TermTypeOK, FileTypeOK, SomeConn
  <1>3. \A s \in Shown : /\ orLocal(s) \in Shown /\ orLocal(s).tab = s.tab
                         /\ orLocal(s).conn = s.conn
    <2>1. localTabs # <<>> => localTabs[1] \in Tab
      BY <1>2
    <2> QED BY <2>1, ShownLocal
  <1>4. /\ home \in Shown
        /\ left # <<>> => home = shown
        /\ home.tab = None \/ home = shown
    BY <1>2, ShownHome
  <1>5. \A c : fileFor(c) \in File \cup {Nobody}
    BY <1>2, FilesOfTabs, FirstFile
  <1>6. \A t, f : (t = None \/ In(t, left)) /\ f \in File \cup {Nobody} =>
             /\ connFor(t, f) \in Conn \cup {None}
             /\ t # None => connFor(t, f) # None
    BY <1>1, SshConn, HostConn, NoNone
  <1>7. /\ next = None \/ In(next, left)
        /\ left # <<>> => next # None
    <2>1. /\ OfConn(left, {gone}) \in Seq(Tab)
          /\ \A t : In(t, OfConn(left, {gone})) => In(t, left)
      BY <1>1, OfConnTabs
    <2>2. First(left, None) \in Tab \cup {None}
          /\ (First(left, None) = None \/ In(First(left, None), left))
          /\ (left # <<>> => First(left, None) \in Tab)
      BY <1>1, FirstTab
    <2> QED BY <2>1, <2>2, FirstTab, NoNone
  <1>8. /\ First(left, None) = None \/ In(First(left, None), left)
        /\ left # <<>> => First(left, None) # None
    BY <1>1, FirstTab, NoNone
  <1>9. n = IF shown.tab \in closed /\ In(shown.tab, sshTabs) THEN
               CASE next # None -> [moved EXCEPT !.remembered[tab[next].conn] = next]
                 [] next = None /\ fileFor(gone) # Nobody ->
                       Forget([moved EXCEPT !.file = fileFor(gone)], {gone})
                 [] OTHER -> orLocal(Forget(moved, {gone}))
            ELSE IF /\ shown.conn # None
                    /\ OfConn(Only(sshTabs, closed), {shown.conn}) # <<>>
                    /\ OfConn(left, {shown.conn}) = <<>> THEN
               LET t == First(left, None)
                   f == fileFor(shown.conn)
                   s == Forget([home EXCEPT !.conn = connFor(t, f)], {shown.conn}) IN
               IF t = None /\ f = Nobody THEN orLocal(s) ELSE s
            ELSE home
    BY DEF ShownAfterTerminals
  <1>10. connFor(next, fileFor(gone)) \in Conn \cup {None}
         /\ (next # None => connFor(next, fileFor(gone)) # None)
         /\ (next # None => tab[next].conn \in Conn) /\ next \in Tab \cup {None}
    <2> HIDE DEF left, next, fileFor, connFor
    <2>1. next # None => tab[next].conn \in Conn /\ next \in Tab
      BY <1>1, <1>7, SshConn
    <2> QED BY <1>5, <1>6, <1>7, <2>1
  <1> HIDE DEF left, home, gone, next, fileFor, connFor, orLocal, n
  <1>11. moved \in Shown /\ moved.tab = next
         /\ moved.conn = connFor(next, fileFor(gone))
    BY <1>4, <1>10 DEF Shown
  <1> HIDE DEF moved
  <1>12. CASE shown.tab \in closed /\ In(shown.tab, sshTabs)
    <2>1. CASE next # None
      <3>1. n = [moved EXCEPT !.remembered[tab[next].conn] = next]
        BY <1>9, <1>12, <2>1
      <3>2. n \in Shown /\ n.tab = next /\ n.conn = moved.conn
        BY <1>10, <1>11, <2>1, <3>1 DEF Shown
      <3> QED BY <1>7, <1>10, <1>11, <2>1, <3>2 DEF n, left
    <2>2. CASE next = None /\ fileFor(gone) # Nobody
      <3>1. n = Forget([moved EXCEPT !.file = fileFor(gone)], {gone})
        BY <1>9, <1>12, <2>2
      <3>2. [moved EXCEPT !.file = fileFor(gone)] \in Shown
            /\ [moved EXCEPT !.file = fileFor(gone)].tab = moved.tab
        BY <1>5, <1>11 DEF Shown
      <3>3. n \in Shown /\ n.tab = None
        BY <1>11, <2>2, <3>1, <3>2, ShownForget
      <3> QED BY <1>7, <2>2, <3>3 DEF n, left
    <2>3. CASE next = None /\ fileFor(gone) = Nobody
      <3>1. n = orLocal(Forget(moved, {gone}))
        BY <1>9, <1>12, <2>3
      <3>2. n \in Shown /\ n.tab = None
        BY <1>3, <1>11, <2>3, <3>1, ShownForget
      <3> QED BY <1>7, <2>3, <3>2 DEF n, left
    <2> QED BY <2>1, <2>2, <2>3
  <1>13. CASE /\ ~(shown.tab \in closed /\ In(shown.tab, sshTabs))
              /\ shown.conn # None
              /\ OfConn(Only(sshTabs, closed), {shown.conn}) # <<>>
              /\ OfConn(left, {shown.conn}) = <<>>
    <2> DEFINE t == First(left, None)
               f == fileFor(shown.conn)
               b == [home EXCEPT !.conn = connFor(t, f)]
               s == Forget(b, {shown.conn})
    <2>1. n = IF t = None /\ f = Nobody THEN orLocal(s) ELSE s
      BY <1>9, <1>13
    <2>2. connFor(t, f) \in Conn \cup {None} /\ (left # <<>> => connFor(t, f) # None)
      BY <1>5, <1>6, <1>8
    <2> HIDE DEF t, f
    <2>3. b \in Shown /\ b.tab = home.tab /\ b.conn = connFor(t, f)
      BY <1>4, <2>2 DEF Shown
    <2> HIDE DEF b
    <2>4. s \in Shown /\ s.tab = home.tab /\ s.conn = connFor(t, f)
      BY <2>3, ShownForget
    <2> HIDE DEF s
    <2>5. n \in Shown /\ n.tab = home.tab /\ n.conn = connFor(t, f)
      BY <1>3, <2>1, <2>4
    <2> QED BY <1>4, <1>13, <2>2, <2>5 DEF n, left
  <1>14. CASE /\ ~(shown.tab \in closed /\ In(shown.tab, sshTabs))
              /\ ~(/\ shown.conn # None
                   /\ OfConn(Only(sshTabs, closed), {shown.conn}) # <<>>
                   /\ OfConn(left, {shown.conn}) = <<>>)
    <2>1. n = home
      BY <1>9, <1>14
    <2> QED BY <1>1, <1>2, <1>4, <1>14, <2>1 DEF n, left
  <1> QED BY <1>12, <1>13, <1>14

(* What closeConnectionSessions and deleteConnection show.                  *)
AfterClosing(conns, seen, now, left, rest) ==
    ShownAfterConnections(conns, seen, now, left, rest, TRUE)
AfterDeleting(conns, seen, now, left, rest) ==
    ShownAfterConnections(conns, seen, now, left, rest, FALSE)

(* A list of terminals of connections that are open.                        *)
OpenOnes(left) == \A t : In(t, left) => In(t, sshTabs)

(* What may be shown of the terminals that are left.                        *)
Leaves(conns, seen, now, left, n) ==
    /\ n \in Shown
    /\ \/ n.tab = None \/ In(n.tab, left)
       \/ n.tab = now.tab /\ seen.conn \notin conns
    /\ left # <<>> /\ now.conn # None => n.conn # None

(* And so it is once connections are closed: nothing of them is shown when   *)
(* what was seen was one of them.                                           *)
LEMMA ShownConnectionsClosed ==
    ASSUME TypeOK, TermInv, NEW conns, NEW seen \in Shown, NEW now \in Shown,
           NEW left \in Seq(Tab), OpenOnes(left),
           NEW rest \in Seq(File),
           NEW n, \/ n = AfterClosing(conns, seen, now, left, rest)
                  \/ n = AfterDeleting(conns, seen, now, left, rest)
    PROVE  Leaves(conns, seen, now, left, n)
  <1> DEFINE home == IF left = <<>> /\ rest = <<>> /\ localTabs = <<>> THEN Home(now) ELSE now
             t == First(left, None)
             f == First(rest, Nobody)
             conn == IF t # None THEN tab[t].conn ELSE IF f # Nobody THEN f[1] ELSE None
             moved == [home EXCEPT !.tab = t, !.conn = conn]
  <1>1. /\ home \in Shown
        /\ left # <<>> => home = now
        /\ home.tab = None \/ home = now
    BY ShownHome
  <1>2. t = None \/ (t \in Tab /\ In(t, left) /\ tab[t].conn \in Conn)
    BY FirstTab, SshConn DEF OpenOnes
  <1>3. left # <<>> => t # None
    BY FirstTab, NoNone
  <1>4. f \in File \cup {Nobody}
    BY FirstFile
  <1>5. conn \in Conn \cup {None} /\ (t # None => conn # None)
    BY <1>2, <1>4, HostConn, NoNone
  <1>6. IF seen.conn \in conns
        THEN \/ n \in {[moved EXCEPT !.file = f], moved}
             \/ localTabs # <<>> /\ n = activateLocalTerminalTab(moved, localTabs[1])
        ELSE n = home
    <2>1. CASE seen.conn \notin conns
      BY <2>1 DEF ShownAfterConnections, AfterClosing, AfterDeleting
    <2>2. CASE seen.conn \in conns /\ n = AfterClosing(conns, seen, now, left, rest)
      <3>1. n = CASE f # Nobody /\ (TRUE \/ t = None) -> [moved EXCEPT !.file = f]
                  [] (f = Nobody \/ ~TRUE) /\ t # None -> moved
                  [] OTHER -> IF localTabs # <<>>
                              THEN activateLocalTerminalTab(moved, localTabs[1]) ELSE moved
        BY <2>2 DEF ShownAfterConnections, AfterClosing, AfterDeleting
      <3> HIDE DEF moved, t, f
      <3> QED BY <2>2, <3>1
    <2>3. CASE seen.conn \in conns /\ n = AfterDeleting(conns, seen, now, left, rest)
      <3>1. n = CASE f # Nobody /\ (FALSE \/ t = None) -> [moved EXCEPT !.file = f]
                  [] (f = Nobody \/ ~FALSE) /\ t # None -> moved
                  [] OTHER -> IF localTabs # <<>>
                              THEN activateLocalTerminalTab(moved, localTabs[1]) ELSE moved
        BY <2>3 DEF ShownAfterConnections, AfterClosing, AfterDeleting
      <3> HIDE DEF moved, t, f
      <3> QED BY <2>3, <3>1
    <2> QED BY <2>1, <2>2, <2>3
  <1>7. localTabs # <<>> => localTabs[1] \in Tab
    BY DEF TypeOK, TermTypeOK
  <1> HIDE DEF home, t, f, conn
  <1>8. moved \in Shown /\ moved.tab = t /\ moved.conn = conn
    BY <1>1, <1>2, <1>5 DEF Shown
  <1>9. [moved EXCEPT !.file = f] \in Shown /\ [moved EXCEPT !.file = f].tab = t
        /\ [moved EXCEPT !.file = f].conn = conn
    BY <1>4, <1>8 DEF Shown
  <1> HIDE DEF moved
  <1>10. CASE seen.conn \in conns
    <2>1. n \in Shown /\ n.tab = t /\ n.conn = conn
      BY <1>6, <1>7, <1>8, <1>9, <1>10, ShownLocal
    <2> QED BY <1>2, <1>3, <1>5, <1>10, <2>1 DEF Leaves
  <1>11. CASE seen.conn \notin conns
    BY <1>1, <1>6, <1>11 DEF Leaves
  <1> QED BY <1>10, <1>11

-----------------------------------------------------------------------------
(* A step keeps the invariant, keeps showing an open terminal, and loses no  *)
(* changes unasked.                                                         *)

Stays == ShownTabOpen /\ OfOnePiece => ShownTabOpen'
Asks == \A f \in FileTabs : page[f].dirty /\ f \notin FileTabs' => Asked(f)
Good == IInv' /\ Stays /\ Asks

LEMMA TermFrame ==
    ASSUME TermInv, UNCHANGED termVars
    PROVE  TermInv'
  <1> USE DEF TermInv, termVars
  <1>1. TermTypeOK'
    BY DEF TermTypeOK
  <1>2. Placed' /\ Panels'
    BY PlacedFrame, PanelsFrame
  <1>3. Sessions' /\ OneAttempt'
    BY DEF Sessions, OneAttempt
  <1>4. Attempts'
    BY AttemptsElsewhere
  <1>5. NoOrphanSession'
    BY SameOpen DEF NoOrphanSession
  <1> QED BY <1>1, <1>2, <1>3, <1>4, <1>5

LEMMA BudgetType ==
    ASSUME budget \in Nat \X Nat \X Nat, NEW i \in {1, 2, 3}, budget[i] > 0,
           budget' = [budget EXCEPT ![i] = @ - 1]
    PROVE  budget' \in Nat \X Nat \X Nat
  OBVIOUS

(* What the terminals and the files do between themselves.                   *)
LEMMA SameShown ==
    ASSUME IInv, TermInv', sshTabs' = sshTabs, shown' = shown,
           FileTypeOK', Calls', budget' \in Nat \X Nat \X Nat,
           pendingSessions' \subseteq Conn, profiles' \subseteq Conn,
           \/ UNCHANGED removal
           \/ removal' = NoRemoval
           \/ /\ removal'.conn \in Conn /\ removal'.shown = shown
              /\ removal'.files = files /\ removal'.page = page,
           Asks
    PROVE  Good
  <1>1. /\ Blank \in Shown /\ None \in Conn \cup {None}
        /\ NoDeletion.page \in [File -> Page]
    BY EditorFacts DEF Blank, Shown
  <1>2. /\ removal'.conn \in Conn \cup {None} /\ removal'.shown \in Shown
        /\ removal'.files \in Seq(File) /\ removal'.page \in [File -> Page]
    <2>1. CASE UNCHANGED removal
      BY <2>1 DEF IInv, TypeOK
    <2>2. CASE removal' = NoRemoval
      BY <1>1, <2>2 DEF NoRemoval
    <2>3. CASE /\ removal'.conn \in Conn /\ removal'.shown = shown
               /\ removal'.files = files /\ removal'.page = page
      BY <2>3 DEF IInv, TypeOK, FileTypeOK
    <2> QED BY <2>1, <2>2, <2>3
  <1>3. TypeOK'
    BY <1>2 DEF IInv, TypeOK, TermInv
  <1>4. SomeConn' /\ Stays
    BY DEF IInv, SomeConn, Stays, ShownTabOpen, In
  <1> QED BY <1>3, <1>4 DEF IInv, Good

(* Tabs that are not dropped.                                               *)
LEMMA SameFiles ==
    ASSUME FileTabs \subseteq FileTabs'
    PROVE  Asks
  BY DEF Asks

LEMMA SameFileTabs ==
    ASSUME UNCHANGED files
    PROVE  Asks
  BY DEF Asks, FileTabs

LEMMA NewShown ==
    ASSUME IInv, TermInv', FileTypeOK', Calls', Asks, budget' \in Nat \X Nat \X Nat,
           pendingSessions' \subseteq Conn, profiles' \subseteq Conn,
           removal' = removal \/ removal' = NoRemoval,
           shown' \in Shown, sshTabs' # <<>> => shown'.conn # None,
           ShownTabOpen /\ OfOnePiece => shown'.tab = None \/ In(shown'.tab, sshTabs')
    PROVE  Good
  <1>1. /\ removal'.conn \in Conn \cup {None} /\ removal'.shown \in Shown
        /\ removal'.files \in Seq(File) /\ removal'.page \in [File -> Page]
    <2>1. CASE removal' = removal
      BY <2>1 DEF IInv, TypeOK
    <2>2. CASE removal' = NoRemoval
      BY <2>2, EditorFacts DEF NoRemoval, Blank, Shown
    <2> QED BY <2>1, <2>2
  <1>2. TypeOK'
    BY <1>1 DEF TypeOK, TermInv
  <1>3. SomeConn' /\ Stays
    BY DEF SomeConn, Stays, ShownTabOpen, In
  <1> QED BY <1>2, <1>3 DEF IInv, Good

LEMMA TermStepsKeep ==
    ASSUME TermInv, TermSteps \/ TermFaults
    PROVE  TermInv' /\ sshTabs' = sshTabs
  <1>1. ASSUME NEW r \in Request, Answered(r) \/ connect(r) \/ Untrusted(r) \/ close(r)
                                  \/ StateChanged(r) \/ TrustFails(r) \/ Refuse(r)
                                  \/ SessionEnds(r)
        PROVE  TermInv' /\ sshTabs' = sshTabs
    <2>1. CASE Trusted(r)
      BY <2>1, TrustedKeeps DEF Trusted
    <2>2. CASE Listened(r)
      BY <2>2, ListenedKeeps DEF Listened
    <2>3. CASE PrepareAnswered(r)
      BY <2>3, PrepareAnsweredKeeps DEF PrepareAnswered
    <2>4. CASE DirectAnswered(r)
      BY <2>4, DirectAnsweredKeeps DEF DirectAnswered
    <2>5. CASE Reconnected(r)
      BY <2>5, ReconnectedKeeps DEF Reconnected
    <2>6. CASE ReconnectFailed(r)
      BY <2>6, ReconnectFailedKeeps DEF ReconnectFailed
    <2>7. CASE connect(r)
      BY <2>7, connectKeeps DEF connect
    <2>8. CASE Untrusted(r) \/ Refuse(r)
      BY <2>8, RefusedKeeps DEF Untrusted, Refuse
    <2>9. CASE close(r)
      BY <2>9, closeKeeps DEF close
    <2>10. CASE StateChanged(r)
      BY <2>10, StateChangedKeeps DEF StateChanged
    <2>11. CASE TrustFails(r)
      BY <2>11, TrustFailsKeeps DEF TrustFails
    <2>12. CASE SessionEnds(r)
      BY <2>12, SessionEndsKeeps DEF SessionEnds
    <2> QED BY <1>1, <2>1, <2>2, <2>3, <2>4, <2>5, <2>6, <2>7, <2>8, <2>9, <2>10, <2>11,
               <2>12 DEF Answered
  <1>2. ASSUME NEW t \in Tab, Mount(t) \/ PanelListens(t)
        PROVE  TermInv' /\ sshTabs' = sshTabs
    BY <1>2, MountKeeps, PanelListensKeeps DEF Mount, PanelListens
  <1> QED BY <1>1, <1>2 DEF TermSteps, TermFaults

LEMMA FileStepsKeep ==
    ASSUME FileTypeOK, Calls, FileSteps \/ FileFaults
    PROVE  FileTypeOK' /\ Calls' /\ files' = files
  <1>1. ASSUME NEW k \in Call, read_file(k) \/ write_file(k) \/ CallFails(k)
        PROVE  FileTypeOK' /\ Calls' /\ files' = files
    BY <1>1, BackendKeeps DEF read_file, write_file, CallFails
  <1>2. ASSUME NEW k \in Call, Loaded(k) \/ Saved(k)
        PROVE  FileTypeOK' /\ Calls' /\ files' = files
    BY <1>2, LoadedKeeps, SavedKeeps DEF Loaded, Saved
  <1>3. ASSUME NEW f \in File, OthersWrite(f)
        PROVE  FileTypeOK' /\ Calls' /\ files' = files
    BY <1>3, OthersWriteKeeps DEF OthersWrite
  <1>4. CASE RenameFails
    BY <1>4, RenamingKeeps DEF RenameFails
  <1>5. CASE DeleteFails
    BY <1>5, DeleteFailsKeeps DEF DeleteFails
  <1> QED BY <1>1, <1>2, <1>3, <1>4, <1>5 DEF FileSteps, FileFaults, CallSteps

-----------------------------------------------------------------------------
(* The user at the terminals.                                              *)

LEMMA Spends ==
    ASSUME IInv, NEW i \in {1, 2, 3}, Spend(i)
    PROVE  budget' \in Nat \X Nat \X Nat
  BY BudgetType DEF IInv, TypeOK, Spend

LEMMA StartConnectionStepKeeps ==
    ASSUME IInv, NEW t \in Tab, NEW r \in Request, NEW c \in Conn, StartConnectionStep(t, r, c)
    PROVE  Good
  <1>1. TermInv' /\ sshTabs' = Append(sshTabs, t)
    BY StartStepKeeps DEF IInv, StartConnectionStep, StartStep
  <1>2. FileTypeOK' /\ Calls'
    BY FilesFrame DEF IInv, TypeOK, StartConnectionStep
  <1>3. Asks
    BY SameFileTabs DEF StartConnectionStep, fileVars
  <1>4. budget' \in Nat \X Nat \X Nat /\ UNCHANGED <<pendingSessions, profiles, removal>>
    BY Spends DEF StartConnectionStep, Rest
  <1>5. shown' \in Shown /\ shown'.tab = t /\ shown'.conn = c /\ c # None
    BY NoNone DEF IInv, TypeOK, StartConnectionStep, Shown
  <1>6. In(t, sshTabs')
    BY <1>1, AppendIn DEF IInv, TypeOK, TermTypeOK
  <1> QED BY <1>1, <1>2, <1>3, <1>4, <1>5, <1>6, NewShown DEF IInv, TypeOK

LEMMA openTerminalInConnectionKeeps ==
    ASSUME IInv, NEW t \in Tab, NEW r \in Request, openTerminalInConnection(t, r)
    PROVE  Good
  <1> DEFINE c == shown.conn
  <1>1. c \in Conn
    <2>1. sshTabs # <<>>
      BY SshConn DEF IInv, openTerminalInConnection, Connected
    <2> QED BY <2>1 DEF IInv, SomeConn, TypeOK, Shown
  <1>2. TermInv' /\ sshTabs' = Append(sshTabs, t)
    BY <1>1, OpenTerminalKeeps DEF IInv, openTerminalInConnection, OpenTerminal
  <1>3. FileTypeOK' /\ Calls'
    BY FilesFrame DEF IInv, TypeOK, openTerminalInConnection
  <1>4. Asks
    BY SameFileTabs DEF openTerminalInConnection, fileVars
  <1>5. budget' \in Nat \X Nat \X Nat /\ UNCHANGED <<pendingSessions, profiles, removal>>
    BY Spends DEF openTerminalInConnection, Rest
  <1>6. shown' \in Shown /\ shown'.tab = t /\ shown'.conn = c /\ c # None
    BY <1>1, NoNone DEF IInv, TypeOK, openTerminalInConnection, Shown
  <1>7. In(t, sshTabs')
    BY <1>2, AppendIn DEF IInv, TypeOK, TermTypeOK
  <1> QED BY <1>2, <1>3, <1>4, <1>5, <1>6, <1>7, NewShown DEF IInv, TypeOK

LEMMA openLocalTerminalByProfileKeeps ==
    ASSUME IInv, NEW t \in Tab, NEW r \in Request, openLocalTerminalByProfile(t, r)
    PROVE  Good
  <1>1. TermInv' /\ sshTabs' = sshTabs
    BY OpenLocalKeeps DEF IInv, openLocalTerminalByProfile, OpenLocal
  <1>2. FileTypeOK' /\ Calls'
    BY FilesFrame DEF IInv, TypeOK, openLocalTerminalByProfile
  <1>3. Asks
    BY SameFileTabs DEF openLocalTerminalByProfile, fileVars
  <1>4. budget' \in Nat \X Nat \X Nat /\ UNCHANGED <<pendingSessions, profiles, removal>>
    BY Spends DEF openLocalTerminalByProfile, Rest
  <1>5. shown' \in Shown /\ shown'.tab = shown.tab /\ shown'.conn = shown.conn
    BY ShownLocal DEF IInv, TypeOK, openLocalTerminalByProfile
  <1> QED BY <1>1, <1>2, <1>3, <1>4, <1>5, NewShown DEF IInv, TypeOK, SomeConn, ShownTabOpen

LEMMA UserOnTabKeeps ==
    ASSUME IInv, NEW t \in Tab, NEW r \in Request, UserOnTab(t, r)
    PROVE  Good
  <1>1. TermInv' /\ sshTabs' = sshTabs
    <2>1. CASE submitPromptCredential(t, r) \/ retryConnectionStep(t, r)
               \/ trustHostKeyAndRetry(t, r)
      BY <2>1, StepAgainKeeps DEF IInv, submitPromptCredential, retryConnectionStep,
            trustHostKeyAndRetry, runConnectionStep
    <2>2. CASE reconnectCurrentTerminal(t, r)
      BY <2>2, reconnectCurrentTerminalKeeps DEF IInv, reconnectCurrentTerminal
    <2> QED BY <2>1, <2>2 DEF UserOnTab
  <1>2. FileTypeOK' /\ Calls'
    BY FilesFrame DEF IInv, TypeOK, UserOnTab
  <1>3. Asks
    BY SameFileTabs DEF UserOnTab, fileVars
  <1>4. budget' \in Nat \X Nat \X Nat
    BY Spends DEF UserOnTab, IInv, TypeOK
  <1>5. UNCHANGED <<shown, pendingSessions, profiles, removal>>
    BY DEF UserOnTab, Rest
  <1> QED BY <1>1, <1>2, <1>3, <1>4, <1>5, SameShown DEF IInv, TypeOK

LEMMA ActivateKeeps ==
    ASSUME IInv, Activate
    PROVE  Good
  <1>1. TermInv' /\ sshTabs' = sshTabs
    BY TermFrame DEF IInv, Activate, termVars
  <1>2. FileTypeOK' /\ Calls'
    BY FilesFrame DEF IInv, TypeOK, Activate
  <1>3. Asks
    BY SameFileTabs DEF Activate, fileVars
  <1>4. budget' \in Nat \X Nat \X Nat /\ UNCHANGED <<pendingSessions, profiles, removal>>
    BY Spends DEF Activate, Rest
  <1>5. /\ shown' \in Shown
        /\ \/ shown'.tab = shown.tab /\ shown'.conn = shown.conn
           \/ In(shown'.tab, sshTabs) /\ shown'.conn # None
    <2>1. CASE shown' = [shown EXCEPT !.home = TRUE]
      BY <2>1 DEF IInv, TypeOK, Shown
    <2>2. ASSUME NEW t \in Open, In(t, sshTabs), shown' = activateTerminalTab(shown, t)
          PROVE  shown' \in Shown /\ In(shown'.tab, sshTabs) /\ shown'.conn # None
      <3>1. t \in Tab /\ tab[t].conn \in Conn
        BY <2>2, SshConn DEF IInv
      <3> QED BY <2>2, <3>1, ShownTerminal, NoNone DEF IInv, TypeOK
    <2>3. ASSUME NEW t \in Open, shown' = activateLocalTerminalTab(shown, t)
          PROVE  shown' \in Shown /\ shown'.tab = shown.tab /\ shown'.conn = shown.conn
      <3>1. t \in Tab
        BY DEF IInv, TypeOK, TermTypeOK, Open
      <3> QED BY <2>3, <3>1, ShownLocal DEF IInv, TypeOK
    <2> QED BY <2>1, <2>2, <2>3 DEF Activate
  <1> QED BY <1>1, <1>2, <1>3, <1>4, <1>5, NewShown DEF IInv, TypeOK, SomeConn, ShownTabOpen

-----------------------------------------------------------------------------
(* Closing terminals.                                                      *)

LEMMA WithoutTabs ==
    ASSUME TermTypeOK, NEW tabs
    PROVE  /\ Without(sshTabs, tabs) \in Seq(Tab)
           /\ \A t : In(t, Without(sshTabs, tabs)) <=> In(t, sshTabs) /\ t \in Tab \ tabs
           /\ Without(sshTabs, tabs) # <<>> => sshTabs # <<>>
  <1>1. sshTabs \in Seq(Tab)
    BY DEF TermTypeOK
  <1>2. /\ Without(sshTabs, tabs) \in Seq(Tab)
        /\ \A t : In(t, Without(sshTabs, tabs)) <=> In(t, sshTabs) /\ t \in Tab \ tabs
    BY <1>1, OnlyList, OnlyElements DEF Without
  <1>3. Without(sshTabs, tabs) # <<>> => sshTabs # <<>>
    BY <1>1, <1>2, FirstIn
  <1> QED BY <1>2, <1>3

LEMMA closeTerminalTabsKeeps ==
    ASSUME IInv, closeTerminalTabs
    PROVE  Good
  <1>1. PICK closed \in SUBSET Tab :
            CloseTabs(closed) /\ shown' = ShownAfterTerminals(closed)
    <2>1. PICK i \in DOMAIN sshTabs :
              LET mine == {j \in DOMAIN sshTabs : tab[sshTabs[j]].conn = tab[sshTabs[i]].conn}
                  closed(js) == {sshTabs[j] : j \in js} IN
              \E js \in {{i}, mine \ {i}, {j \in mine : j > i}, mine} \ {{}} :
                 CloseTabs(closed(js)) /\ shown' = ShownAfterTerminals(closed(js))
      BY DEF closeTerminalTabs
    <2>2. PICK js \in SUBSET DOMAIN sshTabs :
              /\ CloseTabs({sshTabs[j] : j \in js})
              /\ shown' = ShownAfterTerminals({sshTabs[j] : j \in js})
      BY <2>1
    <2>3. {sshTabs[j] : j \in js} \in SUBSET Tab
      BY DEF IInv, TypeOK, TermTypeOK
    <2> QED BY <2>2, <2>3
  <1>2. TermInv'
    BY <1>1, CloseTabsKeeps DEF IInv
  <1>3. FileTypeOK' /\ Calls'
    BY FilesFrame DEF IInv, TypeOK, closeTerminalTabs
  <1>4. Asks
    BY SameFileTabs DEF closeTerminalTabs, fileVars
  <1>5. budget' \in Nat \X Nat \X Nat /\ UNCHANGED <<pendingSessions, profiles, removal>>
    BY Spends DEF closeTerminalTabs, Rest
  <1>6. sshTabs' = Without(sshTabs, closed)
    BY <1>1 DEF CloseTabs
  <1>7. /\ shown' \in Shown
        /\ \/ shown'.tab = None \/ In(shown'.tab, sshTabs')
           \/ shown'.tab = shown.tab /\ (shown.tab \notin closed \/ ~In(shown.tab, sshTabs))
        /\ sshTabs' # <<>> => shown'.conn # None
    BY <1>1, <1>6, ShownTerminalsClosed DEF IInv
  <1>8. ShownTabOpen => shown'.tab = None \/ In(shown'.tab, sshTabs')
    <2>1. \A t : In(t, sshTabs') <=> In(t, sshTabs) /\ t \in Tab \ closed
      BY <1>6, WithoutTabs DEF IInv, TypeOK
    <2>2. In(shown.tab, sshTabs) => shown.tab \in Tab
      BY SshConn DEF IInv
    <2> QED BY <1>7, <2>1, <2>2 DEF ShownTabOpen
  <1> QED BY <1>2, <1>3, <1>4, <1>5, <1>7, <1>8, NewShown DEF IInv, TypeOK

LEMMA closeLocalTerminalTabsKeeps ==
    ASSUME IInv, closeLocalTerminalTabs
    PROVE  Good
  <1> DEFINE next(closed) == First(Without(localTabs, closed), None)
             s(closed) == [shown EXCEPT !.local = next(closed)]
  <1>1. localTabs \in Seq(Tab)
    BY DEF IInv, TypeOK, TermTypeOK
  <1>2. PICK closed \in SUBSET Tab :
            /\ \A t \in closed : In(t, localTabs)
            /\ CloseTabs(closed)
            /\ shown' \in {shown, s(closed), [s(closed) EXCEPT !.mode = "ssh"],
                           [s(closed) EXCEPT !.home = TRUE, !.mode = "home"]}
    <2>1. PICK i \in DOMAIN localTabs :
              \E js \in {{i}, DOMAIN localTabs \ {i}, {j \in DOMAIN localTabs : j > i}} \ {{}} :
                LET closed == {localTabs[j] : j \in js} IN
                /\ CloseTabs(closed)
                /\ shown' = CASE shown.local \notin closed -> shown
                              [] shown.local \in closed /\ next(closed) # None -> s(closed)
                              [] shown.local \in closed /\ next(closed) = None /\ sshTabs = <<>>
                                 /\ files = <<>> ->
                                    [s(closed) EXCEPT !.home = TRUE, !.mode = "home"]
                              [] shown.local \in closed /\ next(closed) = None
                                 /\ sshTabs # <<>> -> [s(closed) EXCEPT !.mode = "ssh"]
                              [] OTHER -> s(closed)
      BY DEF closeLocalTerminalTabs
    <2> HIDE DEF s, next
    <2>2. PICK js \in SUBSET DOMAIN localTabs :
              LET closed == {localTabs[j] : j \in js} IN
              /\ CloseTabs(closed)
              /\ shown' \in {shown, s(closed), [s(closed) EXCEPT !.mode = "ssh"],
                             [s(closed) EXCEPT !.home = TRUE, !.mode = "home"]}
      BY <2>1
    <2>3. {localTabs[j] : j \in js} \in SUBSET Tab
      BY <1>1
    <2>4. \A t \in {localTabs[j] : j \in js} : In(t, localTabs)
      BY DEF In
    <2> QED BY <2>2, <2>3, <2>4
  <1>3. next(closed) \in Tab \cup {None}
    <2>1. Without(localTabs, closed) \in Seq(Tab)
      BY <1>1, OnlyList DEF Without
    <2> QED BY <2>1, FirstTab
  <1>4. shown' \in Shown /\ shown'.tab = shown.tab /\ shown'.conn = shown.conn
    <2> HIDE DEF next
    <2>1. shown \in Shown
      BY DEF IInv, TypeOK
    <2> QED BY <1>2, <1>3, <2>1 DEF Shown
  <1>5. TermInv'
    BY <1>2, CloseTabsKeeps DEF IInv
  <1>6. FileTypeOK' /\ Calls'
    BY FilesFrame DEF IInv, TypeOK, closeLocalTerminalTabs
  <1>7. Asks
    BY SameFileTabs DEF closeLocalTerminalTabs, fileVars
  <1>8. budget' \in Nat \X Nat \X Nat /\ UNCHANGED <<pendingSessions, profiles, removal>>
    BY Spends DEF closeLocalTerminalTabs, Rest
  <1>9. sshTabs' = Without(sshTabs, closed)
    BY <1>2 DEF CloseTabs
  <1>10. /\ \A t : In(t, sshTabs') <=> In(t, sshTabs) /\ t \in Tab \ closed
         /\ sshTabs' # <<>> => sshTabs # <<>>
    BY <1>9, WithoutTabs DEF IInv, TypeOK
  <1>11. \A t \in closed : ~In(t, sshTabs)
    BY <1>2 DEF IInv, TermInv, Placed
  <1>12. In(shown.tab, sshTabs) => In(shown.tab, sshTabs')
    BY <1>10, <1>11, SshConn DEF IInv
  <1> QED BY <1>4, <1>5, <1>6, <1>7, <1>8, <1>10, <1>12, NewShown
          DEF IInv, TypeOK, SomeConn, ShownTabOpen

-----------------------------------------------------------------------------
(* The user at the files.                                                  *)

(* The terminals stay, and what is shown follows them.                      *)
LEMMA FilesOnly ==
    ASSUME IInv, UNCHANGED termVars, FileTypeOK', Calls', Asks,
           budget' \in Nat \X Nat \X Nat, UNCHANGED <<pendingSessions, profiles, removal>>,
           \/ Follows(shown, shown') /\ (sshTabs # <<>> => shown'.conn # None)
           \/ shown' \in Shown /\ shown'.tab = shown.tab /\ shown'.conn = shown.conn
    PROVE  Good
  <1>1. TermInv' /\ sshTabs' = sshTabs
    BY TermFrame DEF IInv, termVars
  <1>2. /\ shown' \in Shown /\ (sshTabs # <<>> => shown'.conn # None)
        /\ shown'.tab = shown.tab \/ In(shown'.tab, sshTabs)
    BY DEF Follows, IInv, SomeConn
  <1> QED BY <1>1, <1>2, NewShown DEF IInv, TypeOK, ShownTabOpen

LEMMA openRemoteFileKeeps ==
    ASSUME IInv, NEW f \in File, openRemoteFile(f)
    PROVE  Good
  <1>1. FileTypeOK' /\ Calls' /\ Asks
    <2>1. CASE UNCHANGED fileVars
      BY <2>1, FilesFrame, SameFileTabs DEF IInv, TypeOK, fileVars
    <2>2. ASSUME NEW k \in Call, OpenFile(f, k)
          PROVE  FileTypeOK' /\ Calls' /\ Asks
      <3>1. FileTypeOK' /\ Calls'
        BY <2>2, OpenFileKeeps DEF IInv, TypeOK
      <3>2. files' = Append(files, f) /\ files \in Seq(File)
        BY <2>2 DEF OpenFile, IInv, TypeOK, FileTypeOK
      <3>3. \A g : g \in FileTabs' <=> In(g, files')
        BY DEF FileTabs, In
      <3>4. FileTabs \subseteq FileTabs'
        BY <3>2, <3>3, AppendIn, TabIsFile DEF IInv, TypeOK
      <3> QED BY <3>1, <3>4, SameFiles
    <2> QED BY <2>1, <2>2 DEF openRemoteFile
  <1>2. Follows(shown, shown') /\ shown'.conn # None
    BY ShownFile DEF openRemoteFile, IInv, TypeOK
  <1>3. /\ budget' \in Nat \X Nat \X Nat
        /\ UNCHANGED <<pendingSessions, profiles, removal>> /\ UNCHANGED termVars
    BY Spends DEF openRemoteFile, Rest
  <1> QED BY <1>1, <1>2, <1>3, FilesOnly

LEMMA ActiveFiles ==
    ASSUME IInv
    PROVE  /\ activeRemoteFileTabs \in Seq(File)
           /\ activeRemoteFileTab \in File \cup {Nobody}
  <1>1. activeRemoteFileTabs \in Seq(File)
    BY FilesOfTabs DEF activeRemoteFileTabs, IInv, TypeOK, FileTypeOK
  <1>2. shown.file \in File \cup {Nobody}
    BY DEF IInv, TypeOK, Shown
  <1> QED BY <1>1, <1>2, FirstFile DEF activeRemoteFileTab

LEMMA InEditorKeeps ==
    ASSUME IInv, InEditor
    PROVE  Good
  <1> DEFINE f == activeRemoteFileTab
  <1>1. f \in File
    BY ActiveFiles DEF InEditor
  <1>2. FileTypeOK' /\ Calls' /\ files' = files
    <2>1. FileTypeOK /\ Calls
      BY DEF IInv, TypeOK
    <2>2. CASE Type(f) \/ Discard(f)
      BY <1>1, <2>1, <2>2, TypeKeeps, DiscardKeeps DEF Type, Discard
    <2>3. ASSUME NEW k \in Call, Save(f, k)
          PROVE  FileTypeOK' /\ Calls' /\ files' = files
      BY <1>1, <2>1, <2>3, SaveKeeps DEF Save
    <2>4. ASSUME NEW k \in Call, Reload(f, k)
          PROVE  FileTypeOK' /\ Calls' /\ files' = files
      BY <1>1, <2>1, <2>4, ReloadKeeps DEF Reload
    <2>5. ASSUME NEW h \in File, NEW g \in File, Rename(h, g, shown.file = h)
          PROVE  FileTypeOK' /\ Calls' /\ files' = files
      <3>1. (shown.file = h) \in BOOLEAN
        OBVIOUS
      <3>2. renaming' \in File \X File \X BOOLEAN
        BY <2>5, <3>1 DEF Rename
      <3> QED BY <2>1, <2>5, <3>2, RenamingKeeps DEF Rename
    <2> QED BY <2>2, <2>3, <2>4, <2>5 DEF InEditor
  <1>3. Asks
    BY <1>2, SameFileTabs
  <1>4. /\ budget' \in Nat \X Nat \X Nat
        /\ UNCHANGED <<pendingSessions, profiles, removal>>
        /\ UNCHANGED termVars /\ shown' = shown
    BY Spends DEF InEditor, Rest
  <1> QED BY <1>2, <1>3, <1>4, FilesOnly DEF IInv, TypeOK

LEMMA AnswerConflictKeeps ==
    ASSUME IInv, AnswerConflict
    PROVE  Good
  <1>1. FileTypeOK' /\ Calls' /\ files' = files
    BY SettleConflictKeeps DEF IInv, TypeOK, AnswerConflict, SettleConflict
  <1>2. Asks
    BY <1>1, SameFileTabs
  <1>3. /\ budget' \in Nat \X Nat \X Nat
        /\ UNCHANGED <<pendingSessions, profiles, removal>>
        /\ UNCHANGED termVars /\ shown' = shown
    BY DEF IInv, TypeOK, AnswerConflict, Rest
  <1> QED BY <1>1, <1>2, <1>3, FilesOnly DEF IInv, TypeOK

LEMMA RenameEndsKeeps ==
    ASSUME IInv, NEW f \in File, NEW g \in File, RenameEnds(f, g)
    PROVE  Good
  <1>1. RenameDone(f, g) /\ FileTypeOK' /\ Calls'
    BY RenameDoneKeeps DEF RenameEnds, IInv, TypeOK
  <1>2. Asks
    <2> SUFFICES ASSUME NEW h \in FileTabs, h \notin FileTabs'
                 PROVE  Asked(h)
      BY DEF Asks
    <2>1. PICK i \in DOMAIN files : files[i] = h
      BY DEF FileTabs
    <2>2. files' = [j \in DOMAIN files |-> Swap(files[j], f, g)]
      BY <1>1 DEF RenameDone
    <2>3. Swap(h, f, g) \in FileTabs'
      BY <2>1, <2>2 DEF FileTabs
    <2>4. h = f
      BY <2>3 DEF Swap
    <2>5. renaming # <<>> /\ renaming[1] = f
      BY <1>1 DEF RenameDone
    <2> QED BY <2>4, <2>5 DEF Asked
  <1>3. shown' \in Shown /\ shown'.tab = shown.tab /\ shown'.conn = shown.conn
    BY DEF RenameEnds, IInv, TypeOK, Shown
  <1>4. /\ budget' \in Nat \X Nat \X Nat
        /\ UNCHANGED <<pendingSessions, profiles, removal>> /\ UNCHANGED termVars
    BY DEF RenameEnds, Rest, IInv, TypeOK
  <1> QED BY <1>1, <1>2, <1>3, <1>4, FilesOnly

LEMMA ShownFilesClosed ==
    ASSUME IInv, NEW gone
    PROVE  LET n == ShownAfterFiles(gone) IN
           Follows(shown, n) /\ (sshTabs # <<>> => n.conn # None)
  <1>1. CASE shown.file \in gone /\ In(shown.file, files)
    <2>1. shown.file[1] \in Conn /\ Kept(files, gone) \in Seq(File) /\ shown \in Shown
      BY <1>1, HostConn, KeptTabs, TabIsFile DEF IInv, TypeOK, FileTypeOK
    <2> QED BY <1>1, <2>1, ShownRemoval DEF ShownAfterFiles, IInv
  <1>2. CASE ~(shown.file \in gone /\ In(shown.file, files))
    BY <1>2 DEF ShownAfterFiles, IInv, TypeOK, SomeConn, Follows
  <1> QED BY <1>1, <1>2

(* Tabs are closed about which the user was asked, or that lose nothing.     *)
LEMMA closeRemoteFileTabsNowKeeps ==
    ASSUME IInv, NEW gone, closeRemoteFileTabsNow(gone),
           \A f \in FileTabs : f \in gone /\ page[f].dirty => Asked(f),
           UNCHANGED <<remote, call, renaming, deletion, pendingConflict, texts>>,
           pendingClose' \in File \cup {Nobody}, budget' \in Nat \X Nat \X Nat,
           UNCHANGED termVars, UNCHANGED <<pendingSessions, profiles, removal>>
    PROVE  Good
  <1>1. Drop(gone) /\ shown' = ShownAfterFiles(gone)
    BY DEF closeRemoteFileTabsNow
  <1>2. /\ FileTypeOK' /\ Calls'
        /\ \A f \in FileTabs : f \notin FileTabs' => f \in gone
    BY <1>1, DropKeeps DEF IInv, TypeOK, FileTypeOK
  <1>3. Asks
    BY <1>2 DEF Asks
  <1>4. Follows(shown, shown') /\ (sshTabs # <<>> => shown'.conn # None)
    BY <1>1, ShownFilesClosed
  <1> QED BY <1>2, <1>3, <1>4, FilesOnly

LEMMA closeRemoteFileTabsKeeps ==
    ASSUME IInv, closeRemoteFileTabs
    PROVE  Good
  <1>1. PICK asked \in SUBSET File :
            /\ closeRemoteFileTabsNow({f \in asked : ~page[f].dirty})
            /\ pendingClose' = First(Only(files, {f \in asked : page[f].dirty}), pendingClose)
    <2>1. PICK js \in SUBSET DOMAIN activeRemoteFileTabs :
              LET asked == {activeRemoteFileTabs[j] : j \in js} IN
              /\ closeRemoteFileTabsNow({f \in asked : ~page[f].dirty})
              /\ pendingClose' = First(Only(files, {f \in asked : page[f].dirty}), pendingClose)
      BY DEF closeRemoteFileTabs
    <2>2. {activeRemoteFileTabs[j] : j \in js} \in SUBSET File
      BY ActiveFiles
    <2> QED BY <2>1, <2>2
  <1>2. pendingClose' \in File \cup {Nobody}
    <2>1. pendingClose \in File \cup {Nobody} /\ files \in Seq(File)
      BY DEF IInv, TypeOK, FileTypeOK
    <2>2. Only(files, {f \in asked : page[f].dirty}) \in Seq(File)
      BY <2>1, OnlyList
    <2> QED BY <1>1, <2>1, <2>2, FirstFile
  <1>3. /\ budget' \in Nat \X Nat \X Nat /\ UNCHANGED <<pendingSessions, profiles, removal>>
        /\ UNCHANGED termVars
        /\ UNCHANGED <<remote, call, renaming, deletion, pendingConflict, texts>>
    BY Spends DEF closeRemoteFileTabs, Rest
  <1> QED BY <1>1, <1>2, <1>3, closeRemoteFileTabsNowKeeps

LEMMA closeSavedRemoteFileTabsForConnectionKeeps ==
    ASSUME IInv, closeSavedRemoteFileTabsForConnection
    PROVE  Good
  <1>1. /\ budget' \in Nat \X Nat \X Nat /\ UNCHANGED <<pendingSessions, profiles, removal>>
        /\ UNCHANGED termVars /\ pendingClose' \in File \cup {Nobody}
        /\ UNCHANGED <<remote, call, renaming, deletion, pendingConflict, texts>>
    BY Spends DEF closeSavedRemoteFileTabsForConnection, Rest, IInv, TypeOK, FileTypeOK
  <1> QED BY <1>1, closeRemoteFileTabsNowKeeps DEF closeSavedRemoteFileTabsForConnection

LEMMA AnswerCloseKeeps ==
    ASSUME IInv, AnswerClose
    PROVE  Good
  <1>1. /\ budget' \in Nat \X Nat \X Nat /\ UNCHANGED <<pendingSessions, profiles, removal>>
        /\ UNCHANGED termVars /\ pendingClose' \in File \cup {Nobody}
        /\ UNCHANGED <<remote, call, renaming, deletion, pendingConflict, texts>>
    BY DEF AnswerClose, Rest, IInv, TypeOK
  <1>2. CASE closeRemoteFileTabsNow({pendingClose})
    <2>1. \A f \in FileTabs : f \in {pendingClose} => Asked(f)
      BY DEF Asked
    <2> QED BY <1>1, <1>2, <2>1, closeRemoteFileTabsNowKeeps
  <1>3. CASE UNCHANGED <<files, page, astray, shown>>
    <2>1. FileTypeOK' /\ Calls'
      BY <1>1, <1>3 DEF IInv, TypeOK, FileTypeOK, Calls
    <2>2. Asks
      BY <1>3, SameFileTabs
    <2> QED BY <1>1, <1>3, <2>1, <2>2, FilesOnly DEF IInv, TypeOK
  <1> QED BY <1>2, <1>3 DEF AnswerClose

LEMMA DeleteFilesKeeps ==
    ASSUME IInv, DeleteFiles
    PROVE  Good
  <1>1. PICK target \in SUBSET File : Delete(target)
    BY DEF DeleteFiles
  <1>2. FileTypeOK' /\ Calls' /\ files' = files
    BY <1>1, DeleteKeeps DEF IInv, TypeOK, Delete
  <1>3. Asks
    BY <1>2, SameFileTabs
  <1>4. /\ budget' \in Nat \X Nat \X Nat
        /\ UNCHANGED <<pendingSessions, profiles, removal>>
        /\ UNCHANGED termVars /\ shown' = shown
    BY Spends DEF DeleteFiles, Rest
  <1> QED BY <1>2, <1>3, <1>4, FilesOnly DEF IInv, TypeOK

LEMMA DeleteEndsKeeps ==
    ASSUME IInv, DeleteEnds
    PROVE  Good
  <1> DEFINE left == Kept(deletion.files, deletion.target)
  <1>1. /\ left \in Seq(File)
        /\ \A f \in File : In(f, left) <=> In(f, deletion.files) /\ f \notin deletion.target
    BY KeptTabs DEF IInv, TypeOK, FileTypeOK
  <1>2. FileTypeOK' /\ Calls'
    BY DeletedKeeps DEF IInv, TypeOK, DeleteEnds
  <1>3. files' = left /\ deletion.target # {}
    BY DEF DeleteEnds, Deleted
  <1>4. shown' = IF In(shown.file, deletion.files) /\ ~In(shown.file, left)
                 THEN activateRemoteFileFallbackAfterRemoval(shown, left, shown.conn) ELSE shown
    BY DEF DeleteEnds
  <1> HIDE DEF left
  <1>5. Asks
    <2> SUFFICES ASSUME NEW f \in FileTabs, f \notin FileTabs'
                 PROVE  Asked(f)
      BY DEF Asks
    <2>1. f \in File
      BY TabIsFile DEF IInv, TypeOK
    <2>2. ~In(f, files')
      BY DEF FileTabs, In
    <2> QED BY <1>1, <1>3, <2>1, <2>2 DEF Asked, MovedUnderDeletion
  <1>6. Follows(shown, shown') /\ (sshTabs # <<>> => shown'.conn # None)
    <2>1. shown \in Shown /\ shown.conn \in Conn \cup {None}
      BY DEF IInv, TypeOK, Shown
    <2> QED BY <1>1, <1>4, <2>1, ShownRemoval DEF IInv, SomeConn, Follows
  <1>7. /\ budget' \in Nat \X Nat \X Nat
        /\ UNCHANGED <<pendingSessions, profiles, removal>> /\ UNCHANGED termVars
    BY DEF DeleteEnds, Rest, IInv, TypeOK
  <1> QED BY <1>2, <1>5, <1>6, <1>7, FilesOnly

-----------------------------------------------------------------------------
(* Closing and deleting connections.                                       *)

LEMMA ShownCleared ==
    ASSUME NEW s \in Shown, NEW left
    PROVE  /\ ClearedFile(s, left) \in Shown /\ ClearedFile(s, left).tab = s.tab
           /\ ClearedFile(s, left).conn = s.conn
  BY DEF ClearedFile, Shown

LEMMA closeNowKeeps ==
    ASSUME IInv, NEW conns \in SUBSET Conn, closeNow(conns),
           budget' \in Nat \X Nat \X Nat, pendingSessions' \subseteq Conn,
           UNCHANGED <<profiles, removal>>,
           \A f \in FileTabs : f[1] \in conns /\ page[f].dirty => Asked(f)
    PROVE  Good
  <1> DEFINE left == Without(sshTabs, TabsOf(conns))
             rest == Kept(files, {f \in File : f[1] \in conns})
             now == Forget(ClearedFile(shown, rest), conns)
  <1>1. /\ clearRemoteFiles(conns, files, page) /\ CloseTabs(TabsOf(conns))
        /\ shown' = AfterClosing(conns, shown, now, left, rest)
    BY DEF closeNow, AfterClosing
  <1>2. /\ FileTypeOK' /\ Calls'
        /\ \A f \in FileTabs : f \notin FileTabs' => f[1] \in conns \/ ~In(f, files)
    BY <1>1, ClearKeeps DEF IInv, TypeOK, FileTypeOK
  <1>3. Asks
    BY <1>2, TabIsFile DEF Asks, IInv, TypeOK
  <1>4. TabsOf(conns) \in SUBSET Tab
    BY DEF TabsOf, Open, IInv, TypeOK, TermTypeOK
  <1>5. TermInv' /\ sshTabs' = left
    BY <1>1, <1>4, CloseTabsKeeps DEF IInv, CloseTabs
  <1>6. /\ left \in Seq(Tab)
        /\ \A t : In(t, left) <=> In(t, sshTabs) /\ t \in Tab \ TabsOf(conns)
        /\ left # <<>> => sshTabs # <<>>
    BY WithoutTabs DEF IInv, TypeOK
  <1>7. rest \in Seq(File)
    BY KeptTabs DEF IInv, TypeOK, FileTypeOK
  <1>8. now \in Shown /\ now.tab = shown.tab /\ now.conn = shown.conn /\ shown \in Shown
    BY ShownCleared, ShownForget DEF IInv, TypeOK
  <1> HIDE DEF left, rest, now
  <1>9. /\ shown' \in Shown
        /\ \/ shown'.tab = None \/ In(shown'.tab, left)
           \/ shown'.tab = now.tab /\ shown.conn \notin conns
        /\ left # <<>> /\ now.conn # None => shown'.conn # None
    <2>1. TypeOK /\ TermInv /\ OpenOnes(left)
      BY <1>6 DEF IInv, OpenOnes
    <2>2. left \in Seq(Tab)
      BY <1>6
    <2>3. Leaves(conns, shown, now, left, shown')
      BY <1>1, <1>7, <1>8, <2>1, <2>2, ShownConnectionsClosed
    <2> QED BY <2>3 DEF Leaves
  <1>10. ShownTabOpen /\ OfOnePiece => shown'.tab = None \/ In(shown'.tab, left)
    <2> SUFFICES ASSUME ShownTabOpen, OfOnePiece, shown'.tab = shown.tab,
                        shown.tab # None, shown.conn \notin conns
                 PROVE  In(shown.tab, left)
      BY <1>8, <1>9
    <2>1. shown.tab \notin TabsOf(conns)
      BY DEF OfOnePiece, TabsOf
    <2>2. In(shown.tab, sshTabs) /\ shown.tab \in Tab
      BY SshConn DEF ShownTabOpen, IInv
    <2> QED BY <1>6, <2>1, <2>2
  <1>11. left # <<>> => shown'.conn # None
    BY <1>6, <1>8, <1>9 DEF IInv, SomeConn
  <1> QED BY <1>2, <1>3, <1>5, <1>9, <1>10, <1>11, NewShown DEF IInv, TypeOK

LEMMA closeConnectionSessionsKeeps ==
    ASSUME IInv, closeConnectionSessions
    PROVE  Good
  <1>1. PICK conns \in SUBSET Conn :
            IF \E f \in FileTabs : f[1] \in conns /\ page[f].dirty
            THEN pendingSessions' = conns /\ UNCHANGED <<termVars, fileVars, shown>>
            ELSE closeNow(conns) /\ UNCHANGED pendingSessions
    BY DEF closeConnectionSessions
  <1>2. budget' \in Nat \X Nat \X Nat /\ UNCHANGED <<profiles, removal>>
    BY Spends DEF closeConnectionSessions
  <1>3. CASE \E f \in FileTabs : f[1] \in conns /\ page[f].dirty
    <2>1. pendingSessions' = conns /\ UNCHANGED <<termVars, fileVars, shown>>
      BY <1>1, <1>3
    <2>2. TermInv' /\ sshTabs' = sshTabs
      BY <2>1, TermFrame DEF IInv, termVars
    <2>3. FileTypeOK' /\ Calls' /\ Asks
      BY <2>1, FilesFrame, SameFileTabs DEF IInv, TypeOK, fileVars
    <2> QED BY <1>2, <2>1, <2>2, <2>3, SameShown DEF IInv, TypeOK
  <1>4. CASE ~\E f \in FileTabs : f[1] \in conns /\ page[f].dirty
    BY <1>1, <1>2, <1>4, closeNowKeeps DEF IInv, TypeOK
  <1> QED BY <1>3, <1>4

LEMMA AnswerCloseSessionsKeeps ==
    ASSUME IInv, AnswerCloseSessions
    PROVE  Good
  <1>1. /\ budget' \in Nat \X Nat \X Nat /\ UNCHANGED <<profiles, removal>>
        /\ pendingSessions \in SUBSET Conn /\ pendingSessions' \subseteq Conn
    BY DEF AnswerCloseSessions, IInv, TypeOK
  <1>2. CASE closeNow(pendingSessions)
    <2>1. \A f \in FileTabs : f[1] \in pendingSessions => Asked(f)
      BY DEF Asked
    <2> QED BY <1>1, <1>2, <2>1, closeNowKeeps
  <1>3. CASE UNCHANGED <<termVars, fileVars, shown>>
    <2>1. TermInv' /\ sshTabs' = sshTabs
      BY <1>3, TermFrame DEF IInv, termVars
    <2>2. FileTypeOK' /\ Calls' /\ Asks
      BY <1>3, FilesFrame, SameFileTabs DEF IInv, TypeOK, fileVars
    <2> QED BY <1>1, <1>3, <2>1, <2>2, SameShown DEF IInv, TypeOK
  <1> QED BY <1>2, <1>3 DEF AnswerCloseSessions

LEMMA deleteConnectionKeeps ==
    ASSUME IInv, NEW c \in Conn, deleteConnection(c)
    PROVE  Good
  <1>1. TermInv' /\ sshTabs' = sshTabs
    BY TermFrame DEF IInv, deleteConnection, termVars
  <1>2. FileTypeOK' /\ Calls' /\ Asks
    BY FilesFrame, SameFileTabs DEF IInv, TypeOK, fileVars, deleteConnection
  <1>3. /\ budget' \in Nat \X Nat \X Nat /\ UNCHANGED <<shown, pendingSessions, profiles>>
        /\ removal'.conn \in Conn /\ removal'.shown = shown
        /\ removal'.files = files /\ removal'.page = page
    BY Spends DEF deleteConnection
  <1> QED BY <1>1, <1>2, <1>3, SameShown DEF IInv, TypeOK

LEMMA ConnectionDeletedKeeps ==
    ASSUME IInv, ConnectionDeleted
    PROVE  Good
  <1> DEFINE c == removal.conn
             left == Without(sshTabs, TabsOf({c}))
             rest == Kept(removal.files, {f \in File : f[1] = c})
             cleared == IF In(removal.shown.file, rest) THEN shown
                        ELSE [shown EXCEPT !.file = Nobody]
             now == Forget(cleared, {c})
             next == AfterDeleting({c}, removal.shown, now, left, rest)
  <1>1. /\ c # None
        /\ clearRemoteFiles({c}, removal.files, removal.page) /\ CloseTabs(TabsOf({c}))
        /\ shown' = IF removal.shown.conn # c /\ ~In(removal.shown.tab, left)
                    THEN [next EXCEPT !.tab = First(left, None)] ELSE next
        /\ removal' = NoRemoval /\ profiles' = profiles \ {c}
        /\ UNCHANGED <<pendingSessions, budget>>
    BY DEF ConnectionDeleted, AfterDeleting
  <1>2. /\ removal.shown \in Shown /\ removal.files \in Seq(File)
        /\ removal.page \in [File -> Page] /\ c \in Conn /\ shown \in Shown
    BY <1>1 DEF IInv, TypeOK
  <1>3. /\ FileTypeOK' /\ Calls'
        /\ \A f \in FileTabs : f \notin FileTabs' => f[1] \in {c} \/ ~In(f, removal.files)
    BY <1>1, <1>2, ClearKeeps DEF IInv, TypeOK
  <1>4. Asks
    BY <1>1, <1>3 DEF Asks, Asked, MovedUnderDeletion
  <1>5. TabsOf({c}) \in SUBSET Tab
    BY DEF TabsOf, Open, IInv, TypeOK, TermTypeOK
  <1>6. TermInv' /\ sshTabs' = left
    BY <1>1, <1>5, CloseTabsKeeps DEF IInv, CloseTabs
  <1>7. /\ left \in Seq(Tab)
        /\ \A t : In(t, left) <=> In(t, sshTabs) /\ t \in Tab \ TabsOf({c})
        /\ left # <<>> => sshTabs # <<>>
    BY WithoutTabs DEF IInv, TypeOK
  <1>8. rest \in Seq(File)
    BY <1>2, KeptTabs
  <1>9. now \in Shown /\ now.tab = shown.tab /\ now.conn = shown.conn
    <2>1. cleared \in Shown /\ cleared.tab = shown.tab /\ cleared.conn = shown.conn
      BY <1>2 DEF Shown
    <2> QED BY <2>1, ShownForget
  <1>10. First(left, None) \in Tab \cup {None}
         /\ (First(left, None) = None \/ In(First(left, None), left))
    BY <1>7, FirstTab
  <1> HIDE DEF c, left, rest, now, next
  <1>11. /\ next \in Shown
         /\ \/ next.tab = None \/ In(next.tab, left)
            \/ next.tab = now.tab /\ removal.shown.conn # c
         /\ left # <<>> /\ now.conn # None => next.conn # None
    <2>1. TypeOK /\ TermInv /\ OpenOnes(left)
      BY <1>7 DEF IInv, OpenOnes
    <2>2. left \in Seq(Tab) /\ removal.shown \in Shown
      BY <1>2, <1>7
    <2>3. next = AfterDeleting({c}, removal.shown, now, left, rest)
      BY DEF next
    <2>4. Leaves({c}, removal.shown, now, left, next)
      BY <1>8, <1>9, <2>1, <2>2, <2>3, ShownConnectionsClosed
    <2> QED BY <2>4 DEF Leaves
  <1>12. LET n == [next EXCEPT !.tab = First(left, None)] IN
         n \in Shown /\ n.tab = First(left, None) /\ n.conn = next.conn
    BY <1>10, <1>11 DEF Shown
  <1>13. shown' \in Shown /\ (left # <<>> => shown'.conn # None)
    <2>1. left # <<>> => shown.conn # None
      BY <1>7 DEF IInv, SomeConn
    <2> QED BY <1>1, <1>9, <1>11, <1>12, <2>1
  <1>14. ShownTabOpen /\ OfOnePiece => shown'.tab = None \/ In(shown'.tab, left)
    <2> SUFFICES ASSUME OfOnePiece
                 PROVE  shown'.tab = None \/ In(shown'.tab, left)
      OBVIOUS
    <2>1. removal.shown.tab = shown.tab
      BY <1>1 DEF OfOnePiece, c
    <2>2. CASE removal.shown.conn # c /\ ~In(removal.shown.tab, left)
      BY <1>1, <1>10, <1>12, <2>2
    <2>3. CASE ~(removal.shown.conn # c /\ ~In(removal.shown.tab, left))
      BY <1>1, <1>9, <1>11, <2>1, <2>3
    <2> QED BY <2>2, <2>3
  <1>15. /\ budget' \in Nat \X Nat \X Nat /\ pendingSessions' \subseteq Conn
         /\ profiles' \subseteq Conn /\ removal' = NoRemoval
    BY <1>1 DEF IInv, TypeOK
  <1> QED BY <1>3, <1>4, <1>6, <1>13, <1>14, <1>15, NewShown

LEMMA DeletionRefusedKeeps ==
    ASSUME IInv, DeletionRefused, budget' \in Nat \X Nat \X Nat
    PROVE  Good
  <1>1. /\ removal' = NoRemoval
        /\ UNCHANGED <<termVars, fileVars, shown, pendingSessions, profiles>>
    BY DEF DeletionRefused
  <1>2. TermInv' /\ sshTabs' = sshTabs
    BY <1>1, TermFrame DEF IInv, termVars
  <1>3. FileTypeOK' /\ Calls' /\ Asks
    BY <1>1, FilesFrame, SameFileTabs DEF IInv, TypeOK, fileVars
  <1> QED BY <1>1, <1>2, <1>3, SameShown DEF IInv, TypeOK

-----------------------------------------------------------------------------
(* Every step.                                                             *)

LEMMA UserKeeps ==
    ASSUME IInv, User
    PROVE  Good
  <1>1. ASSUME NEW t \in Tab, NEW r \in Request,
               \/ \E c \in Conn : StartConnectionStep(t, r, c)
               \/ openTerminalInConnection(t, r) \/ openLocalTerminalByProfile(t, r)
               \/ UserOnTab(t, r)
        PROVE  Good
    BY <1>1, StartConnectionStepKeeps, openTerminalInConnectionKeeps,
       openLocalTerminalByProfileKeeps, UserOnTabKeeps
  <1>2. CASE Activate \/ closeTerminalTabs \/ closeLocalTerminalTabs
    BY <1>2, ActivateKeeps, closeTerminalTabsKeeps, closeLocalTerminalTabsKeeps
  <1>3. ASSUME NEW f \in File, openRemoteFile(f)
        PROVE  Good
    BY <1>3, openRemoteFileKeeps
  <1>4. CASE InEditor \/ AnswerConflict \/ closeRemoteFileTabs
             \/ closeSavedRemoteFileTabsForConnection \/ AnswerClose \/ DeleteFiles
    BY <1>4, InEditorKeeps, AnswerConflictKeeps, closeRemoteFileTabsKeeps,
       closeSavedRemoteFileTabsForConnectionKeeps, AnswerCloseKeeps, DeleteFilesKeeps
  <1>5. CASE closeConnectionSessions \/ AnswerCloseSessions
    BY <1>5, closeConnectionSessionsKeeps, AnswerCloseSessionsKeeps
  <1>6. ASSUME NEW c \in Conn, deleteConnection(c)
        PROVE  Good
    BY <1>6, deleteConnectionKeeps
  <1> QED BY <1>1, <1>2, <1>3, <1>4, <1>5, <1>6 DEF User

(* What the terminals do without the user, and what befalls them.           *)
LEMMA TermOnly ==
    ASSUME IInv, TermSteps \/ TermFaults, budget' \in Nat \X Nat \X Nat,
           UNCHANGED <<fileVars, shown, pendingSessions, profiles, removal>>
    PROVE  Good
  <1>1. TermInv' /\ sshTabs' = sshTabs
    BY TermStepsKeep DEF IInv
  <1>2. FileTypeOK' /\ Calls' /\ Asks
    BY FilesFrame, SameFileTabs DEF IInv, TypeOK, fileVars
  <1> QED BY <1>1, <1>2, SameShown DEF IInv, TypeOK

LEMMA FileOnly ==
    ASSUME IInv, FileSteps \/ FileFaults, budget' \in Nat \X Nat \X Nat,
           UNCHANGED <<termVars, shown, pendingSessions, profiles, removal>>
    PROVE  Good
  <1>1. TermInv' /\ sshTabs' = sshTabs
    BY TermFrame DEF IInv, termVars
  <1>2. FileTypeOK' /\ Calls' /\ Asks
    BY FileStepsKeep, SameFileTabs DEF IInv, TypeOK
  <1> QED BY <1>1, <1>2, SameShown DEF IInv, TypeOK

LEMMA NextKeeps ==
    ASSUME IInv, Next
    PROVE  Good
  <1>1. CASE User
    BY <1>1, UserKeeps
  <1>2. CASE Steps
    <2>1. budget \in Nat \X Nat \X Nat
      BY DEF IInv, TypeOK
    <2>2. CASE TermSteps
               /\ UNCHANGED <<fileVars, shown, pendingSessions, profiles, removal, budget>>
      BY <2>1, <2>2, TermOnly
    <2>3. CASE FileSteps
               /\ UNCHANGED <<termVars, shown, pendingSessions, profiles, removal, budget>>
      BY <2>1, <2>3, FileOnly
    <2>4. ASSUME NEW f \in File, NEW g \in File, RenameEnds(f, g)
          PROVE  Good
      BY <2>4, RenameEndsKeeps
    <2>5. CASE DeleteEnds \/ ConnectionDeleted
      BY <2>5, DeleteEndsKeeps, ConnectionDeletedKeeps
    <2> QED BY <1>2, <2>2, <2>3, <2>4, <2>5 DEF Steps
  <1>3. CASE Faults
    <2>1. budget' \in Nat \X Nat \X Nat
      BY <1>3, BudgetType DEF Faults, IInv, TypeOK
    <2>2. CASE TermFaults /\ UNCHANGED <<fileVars, shown, pendingSessions, profiles, removal>>
      BY <2>1, <2>2, TermOnly
    <2>3. CASE FileFaults /\ UNCHANGED <<termVars, shown, pendingSessions, profiles, removal>>
      BY <2>1, <2>3, FileOnly
    <2>4. CASE DeletionRefused
      BY <2>1, <2>4, DeletionRefusedKeeps
    <2> QED BY <1>3, <2>2, <2>3, <2>4 DEF Faults
  <1> QED BY <1>1, <1>2, <1>3 DEF Next

LEMMA NoStepKeeps ==
    ASSUME IInv, UNCHANGED vars
    PROVE  Good
  <1>1. TermInv' /\ sshTabs' = sshTabs
    BY TermFrame DEF IInv, vars, termVars
  <1>2. FileTypeOK' /\ Calls' /\ Asks
    BY FilesFrame, SameFileTabs DEF IInv, TypeOK, vars, fileVars
  <1>3. /\ UNCHANGED <<shown, pendingSessions, profiles, removal>>
        /\ budget' \in Nat \X Nat \X Nat
    BY DEF vars, IInv, TypeOK
  <1> QED BY <1>1, <1>2, <1>3, SameShown DEF IInv, TypeOK

LEMMA Begins ==
    ASSUME Init
    PROVE  IInv
  <1>1. TermInv /\ FileTypeOK /\ Calls
    BY TermBegins, FilesBegin DEF Init
  <1>2. Blank \in Shown
    BY DEF Blank, Shown
  <1>3. /\ removal.conn \in Conn \cup {None} /\ removal.shown \in Shown
        /\ removal.files \in Seq(File) /\ removal.page \in [File -> Page]
    BY <1>2, EditorFacts DEF Init, NoRemoval
  <1>4. budget \in Nat \X Nat \X Nat
    BY WorkspaceAssumption DEF Init
  <1>5. TypeOK
    BY <1>1, <1>2, <1>3, <1>4 DEF Init, TypeOK, TermInv
  <1>6. SomeConn
    BY DEF Init, TermInit, SomeConn
  <1> QED BY <1>1, <1>5, <1>6 DEF IInv

-----------------------------------------------------------------------------
(* What holds of the workspace, for every set of connections, hosts and      *)
(* paths, and every number of terminals, calls and acts.                    *)

(* The inductive invariant: the types, the order of the terminals and their  *)
(* sessions, the calls in flight, and the connection that is shown while     *)
(* there are terminals.                                                     *)
THEOREM Invariance == Spec => []IInv
  <1>1. IInv /\ [Next]_vars => IInv'
    BY NextKeeps, NoStepKeeps DEF Good
  <1> QED BY <1>1, Begins, PTL DEF Spec

(* Every variable of the window holds what its type says, whatever order     *)
(* the answers of the backend and the acts of the user come in.              *)
THEOREM TypeCorrect == Spec => []TypeOK
  <1>1. IInv => TypeOK
    BY DEF IInv
  <1> QED BY <1>1, Invariance, PTL

(* A session that runs is of an open tab, or a call that will give it to one *)
(* or close it is in flight: no order of closing tabs and late answers of    *)
(* the backend (TerminalPanel's prepare, connect and reconnect) leaves a     *)
(* session that nobody holds.                                               *)
THEOREM NoSessionOrphaned == Spec => []NoOrphanSession
  <1>1. IInv => NoOrphanSession
    BY DEF IInv, TermInv
  <1> QED BY <1>1, Invariance, PTL

(* No tab has two connection attempts under way at once: retries, answered   *)
(* prompts and trusted keys start one only after the last has ended.         *)
THEOREM AlwaysOneAttempt == Spec => []OneAttempt
  <1>1. IInv => OneAttempt
    BY DEF IInv, TermInv
  <1> QED BY <1>1, Invariance, PTL

(* A panel that says "disconnected" is right: the session of its tab has     *)
(* ended, and is not the new one of a reconnection that a late event of the  *)
(* old one is taken for.                                                    *)
THEOREM DisconnectedAlwaysEnded == Spec => []DisconnectedIsEnded
  <1>1. IInv => DisconnectedIsEnded
    BY TermInvDisconnected DEF IInv
  <1> QED BY <1>1, Invariance, PTL

(* A step does not leave the window with a terminal that is closed: what     *)
(* closeTerminalTabs, closeConnectionSessions and deleteConnection show next *)
(* is open, where the terminal and the connection that were shown belong     *)
(* together.                                                                *)
THEOREM ShownAlwaysStaysOpen == Spec => ShownStaysOpen
  <1>1. IInv /\ [Next]_vars => [ShownTabOpen /\ OfOnePiece => ShownTabOpen']_vars
    BY NextKeeps DEF Good, Stays
  <1> QED BY <1>1, Invariance, PTL DEF Spec, ShownStaysOpen

(* A file tab with unsaved changes is dropped only after the user was asked, *)
(* or by the end of a deletion or rename that was under way.                 *)
THEOREM DirtyAlwaysAsked == Spec => DirtyIsAsked
  <1>1. IInv /\ [Next]_vars =>
            [\A f \in FileTabs : page[f].dirty /\ f \notin FileTabs' => Asked(f)]_vars
    BY NextKeeps DEF Good, Asks
  <1> QED BY <1>1, Invariance, PTL DEF Spec, DirtyIsAsked
=============================================================================
