----------------------------- MODULE Workspace ------------------------------
(***************************************************************************)
(* The workspace of the window (WorkspaceShell.tsx): the terminals of       *)
(* TerminalTabs and the file tabs of RemoteEditor under one roof, what is    *)
(* shown of them, and what the user does that touches both: opening a file   *)
(* over a terminal, closing terminals, files and whole connections,          *)
(* deleting a connection.                                                   *)
(*                                                                         *)
(* A function that closes things also decides what is shown next; `shown'    *)
(* holds the states it sets.  Remote desktops are not modelled: their lists  *)
(* are empty wherever the code looks at them.                               *)
(***************************************************************************)
EXTENDS TerminalTabs, RemoteEditor

CONSTANTS
    Budgets     \* what may happen: the numbers of acts on terminals, of acts on
                \* files, and of faults and writes of others

ASSUME WorkspaceAssumption ==
    Host \subseteq Conn /\ Budgets \subseteq Nat \X Nat \X Nat

VARIABLES
    shown,              \* what is shown, see Shown
    pendingSessions,    \* pendingConnectionSessionCloseIds
    profiles,           \* the saved connections there are
    removal,            \* the deletion of a connection in flight, and what was there when
                        \* it was asked for
    budget              \* bookkeeping: what is left of the budget

vars == <<termVars, fileVars, shown, pendingSessions, profiles, removal, budget>>

(* The states homeActive, activeWorkspaceMode, activeConnectionId,          *)
(* activeTabId, activeLocalTerminalTabId, activeRemoteFileTabId and         *)
(* activeTabByConnectionId.                                                 *)
Shown ==
    [home : BOOLEAN, mode : {"home", "ssh", "local"}, conn : Conn \cup {None},
     tab : Tab \cup {None}, local : Tab \cup {None}, file : File \cup {Nobody},
     remembered : [Conn -> Tab \cup {None}]]

Blank == [home |-> TRUE, mode |-> "home", conn |-> None, tab |-> None, local |-> None,
          file |-> Nobody, remembered |-> [c \in Conn |-> None]]

NoRemoval == [conn |-> None, shown |-> Blank, files |-> <<>>, page |-> NoDeletion.page]

(* What every variable holds.                                               *)
TypeOK ==
    /\ TermTypeOK /\ FileTypeOK
    /\ shown \in Shown
    /\ pendingSessions \subseteq Conn /\ profiles \subseteq Conn
    /\ removal.conn \in Conn \cup {None} /\ removal.shown \in Shown
    /\ removal.files \in Seq(File) /\ removal.page \in [File -> Page]
    /\ budget \in Nat \X Nat \X Nat

Init ==
    /\ TermInit /\ FileInit
    /\ shown = Blank
    /\ pendingSessions = {}
    /\ profiles = Conn
    /\ removal = NoRemoval
    /\ budget \in Budgets

-----------------------------------------------------------------------------
(* What is shown.                                                          *)

OfConn(order, conns) == Only(order, {t \in Tab : tab[t].conn \in conns})
FilesOf(order, conns) == Only(order, {f \in File : f[1] \in conns})

(* A wrong variant: the connection is remembered where its tab should be. *)
RemembersConnection(s, t) ==
    [s EXCEPT !.home = FALSE, !.mode = "ssh", !.conn = tab[t].conn, !.tab = t,
              !.remembered[tab[t].conn] = tab[t].conn]

activateTerminalTab(s, t) ==
    [s EXCEPT !.home = FALSE, !.mode = "ssh", !.conn = tab[t].conn, !.tab = t,
              !.remembered[tab[t].conn] = t]

activateLocalTerminalTab(s, t) ==
    [s EXCEPT !.home = FALSE, !.mode = "local", !.local = t]

(* The terminal the user saw last on the connection, or its first. *)
preferredTabForConnection(s, c) ==
    IF In(s.remembered[c], OfConn(sshTabs, {c})) THEN s.remembered[c]
    ELSE First(OfConn(sshTabs, {c}), None)

activateRemoteFileTab(s, f) ==
    LET c == f[1]
        t == IF In(s.tab, OfConn(sshTabs, {c})) THEN s.tab ELSE preferredTabForConnection(s, c)
        at == [s EXCEPT !.home = FALSE, !.mode = "ssh", !.conn = c, !.file = f] IN
    IF t = None THEN at ELSE [at EXCEPT !.tab = t, !.remembered[c] = t]

activateTerminalFallbackAfterFilesClose(s) ==
    LET t == CASE In(s.tab, sshTabs) -> s.tab
               [] ~In(s.tab, sshTabs) /\ s.conn # None /\ OfConn(sshTabs, {s.conn}) # <<>> ->
                    preferredTabForConnection(s, s.conn)
               [] OTHER -> First(sshTabs, None) IN
    IF t # None THEN activateTerminalTab(s, t)
    ELSE [s EXCEPT !.home = TRUE, !.mode = "home", !.conn = None]

activateRemoteFileFallbackAfterRemoval(s, left, c) ==
    LET f == First(FilesOf(left, {c}), First(left, Nobody)) IN
    IF f # Nobody THEN activateRemoteFileTab(s, f)
    ELSE activateTerminalFallbackAfterFilesClose([s EXCEPT !.file = Nobody])

Home(s) == [s EXCEPT !.home = TRUE, !.mode = "home", !.conn = None, !.tab = None]

(* The connected terminal that is shown, over which files can be edited.    *)
Connected ==
    /\ ~shown.home /\ shown.mode = "ssh"
    /\ In(shown.tab, sshTabs)
    /\ tab[shown.tab].type = "terminal" /\ tab[shown.tab].session # None

activeRemoteFileTabs == IF Connected THEN FilesOf(files, {shown.conn}) ELSE <<>>

activeRemoteFileTab ==
    IF In(shown.file, activeRemoteFileTabs) THEN shown.file
    ELSE First(activeRemoteFileTabs, Nobody)

Modal == Dialog \/ pendingSessions # {} \/ removal.conn # None

-----------------------------------------------------------------------------
(* The user at the terminals.                                              *)

Spend(i) == budget[i] > 0 /\ ~Modal /\ budget' = [budget EXCEPT ![i] = @ - 1]

Rest == UNCHANGED <<pendingSessions, profiles, removal>>

StartConnectionStep(t, r, c) ==
    /\ Spend(1) /\ c \in profiles
    /\ StartStep(t, r, c)
    /\ shown' = [shown EXCEPT !.home = FALSE, !.mode = "ssh", !.conn = c, !.tab = t,
                              !.remembered[c] = t]
    /\ UNCHANGED fileVars /\ Rest

(* Only over a connected terminal, on its connection. *)
openTerminalInConnection(t, r) ==
    /\ Spend(1) /\ Connected
    /\ OpenTerminal(t, r, shown.conn)
    /\ shown' = [shown EXCEPT !.tab = t, !.remembered[shown.conn] = t]
    /\ UNCHANGED fileVars /\ Rest

openLocalTerminalByProfile(t, r) ==
    /\ Spend(1)
    /\ OpenLocal(t, r)
    /\ shown' = activateLocalTerminalTab(shown, t)
    /\ UNCHANGED fileVars /\ Rest

(* What the page of a preparing tab asks for is not counted. *)
UserOnTab(t, r) ==
    /\ \/ /\ submitPromptCredential(t, r) \/ retryConnectionStep(t, r)
             \/ trustHostKeyAndRetry(t, r)
          /\ ~Modal /\ UNCHANGED budget
       \/ Spend(1) /\ t \in Open /\ reconnectCurrentTerminal(t, r)
    /\ UNCHANGED <<fileVars, shown>> /\ Rest

(* A click on a tab, or on the house. *)
Activate ==
    /\ Spend(1)
    /\ \/ \E t \in Open : shown' = IF In(t, sshTabs) THEN activateTerminalTab(shown, t)
                                   ELSE activateLocalTerminalTab(shown, t)
       \/ shown' = [shown EXCEPT !.home = TRUE]
    /\ UNCHANGED <<termVars, fileVars>> /\ Rest

-----------------------------------------------------------------------------
(* Closing terminals.                                                      *)

Forget(s, conns) == [s EXCEPT !.remembered = [c \in Conn |-> IF c \in conns THEN None ELSE @[c]]]

(* A wrong variant: what is shown changes only when nothing is left. *)
ShownUnlessEmpty(closed) ==
    IF Without(sshTabs, closed) = <<>> /\ files = <<>> /\ localTabs = <<>> THEN Home(shown)
    ELSE shown

(* What closeTerminalTabs shows next.  The first file of the connection, or  *)
(* the first file, is shown when no terminal is left, whether or not its     *)
(* connection has a terminal.                                               *)
ShownAfterTerminals(closed) ==
    LET left == Without(sshTabs, closed)
        home == IF left = <<>> /\ files = <<>> /\ localTabs = <<>> THEN Home(shown) ELSE shown
        gone == tab[shown.tab].conn
        next == First(OfConn(left, {gone}), First(left, None))
        fileFor(c) == First(FilesOf(files, {c}), First(files, Nobody))
        connFor(t, f) == IF t # None THEN tab[t].conn ELSE IF f # Nobody THEN f[1] ELSE None
        orLocal(s) == IF localTabs # <<>> THEN activateLocalTerminalTab(s, localTabs[1]) ELSE s
        moved == [home EXCEPT !.tab = next, !.conn = connFor(next, fileFor(gone))] IN
    IF shown.tab \in closed /\ In(shown.tab, sshTabs) THEN
        CASE next # None -> [moved EXCEPT !.remembered[tab[next].conn] = next]
          [] next = None /\ fileFor(gone) # Nobody ->
                Forget([moved EXCEPT !.file = fileFor(gone)], {gone})
          [] OTHER -> orLocal(Forget(moved, {gone}))
    ELSE IF /\ shown.conn # None
            /\ OfConn(Only(sshTabs, closed), {shown.conn}) # <<>>
            /\ OfConn(left, {shown.conn}) = <<>> THEN
        LET t == First(left, None)
            f == fileFor(shown.conn)
            s == Forget([home EXCEPT !.conn = connFor(t, f)], {shown.conn}) IN
        IF t = None /\ f = Nobody THEN orLocal(s) ELSE s
    ELSE home

(* One tab, the others of its connection, those to its right, all. *)
closeTerminalTabs ==
    /\ Spend(1)
    /\ \E i \in DOMAIN sshTabs :
         LET mine == {j \in DOMAIN sshTabs : tab[sshTabs[j]].conn = tab[sshTabs[i]].conn}
             closed(js) == {sshTabs[j] : j \in js} IN
         \E js \in {{i}, mine \ {i}, {j \in mine : j > i}, mine} \ {{}} :
            /\ CloseTabs(closed(js))
            /\ shown' = ShownAfterTerminals(closed(js))
    /\ UNCHANGED fileVars /\ Rest

closeLocalTerminalTabs ==
    /\ Spend(1)
    /\ \E i \in DOMAIN localTabs :
         \E js \in {{i}, DOMAIN localTabs \ {i}, {j \in DOMAIN localTabs : j > i}} \ {{}} :
            LET closed == {localTabs[j] : j \in js}
                next == First(Without(localTabs, closed), None)
                s == [shown EXCEPT !.local = next] IN
            /\ CloseTabs(closed)
            /\ shown' = CASE shown.local \notin closed -> shown
                          [] shown.local \in closed /\ next # None -> s
                          [] shown.local \in closed /\ next = None /\ sshTabs = <<>>
                             /\ files = <<>> -> [s EXCEPT !.home = TRUE, !.mode = "home"]
                          [] shown.local \in closed /\ next = None /\ sshTabs # <<>> ->
                                [s EXCEPT !.mode = "ssh"]
                          [] OTHER -> s
    /\ UNCHANGED fileVars /\ Rest

-----------------------------------------------------------------------------
(* The user at the files.                                                  *)

openRemoteFile(f) ==
    /\ Spend(2) /\ Connected /\ f[1] = shown.conn
    /\ \/ f \in FileTabs /\ UNCHANGED fileVars
       \/ \E k \in Call : OpenFile(f, k)
    /\ shown' = activateRemoteFileTab(shown, f)
    /\ UNCHANGED termVars /\ Rest

InEditor ==
    LET f == activeRemoteFileTab IN
    /\ Spend(2) /\ f # Nobody
    /\ \/ Type(f) \/ Discard(f)
       \/ \E k \in Call : Save(f, k) \/ Reload(f, k)
       \/ \E h, g \in File : h[1] = shown.conn /\ Rename(h, g, shown.file = h)
    /\ UNCHANGED <<termVars, shown>> /\ Rest

AnswerConflict ==
    /\ \E k \in Call : SettleConflict(k)
    /\ pendingSessions = {} /\ removal.conn = None
    /\ UNCHANGED <<termVars, shown, budget>> /\ Rest

RenameEnds(f, g) ==
    /\ RenameDone(f, g)
    /\ shown' = [shown EXCEPT !.file = IF renaming[3] THEN g ELSE @]
    /\ UNCHANGED <<termVars, budget>> /\ Rest

(* What closeRemoteFileTabsNow shows next. *)
ShownAfterFiles(gone) ==
    IF shown.file \in gone /\ In(shown.file, files)
    THEN activateRemoteFileFallbackAfterRemoval(shown, Kept(files, gone), shown.file[1])
    ELSE shown

closeRemoteFileTabsNow(gone) == Drop(gone) /\ shown' = ShownAfterFiles(gone)

(* A wrong variant: tabs are closed in one go without a look at their state. *)
CloseFilesUnasked ==
    /\ Spend(2)
    /\ \E i \in DOMAIN activeRemoteFileTabs :
         LET all == DOMAIN activeRemoteFileTabs IN
         \E js \in {{i}, all \ {i}, {j \in all : j > i}, all} \ {{}} :
            closeRemoteFileTabsNow({activeRemoteFileTabs[j] : j \in js})
    /\ UNCHANGED <<termVars, remote, call, renaming, deletion, pendingClose, pendingConflict,
                   texts>>
    /\ Rest

(* closeRemoteFileTabs of one tab, of the others, of those to the right and  *)
(* of all: the clean ones go, and the dialog asks about the first dirty one. *)
closeRemoteFileTabs ==
    /\ Spend(2)
    /\ \E i \in DOMAIN activeRemoteFileTabs :
         LET all == DOMAIN activeRemoteFileTabs IN
         \E js \in {{i}, all \ {i}, {j \in all : j > i}, all} \ {{}} :
            LET asked == {activeRemoteFileTabs[j] : j \in js}
                dirty == Only(files, {f \in asked : page[f].dirty}) IN
            /\ closeRemoteFileTabsNow({f \in asked : ~page[f].dirty})
            /\ pendingClose' = First(dirty, pendingClose)
    /\ UNCHANGED <<termVars, remote, call, renaming, deletion, pendingConflict, texts>>
    /\ Rest

closeSavedRemoteFileTabsForConnection ==
    /\ Spend(2)
    /\ LET gone == {f \in FileTabs : In(f, activeRemoteFileTabs) /\ ~page[f].dirty
                                     /\ page[f].state \in {"ready", "saved"}} IN
       gone # {} /\ closeRemoteFileTabsNow(gone)
    /\ UNCHANGED <<termVars, remote, call, renaming, deletion, pendingClose, pendingConflict,
                   texts>>
    /\ Rest

(* The dialog about a dirty tab. *)
AnswerClose ==
    /\ pendingClose \in FileTabs
    /\ \/ closeRemoteFileTabsNow({pendingClose})
       \/ UNCHANGED <<files, page, astray, shown>>
    /\ pendingClose' = Nobody
    /\ UNCHANGED <<termVars, remote, call, renaming, deletion, pendingConflict, texts,
                   budget>>
    /\ Rest

DeleteFiles ==
    /\ Spend(2) /\ Connected
    /\ \E target \in SUBSET {f \in File : f[1] = shown.conn} : target # {} /\ Delete(target)
    /\ UNCHANGED <<termVars, shown>> /\ Rest

(* What is shown when the deletion ends goes by the tabs it began with. *)
DeleteEnds ==
    /\ Deleted
    /\ LET left == Kept(deletion.files, deletion.target) IN
       shown' = IF In(shown.file, deletion.files) /\ ~In(shown.file, left)
                THEN activateRemoteFileFallbackAfterRemoval(shown, left, shown.conn) ELSE shown
    /\ UNCHANGED <<termVars, budget>> /\ Rest

-----------------------------------------------------------------------------
(* Closing and deleting connections.                                       *)

TabsOf(conns) == {t \in Open : tab[t].conn \in conns}

(* clearRemoteFileSessionStateForConnections, over the tabs `order' and     *)
(* pages the caller saw.                                                    *)
clearRemoteFiles(conns, order, pages) ==
    LET left == Kept(order, {f \in File : f[1] \in conns})
        stays(f) == IF In(f, left) THEN f ELSE Nobody IN
    /\ IF left # order
       THEN /\ files' = left
            /\ page' = [f \in File |-> IF f[1] \in conns THEN NewPage ELSE pages[f]]
            /\ astray' = {f \in File : In(f, left)
                            /\ (f \in astray \/ StalePage(f, pages[f]))}
       ELSE UNCHANGED <<files, page, astray>>
    /\ pendingClose' = stays(pendingClose)
    /\ pendingConflict' = stays(pendingConflict)
    /\ UNCHANGED <<remote, call, renaming, deletion, texts>>

ClearedFile(s, left) == IF In(s.file, left) THEN s ELSE [s EXCEPT !.file = Nobody]

(* What closeConnectionSessions and deleteConnection show next: `seen' is    *)
(* what was shown when the function began, `now' what is shown.              *)
ShownAfterConnections(conns, seen, now, left, rest, always) ==
    LET home == IF left = <<>> /\ rest = <<>> /\ localTabs = <<>> THEN Home(now) ELSE now
        t == First(left, None)
        f == First(rest, Nobody)
        moved == [home EXCEPT !.tab = t,
                              !.conn = IF t # None THEN tab[t].conn
                                       ELSE IF f # Nobody THEN f[1] ELSE None] IN
    IF seen.conn \in conns THEN
        CASE f # Nobody /\ (always \/ t = None) -> [moved EXCEPT !.file = f]
          [] (f = Nobody \/ ~always) /\ t # None -> moved
          [] OTHER -> IF localTabs # <<>> THEN activateLocalTerminalTab(moved, localTabs[1])
                      ELSE moved
    ELSE home

closeNow(conns) ==
    LET left == Without(sshTabs, TabsOf(conns))
        rest == Kept(files, {f \in File : f[1] \in conns})
        now == Forget(ClearedFile(shown, rest), conns) IN
    /\ clearRemoteFiles(conns, files, page)
    /\ CloseTabs(TabsOf(conns))
    /\ shown' = ShownAfterConnections(conns, shown, now, left, rest, TRUE)

(* One session, the others or those to its right; dirty files are asked      *)
(* about first.                                                              *)
closeConnectionSessions ==
    /\ Spend(1)
    /\ \E c \in Conn :
         /\ OfConn(sshTabs, {c}) # <<>>
         /\ \E conns \in {{c}, {d \in Conn \ {c} : OfConn(sshTabs, {d}) # <<>>}} \ {{}} :
              IF \E f \in FileTabs : f[1] \in conns /\ page[f].dirty
              THEN /\ pendingSessions' = conns
                   /\ UNCHANGED <<termVars, fileVars, shown>>
              ELSE /\ closeNow(conns)
                   /\ UNCHANGED pendingSessions
    /\ UNCHANGED <<profiles, removal>>

(* The dialog about the dirty files of a session. *)
AnswerCloseSessions ==
    /\ pendingSessions # {}
    /\ \/ closeNow(pendingSessions)
       \/ UNCHANGED <<termVars, fileVars, shown>>
    /\ pendingSessions' = {}
    /\ UNCHANGED <<profiles, removal, budget>>

(* deleteConnection, until the profile is removed. *)
deleteConnection(c) ==
    /\ Spend(1) /\ c \in profiles
    /\ removal' = [conn |-> c, shown |-> shown, files |-> files, page |-> page]
    /\ UNCHANGED <<termVars, fileVars, shown, pendingSessions, profiles>>

(* The profile is removed; what follows goes by the file tabs and by what    *)
(* was shown when the function began, and by the terminals there are now.    *)
ConnectionDeleted ==
    LET c == removal.conn
        left == Without(sshTabs, TabsOf({c}))
        rest == Kept(removal.files, {f \in File : f[1] = c})
        cleared == IF In(removal.shown.file, rest) THEN shown ELSE [shown EXCEPT !.file = Nobody]
        now == Forget(cleared, {c})
        next == ShownAfterConnections({c}, removal.shown, now, left, rest, FALSE) IN
    /\ c # None
    /\ clearRemoteFiles({c}, removal.files, removal.page)
    /\ CloseTabs(TabsOf({c}))
    /\ shown' = IF removal.shown.conn # c /\ ~In(removal.shown.tab, left)
                THEN [next EXCEPT !.tab = First(left, None)] ELSE next
    /\ removal' = NoRemoval
    /\ profiles' = profiles \ {c}
    /\ UNCHANGED <<pendingSessions, budget>>

(* The profile is not removed, and nothing else happens. *)
DeletionRefused ==
    /\ removal.conn # None
    /\ removal' = NoRemoval
    /\ UNCHANGED <<termVars, fileVars, shown, pendingSessions, profiles>>

-----------------------------------------------------------------------------

User ==
    \/ \E t \in Tab, r \in Request :
         \/ \E c \in Conn : StartConnectionStep(t, r, c)
         \/ openTerminalInConnection(t, r) \/ openLocalTerminalByProfile(t, r)
         \/ UserOnTab(t, r)
    \/ Activate \/ closeTerminalTabs \/ closeLocalTerminalTabs
    \/ \E f \in File : openRemoteFile(f)
    \/ InEditor \/ AnswerConflict \/ closeRemoteFileTabs
    \/ closeSavedRemoteFileTabsForConnection \/ AnswerClose \/ DeleteFiles
    \/ closeConnectionSessions \/ AnswerCloseSessions
    \/ \E c \in Conn : deleteConnection(c)

(* Answers, events and the backend. *)
Steps ==
    \/ TermSteps /\ UNCHANGED <<fileVars, shown, pendingSessions, profiles, removal, budget>>
    \/ FileSteps /\ UNCHANGED <<termVars, shown, pendingSessions, profiles, removal, budget>>
    \/ \E f, g \in File : RenameEnds(f, g)
    \/ DeleteEnds \/ ConnectionDeleted

(* What goes wrong, and what the others do. *)
Faults ==
    /\ budget[3] > 0 /\ budget' = [budget EXCEPT ![3] = @ - 1]
    /\ \/ TermFaults /\ UNCHANGED <<fileVars, shown, pendingSessions, profiles, removal>>
       \/ FileFaults /\ UNCHANGED <<termVars, shown, pendingSessions, profiles, removal>>
       \/ DeletionRefused

Next == User \/ Steps \/ Faults

Spec == Init /\ [][Next]_vars

(* Commands are carried out and answered, and answers are handled. *)
Works ==
    \/ /\ \E r \in Request : Answered(r) \/ connect(r) \/ Untrusted(r) \/ close(r)
       /\ UNCHANGED <<fileVars, shown, pendingSessions, profiles, removal, budget>>
    \/ /\ \E k \in Call : CallSteps(k)
       /\ UNCHANGED <<termVars, shown, pendingSessions, profiles, removal, budget>>

FairSpec == Spec /\ WF_vars(Works)

-----------------------------------------------------------------------------
(* Properties; those of the terminals alone are in TerminalTabs.            *)

(* The terminal that is shown is an open one, whatever is closed or deleted.   *)
(* Every function that closes tabs decides by the lists it saw when it began, *)
(* and only as long as the connection that is shown is the terminal's: a file *)
(* whose connection has no terminal comes forward over the terminal of        *)
(* another one, and when the session of that one is closed, activeTabId goes  *)
(* on naming its tab.                                                       *)
ShownTabOpen == shown.tab # None => In(shown.tab, sshTabs)

OfOnePiece ==
    /\ shown.tab # None => tab[shown.tab].conn = shown.conn
    /\ removal.conn # None => removal.shown.tab = shown.tab

ShownStaysOpen == [][ShownTabOpen /\ OfOnePiece => ShownTabOpen']_vars

(* A tab with changes that were not saved goes only after the user was asked  *)
(* about it: in its own dialog, in the one about its session, by deleting     *)
(* the file or the connection.  Renaming moves it; but a tab that was renamed *)
(* while a deletion ran, of another file or connection too, is not among those *)
(* the deletion goes on with, and is dropped unasked.                        *)
MovedUnderDeletion(f) ==
    \/ deletion.target # {} /\ ~In(f, deletion.files)
    \/ removal.conn # None /\ ~In(f, removal.files)

Asked(f) ==
    \/ f = pendingClose
    \/ f[1] \in pendingSessions \cup {removal.conn}
    \/ f \in deletion.target
    \/ renaming # <<>> /\ renaming[1] = f
    \/ MovedUnderDeletion(f)

DirtyIsAsked ==
    [][\A f \in FileTabs : page[f].dirty /\ f \notin FileTabs' => Asked(f)]_vars

(* A tab that is read or saved does not stay so, unless it was renamed or     *)
(* put back by a deletion meanwhile: then its answer finds no tab, and        *)
(* nothing but closing it, or a change of its text, ends the wait.           *)
BusyEnds ==
    \A f \in File :
        f \in FileTabs /\ page[f].state \in Busy
            ~> f \notin FileTabs \/ page[f].state \notin Busy \/ f \in astray

(* The session of a tab that was closed ends, whenever it was opened.        *)
SessionsEnd ==
    \A s \in Request :
        session[s] = "live" /\ request[s].tab \notin Open ~> session[s] = "ended"

(* What a clean tab shows is what the file holds, as long as nobody wrote    *)
(* the file since the tab was read or saved.                                 *)
CleanIsSaved ==
    \A f \in FileTabs :
        /\ ~page[f].dirty /\ page[f].state \in {"ready", "saved"}
        /\ remote[f].exists /\ remote[f].version = page[f].version
        => page[f].text = remote[f].text

=============================================================================
