---------------------------- MODULE TerminalTabs ----------------------------
(***************************************************************************)
(* The terminals of the window: the SSH tabs and their preparation page,    *)
(* the local tabs, the requests that open their sessions (all of             *)
(* WorkspaceShell.tsx), the terminal panels with their reconnection          *)
(* (TerminalPanel.tsx) and the sessions of the backend                       *)
(* (terminal/manager.rs).  What the user does that also changes which tab    *)
(* is shown is in Workspace.                                                 *)
(*                                                                         *)
(* A session has the number of the request that opened it: every request     *)
(* carries an id of its own and every event of a session the id of its       *)
(* request.  A session that ends is reported by an event that travels on     *)
(* its own, as the answers of the commands do.                               *)
(***************************************************************************)
EXTENDS Naturals, Sequences, FiniteSets, Lists

CONSTANTS
    Conn,           \* the saved SSH connections
    Prompting,      \* those that ask for a credential at each start
    Unknown,        \* those whose host key is not trusted yet
    MaxTabs,        \* bound on the terminal tabs of a behaviour
    MaxRequests,    \* bound on the requests for a session
    None

Tab == 1..MaxTabs           \* in the order in which they are made
Request == 1..MaxRequests   \* and so are the requests; also the sessions

ASSUME TerminalAssumption ==
    /\ MaxTabs \in Nat /\ MaxRequests \in Nat
    /\ Prompting \subseteq Conn /\ Unknown \subseteq Conn
    /\ None \notin Conn \cup Tab \cup Request

VARIABLES
    sshTabs,    \* terminalTabs, in their order
    localTabs,  \* localTerminalTabs, in their order
    tab,        \* what a tab of either list holds
    panel,      \* the TerminalPanel of a tab
    request,    \* the requests for a session
    session,    \* TerminalManager.sessions
    closing,    \* terminal_close commands on their way
    ended,      \* terminal:state_changed events on their way
    trusted     \* connections whose host key is trusted

termVars == <<sshTabs, localTabs, tab, panel, request, session, closing, ended, trusted>>

Open == {sshTabs[i] : i \in DOMAIN sshTabs} \cup {localTabs[i] : i \in DOMAIN localTabs}

NoTab == [conn |-> None, type |-> "none", step |-> "idle", session |-> None]
NoPanel == [at |-> "none", session |-> None, request |-> None, says |-> "nothing",
            reconnecting |-> FALSE, was |-> None, wasRequest |-> None]
NoRequest == [tab |-> None, kind |-> "none", at |-> "none"]

InFlight == {"trust", "listen", "sent", "opened", "refused", "untrusted"}

TabState ==
    [conn : Conn \cup {None}, type : {"none", "connecting", "terminal", "local"},
     step : {"idle", "prompt", "running", "hostkey", "error"}, session : Request \cup {None}]

PanelState ==
    [at : {"none", "mounted", "listening"}, session : Request \cup {None},
     request : Request \cup {None},
     says : {"nothing", "connected", "disconnected", "reconnecting", "failed"},
     reconnecting : BOOLEAN, was : Request \cup {None}, wasRequest : Request \cup {None}]

RequestState ==
    [tab : Tab \cup {None}, kind : {"none", "prepare", "direct", "local", "reconnect"},
     at : InFlight \cup {"none", "done"}]

TermTypeOK ==
    /\ sshTabs \in Seq(Tab) /\ localTabs \in Seq(Tab)
    /\ tab \in [Tab -> TabState] /\ panel \in [Tab -> PanelState]
    /\ request \in [Request -> RequestState]
    /\ session \in [Request -> {"none", "live", "ended"}]
    /\ closing \subseteq Request /\ ended \subseteq Request
    /\ trusted \subseteq Conn

TermInit ==
    /\ sshTabs = <<>> /\ localTabs = <<>>
    /\ tab = [t \in Tab |-> NoTab]
    /\ panel = [t \in Tab |-> NoPanel]
    /\ request = [r \in Request |-> NoRequest]
    /\ session = [r \in Request |-> "none"]
    /\ closing = {} /\ ended = {}
    /\ trusted = Conn \ Unknown

-----------------------------------------------------------------------------
(* Tabs and requests are made and numbered in order.                       *)

FreshTab(t) == /\ t \in Tab /\ tab[t] = NoTab /\ \A u \in Tab : u < t => tab[u] # NoTab
FreshRequest(r) ==
    /\ r \in Request /\ request[r].at = "none"
    /\ \A q \in Request : q < r => request[q].at # "none"

terminalTabExists(t) == t \in Open
connectingTabExists(t) == t \in Open /\ tab[t].type = "connecting"

NewRequest(r, t, kind, at) ==
    request' = [request EXCEPT ![r] = [tab |-> t, kind |-> kind, at |-> at]]

(* startConnectionStep: a tab that prepares the connection; a connection    *)
(* that asks for a credential waits for it, any other starts at once.       *)
StartStep(t, r, c) ==
    /\ FreshTab(t) /\ FreshRequest(r)
    /\ sshTabs' = Append(sshTabs, t)
    /\ tab' = [tab EXCEPT ![t] =
                [conn |-> c, type |-> "connecting", session |-> None,
                 step |-> IF c \in Prompting THEN "prompt" ELSE "running"]]
    /\ IF c \in Prompting THEN UNCHANGED request ELSE NewRequest(r, t, "prepare", "listen")
    /\ UNCHANGED <<localTabs, panel, session, closing, ended, trusted>>

(* openTerminalInConnection and openLocalTerminalByProfile: a tab that has  *)
(* no preparation page.                                                     *)
OpenTerminal(t, r, c) ==
    /\ FreshTab(t) /\ FreshRequest(r)
    /\ sshTabs' = Append(sshTabs, t)
    /\ tab' = [tab EXCEPT ![t] =
                [conn |-> c, type |-> "terminal", step |-> "idle", session |-> None]]
    /\ NewRequest(r, t, "direct", "listen")
    /\ UNCHANGED <<localTabs, panel, session, closing, ended, trusted>>

OpenLocal(t, r) ==
    /\ FreshTab(t) /\ FreshRequest(r)
    /\ localTabs' = Append(localTabs, t)
    /\ tab' = [tab EXCEPT ![t] =
                [conn |-> None, type |-> "local", step |-> "idle", session |-> None]]
    /\ NewRequest(r, t, "local", "listen")
    /\ UNCHANGED <<sshTabs, panel, session, closing, ended, trusted>>

(* A step is run again: after the credential was typed, by the retry button *)
(* of a failed step, after the host key was trusted.                        *)
runConnectionStep(t, r, at) ==
    /\ FreshRequest(r)
    /\ NewRequest(r, t, "prepare", at)
    /\ tab' = [tab EXCEPT ![t].step = "running"]
    /\ UNCHANGED <<sshTabs, localTabs, panel, session, closing, ended, trusted>>

submitPromptCredential(t, r) ==
    connectingTabExists(t) /\ tab[t].step = "prompt" /\ runConnectionStep(t, r, "listen")

(* A wrong variant: the retry button stays while a step runs. *)
RetryWhileRunning(t, r) ==
    connectingTabExists(t) /\ tab[t].step \in {"error", "running"}
    /\ runConnectionStep(t, r, "listen")

retryConnectionStep(t, r) ==
    connectingTabExists(t) /\ tab[t].step = "error" /\ runConnectionStep(t, r, "listen")

trustHostKeyAndRetry(t, r) ==
    connectingTabExists(t) /\ tab[t].step = "hostkey" /\ runConnectionStep(t, r, "trust")

(* known_host_trust is done, or fails: then the step does. *)
Trusted(r) ==
    /\ request[r].at = "trust"
    /\ trusted' = trusted \cup {tab[request[r].tab].conn}
    /\ request' = [request EXCEPT ![r].at = "listen"]
    /\ UNCHANGED <<sshTabs, localTabs, tab, panel, session, closing, ended>>

TrustFails(r) ==
    /\ request[r].at = "trust"
    /\ request' = [request EXCEPT ![r].at = "done"]
    /\ tab' = IF connectingTabExists(request[r].tab)
              THEN [tab EXCEPT ![request[r].tab].step = "error"] ELSE tab
    /\ UNCHANGED <<sshTabs, localTabs, panel, session, closing, ended, trusted>>

(* The listeners of the output are in place and terminal_connect is called; *)
(* the preparation stops there when its tab was closed meanwhile.           *)
Listened(r) ==
    /\ request[r].at = "listen"
    /\ request' = [request EXCEPT ![r].at =
            IF request[r].kind = "prepare" /\ ~connectingTabExists(request[r].tab)
            THEN "done" ELSE "sent"]
    /\ UNCHANGED <<sshTabs, localTabs, tab, panel, session, closing, ended, trusted>>

-----------------------------------------------------------------------------
(* The backend.                                                            *)

ConnOf(r) == tab[request[r].tab].conn

(* TerminalManager.connect, connect_local: the session is in the store and  *)
(* its reader runs before the command answers.                              *)
connect(r) ==
    /\ request[r].at = "sent"
    /\ ConnOf(r) \in trusted \cup {None}
    /\ request' = [request EXCEPT ![r].at = "opened"]
    /\ session' = [session EXCEPT ![r] = "live"]
    /\ UNCHANGED <<sshTabs, localTabs, tab, panel, closing, ended, trusted>>

(* A host key that is not trusted stops the attempt.                        *)
Untrusted(r) ==
    /\ request[r].at = "sent"
    /\ ConnOf(r) \notin trusted \cup {None}
    /\ request' = [request EXCEPT ![r].at = "untrusted"]
    /\ UNCHANGED <<sshTabs, localTabs, tab, panel, session, closing, ended, trusted>>

(* Anything else that fails. *)
Refuse(r) ==
    /\ request[r].at = "sent"
    /\ request' = [request EXCEPT ![r].at = "refused"]
    /\ UNCHANGED <<sshTabs, localTabs, tab, panel, session, closing, ended, trusted>>

(* spawn_reader, at the end of a session: out of the store, and reported.   *)
EndOf(s) ==
    /\ session' = [session EXCEPT ![s] = "ended"]
    /\ ended' = ended \cup {s}

SessionEnds(s) ==
    /\ session[s] = "live"
    /\ EndOf(s)
    /\ UNCHANGED <<sshTabs, localTabs, tab, panel, request, closing, trusted>>

(* TerminalManager.close; a session that is gone is an error nobody reads.  *)
close(s) ==
    /\ s \in closing
    /\ closing' = closing \ {s}
    /\ IF session[s] = "live" THEN EndOf(s) ELSE UNCHANGED <<session, ended>>
    /\ UNCHANGED <<sshTabs, localTabs, tab, panel, request, trusted>>

-----------------------------------------------------------------------------
(* The answers of the requests.                                            *)

Done(r) == request' = [request EXCEPT ![r].at = "done"]

(* The end of runConnectionStep: the preparing tab becomes the terminal;    *)
(* a session nobody waits for is closed.                                    *)
PrepareAnswered(r) ==
    LET t == request[r].tab IN
    /\ request[r].kind = "prepare" /\ request[r].at \in {"opened", "refused", "untrusted"}
    /\ Done(r)
    /\ IF ~connectingTabExists(t)
       THEN /\ closing' = IF request[r].at = "opened" THEN closing \cup {r} ELSE closing
            /\ UNCHANGED tab
       ELSE /\ UNCHANGED closing
            /\ tab' = [tab EXCEPT ![t] =
                CASE request[r].at = "opened" ->
                        [conn |-> tab[t].conn, type |-> "terminal", step |-> "idle", session |-> r]
                  [] request[r].at = "untrusted" -> [tab[t] EXCEPT !.step = "hostkey"]
                  [] OTHER -> [tab[t] EXCEPT !.step = "error"]]
    /\ UNCHANGED <<sshTabs, localTabs, panel, session, ended, trusted>>

(* A wrong variant: the session of a tab that was closed is forgotten. *)
DirectAnsweredForgets(r) ==
    LET t == request[r].tab IN
    /\ request[r].kind \in {"direct", "local"}
    /\ request[r].at \in {"opened", "refused", "untrusted"}
    /\ Done(r)
    /\ tab' = IF ~terminalTabExists(t) THEN tab
              ELSE IF request[r].at = "opened"
                   THEN [tab EXCEPT ![t].session = r]
                   ELSE [tab EXCEPT ![t].session = None, ![t].step = "error"]
    /\ UNCHANGED <<sshTabs, localTabs, panel, session, closing, ended, trusted>>

(* The end of runDirectTerminalTab and of openRuntimeLocalTerminalSession.  *)
DirectAnswered(r) ==
    LET t == request[r].tab IN
    /\ request[r].kind \in {"direct", "local"}
    /\ request[r].at \in {"opened", "refused", "untrusted"}
    /\ Done(r)
    /\ IF ~terminalTabExists(t)
       THEN /\ closing' = IF request[r].at = "opened" THEN closing \cup {r} ELSE closing
            /\ UNCHANGED tab
       ELSE /\ UNCHANGED closing
            /\ tab' = IF request[r].at = "opened"
                      THEN [tab EXCEPT ![t].session = r]
                      ELSE [tab EXCEPT ![t].session = None, ![t].step = "error"]
    /\ UNCHANGED <<sshTabs, localTabs, panel, session, ended, trusted>>

-----------------------------------------------------------------------------
(* The panel of a terminal.                                                *)

(* A tab with a session is given a panel, which starts to listen.           *)
Mount(t) ==
    /\ t \in Open /\ tab[t].session # None /\ panel[t].at = "none"
    /\ panel' = [panel EXCEPT ![t] =
            [NoPanel EXCEPT !.at = "mounted", !.session = tab[t].session,
                            !.request = tab[t].session, !.says = "connected"]]
    /\ UNCHANGED <<sshTabs, localTabs, tab, request, session, closing, ended, trusted>>

PanelListens(t) ==
    /\ panel[t].at = "mounted"
    /\ panel' = [panel EXCEPT ![t].at = "listening"]
    /\ UNCHANGED <<sshTabs, localTabs, tab, request, session, closing, ended, trusted>>

(* An event is the panel's when it names its session or its request.        *)
matchesTerminalEvent(s, p) == s = p.session \/ s = p.request

(* The end of a session is heard by the panels that listen then; nobody     *)
(* else does.                                                               *)
StateChanged(s) ==
    /\ s \in ended
    /\ ended' = ended \ {s}
    /\ panel' = [t \in Tab |->
            IF panel[t].at = "listening" /\ matchesTerminalEvent(s, panel[t])
            THEN [panel[t] EXCEPT !.session = None, !.says = "disconnected"]
            ELSE panel[t]]
    /\ UNCHANGED <<sshTabs, localTabs, tab, request, session, closing, trusted>>

(* A wrong variant: the events of the old request are still the panel's. *)
ReconnectKeepsRequest(t, r) ==
    /\ panel[t].at = "listening" /\ ~panel[t].reconnecting
    /\ tab[t].conn # None
    /\ FreshRequest(r)
    /\ NewRequest(r, t, "reconnect", "sent")
    /\ panel' = [panel EXCEPT ![t] =
            [at |-> "listening", session |-> None, request |-> panel[t].request,
             says |-> "reconnecting",
             reconnecting |-> TRUE, was |-> panel[t].session, wasRequest |-> panel[t].request]]
    /\ UNCHANGED <<sshTabs, localTabs, tab, session, closing, ended, trusted>>

(* reconnectCurrentTerminal, from the menu, or with Enter once the session  *)
(* ended; a local terminal has no connection to reconnect to.               *)
reconnectCurrentTerminal(t, r) ==
    /\ panel[t].at = "listening" /\ ~panel[t].reconnecting
    /\ tab[t].conn # None
    /\ FreshRequest(r)
    /\ NewRequest(r, t, "reconnect", "sent")
    /\ panel' = [panel EXCEPT ![t] =
            [at |-> "listening", session |-> None, request |-> r, says |-> "reconnecting",
             reconnecting |-> TRUE, was |-> panel[t].session, wasRequest |-> panel[t].request]]
    /\ UNCHANGED <<sshTabs, localTabs, tab, session, closing, ended, trusted>>

(* Its answer.  The new session replaces the old one, which is closed; a    *)
(* failure brings the old one back, whatever became of it; a panel that is  *)
(* gone closes the new one.  The tab learns the new session with            *)
(* updateTerminalRuntimeSession.                                            *)
Reconnected(r) ==
    LET t == request[r].tab IN
    /\ request[r].kind = "reconnect" /\ request[r].at = "opened"
    /\ Done(r)
    /\ IF panel[t].at = "none"
       THEN /\ closing' = closing \cup {r}
            /\ UNCHANGED <<tab, panel>>
       ELSE /\ closing' = closing \cup ({panel[t].was} \ {None})
            /\ tab' = [tab EXCEPT ![t].session = r]
            /\ panel' = [panel EXCEPT ![t] =
                    [@ EXCEPT !.session = r, !.says = "connected", !.reconnecting = FALSE,
                              !.was = None, !.wasRequest = None]]
    /\ UNCHANGED <<sshTabs, localTabs, session, ended, trusted>>

ReconnectFailed(r) ==
    LET t == request[r].tab IN
    /\ request[r].kind = "reconnect" /\ request[r].at \in {"refused", "untrusted"}
    /\ Done(r)
    /\ panel' = IF panel[t].at = "none" THEN panel
                ELSE [panel EXCEPT ![t] =
                        [@ EXCEPT !.session = panel[t].was, !.request = panel[t].wasRequest,
                                  !.says = "failed", !.reconnecting = FALSE,
                                  !.was = None, !.wasRequest = None]]
    /\ UNCHANGED <<sshTabs, localTabs, tab, session, closing, ended, trusted>>

-----------------------------------------------------------------------------
(* Tabs are closed: their sessions are, as far as the tabs know them, and   *)
(* their panels go with them.                                               *)

Without(order, tabs) == Only(order, Tab \ tabs)

CloseTabs(tabs) ==
    /\ sshTabs' = Without(sshTabs, tabs)
    /\ localTabs' = Without(localTabs, tabs)
    /\ closing' = closing \cup ({tab[t].session : t \in tabs} \ {None})
    /\ panel' = [t \in Tab |-> IF t \in tabs THEN NoPanel ELSE panel[t]]
    /\ UNCHANGED <<tab, request, session, ended, trusted>>

-----------------------------------------------------------------------------
(* What happens without the user. *)

Answered(r) ==
    Trusted(r) \/ Listened(r) \/ PrepareAnswered(r) \/ DirectAnswered(r)
    \/ Reconnected(r) \/ ReconnectFailed(r)

TermSteps ==
    \/ \E r \in Request : Answered(r) \/ connect(r) \/ Untrusted(r)
    \/ \E s \in Request : close(s) \/ StateChanged(s)
    \/ \E t \in Tab : Mount(t) \/ PanelListens(t)

TermFaults == \E r \in Request : TrustFails(r) \/ Refuse(r) \/ SessionEnds(r)

-----------------------------------------------------------------------------
(* Properties, of the behaviours of Workspace.                             *)

(* Every session that lives in the backend is one the window knows of: an    *)
(* open tab holds it, its request is about to be answered, or it is about    *)
(* to be closed.  A tab can be closed, with its connection or alone, while   *)
(* its session is opened or replaced, and the reader, the answer and the     *)
(* closing command arrive in any order.                                      *)
NoOrphanSession ==
    \A s \in Request :
        session[s] = "live" =>
            \/ s \in closing
            \/ request[s].at = "opened"
            \/ \E t \in Open : tab[t].session = s

(* A tab has one request in flight at most: a retry, a credential, a trusted *)
(* key and a reconnection never run next to each other, or two sessions      *)
(* would race for the tab.                                                   *)
OneAttempt ==
    \A q, r \in Request :
        /\ q # r /\ request[q].at \in InFlight /\ request[r].at \in InFlight
        => request[q].tab # request[r].tab

(* The end of the session that a reconnection replaced never makes the tab    *)
(* look disconnected: a panel says so only when the session of its tab       *)
(* ended, once the reconnection under way is answered.                       *)
DisconnectedIsEnded ==
    \A t \in Open :
        panel[t].says = "disconnected" /\ ~panel[t].reconnecting
            => session[tab[t].session] = "ended"

=============================================================================
