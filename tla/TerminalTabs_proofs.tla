------------------------ MODULE TerminalTabs_proofs -------------------------
(***************************************************************************)
(* The inductive invariant of the terminals: how tabs, requests, panels and *)
(* sessions are related, and that every action of TerminalTabs keeps it.    *)
(* Workspace_proofs puts the actions together.                              *)
(***************************************************************************)
EXTENDS TerminalTabs, Lists_proofs, TLAPS

(* The tabs of a list have the type of the list, and those of SSH a          *)
(* connection.                                                              *)
Placed ==
    /\ \A t \in Tab : In(t, sshTabs) =>
         tab[t].type \in {"connecting", "terminal"} /\ tab[t].conn # None
    /\ \A t \in Tab : In(t, localTabs) => tab[t].type = "local"

(* A session is opened by its request, once; a preparation page has none.   *)
Sessions ==
    /\ \A r \in Request : session[r] # "none" => request[r].at \in {"opened", "done"}
    /\ \A r \in Request : request[r].at = "opened" => session[r] # "none"
    /\ \A t \in Tab : tab[t].session # None =>
         session[tab[t].session] # "none" /\ tab[t].type \in {"terminal", "local"}
    /\ \A s \in ended : session[s] = "ended"

(* What is known of the tab of a request in flight.                         *)
Preparing(r) ==
    LET t == request[r].tab IN
    /\ tab[t].type = "connecting" /\ tab[t].step = "running"
    /\ tab[t].session = None /\ tab[t].conn # None

Opening(r) ==
    LET t == request[r].tab IN
    /\ request[r].at # "trust"
    /\ tab[t].type \in {"terminal", "local"} /\ tab[t].session = None

Reconnecting(r) ==
    LET t == request[r].tab IN
    /\ request[r].at \notin {"trust", "listen"}
    /\ tab[t].type \in {"terminal", "local"} /\ tab[t].session # None
    /\ t \in Open => panel[t].reconnecting /\ panel[t].request = r

Attempts ==
    \A r \in Request :
        /\ request[r].at # "none" =>
             /\ request[r].tab \in Tab /\ request[r].kind # "none"
             /\ tab[request[r].tab].type # "none"
        /\ request[r].at \in InFlight =>
             /\ request[r].kind = "prepare" => Preparing(r)
             /\ request[r].kind \in {"direct", "local"} => Opening(r)
             /\ request[r].kind = "reconnect" => Reconnecting(r)

(* A panel knows the session of its tab: the one it shows, or the one it    *)
(* showed before the reconnection under way; one that it lost has ended.    *)
Knows(known, s) == known = s \/ (known = None /\ session[s] = "ended")

PanelOf(t) ==
    IF panel[t].at = "none" THEN panel[t] = NoPanel
    ELSE /\ t \in Open /\ tab[t].type \in {"terminal", "local"}
         /\ tab[t].session # None
         /\ IF panel[t].reconnecting
            THEN /\ panel[t].at = "listening" /\ panel[t].session = None
                 /\ panel[t].wasRequest = tab[t].session
                 /\ Knows(panel[t].was, tab[t].session)
            ELSE /\ panel[t].request = tab[t].session
                 /\ Knows(panel[t].session, tab[t].session)
                 /\ panel[t].says = "disconnected" => panel[t].session = None

Panels == \A t \in Tab : PanelOf(t)

TermInv ==
    /\ TermTypeOK /\ Placed /\ Sessions /\ Attempts /\ Panels
    /\ OneAttempt /\ NoOrphanSession

-----------------------------------------------------------------------------
(* What an action that leaves a part of the state alone keeps.             *)

LEMMA SameOpen ==
    ASSUME UNCHANGED <<sshTabs, localTabs>>
    PROVE  Open' = Open
  BY DEF Open

LEMMA OpenIsIn ==
    \A t : t \in Open <=> In(t, sshTabs) \/ In(t, localTabs)
  BY DEF Open, In

LEMMA PlacedFrame ==
    ASSUME Placed, UNCHANGED <<sshTabs, localTabs, tab>>
    PROVE  Placed'
  BY DEF Placed, In

LEMMA PanelsFrame ==
    ASSUME Panels, UNCHANGED <<sshTabs, localTabs, tab, panel, session>>
    PROVE  Panels'
  BY SameOpen DEF Panels, PanelOf, Knows

LEMMA NoNone ==
    /\ None \notin Conn /\ None \notin Tab /\ None \notin Request
  BY TerminalAssumption

(* A request goes on: nothing but its stage changes.                        *)
Moves(r, at) == request' = [request EXCEPT ![r].at = at]

LEMMA Moved ==
    ASSUME TermTypeOK, NEW r \in Request,
           NEW at \in InFlight \cup {"none", "done"}, Moves(r, at)
    PROVE  /\ request' \in [Request -> RequestState]
           /\ \A q \in Request : /\ request'[q].tab = request[q].tab
                                 /\ request'[q].kind = request[q].kind
                                 /\ request'[q].at = IF q = r THEN at ELSE request[q].at
  BY DEF TermTypeOK, RequestState, Moves

LEMMA MovedOneAttempt ==
    ASSUME TermTypeOK, OneAttempt, NEW r \in Request,
           NEW at \in InFlight \cup {"none", "done"}, Moves(r, at),
           request[r].at \in InFlight \/ at = "done"
    PROVE  OneAttempt'
  <1>1. "done" \notin InFlight
    BY DEF InFlight
  <1> QED BY <1>1, Moved DEF OneAttempt

LEMMA MovedAttempts ==
    ASSUME TermTypeOK, Attempts, NEW r \in Request,
           NEW at \in {"listen", "sent", "opened", "refused", "untrusted", "done"},
           Moves(r, at), request[r].at \in InFlight,
           at = "listen" => request[r].kind # "reconnect",
           UNCHANGED <<sshTabs, localTabs, tab, panel>>
    PROVE  Attempts'
  <1>1. at \in InFlight \cup {"none", "done"} /\ at # "trust" /\ "none" \notin InFlight
    BY DEF InFlight
  <1>2. \A q \in Request : /\ request'[q].tab = request[q].tab
                           /\ request'[q].kind = request[q].kind
                           /\ request'[q].at = IF q = r THEN at ELSE request[q].at
    BY <1>1, Moved
  <1>3. Open' = Open
    BY SameOpen
  <1> SUFFICES ASSUME NEW q \in Request
               PROVE  /\ request'[q].at # "none" =>
                           /\ request'[q].tab \in Tab /\ request'[q].kind # "none"
                           /\ tab'[request'[q].tab].type # "none"
                      /\ request'[q].at \in InFlight =>
                           /\ request'[q].kind = "prepare" => Preparing(q)'
                           /\ request'[q].kind \in {"direct", "local"} => Opening(q)'
                           /\ request'[q].kind = "reconnect" => Reconnecting(q)'
    BY DEF Attempts
  <1>4. request[q].at # "none" \/ q # r
    BY <1>1
  <1>5. request'[q].at \in InFlight => request[q].at \in InFlight
    BY <1>2
  <1>6. Preparing(q) => Preparing(q)'
    BY <1>2 DEF Preparing
  <1>7. Opening(q) => Opening(q)'
    BY <1>1, <1>2 DEF Opening
  <1>8. Reconnecting(q) /\ request[q].kind = "reconnect" => Reconnecting(q)'
    BY <1>1, <1>2, <1>3 DEF Reconnecting
  <1> QED BY <1>1, <1>2, <1>4, <1>5, <1>6, <1>7, <1>8 DEF Attempts

-----------------------------------------------------------------------------
(* The actions.                                                            *)

(* A request that goes on, and touches nothing else.                        *)
LEMMA GoesOn ==
    ASSUME TermInv, NEW r \in Request,
           NEW at \in {"listen", "sent", "refused", "untrusted", "done"}, Moves(r, at),
           request[r].at \in InFlight, request[r].at # "opened",
           at = "listen" => request[r].kind # "reconnect",
           trusted' \subseteq Conn,
           UNCHANGED <<sshTabs, localTabs, tab, panel, session, closing, ended>>
    PROVE  TermInv'
  <1> USE DEF TermInv
  <1>1. at \in InFlight \cup {"none", "done"} /\ "done" \notin InFlight
    BY DEF InFlight
  <1>2. /\ request' \in [Request -> RequestState]
        /\ \A q \in Request : request'[q].at = IF q = r THEN at ELSE request[q].at
    BY <1>1, Moved
  <1>3. TermTypeOK'
    BY <1>2 DEF TermTypeOK
  <1>4. Placed' /\ Panels'
    BY PlacedFrame, PanelsFrame
  <1>5. Sessions'
    BY <1>1, <1>2 DEF Sessions
  <1>6. Attempts'
    BY MovedAttempts
  <1>7. OneAttempt'
    BY <1>1, MovedOneAttempt
  <1>8. NoOrphanSession'
    BY <1>2, SameOpen DEF NoOrphanSession
  <1> QED BY <1>3, <1>4, <1>5, <1>6, <1>7, <1>8

LEMMA TrustedKeeps ==
    ASSUME TermInv, NEW r \in Request, Trusted(r)
    PROVE  TermInv'
  <1>1. request[r].at \in InFlight /\ request[r].at # "none"
    BY DEF Trusted, InFlight
  <1>2. request[r].kind \notin {"direct", "local", "reconnect"}
    BY <1>1 DEF TermInv, Attempts, Opening, Reconnecting, Trusted
  <1>3. tab[request[r].tab].conn \in Conn
    <2>1. tab[request[r].tab] \in TabState
      BY <1>1 DEF TermInv, TermTypeOK, Attempts
    <2>2. request[r].kind = "prepare"
      BY <1>1, <1>2 DEF TermInv, TermTypeOK, RequestState, Attempts
    <2> QED BY <1>1, <2>1, <2>2 DEF TabState, TermInv, Attempts, Preparing
  <1> QED BY <1>1, <1>2, <1>3, GoesOn DEF Trusted, Moves, TermInv, TermTypeOK

LEMMA ListenedKeeps ==
    ASSUME TermInv, NEW r \in Request, Listened(r)
    PROVE  TermInv'
  <1>1. request[r].at \in InFlight
    BY DEF Listened, InFlight
  <1> QED BY <1>1, GoesOn DEF Listened, Moves, TermInv, TermTypeOK

LEMMA RefusedKeeps ==
    ASSUME TermInv, NEW r \in Request, Untrusted(r) \/ Refuse(r)
    PROVE  TermInv'
  <1>1. request[r].at \in InFlight
    BY DEF Untrusted, Refuse, InFlight
  <1> QED BY <1>1, GoesOn DEF Untrusted, Refuse, Moves, TermInv, TermTypeOK

LEMMA connectKeeps ==
    ASSUME TermInv, NEW r \in Request, connect(r)
    PROVE  TermInv'
  <1> USE DEF TermInv
  <1>1. /\ "opened" \in InFlight \cup {"none", "done"} /\ "done" \notin InFlight
        /\ request[r].at = "sent" /\ request[r].at \in InFlight /\ Moves(r, "opened")
    BY DEF InFlight, connect, Moves
  <1>2. /\ request' \in [Request -> RequestState]
        /\ \A q \in Request : request'[q].at = IF q = r THEN "opened" ELSE request[q].at
    BY <1>1, Moved
  <1>3. session[r] = "none"
    BY <1>1 DEF Sessions
  <1>4. /\ session' \in [Request -> {"none", "live", "ended"}]
        /\ \A q \in Request : session'[q] = IF q = r THEN "live" ELSE session[q]
    BY DEF connect, TermTypeOK
  <1>5. TermTypeOK'
    BY <1>2, <1>4 DEF TermTypeOK, connect
  <1>6. Placed'
    BY PlacedFrame DEF connect
  <1>7. Sessions'
    BY <1>1, <1>2, <1>3, <1>4 DEF Sessions, connect, TermTypeOK, TabState
  <1>8. Attempts'
    BY <1>1, MovedAttempts DEF connect
  <1>9. Panels'
    <2>1. Open' = Open
      BY SameOpen DEF connect
    <2>2. \A q \in Request : session[q] = "ended" => session'[q] = "ended"
      BY <1>3, <1>4
    <2>3. \A t \in Tab : tab[t].session # None => tab[t].session \in Request
      BY DEF TermTypeOK, TabState
    <2>4. panel' = panel /\ tab' = tab
      BY DEF connect
    <2>5. \A k : \A t \in Tab : Knows(k, tab[t].session) /\ tab[t].session # None
                            => Knows(k, tab[t].session)'
      BY <2>2, <2>3, <2>4 DEF Knows
    <2> QED BY <2>1, <2>4, <2>5 DEF Panels, PanelOf
  <1>10. OneAttempt'
    BY <1>1, MovedOneAttempt
  <1>11. NoOrphanSession'
    BY <1>2, <1>4, SameOpen DEF NoOrphanSession, connect
  <1> QED BY <1>5, <1>6, <1>7, <1>8, <1>9, <1>10, <1>11

(* A request is done: what it says of its tab no longer matters, and no      *)
(* other request in flight is of the same tab.                              *)
LEMMA Settles ==
    ASSUME TermInv, NEW r \in Request, request[r].at \in InFlight, Moves(r, "done"),
           \A u \in Tab : u # request[r].tab => tab'[u] = tab[u] /\ panel'[u] = panel[u],
           tab'[request[r].tab].type # "none",
           UNCHANGED <<sshTabs, localTabs>>
    PROVE  /\ request' \in [Request -> RequestState]
           /\ \A q \in Request : request'[q].at = IF q = r THEN "done" ELSE request[q].at
           /\ request[r].tab \in Tab
           /\ OneAttempt' /\ Attempts'
  <1> USE DEF TermInv
  <1>1. "done" \in InFlight \cup {"none", "done"} /\ "done" \notin InFlight
        /\ "none" \notin InFlight
    BY DEF InFlight
  <1>2. /\ request' \in [Request -> RequestState]
        /\ \A q \in Request : /\ request'[q].tab = request[q].tab
                              /\ request'[q].kind = request[q].kind
                              /\ request'[q].at = IF q = r THEN "done" ELSE request[q].at
    BY <1>1, Moved
  <1>3. OneAttempt'
    BY <1>1, MovedOneAttempt
  <1>4. request[r].tab \in Tab
    BY <1>1 DEF Attempts
  <1>5. Open' = Open
    BY SameOpen
  <1>6. ASSUME NEW q \in Request
        PROVE  /\ request'[q].at # "none" =>
                    /\ request'[q].tab \in Tab /\ request'[q].kind # "none"
                    /\ tab'[request'[q].tab].type # "none"
               /\ request'[q].at \in InFlight =>
                    /\ request'[q].kind = "prepare" => Preparing(q)'
                    /\ request'[q].kind \in {"direct", "local"} => Opening(q)'
                    /\ request'[q].kind = "reconnect" => Reconnecting(q)'
    <2>1. CASE q = r
      BY <2>1, <1>1, <1>2, <1>4 DEF Attempts
    <2>2. CASE q # r /\ request[q].at \notin InFlight
      BY <2>2, <1>2 DEF Attempts
    <2>3. CASE q # r /\ request[q].at \in InFlight
      <3>1. request[q].tab # request[r].tab
        BY <2>3 DEF OneAttempt
      <3>2. request[q].tab \in Tab /\ tab'[request[q].tab] = tab[request[q].tab]
            /\ panel'[request[q].tab] = panel[request[q].tab]
        BY <3>1, <2>3, <1>1 DEF Attempts
      <3>3. request'[q].tab = request[q].tab /\ request'[q].kind = request[q].kind
            /\ request'[q].at = request[q].at
        BY <2>3, <1>2
      <3>4. Preparing(q) => Preparing(q)'
        BY <3>2, <3>3 DEF Preparing
      <3>5. Opening(q) => Opening(q)'
        BY <3>2, <3>3 DEF Opening
      <3>6. Reconnecting(q) => Reconnecting(q)'
        BY <1>5, <3>2, <3>3 DEF Reconnecting
      <3> QED BY <2>3, <3>2, <3>3, <3>4, <3>5, <3>6, <1>1 DEF Attempts
    <2> QED BY <2>1, <2>2, <2>3
  <1>7. Attempts'
    BY <1>6 DEF Attempts
  <1> QED BY <1>2, <1>3, <1>4, <1>7

(* What is known to have ended stays so.                                    *)
LEMMA PanelsElsewhere ==
    ASSUME Panels, UNCHANGED <<sshTabs, localTabs, panel, session>>,
           \A u \in Tab : panel[u].at # "none" => tab'[u] = tab[u]
    PROVE  Panels'
  <1>1. Open' = Open
    BY SameOpen
  <1> QED BY <1>1 DEF Panels, PanelOf, Knows

LEMMA TrustFailsKeeps ==
    ASSUME TermInv, NEW r \in Request, TrustFails(r)
    PROVE  TermInv'
  <1> USE DEF TermInv
  <1> DEFINE t == request[r].tab
  <1>1. request[r].at \in InFlight /\ request[r].at = "trust" /\ request[r].at # "none"
    BY DEF InFlight, TrustFails
  <1>2. request[r].kind = "prepare"
    BY <1>1 DEF TermTypeOK, RequestState, Attempts, Opening, Reconnecting
  <1>3. t \in Tab /\ tab[t].type = "connecting" /\ tab[t].session = None
    BY <1>1, <1>2 DEF Attempts, Preparing
  <1>4. tab' = tab \/ tab' = [tab EXCEPT ![t].step = "error"]
    BY DEF TrustFails
  <1>5. /\ tab' \in [Tab -> TabState]
        /\ \A u \in Tab : u # t => tab'[u] = tab[u]
        /\ \A u \in Tab : tab'[u].type = tab[u].type /\ tab'[u].conn = tab[u].conn
                              /\ tab'[u].session = tab[u].session
    <2>1. tab \in [Tab -> TabState]
      BY DEF TermTypeOK
    <2>2. CASE tab' = tab
      BY <2>1, <2>2
    <2>3. CASE tab' = [tab EXCEPT ![t].step = "error"]
      <3>1. tab[t] \in TabState
        BY <1>3, <2>1
      <3>2. [tab[t] EXCEPT !.step = "error"] \in TabState
        BY <3>1 DEF TabState
      <3>3. /\ [tab[t] EXCEPT !.step = "error"].type = tab[t].type
            /\ [tab[t] EXCEPT !.step = "error"].session = tab[t].session
            /\ [tab[t] EXCEPT !.step = "error"].conn = tab[t].conn
        BY <3>1 DEF TabState
      <3> QED BY <1>3, <2>1, <2>3, <3>2, <3>3
    <2> QED BY <1>4, <2>2, <2>3
  <1>6. Moves(r, "done")
        /\ UNCHANGED <<sshTabs, localTabs, panel, session, closing, ended, trusted>>
    BY DEF TrustFails, Moves
  <1>7. /\ request' \in [Request -> RequestState]
        /\ \A q \in Request : request'[q].at = IF q = r THEN "done" ELSE request[q].at
        /\ OneAttempt' /\ Attempts'
    BY <1>1, <1>3, <1>5, <1>6, Settles
  <1>8. TermTypeOK'
    BY <1>5, <1>6, <1>7 DEF TermTypeOK
  <1>9. Placed'
    BY <1>5, <1>6 DEF Placed, In
  <1>10. Sessions'
    BY <1>1, <1>5, <1>6, <1>7 DEF Sessions
  <1>11. Panels'
    BY <1>3, <1>5, <1>6, PanelsElsewhere DEF Panels, PanelOf
  <1>12. NoOrphanSession'
    <2>1. Open' = Open
      BY <1>6, SameOpen
    <2>2. Open \subseteq Tab
      BY DEF Open, TermTypeOK
    <2> QED BY <1>1, <1>5, <1>6, <1>7, <2>1, <2>2 DEF NoOrphanSession
  <1> QED BY <1>7, <1>8, <1>9, <1>10, <1>11, <1>12

(* The answer of a request that opens a session: the tab, which had none, has *)
(* it now, or it is closed.                                                  *)
LEMMA AnswerKeeps ==
    ASSUME TermInv, NEW r \in Request,
           request[r].at \in {"opened", "refused", "untrusted"}, Moves(r, "done"),
           tab[request[r].tab].session = None,
           tab' \in [Tab -> TabState], closing \subseteq closing', closing' \subseteq Request,
           \A u \in Tab : u # request[r].tab => tab'[u] = tab[u],
           LET t == request[r].tab IN
             /\ tab'[t].type # "none" /\ tab'[t].conn = tab[t].conn
             /\ In(t, sshTabs) => tab'[t].type \in {"connecting", "terminal"}
             /\ In(t, localTabs) => tab'[t].type = "local"
             /\ \/ /\ t \in Open /\ tab'[t].session = r /\ request[r].at = "opened"
                   /\ tab'[t].type \in {"terminal", "local"}
                \/ tab'[t].session = None /\ (request[r].at = "opened" => r \in closing'),
           UNCHANGED <<sshTabs, localTabs, panel, session, ended, trusted>>
    PROVE  TermInv'
  <1> USE DEF TermInv
  <1> DEFINE t == request[r].tab
  <1>1. request[r].at \in InFlight /\ request[r].at # "none"
    BY DEF InFlight
  <1>2. /\ request' \in [Request -> RequestState]
        /\ \A q \in Request : request'[q].at = IF q = r THEN "done" ELSE request[q].at
        /\ t \in Tab /\ OneAttempt' /\ Attempts'
    BY <1>1, Settles
  <1>3. Open' = Open /\ Open \subseteq Tab
    BY SameOpen DEF Open, TermTypeOK
  <1>4. TermTypeOK'
    BY <1>2 DEF TermTypeOK
  <1>5. Placed'
    BY <1>2 DEF Placed, In
  <1>6. Sessions'
    <2>1. request[r].at = "opened" => session[r] # "none"
      BY DEF Sessions
    <2>2. r # None
      BY NoNone
    <2>3. \A u \in Tab : tab'[u].session # None =>
             session[tab'[u].session] # "none" /\ tab'[u].type \in {"terminal", "local"}
      <3>1. SUFFICES ASSUME NEW u \in Tab, tab'[u].session # None
                     PROVE  session[tab'[u].session] # "none"
                            /\ tab'[u].type \in {"terminal", "local"}
        OBVIOUS
      <3>2. CASE u = t
        BY <3>1, <3>2, <2>1
      <3>3. CASE u # t
        BY <3>1, <3>3 DEF Sessions
      <3> QED BY <3>2, <3>3
    <2>4. \A q \in Request : session[q] # "none" => request'[q].at \in {"opened", "done"}
      BY <1>2 DEF Sessions
    <2>5. \A q \in Request : request'[q].at = "opened" => session[q] # "none"
      BY <1>2 DEF Sessions
    <2> QED BY <2>3, <2>4, <2>5 DEF Sessions
  <1>7. Panels'
    <2>1. panel[t].at = "none"
      BY <1>2 DEF Panels, PanelOf
    <2> QED BY <2>1, PanelsElsewhere
  <1>8. NoOrphanSession'
    <2> SUFFICES ASSUME NEW s \in Request, session[s] = "live"
                 PROVE  \/ s \in closing'
                        \/ request'[s].at = "opened"
                        \/ \E u \in Open : tab'[u].session = s
      BY <1>3 DEF NoOrphanSession
    <2>1. CASE s = r
      <3>1. request[r].at = "opened"
        BY <1>1, <2>1 DEF Sessions
      <3> QED BY <1>2, <2>1, <3>1
    <2>2. CASE s # r
      <3>1. s # None
        BY NoNone
      <3>2. \A u \in Open : tab[u].session = s => tab'[u].session = s
        BY <1>3, <3>1
      <3> QED BY <1>2, <2>2, <3>2 DEF NoOrphanSession
    <2> QED BY <2>1, <2>2
  <1> QED BY <1>2, <1>4, <1>5, <1>6, <1>7, <1>8

LEMMA PrepareAnsweredKeeps ==
    ASSUME TermInv, NEW r \in Request, PrepareAnswered(r)
    PROVE  TermInv'
  <1> DEFINE t == request[r].tab
  <1>1. /\ request[r].at \in {"opened", "refused", "untrusted"} /\ request[r].kind = "prepare"
        /\ request[r].at \in InFlight /\ request[r].at # "none" /\ Moves(r, "done")
    BY DEF PrepareAnswered, InFlight, Done, Moves
  <1>2. /\ t \in Tab /\ tab[t].type = "connecting" /\ tab[t].session = None
        /\ tab \in [Tab -> TabState] /\ closing \subseteq Request
    BY <1>1 DEF TermInv, TermTypeOK, Attempts, Preparing
  <1>3. In(t, localTabs) => FALSE
    BY <1>2 DEF TermInv, Placed
  <1>4. UNCHANGED <<sshTabs, localTabs, panel, session, ended, trusted>>
    BY DEF PrepareAnswered
  <1>5. CASE ~connectingTabExists(t)
    <2>1. tab' = tab
          /\ closing' = IF request[r].at = "opened" THEN closing \cup {r} ELSE closing
      BY <1>5 DEF PrepareAnswered
    <2> QED BY <1>1, <1>2, <1>3, <1>4, <2>1, AnswerKeeps
  <1>6. CASE connectingTabExists(t)
    <2> DEFINE terminal == [conn |-> tab[t].conn, type |-> "terminal", step |-> "idle",
                            session |-> r]
               key == [tab[t] EXCEPT !.step = "hostkey"]
               error == [tab[t] EXCEPT !.step = "error"]
    <2>1. tab[t] \in TabState
      BY <1>2
    <2>2. /\ terminal \in TabState /\ key \in TabState /\ error \in TabState
          /\ terminal.type = "terminal" /\ terminal.session = r
          /\ terminal.conn = tab[t].conn /\ key.conn = tab[t].conn /\ error.conn = tab[t].conn
          /\ key.type = "connecting" /\ key.session = None
          /\ error.type = "connecting" /\ error.session = None
      BY <1>2, <2>1 DEF TabState
    <2>3. /\ closing' = closing
          /\ tab' = [tab EXCEPT ![t] = CASE request[r].at = "opened" -> terminal
                                         [] request[r].at = "untrusted" -> key
                                         [] OTHER -> error]
      BY <1>6 DEF PrepareAnswered
    <2> HIDE DEF terminal, key, error
    <2>4. t \in Open
      BY <1>6 DEF connectingTabExists
    <2>5. CASE request[r].at = "opened"
      <3>1. tab' = [tab EXCEPT ![t] = terminal]
        BY <2>3, <2>5
      <3> QED BY <1>1, <1>2, <1>3, <1>4, <2>2, <2>3, <2>4, <2>5, <3>1, AnswerKeeps
    <2>6. CASE request[r].at = "untrusted"
      <3>1. tab' = [tab EXCEPT ![t] = key]
        BY <2>3, <2>6
      <3> QED BY <1>1, <1>2, <1>3, <1>4, <2>2, <2>3, <2>6, <3>1, AnswerKeeps
    <2>7. CASE request[r].at = "refused"
      <3>1. tab' = [tab EXCEPT ![t] = error]
        BY <2>3, <2>7
      <3> QED BY <1>1, <1>2, <1>3, <1>4, <2>2, <2>3, <2>7, <3>1, AnswerKeeps
    <2> QED BY <1>1, <2>5, <2>6, <2>7
  <1> QED BY <1>5, <1>6

LEMMA DirectAnsweredKeeps ==
    ASSUME TermInv, NEW r \in Request, DirectAnswered(r)
    PROVE  TermInv'
  <1> DEFINE t == request[r].tab
  <1>1. /\ request[r].at \in {"opened", "refused", "untrusted"}
        /\ request[r].kind \in {"direct", "local"}
        /\ request[r].at \in InFlight /\ request[r].at # "none" /\ Moves(r, "done")
    BY DEF DirectAnswered, InFlight, Done, Moves
  <1>2. /\ t \in Tab /\ tab[t].type \in {"terminal", "local"} /\ tab[t].session = None
        /\ tab \in [Tab -> TabState] /\ closing \subseteq Request
    BY <1>1 DEF TermInv, TermTypeOK, Attempts, Opening
  <1>3. /\ In(t, sshTabs) => tab[t].type \in {"connecting", "terminal"}
        /\ In(t, localTabs) => tab[t].type = "local"
    BY <1>2 DEF TermInv, Placed
  <1>4. UNCHANGED <<sshTabs, localTabs, panel, session, ended, trusted>>
    BY DEF DirectAnswered
  <1>5. CASE ~terminalTabExists(t)
    <2>1. tab' = tab
          /\ closing' = IF request[r].at = "opened" THEN closing \cup {r} ELSE closing
      BY <1>5 DEF DirectAnswered
    <2> QED BY <1>1, <1>2, <1>3, <1>4, <2>1, AnswerKeeps
  <1>6. CASE terminalTabExists(t)
    <2> DEFINE open == [tab[t] EXCEPT !.session = r]
               error == [tab[t] EXCEPT !.session = None, !.step = "error"]
    <2>1. tab[t] \in TabState
      BY <1>2
    <2>2. /\ open \in TabState /\ open.type = tab[t].type /\ open.session = r
          /\ open.conn = tab[t].conn /\ error.conn = tab[t].conn
          /\ error \in TabState /\ error.type = tab[t].type /\ error.session = None
      BY <1>2, <2>1 DEF TabState
    <2>3. closing' = closing /\ t \in Open
      BY <1>6 DEF DirectAnswered, terminalTabExists
    <2>4. CASE request[r].at = "opened"
      <3>1. tab' = [tab EXCEPT ![t] = open]
        BY <1>6, <2>4 DEF DirectAnswered
      <3> HIDE DEF open
      <3> QED BY <1>1, <1>2, <1>3, <1>4, <2>2, <2>3, <2>4, <3>1, AnswerKeeps
    <2>5. CASE request[r].at # "opened"
      <3>1. tab' = [tab EXCEPT ![t] = error]
        BY <1>2, <1>6, <2>5 DEF DirectAnswered
      <3> HIDE DEF error
      <3> QED BY <1>1, <1>2, <1>3, <1>4, <2>2, <2>3, <2>5, <3>1, AnswerKeeps
    <2> QED BY <2>4, <2>5
  <1> QED BY <1>5, <1>6

(* The answers of a reconnection.  The panel, if there is one, is that of   *)
(* this reconnection.                                                      *)
LEMMA Answering ==
    ASSUME TermInv, NEW r \in Request, request[r].kind = "reconnect",
           request[r].at \in {"opened", "refused", "untrusted"}
    PROVE  LET t == request[r].tab IN
           /\ request[r].at \in InFlight /\ request[r].at # "none"
           /\ t \in Tab /\ tab[t] \in TabState /\ panel[t] \in PanelState
           /\ tab[t].type \in {"terminal", "local"} /\ tab[t].session \in Request
           /\ t \in Open <=> panel[t].at # "none"
           /\ panel[t].at # "none" =>
                /\ panel[t].reconnecting /\ panel[t].request = r
                /\ panel[t].wasRequest = tab[t].session
                /\ Knows(panel[t].was, tab[t].session)
  <1> USE DEF TermInv
  <1> DEFINE t == request[r].tab
  <1>1. request[r].at \in InFlight /\ request[r].at # "none"
    BY DEF InFlight
  <1>2. t \in Tab /\ Reconnecting(r)
    BY <1>1 DEF Attempts
  <1>3. tab[t] \in TabState /\ panel[t] \in PanelState
    BY <1>2 DEF TermTypeOK
  <1>4. tab[t].type \in {"terminal", "local"} /\ tab[t].session \in Request
    BY <1>2, <1>3 DEF Reconnecting, TabState
  <1>5. t \in Open => panel[t].reconnecting /\ panel[t].request = r
    BY <1>2 DEF Reconnecting
  <1>6. panel[t].at = "none" => ~panel[t].reconnecting
    BY <1>2 DEF Panels, PanelOf, NoPanel
  <1> QED BY <1>1, <1>2, <1>3, <1>4, <1>5, <1>6 DEF Panels, PanelOf

LEMMA ReconnectedKeeps ==
    ASSUME TermInv, NEW r \in Request, Reconnected(r)
    PROVE  TermInv'
  <1> DEFINE t == request[r].tab
  <1>1. /\ request[r].at = "opened" /\ request[r].kind = "reconnect" /\ Moves(r, "done")
        /\ UNCHANGED <<sshTabs, localTabs, session, ended, trusted>>
    BY DEF Reconnected, Done, Moves
  <1>2. /\ request[r].at \in InFlight /\ request[r].at # "none"
        /\ t \in Tab /\ tab[t] \in TabState /\ panel[t] \in PanelState
        /\ tab[t].type \in {"terminal", "local"} /\ tab[t].session \in Request
        /\ t \in Open <=> panel[t].at # "none"
        /\ panel[t].at # "none" =>
             /\ panel[t].reconnecting /\ panel[t].request = r
             /\ panel[t].wasRequest = tab[t].session
             /\ Knows(panel[t].was, tab[t].session)
    BY <1>1, Answering
  <1>3. Open' = Open /\ Open \subseteq Tab
    BY <1>1, SameOpen DEF Open, TermInv, TermTypeOK
  <1>4. r # None /\ session[r] # "none"
    BY <1>1, NoNone DEF TermInv, Sessions
  <1> DEFINE terminal == [tab[t] EXCEPT !.session = r]
             shows == [panel[t] EXCEPT !.session = r, !.says = "connected",
                                       !.reconnecting = FALSE, !.was = None,
                                       !.wasRequest = None]
  <1>5. /\ terminal \in TabState /\ terminal.session = r /\ terminal.type = tab[t].type
        /\ terminal.conn = tab[t].conn
        /\ shows \in PanelState /\ shows.session = r /\ shows.request = panel[t].request
        /\ shows.says = "connected" /\ shows.reconnecting = FALSE /\ shows.at = panel[t].at
    BY <1>2 DEF TabState, PanelState
  <1> HIDE DEF terminal, shows
  <1>6. \/ /\ panel[t].at = "none" /\ closing' = closing \cup {r}
           /\ tab' = tab /\ panel' = panel
        \/ /\ panel[t].at # "none" /\ closing' = closing \cup ({panel[t].was} \ {None})
           /\ tab' = [tab EXCEPT ![t] = terminal]
           /\ panel' = [panel EXCEPT ![t] = shows]
    BY DEF Reconnected, terminal, shows
  <1>7. /\ tab' \in [Tab -> TabState] /\ panel' \in [Tab -> PanelState]
        /\ \A u \in Tab : u # t => tab'[u] = tab[u] /\ panel'[u] = panel[u]
        /\ tab'[t].type = tab[t].type /\ tab'[t].conn = tab[t].conn
        /\ closing' \subseteq Request /\ closing \subseteq closing'
    <2>1. /\ tab \in [Tab -> TabState] /\ panel \in [Tab -> PanelState]
          /\ closing \subseteq Request /\ panel[t].was \in Request \cup {None}
      BY <1>2 DEF TermInv, TermTypeOK, PanelState
    <2>2. CASE tab' = tab /\ panel' = panel /\ closing' = closing \cup {r}
      BY <2>1, <2>2
    <2>3. CASE /\ closing' = closing \cup ({panel[t].was} \ {None})
               /\ tab' = [tab EXCEPT ![t] = terminal]
               /\ panel' = [panel EXCEPT ![t] = shows]
      BY <1>2, <1>5, <2>1, <2>3
    <2> QED BY <1>6, <2>2, <2>3
  <1>8. /\ request' \in [Request -> RequestState]
        /\ \A q \in Request : request'[q].at = IF q = r THEN "done" ELSE request[q].at
        /\ OneAttempt' /\ Attempts'
    BY <1>1, <1>2, <1>7, Settles
  <1>9. TermTypeOK'
    BY <1>1, <1>7, <1>8 DEF TermInv, TermTypeOK
  <1>10. Placed'
    BY <1>1, <1>2, <1>7 DEF TermInv, Placed, In
  <1>11. Sessions'
    <2>1. \A u \in Tab : tab'[u].session # None =>
             session[tab'[u].session] # "none" /\ tab'[u].type \in {"terminal", "local"}
      BY <1>2, <1>4, <1>5, <1>6, <1>7 DEF TermInv, Sessions
    <2> QED BY <1>1, <1>8, <2>1 DEF TermInv, Sessions
  <1>12. Panels'
    <2>1. \A k, s : Knows(k, s)' <=> Knows(k, s)
      BY <1>1 DEF Knows
    <2>2. CASE panel[t].at = "none"
      <3>1. tab' = tab /\ panel' = panel
        BY <1>6, <2>2
      <3> QED BY <1>1, <3>1, PanelsFrame DEF TermInv
    <2>3. CASE panel[t].at # "none"
      <3>1. tab'[t] = terminal /\ panel'[t] = shows
        BY <1>2, <1>6, <2>3 DEF TermInv, TermTypeOK
      <3>2. Knows(r, r)
        BY DEF Knows
      <3>3. ASSUME NEW u \in Tab
            PROVE  PanelOf(u)'
        <4>1. CASE u = t
          BY <4>1, <1>2, <1>3, <1>4, <1>5, <2>1, <2>3, <3>1, <3>2 DEF PanelOf
        <4>2. CASE u # t
          BY <4>2, <1>3, <1>7, <2>1 DEF TermInv, Panels, PanelOf
        <4> QED BY <4>1, <4>2
      <3> QED BY <3>3 DEF Panels
    <2> QED BY <2>2, <2>3
  <1>13. NoOrphanSession'
    <2> SUFFICES ASSUME NEW s \in Request, session[s] = "live"
                 PROVE  \/ s \in closing'
                        \/ request'[s].at = "opened"
                        \/ \E u \in Open : tab'[u].session = s
      BY <1>1, <1>3 DEF NoOrphanSession
    <2>1. CASE s = r
      BY <1>2, <1>5, <1>6, <2>1 DEF TermInv, TermTypeOK
    <2>2. CASE s # r /\ (s \in closing \/ request[s].at = "opened")
      BY <1>7, <1>8, <2>2
    <2>3. CASE s # r /\ \E u \in Open : tab[u].session = s
      <3>1. PICK u \in Open : tab[u].session = s
        BY <2>3
      <3>2. CASE u # t
        BY <1>3, <1>7, <3>1, <3>2
      <3>3. CASE u = t
        <4>1. panel[t].was = s
          BY <1>2, <3>1, <3>3 DEF Knows
        <4> QED BY <1>2, <1>6, <3>1, <3>3, <4>1, NoNone
      <3> QED BY <3>2, <3>3
    <2> QED BY <2>1, <2>2, <2>3 DEF TermInv, NoOrphanSession
  <1> QED BY <1>8, <1>9, <1>10, <1>11, <1>12, <1>13 DEF TermInv

LEMMA ReconnectFailedKeeps ==
    ASSUME TermInv, NEW r \in Request, ReconnectFailed(r)
    PROVE  TermInv'
  <1> DEFINE t == request[r].tab
  <1>1. /\ request[r].at \in {"refused", "untrusted"} /\ request[r].kind = "reconnect"
        /\ Moves(r, "done")
        /\ UNCHANGED <<sshTabs, localTabs, tab, session, closing, ended, trusted>>
    BY DEF ReconnectFailed, Done, Moves
  <1>2. /\ request[r].at \in InFlight /\ request[r].at # "none"
        /\ t \in Tab /\ tab[t] \in TabState /\ panel[t] \in PanelState
        /\ tab[t].type \in {"terminal", "local"} /\ tab[t].session \in Request
        /\ t \in Open <=> panel[t].at # "none"
        /\ panel[t].at # "none" =>
             /\ panel[t].reconnecting /\ panel[t].request = r
             /\ panel[t].wasRequest = tab[t].session
             /\ Knows(panel[t].was, tab[t].session)
    BY <1>1, Answering
  <1>3. Open' = Open /\ Open \subseteq Tab
    BY <1>1, SameOpen DEF Open, TermInv, TermTypeOK
  <1> DEFINE shows == [panel[t] EXCEPT !.session = panel[t].was,
                                       !.request = panel[t].wasRequest, !.says = "failed",
                                       !.reconnecting = FALSE, !.was = None,
                                       !.wasRequest = None]
  <1>4. /\ shows \in PanelState /\ shows.session = panel[t].was
        /\ shows.request = panel[t].wasRequest
        /\ shows.says = "failed" /\ shows.reconnecting = FALSE /\ shows.at = panel[t].at
    BY <1>2 DEF PanelState
  <1> HIDE DEF shows
  <1>5. \/ panel[t].at = "none" /\ panel' = panel
        \/ panel[t].at # "none" /\ panel' = [panel EXCEPT ![t] = shows]
    BY DEF ReconnectFailed, shows
  <1>6. /\ panel' \in [Tab -> PanelState]
        /\ \A u \in Tab : u # t => panel'[u] = panel[u]
    BY <1>2, <1>4, <1>5 DEF TermInv, TermTypeOK
  <1>7. /\ request' \in [Request -> RequestState]
        /\ \A q \in Request : request'[q].at = IF q = r THEN "done" ELSE request[q].at
        /\ OneAttempt' /\ Attempts'
    BY <1>1, <1>2, <1>6, Settles
  <1>8. TermTypeOK'
    BY <1>1, <1>6, <1>7 DEF TermInv, TermTypeOK
  <1>9. Placed'
    BY <1>1, PlacedFrame DEF TermInv
  <1>10. Sessions'
    BY <1>1, <1>7 DEF TermInv, Sessions
  <1>11. Panels'
    <2>1. \A k, s : Knows(k, s)' <=> Knows(k, s)
      BY <1>1 DEF Knows
    <2>2. CASE panel[t].at = "none"
      BY <1>1, <1>5, <2>2, PanelsFrame DEF TermInv
    <2>3. CASE panel[t].at # "none"
      <3>1. panel'[t] = shows
        BY <1>2, <1>5, <2>3 DEF TermInv, TermTypeOK
      <3>2. ASSUME NEW u \in Tab
            PROVE  PanelOf(u)'
        <4>1. CASE u = t
          BY <4>1, <1>1, <1>2, <1>3, <1>4, <2>1, <2>3, <3>1, NoNone DEF PanelOf
        <4>2. CASE u # t
          BY <4>2, <1>1, <1>3, <1>6, <2>1 DEF TermInv, Panels, PanelOf
        <4> QED BY <4>1, <4>2
      <3> QED BY <3>2 DEF Panels
    <2> QED BY <2>2, <2>3
  <1>12. NoOrphanSession'
    BY <1>1, <1>3, <1>7 DEF TermInv, NoOrphanSession
  <1> QED BY <1>7, <1>8, <1>9, <1>10, <1>11, <1>12 DEF TermInv


(* What becomes of panels leaves the requests in flight as they are, when    *)
(* the panels of the tabs that reconnect keep their request.                *)
LEMMA AttemptsElsewhere ==
    ASSUME Attempts, UNCHANGED <<sshTabs, localTabs, tab, request>>,
           \A t \in Tab : panel[t].reconnecting =>
               panel'[t].reconnecting /\ panel'[t].request = panel[t].request
    PROVE  Attempts'
  <1>1. Open' = Open
    BY SameOpen
  <1>2. \A r \in Request : /\ Preparing(r) => Preparing(r)'
                           /\ Opening(r) => Opening(r)'
    BY DEF Preparing, Opening
  <1>3. \A r \in Request : request[r].tab \in Tab /\ Reconnecting(r) => Reconnecting(r)'
    BY <1>1 DEF Reconnecting
  <1>4. "none" \notin InFlight
    BY DEF InFlight
  <1> QED BY <1>2, <1>3, <1>4 DEF Attempts

LEMMA MountKeeps ==
    ASSUME TermInv, NEW t \in Tab, Mount(t)
    PROVE  TermInv'
  <1> DEFINE shows == [NoPanel EXCEPT !.at = "mounted", !.session = tab[t].session,
                                      !.request = tab[t].session, !.says = "connected"]
  <1>1. /\ t \in Open /\ tab[t].session # None /\ panel[t] = NoPanel
        /\ UNCHANGED <<sshTabs, localTabs, tab, request, session, closing, ended, trusted>>
    BY DEF Mount, TermInv, Panels, PanelOf
  <1>2. tab[t].session \in Request /\ tab[t].type \in {"terminal", "local"}
    BY <1>1 DEF TermInv, TermTypeOK, TabState, Sessions
  <1>3. panel' = [panel EXCEPT ![t] = shows]
    BY DEF Mount
  <1>4. /\ shows \in PanelState /\ shows.at = "mounted" /\ shows.session = tab[t].session
        /\ shows.request = tab[t].session /\ shows.says = "connected" /\ ~shows.reconnecting
    BY <1>2 DEF PanelState, NoPanel
  <1> HIDE DEF shows
  <1>5. /\ panel' \in [Tab -> PanelState] /\ panel'[t] = shows
        /\ \A u \in Tab : u # t => panel'[u] = panel[u]
    BY <1>3, <1>4 DEF TermInv, TermTypeOK
  <1>6. TermTypeOK'
    BY <1>1, <1>5 DEF TermInv, TermTypeOK
  <1>7. Placed' /\ Sessions' /\ OneAttempt' /\ NoOrphanSession'
    <2>1. Placed'
      BY <1>1, PlacedFrame DEF TermInv
    <2>2. Sessions' /\ OneAttempt'
      BY <1>1 DEF TermInv, Sessions, OneAttempt
    <2>3. NoOrphanSession'
      BY <1>1, SameOpen DEF TermInv, NoOrphanSession
    <2> QED BY <2>1, <2>2, <2>3
  <1>8. Attempts'
    <2>1. ~panel[t].reconnecting
      BY <1>1 DEF NoPanel
    <2> QED BY <1>1, <1>5, <2>1, AttemptsElsewhere DEF TermInv
  <1>9. Panels'
    <2>1. Open' = Open
      BY <1>1, SameOpen
    <2>2. \A k, s : Knows(k, s)' <=> Knows(k, s)
      BY <1>1 DEF Knows
    <2> SUFFICES ASSUME NEW u \in Tab
                 PROVE  PanelOf(u)'
      BY DEF Panels
    <2>3. CASE u = t
      BY <1>1, <1>2, <1>4, <1>5, <2>1, <2>2, <2>3 DEF PanelOf, Knows
    <2>4. CASE u # t
      BY <1>1, <1>5, <2>1, <2>2, <2>4 DEF TermInv, Panels, PanelOf
    <2> QED BY <2>3, <2>4
  <1> QED BY <1>6, <1>7, <1>8, <1>9 DEF TermInv

LEMMA PanelListensKeeps ==
    ASSUME TermInv, NEW t \in Tab, PanelListens(t)
    PROVE  TermInv'
  <1> DEFINE shows == [panel[t] EXCEPT !.at = "listening"]
  <1>1. /\ panel[t].at = "mounted" /\ panel[t] \in PanelState
        /\ UNCHANGED <<sshTabs, localTabs, tab, request, session, closing, ended, trusted>>
    BY DEF PanelListens, TermInv, TermTypeOK
  <1>2. panel' = [panel EXCEPT ![t] = shows]
    BY DEF PanelListens
  <1>3. /\ shows \in PanelState /\ shows.at = "listening" /\ shows.session = panel[t].session
        /\ shows.request = panel[t].request /\ shows.says = panel[t].says
        /\ shows.reconnecting = panel[t].reconnecting /\ shows.was = panel[t].was
        /\ shows.wasRequest = panel[t].wasRequest
    BY <1>1 DEF PanelState
  <1> HIDE DEF shows
  <1>4. /\ panel' \in [Tab -> PanelState] /\ panel'[t] = shows
        /\ \A u \in Tab : u # t => panel'[u] = panel[u]
    BY <1>2, <1>3 DEF TermInv, TermTypeOK
  <1>5. TermTypeOK'
    BY <1>1, <1>4 DEF TermInv, TermTypeOK
  <1>6. Placed' /\ Sessions' /\ OneAttempt' /\ NoOrphanSession'
    <2>1. Placed'
      BY <1>1, PlacedFrame DEF TermInv
    <2>2. Sessions' /\ OneAttempt'
      BY <1>1 DEF TermInv, Sessions, OneAttempt
    <2>3. NoOrphanSession'
      BY <1>1, SameOpen DEF TermInv, NoOrphanSession
    <2> QED BY <2>1, <2>2, <2>3
  <1>7. Attempts'
    BY <1>1, <1>3, <1>4, AttemptsElsewhere DEF TermInv
  <1>8. Panels'
    <2>1. Open' = Open
      BY <1>1, SameOpen
    <2>2. \A k, s : Knows(k, s)' <=> Knows(k, s)
      BY <1>1 DEF Knows
    <2> SUFFICES ASSUME NEW u \in Tab
                 PROVE  PanelOf(u)'
      BY DEF Panels
    <2>3. PanelOf(u)
      BY DEF TermInv, Panels
    <2>4. CASE u = t
      BY <1>1, <1>3, <1>4, <2>1, <2>2, <2>3, <2>4 DEF PanelOf
    <2>5. CASE u # t
      BY <1>1, <1>4, <2>1, <2>2, <2>3, <2>5 DEF PanelOf
    <2> QED BY <2>4, <2>5
  <1> QED BY <1>5, <1>6, <1>7, <1>8 DEF TermInv

(* A panel that hears of the end of a session hears of that of its tab,      *)
(* unless its tab reconnects.                                               *)
LEMMA StateChangedKeeps ==
    ASSUME TermInv, NEW s \in Request, StateChanged(s)
    PROVE  TermInv'
  <1> DEFINE hears(t) == panel[t].at = "listening" /\ matchesTerminalEvent(s, panel[t])
             shows(t) == [panel[t] EXCEPT !.session = None, !.says = "disconnected"]
  <1>1. /\ s \in ended /\ ended' = ended \ {s} /\ session[s] = "ended"
        /\ UNCHANGED <<sshTabs, localTabs, tab, request, session, closing, trusted>>
    BY DEF StateChanged, TermInv, Sessions
  <1>2. panel' = [t \in Tab |-> IF hears(t) THEN shows(t) ELSE panel[t]]
    BY DEF StateChanged
  <1>3. ASSUME NEW t \in Tab
        PROVE  /\ panel[t] \in PanelState
               /\ shows(t) \in PanelState /\ shows(t).session = None
               /\ shows(t).says = "disconnected" /\ shows(t).at = panel[t].at
               /\ shows(t).request = panel[t].request
               /\ shows(t).reconnecting = panel[t].reconnecting
               /\ shows(t).was = panel[t].was /\ shows(t).wasRequest = panel[t].wasRequest
    <2>1. panel[t] \in PanelState
      BY DEF TermInv, TermTypeOK
    <2> QED BY <2>1 DEF PanelState
  <1> HIDE DEF shows
  <1>4. /\ panel' \in [Tab -> PanelState]
        /\ \A t \in Tab : panel'[t] = IF hears(t) THEN shows(t) ELSE panel[t]
    BY <1>2, <1>3
  <1>5. TermTypeOK'
    BY <1>1, <1>4 DEF TermInv, TermTypeOK
  <1>6. Placed' /\ Sessions' /\ OneAttempt' /\ NoOrphanSession'
    <2>1. Placed'
      BY <1>1, PlacedFrame DEF TermInv
    <2>2. Sessions' /\ OneAttempt'
      BY <1>1 DEF TermInv, Sessions, OneAttempt
    <2>3. NoOrphanSession'
      BY <1>1, SameOpen DEF TermInv, NoOrphanSession
    <2> QED BY <2>1, <2>2, <2>3
  <1>7. Attempts'
    <2>1. \A t \in Tab : panel[t].reconnecting =>
              panel'[t].reconnecting /\ panel'[t].request = panel[t].request
      BY <1>3, <1>4
    <2> QED BY <1>1, <2>1, AttemptsElsewhere DEF TermInv
  <1>8. Panels'
    <2>1. Open' = Open
      BY <1>1, SameOpen
    <2>2. \A k, x : Knows(k, x)' <=> Knows(k, x)
      BY <1>1 DEF Knows
    <2> SUFFICES ASSUME NEW t \in Tab
                 PROVE  PanelOf(t)'
      BY DEF Panels
    <2>3. PanelOf(t)
      BY DEF TermInv, Panels
    <2>4. CASE hears(t)
      <3>1. panel'[t] = shows(t) /\ panel[t].at = "listening"
        BY <1>4, <2>4
      <3>2. CASE panel[t].reconnecting
        BY <1>1, <1>3, <2>1, <2>2, <2>3, <3>1, <3>2 DEF PanelOf
      <3>3. CASE ~panel[t].reconnecting
        <4>1. panel[t].request = tab[t].session /\ Knows(panel[t].session, tab[t].session)
          BY <2>3, <3>1, <3>3 DEF PanelOf
        <4>2. tab[t].session = s
          BY <2>4, <4>1, NoNone DEF matchesTerminalEvent, Knows
        <4>3. Knows(None, tab[t].session)
          BY <1>1, <4>2 DEF Knows
        <4> QED BY <1>1, <1>3, <2>1, <2>2, <2>3, <3>1, <3>3, <4>1, <4>3 DEF PanelOf
      <3> QED BY <3>2, <3>3
    <2>5. CASE ~hears(t)
      BY <1>1, <1>4, <2>1, <2>2, <2>3, <2>5 DEF PanelOf
    <2> QED BY <2>4, <2>5
  <1> QED BY <1>5, <1>6, <1>7, <1>8 DEF TermInv

(* A session that is over: it is out of the store, and its end on its way.   *)
LEMMA EndsKeeps ==
    ASSUME TermInv, NEW s \in Request, session[s] = "live", EndOf(s),
           closing' \subseteq Request, \A q \in Request : q # s /\ q \in closing => q \in closing',
           UNCHANGED <<sshTabs, localTabs, tab, panel, request, trusted>>
    PROVE  TermInv'
  <1> USE DEF TermInv
  <1>1. /\ session' \in [Request -> {"none", "live", "ended"}]
        /\ \A q \in Request : session'[q] = IF q = s THEN "ended" ELSE session[q]
        /\ ended' = ended \cup {s}
    BY DEF EndOf, TermTypeOK
  <1>2. TermTypeOK'
    BY <1>1 DEF TermTypeOK
  <1>3. Placed'
    BY PlacedFrame
  <1>4. Sessions'
    BY <1>1 DEF Sessions, TermTypeOK, TabState
  <1>5. Attempts'
    BY AttemptsElsewhere
  <1>6. OneAttempt'
    BY DEF OneAttempt
  <1>7. Open' = Open
    BY SameOpen
  <1>8. Panels'
    <2>1. \A k : \A t \in Tab : tab[t].session # None /\ Knows(k, tab[t].session)
                            => Knows(k, tab[t].session)'
      BY <1>1 DEF Knows, TermTypeOK, TabState
    <2> QED BY <1>7, <2>1 DEF Panels, PanelOf
  <1>9. NoOrphanSession'
    BY <1>1, <1>7 DEF NoOrphanSession
  <1> QED BY <1>2, <1>3, <1>4, <1>5, <1>6, <1>8, <1>9

LEMMA SessionEndsKeeps ==
    ASSUME TermInv, NEW s \in Request, SessionEnds(s)
    PROVE  TermInv'
  BY EndsKeeps DEF SessionEnds, TermInv, TermTypeOK

LEMMA closeKeeps ==
    ASSUME TermInv, NEW s \in Request, close(s)
    PROVE  TermInv'
  <1>1. /\ closing' = closing \ {s} /\ closing' \subseteq Request
        /\ UNCHANGED <<sshTabs, localTabs, tab, panel, request, trusted>>
    BY DEF close, TermInv, TermTypeOK
  <1>2. CASE session[s] = "live"
    BY <1>1, <1>2, EndsKeeps DEF close
  <1>3. CASE session[s] # "live"
    <2>1. UNCHANGED <<session, ended>>
      BY <1>3 DEF close
    <2>2. TermTypeOK'
      BY <1>1, <2>1 DEF TermInv, TermTypeOK
    <2>3. Placed' /\ Panels'
      BY <1>1, <2>1, PlacedFrame, PanelsFrame DEF TermInv
    <2>4. Attempts'
      BY <1>1, AttemptsElsewhere DEF TermInv
    <2>5. Sessions' /\ OneAttempt'
      BY <1>1, <2>1 DEF TermInv, Sessions, OneAttempt
    <2>6. NoOrphanSession'
      BY <1>1, <1>3, <2>1, SameOpen DEF TermInv, NoOrphanSession
    <2> QED BY <2>2, <2>3, <2>4, <2>5, <2>6 DEF TermInv
  <1> QED BY <1>2, <1>3

-----------------------------------------------------------------------------
(* A new request, of a tab that has none in flight.                        *)
LEMMA Requested ==
    ASSUME TermTypeOK, Attempts, OneAttempt, NEW r \in Request, NEW t \in Tab,
           NEW kind \in {"prepare", "direct", "local", "reconnect"}, NEW at \in InFlight,
           request[r].at = "none", NewRequest(r, t, kind, at),
           \A q \in Request : request[q].at \in InFlight => request[q].tab # t,
           \A u \in Tab : u # t =>
               tab'[u] = tab[u] /\ panel'[u] = panel[u] /\ (u \in Open' => u \in Open),
           tab'[t].type # "none",
           kind = "prepare" => Preparing(r)',
           kind \in {"direct", "local"} => Opening(r)',
           kind = "reconnect" => Reconnecting(r)'
    PROVE  /\ request' \in [Request -> RequestState]
           /\ request'[r] = [tab |-> t, kind |-> kind, at |-> at]
           /\ \A q \in Request : q # r => request'[q] = request[q]
           /\ OneAttempt' /\ Attempts'
  <1> DEFINE new == [tab |-> t, kind |-> kind, at |-> at]
  <1>1. new \in RequestState /\ new.tab = t /\ new.kind = kind /\ new.at = at
    BY DEF RequestState
  <1>2. request' = [request EXCEPT ![r] = new]
    BY DEF NewRequest
  <1> HIDE DEF new
  <1>3. /\ request' \in [Request -> RequestState] /\ request'[r] = new
        /\ \A q \in Request : q # r => request'[q] = request[q]
    BY <1>1, <1>2 DEF TermTypeOK
  <1>4. OneAttempt'
    BY <1>1, <1>3 DEF OneAttempt
  <1>5. ASSUME NEW q \in Request
        PROVE  /\ request'[q].at # "none" =>
                    /\ request'[q].tab \in Tab /\ request'[q].kind # "none"
                    /\ tab'[request'[q].tab].type # "none"
               /\ request'[q].at \in InFlight =>
                    /\ request'[q].kind = "prepare" => Preparing(q)'
                    /\ request'[q].kind \in {"direct", "local"} => Opening(q)'
                    /\ request'[q].kind = "reconnect" => Reconnecting(q)'
    <2>1. CASE q = r
      BY <1>1, <1>3, <2>1
    <2>2. CASE q # r /\ request[q].at \notin InFlight
      BY <1>3, <2>2 DEF Attempts
    <2>3. CASE q # r /\ request[q].at \in InFlight
      <3>1. request'[q] = request[q] /\ request[q].at # "none"
        BY <1>3, <2>3 DEF InFlight
      <3>2. LET u == request[q].tab IN
            /\ u \in Tab /\ u # t /\ tab'[u] = tab[u] /\ panel'[u] = panel[u]
            /\ u \in Open' => u \in Open
        BY <2>3, <3>1 DEF Attempts
      <3>3. Preparing(q) => Preparing(q)'
        BY <3>1, <3>2 DEF Preparing
      <3>4. Opening(q) => Opening(q)'
        BY <3>1, <3>2 DEF Opening
      <3>5. Reconnecting(q) => Reconnecting(q)'
        BY <3>1, <3>2 DEF Reconnecting
      <3> QED BY <2>3, <3>1, <3>2, <3>3, <3>4, <3>5 DEF Attempts
    <2> QED BY <2>1, <2>2, <2>3
  <1> QED BY <1>3, <1>4, <1>5 DEF Attempts, new

LEMMA reconnectCurrentTerminalKeeps ==
    ASSUME TermInv, NEW t \in Tab, NEW r \in Request, reconnectCurrentTerminal(t, r)
    PROVE  TermInv'
  <1> DEFINE shows == [at |-> "listening", session |-> None, request |-> r,
                       says |-> "reconnecting", reconnecting |-> TRUE,
                       was |-> panel[t].session, wasRequest |-> panel[t].request]
  <1>1. /\ panel[t].at = "listening" /\ ~panel[t].reconnecting /\ panel[t] \in PanelState
        /\ request[r].at = "none" /\ NewRequest(r, t, "reconnect", "sent")
        /\ "sent" \in InFlight
        /\ UNCHANGED <<sshTabs, localTabs, tab, session, closing, ended, trusted>>
    BY DEF reconnectCurrentTerminal, FreshRequest, TermInv, TermTypeOK, InFlight
  <1>2. /\ t \in Open /\ tab[t].type \in {"terminal", "local"} /\ tab[t].session # None
        /\ panel[t].request = tab[t].session /\ Knows(panel[t].session, tab[t].session)
    BY <1>1 DEF TermInv, Panels, PanelOf
  <1>3. panel' = [panel EXCEPT ![t] = shows]
    BY DEF reconnectCurrentTerminal
  <1>4. /\ shows \in PanelState /\ shows.at = "listening" /\ shows.session = None
        /\ shows.request = r /\ shows.reconnecting = TRUE
        /\ shows.was = panel[t].session /\ shows.wasRequest = panel[t].request
    BY <1>1 DEF PanelState
  <1> HIDE DEF shows
  <1>5. /\ panel' \in [Tab -> PanelState] /\ panel'[t] = shows
        /\ \A u \in Tab : u # t => panel'[u] = panel[u]
    BY <1>3, <1>4 DEF TermInv, TermTypeOK
  <1>6. Open' = Open
    BY <1>1, SameOpen
  <1>7. \A q \in Request : request[q].at \in InFlight => request[q].tab # t
    <2> SUFFICES ASSUME NEW q \in Request, request[q].at \in InFlight, request[q].tab = t
                 PROVE  FALSE
      OBVIOUS
    <2>1. request[q].kind \in {"prepare", "direct", "local", "reconnect"}
      BY DEF TermInv, TermTypeOK, RequestState, Attempts, InFlight
    <2> QED BY <1>1, <1>2, <2>1 DEF TermInv, Attempts, Preparing, Opening, Reconnecting
  <1>8. Reconnecting(r)'
    <2>1. request'[r].tab = t /\ request'[r].at = "sent"
      BY <1>1 DEF NewRequest, TermInv, TermTypeOK
    <2> QED BY <1>1, <1>2, <1>4, <1>5, <2>1 DEF Reconnecting
  <1>9. /\ request' \in [Request -> RequestState]
        /\ request'[r] = [tab |-> t, kind |-> "reconnect", at |-> "sent"]
        /\ \A q \in Request : q # r => request'[q] = request[q]
        /\ OneAttempt' /\ Attempts'
    BY <1>1, <1>2, <1>5, <1>6, <1>7, <1>8, Requested DEF TermInv
  <1>10. TermTypeOK'
    BY <1>1, <1>5, <1>9 DEF TermInv, TermTypeOK
  <1>11. Placed'
    BY <1>1, PlacedFrame DEF TermInv
  <1>12. session[r] = "none"
    BY <1>1 DEF TermInv, Sessions
  <1>13. Sessions'
    BY <1>1, <1>9, <1>12 DEF TermInv, Sessions
  <1>14. Panels'
    <2>1. \A k, x : Knows(k, x)' <=> Knows(k, x)
      BY <1>1 DEF Knows
    <2> SUFFICES ASSUME NEW u \in Tab
                 PROVE  PanelOf(u)'
      BY DEF Panels
    <2>2. CASE u = t
      BY <1>1, <1>2, <1>4, <1>5, <1>6, <2>1, <2>2 DEF PanelOf
    <2>3. CASE u # t
      BY <1>1, <1>5, <1>6, <2>1, <2>3 DEF TermInv, Panels, PanelOf
    <2> QED BY <2>2, <2>3
  <1>15. NoOrphanSession'
    BY <1>1, <1>6, <1>9, <1>12 DEF TermInv, NoOrphanSession
  <1> QED BY <1>9, <1>10, <1>11, <1>13, <1>14, <1>15 DEF TermInv

LEMMA AppendIn ==
    ASSUME NEW S, NEW order \in Seq(S), NEW y \in S
    PROVE  /\ Append(order, y) \in Seq(S)
           /\ \A x : In(x, Append(order, y)) <=> In(x, order) \/ x = y
  <1>1. Append(order, y) \in Seq(S) /\ Len(Append(order, y)) = Len(order) + 1
        /\ Len(order) \in Nat /\ DOMAIN order = 1..Len(order)
        /\ DOMAIN Append(order, y) = 1..(Len(order) + 1)
    OBVIOUS
  <1>2. \A i \in 1..Len(order) : Append(order, y)[i] = order[i]
    OBVIOUS
  <1>3. Append(order, y)[Len(order) + 1] = y
    OBVIOUS
  <1>4. ASSUME NEW x
        PROVE  In(x, Append(order, y)) <=> In(x, order) \/ x = y
    <2>1. ASSUME In(x, Append(order, y))
          PROVE  In(x, order) \/ x = y
      <3>1. PICK i \in 1..(Len(order) + 1) : Append(order, y)[i] = x
        BY <1>1, <2>1 DEF In
      <3>2. CASE i = Len(order) + 1
        BY <1>3, <3>1, <3>2
      <3>3. CASE i # Len(order) + 1
        <4>1. i \in 1..Len(order)
          BY <1>1, <3>1, <3>3
        <4> QED BY <1>1, <1>2, <3>1, <4>1 DEF In
      <3> QED BY <3>2, <3>3
    <2>2. ASSUME In(x, order)
          PROVE  In(x, Append(order, y))
      <3>1. PICK i \in 1..Len(order) : order[i] = x
        BY <1>1, <2>2 DEF In
      <3>2. i \in 1..(Len(order) + 1)
        BY <1>1, <3>1
      <3> QED BY <1>1, <1>2, <3>1, <3>2 DEF In
    <2>3. In(y, Append(order, y))
      <3>1. Len(order) + 1 \in 1..(Len(order) + 1)
        BY <1>1
      <3> QED BY <1>1, <1>3, <3>1 DEF In
    <2> QED BY <2>1, <2>2, <2>3
  <1> QED BY <1>1, <1>4

(* What is known of a tab that is not made yet.                             *)
LEMMA FreshIsUnused ==
    ASSUME TermInv, NEW t \in Tab, tab[t] = NoTab
    PROVE  /\ t \notin Open /\ panel[t] = NoPanel
           /\ \A q \in Request : request[q].at # "none" => request[q].tab # t
  <1>1. tab[t].type = "none"
    BY DEF NoTab
  <1>2. t \notin Open
    BY <1>1, OpenIsIn DEF TermInv, Placed
  <1>3. panel[t] = NoPanel
    BY <1>2 DEF TermInv, Panels, PanelOf
  <1>4. \A q \in Request : request[q].at # "none" => request[q].tab # t
    BY <1>1 DEF TermInv, Attempts
  <1> QED BY <1>2, <1>3, <1>4

(* A new tab, whatever becomes of the requests.                             *)
LEMMA Opened ==
    ASSUME TermInv, NEW t \in Tab, tab[t] = NoTab, NEW n \in TabState,
           n.session = None, tab' = [tab EXCEPT ![t] = n],
           \/ /\ n.type \in {"connecting", "terminal"} /\ n.conn # None
              /\ sshTabs' = Append(sshTabs, t) /\ localTabs' = localTabs
           \/ /\ n.type = "local"
              /\ localTabs' = Append(localTabs, t) /\ sshTabs' = sshTabs,
           UNCHANGED <<panel, session, closing, ended, trusted>>,
           request' \in [Request -> RequestState],
           \A r \in Request : request[r].at # "none" => request'[r] = request[r],
           \A r \in Request : request[r].at = "none" => request'[r].at # "opened"
    PROVE  /\ TermTypeOK' /\ Placed' /\ Sessions' /\ Panels' /\ NoOrphanSession'
           /\ Open' = Open \cup {t} /\ tab'[t] = n
           /\ \A u \in Tab : u # t => tab'[u] = tab[u]
  <1> USE DEF TermInv
  <1>1. /\ tab' \in [Tab -> TabState] /\ tab'[t] = n
        /\ \A u \in Tab : u # t => tab'[u] = tab[u]
    BY DEF TermTypeOK
  <1>2. /\ sshTabs' \in Seq(Tab) /\ localTabs' \in Seq(Tab)
        /\ \A u : In(u, sshTabs') <=> In(u, sshTabs) \/ (u = t /\ n.type # "local")
        /\ \A u : In(u, localTabs') <=> In(u, localTabs) \/ (u = t /\ n.type = "local")
    <2>1. sshTabs \in Seq(Tab) /\ localTabs \in Seq(Tab)
      BY DEF TermTypeOK
    <2>2. /\ Append(sshTabs, t) \in Seq(Tab)
          /\ \A u : In(u, Append(sshTabs, t)) <=> In(u, sshTabs) \/ u = t
      BY <2>1, AppendIn
    <2>3. /\ Append(localTabs, t) \in Seq(Tab)
          /\ \A u : In(u, Append(localTabs, t)) <=> In(u, localTabs) \/ u = t
      BY <2>1, AppendIn
    <2>4. CASE sshTabs' = Append(sshTabs, t)
      BY <2>1, <2>2, <2>4
    <2>5. CASE localTabs' = Append(localTabs, t)
      BY <2>1, <2>3, <2>5
    <2> QED BY <2>4, <2>5
  <1>3. Open' = Open \cup {t}
    <2>1. \A u : u \in Open' <=> In(u, sshTabs') \/ In(u, localTabs')
      BY DEF Open, In
    <2> QED BY <1>2, <2>1, OpenIsIn
  <1>4. t \notin Open /\ panel[t] = NoPanel
    BY FreshIsUnused
  <1>5. TermTypeOK'
    BY <1>1, <1>2 DEF TermTypeOK
  <1>6. Placed'
    <2>1. \A u \in Tab : /\ In(u, sshTabs') =>
                            tab'[u].type \in {"connecting", "terminal"} /\ tab'[u].conn # None
                         /\ In(u, localTabs') => tab'[u].type = "local"
      <3> SUFFICES ASSUME NEW u \in Tab
                   PROVE  /\ In(u, sshTabs') =>
                            tab'[u].type \in {"connecting", "terminal"} /\ tab'[u].conn # None
                          /\ In(u, localTabs') => tab'[u].type = "local"
        OBVIOUS
      <3>1. CASE u = t
        BY <1>1, <1>2, <1>4, <3>1, OpenIsIn
      <3>2. CASE u # t
        BY <1>1, <1>2, <3>2 DEF Placed
      <3> QED BY <3>1, <3>2
    <2> QED BY <2>1 DEF Placed, In
  <1>7. Sessions'
    BY <1>1 DEF Sessions
  <1>8. Panels'
    <2> SUFFICES ASSUME NEW u \in Tab
                 PROVE  PanelOf(u)'
      BY DEF Panels
    <2>1. CASE u = t
      BY <1>4, <2>1 DEF PanelOf, NoPanel
    <2>2. CASE u # t
      BY <1>1, <1>3, <2>2 DEF Panels, PanelOf, Knows
    <2> QED BY <2>1, <2>2
  <1>9. NoOrphanSession'
    <2>1. \A u \in Open : u \in Tab /\ u # t
      BY <1>4 DEF TermTypeOK, Open
    <2>2. ASSUME NEW s \in Request, session[s] = "live"
          PROVE  \/ s \in closing
                 \/ request'[s].at = "opened"
                 \/ \E u \in Open' : tab'[u].session = s
      <3>1. request[s].at # "none"
        BY <2>2 DEF Sessions
      <3> QED BY <1>1, <1>3, <2>1, <2>2, <3>1 DEF NoOrphanSession
    <2> QED BY <2>2 DEF NoOrphanSession
  <1> QED BY <1>1, <1>3, <1>5, <1>6, <1>7, <1>8, <1>9

(* A new tab with its request.                                              *)
LEMMA OpenedRequested ==
    ASSUME TermInv, NEW t \in Tab, tab[t] = NoTab, NEW n \in TabState,
           n.session = None, tab' = [tab EXCEPT ![t] = n],
           \/ /\ n.type \in {"connecting", "terminal"} /\ n.conn # None
              /\ sshTabs' = Append(sshTabs, t) /\ localTabs' = localTabs
           \/ /\ n.type = "local"
              /\ localTabs' = Append(localTabs, t) /\ sshTabs' = sshTabs,
           UNCHANGED <<panel, session, closing, ended, trusted>>,
           NEW r \in Request, request[r].at = "none",
           NEW kind \in {"prepare", "direct", "local"}, NewRequest(r, t, kind, "listen"),
           \/ kind = "prepare" /\ n.type = "connecting" /\ n.step = "running" /\ n.conn # None
           \/ kind # "prepare" /\ n.type \in {"terminal", "local"}
    PROVE  TermInv'
  <1>1. /\ tab' \in [Tab -> TabState] /\ tab'[t] = n
        /\ \A u \in Tab : u # t => tab'[u] = tab[u]
    BY DEF TermInv, TermTypeOK
  <1>2. \A q \in Request : request[q].at \in InFlight => request[q].tab # t
    BY FreshIsUnused DEF InFlight
  <1>3. request'[r].tab = t /\ request'[r].at = "listen"
    BY DEF NewRequest, TermInv, TermTypeOK
  <1>4. \A u : u \in Open' /\ u # t => u \in Open
    <2>1. \A u : u \in Open' <=> In(u, sshTabs') \/ In(u, localTabs')
      BY DEF Open, In
    <2>2. sshTabs \in Seq(Tab) /\ localTabs \in Seq(Tab)
      BY DEF TermInv, TermTypeOK
    <2>3. \A u : In(u, Append(sshTabs, t)) <=> In(u, sshTabs) \/ u = t
      BY <2>2, AppendIn
    <2>4. \A u : In(u, Append(localTabs, t)) <=> In(u, localTabs) \/ u = t
      BY <2>2, AppendIn
    <2> QED BY <2>1, <2>3, <2>4, OpenIsIn
  <1>5. /\ kind = "prepare" => Preparing(r)'
        /\ kind \in {"direct", "local"} => Opening(r)'
    BY <1>1, <1>3 DEF Preparing, Opening
  <1>6. /\ request' \in [Request -> RequestState]
        /\ request'[r] = [tab |-> t, kind |-> kind, at |-> "listen"]
        /\ \A q \in Request : q # r => request'[q] = request[q]
        /\ OneAttempt' /\ Attempts'
    <2>1. "listen" \in InFlight /\ kind \in {"prepare", "direct", "local", "reconnect"}
      BY DEF InFlight
    <2>2. tab'[t].type # "none"
      BY <1>1
    <2> QED BY <1>1, <1>2, <1>4, <1>5, <2>1, <2>2, Requested DEF TermInv
  <1>7. TermTypeOK' /\ Placed' /\ Sessions' /\ Panels' /\ NoOrphanSession'
    <2>1. \A q \in Request : request[q].at # "none" => request'[q] = request[q]
      BY <1>6
    <2>2. \A q \in Request : request[q].at = "none" => request'[q].at # "opened"
      BY <1>6
    <2> QED BY <1>6, <2>1, <2>2, Opened
  <1> QED BY <1>6, <1>7 DEF TermInv

LEMMA StartStepKeeps ==
    ASSUME TermInv, NEW t \in Tab, NEW r \in Request, NEW c \in Conn, StartStep(t, r, c)
    PROVE  TermInv'
  <1> DEFINE n == [conn |-> c, type |-> "connecting", session |-> None,
                   step |-> IF c \in Prompting THEN "prompt" ELSE "running"]
  <1>1. /\ n \in TabState /\ n.conn = c /\ n.type = "connecting" /\ n.session = None
        /\ n.step = IF c \in Prompting THEN "prompt" ELSE "running"
    BY DEF TabState
  <1>2. /\ tab[t] = NoTab /\ request[r].at = "none" /\ c # None
        /\ sshTabs' = Append(sshTabs, t)
        /\ tab' = [tab EXCEPT ![t] = n]
        /\ UNCHANGED <<localTabs, panel, session, closing, ended, trusted>>
    BY NoNone DEF StartStep, FreshTab, FreshRequest
  <1> HIDE DEF n
  <1>3. CASE c \notin Prompting
    <2>1. NewRequest(r, t, "prepare", "listen")
      BY <1>3 DEF StartStep
    <2> QED BY <1>1, <1>2, <1>3, <2>1, OpenedRequested
  <1>4. CASE c \in Prompting
    <2>1. request' = request
      BY <1>4 DEF StartStep
    <2>2. /\ TermTypeOK' /\ Placed' /\ Sessions' /\ Panels' /\ NoOrphanSession'
          /\ Open' = Open \cup {t}
          /\ \A u \in Tab : u # t => tab'[u] = tab[u]
      BY <1>1, <1>2, <2>1, Opened DEF TermInv, TermTypeOK
    <2>3. OneAttempt'
      BY <2>1 DEF TermInv, OneAttempt
    <2>4. Attempts'
      <3> SUFFICES ASSUME NEW q \in Request, request[q].at # "none"
                   PROVE  /\ request[q].tab \in Tab /\ request[q].kind # "none"
                          /\ tab'[request[q].tab].type # "none"
                          /\ request[q].at \in InFlight =>
                               /\ request[q].kind = "prepare" => Preparing(q)'
                               /\ request[q].kind \in {"direct", "local"} => Opening(q)'
                               /\ request[q].kind = "reconnect" => Reconnecting(q)'
        BY <2>1 DEF Attempts, InFlight
      <3>1. /\ request[q].tab \in Tab /\ request[q].tab # t
            /\ tab'[request[q].tab] = tab[request[q].tab]
            /\ request[q].tab \in Open' => request[q].tab \in Open
        BY <1>2, <2>2, FreshIsUnused DEF TermInv, Attempts
      <3>2. Preparing(q) => Preparing(q)'
        BY <2>1, <3>1 DEF Preparing
      <3>3. Opening(q) => Opening(q)'
        BY <2>1, <3>1 DEF Opening
      <3>4. Reconnecting(q) => Reconnecting(q)'
        BY <1>2, <2>1, <3>1 DEF Reconnecting
      <3> QED BY <3>1, <3>2, <3>3, <3>4 DEF TermInv, Attempts
    <2> QED BY <2>2, <2>3, <2>4 DEF TermInv
  <1> QED BY <1>3, <1>4

LEMMA OpenTerminalKeeps ==
    ASSUME TermInv, NEW t \in Tab, NEW r \in Request, NEW c \in Conn, OpenTerminal(t, r, c)
    PROVE  TermInv'
  <1> DEFINE n == [conn |-> c, type |-> "terminal", step |-> "idle", session |-> None]
  <1>1. n \in TabState /\ n.type = "terminal" /\ n.session = None /\ n.conn # None
    BY NoNone DEF TabState
  <1>2. /\ tab[t] = NoTab /\ request[r].at = "none"
        /\ sshTabs' = Append(sshTabs, t)
        /\ tab' = [tab EXCEPT ![t] = n] /\ NewRequest(r, t, "direct", "listen")
        /\ UNCHANGED <<localTabs, panel, session, closing, ended, trusted>>
    BY DEF OpenTerminal, FreshTab, FreshRequest
  <1> HIDE DEF n
  <1> QED BY <1>1, <1>2, OpenedRequested

LEMMA OpenLocalKeeps ==
    ASSUME TermInv, NEW t \in Tab, NEW r \in Request, OpenLocal(t, r)
    PROVE  TermInv'
  <1> DEFINE n == [conn |-> None, type |-> "local", step |-> "idle", session |-> None]
  <1>1. n \in TabState /\ n.type = "local" /\ n.session = None
    BY DEF TabState
  <1>2. /\ tab[t] = NoTab /\ request[r].at = "none"
        /\ localTabs' = Append(localTabs, t)
        /\ tab' = [tab EXCEPT ![t] = n] /\ NewRequest(r, t, "local", "listen")
        /\ UNCHANGED <<sshTabs, panel, session, closing, ended, trusted>>
    BY DEF OpenLocal, FreshTab, FreshRequest
  <1> HIDE DEF n
  <1> QED BY <1>1, <1>2, OpenedRequested

(* A step of a preparation page is run again; it has no request in flight.  *)
LEMMA runConnectionStepKeeps ==
    ASSUME TermInv, NEW t \in Tab, NEW r \in Request, NEW at \in {"listen", "trust"},
           connectingTabExists(t), tab[t].step # "running", tab[t].conn # None,
           runConnectionStep(t, r, at)
    PROVE  TermInv'
  <1> DEFINE n == [tab[t] EXCEPT !.step = "running"]
  <1>1. /\ request[r].at = "none" /\ NewRequest(r, t, "prepare", at)
        /\ t \in Open /\ tab[t].type = "connecting" /\ at \in InFlight
        /\ UNCHANGED <<sshTabs, localTabs, panel, session, closing, ended, trusted>>
    BY DEF runConnectionStep, FreshRequest, connectingTabExists, InFlight
  <1>2. tab[t].session = None
    BY <1>1 DEF TermInv, Sessions
  <1>3. tab[t] \in TabState /\ tab' = [tab EXCEPT ![t] = n]
    BY DEF runConnectionStep, TermInv, TermTypeOK
  <1>4. /\ n \in TabState /\ n.type = "connecting" /\ n.session = None
        /\ n.conn = tab[t].conn /\ n.step = "running"
    BY <1>1, <1>2, <1>3 DEF TabState
  <1> HIDE DEF n
  <1>5. /\ tab' \in [Tab -> TabState] /\ tab'[t] = n
        /\ \A u \in Tab : u # t => tab'[u] = tab[u]
        /\ \A u \in Tab : tab'[u].type = tab[u].type /\ tab'[u].conn = tab[u].conn
                              /\ tab'[u].session = tab[u].session
    BY <1>1, <1>2, <1>3, <1>4 DEF TermInv, TermTypeOK
  <1>6. Open' = Open /\ Open \subseteq Tab
    BY <1>1, SameOpen DEF Open, TermInv, TermTypeOK
  <1>7. \A q \in Request : request[q].at \in InFlight => request[q].tab # t
    <2> SUFFICES ASSUME NEW q \in Request, request[q].at \in InFlight, request[q].tab = t
                 PROVE  FALSE
      OBVIOUS
    <2>1. request[q].kind \in {"prepare", "direct", "local", "reconnect"}
      BY DEF TermInv, TermTypeOK, RequestState, Attempts, InFlight
    <2> QED BY <1>1, <1>2, <2>1 DEF TermInv, Attempts, Preparing, Opening, Reconnecting
  <1>8. Preparing(r)'
    <2>1. request'[r].tab = t
      BY <1>1 DEF NewRequest, TermInv, TermTypeOK
    <2> QED BY <1>4, <1>5, <2>1 DEF Preparing
  <1>9. /\ request' \in [Request -> RequestState]
        /\ request'[r] = [tab |-> t, kind |-> "prepare", at |-> at]
        /\ \A q \in Request : q # r => request'[q] = request[q]
        /\ OneAttempt' /\ Attempts'
    <2>1. "prepare" \in {"prepare", "direct", "local", "reconnect"} /\ tab'[t].type # "none"
      BY <1>4, <1>5
    <2> QED BY <1>1, <1>5, <1>6, <1>7, <1>8, <2>1, Requested DEF TermInv
  <1>10. TermTypeOK'
    BY <1>1, <1>5, <1>9 DEF TermInv, TermTypeOK
  <1>11. Placed'
    BY <1>1, <1>5 DEF TermInv, Placed, In
  <1>12. session[r] = "none"
    BY <1>1 DEF TermInv, Sessions
  <1>13. Sessions'
    BY <1>1, <1>5, <1>9, <1>12 DEF TermInv, Sessions
  <1>14. Panels'
    BY <1>1, <1>2, <1>5, PanelsElsewhere DEF TermInv, Panels, PanelOf
  <1>15. NoOrphanSession'
    BY <1>1, <1>5, <1>6, <1>9, <1>12 DEF TermInv, NoOrphanSession
  <1> QED BY <1>9, <1>10, <1>11, <1>13, <1>14, <1>15 DEF TermInv

LEMMA StepAgainKeeps ==
    ASSUME TermInv, NEW t \in Tab, NEW r \in Request,
           submitPromptCredential(t, r) \/ retryConnectionStep(t, r) \/ trustHostKeyAndRetry(t, r)
    PROVE  TermInv'
  <1>1. connectingTabExists(t) /\ tab[t].step # "running"
    BY DEF submitPromptCredential, retryConnectionStep, trustHostKeyAndRetry
  <1>2. tab[t].conn # None
    BY <1>1, OpenIsIn DEF TermInv, TermTypeOK, Placed, connectingTabExists
  <1> QED BY <1>1, <1>2, runConnectionStepKeeps
          DEF submitPromptCredential, retryConnectionStep, trustHostKeyAndRetry

(* The lists without the tabs that are closed.                              *)
LEMMA Closed ==
    ASSUME TermTypeOK, NEW tabs \in SUBSET Tab, CloseTabs(tabs)
    PROVE  /\ sshTabs' \in Seq(Tab) /\ localTabs' \in Seq(Tab)
           /\ \A u \in Tab : In(u, sshTabs') <=> In(u, sshTabs) /\ u \notin tabs
           /\ \A u \in Tab : In(u, localTabs') <=> In(u, localTabs) /\ u \notin tabs
           /\ Open \subseteq Tab /\ Open' = Open \ tabs
  <1>1. sshTabs \in Seq(Tab) /\ localTabs \in Seq(Tab)
    BY DEF TermTypeOK
  <1>2. /\ sshTabs' = Only(sshTabs, Tab \ tabs) /\ localTabs' = Only(localTabs, Tab \ tabs)
    BY DEF CloseTabs, Without
  <1>3. sshTabs' \in Seq(Tab) /\ localTabs' \in Seq(Tab)
    BY <1>1, <1>2, OnlyList
  <1>4. /\ \A u : In(u, sshTabs') <=> In(u, sshTabs) /\ u \in Tab \ tabs
        /\ \A u : In(u, localTabs') <=> In(u, localTabs) /\ u \in Tab \ tabs
    <2>1. \A u : In(u, Only(sshTabs, Tab \ tabs)) <=> In(u, sshTabs) /\ u \in Tab \ tabs
      BY <1>1, OnlyElements
    <2>2. \A u : In(u, Only(localTabs, Tab \ tabs)) <=> In(u, localTabs) /\ u \in Tab \ tabs
      BY <1>1, OnlyElements
    <2> QED BY <1>2, <2>1, <2>2
  <1>5. Open \subseteq Tab
    BY <1>1 DEF Open
  <1>6. Open' = Open \ tabs
    <2>1. \A u : u \in Open' <=> In(u, sshTabs') \/ In(u, localTabs')
      BY DEF Open, In
    <2> QED BY <1>4, <1>5, <2>1, OpenIsIn
  <1> QED BY <1>3, <1>4, <1>5, <1>6

LEMMA CloseTabsKeeps ==
    ASSUME TermInv, NEW tabs \in SUBSET Tab, CloseTabs(tabs)
    PROVE  TermInv'
  <1>1. /\ sshTabs' \in Seq(Tab) /\ localTabs' \in Seq(Tab)
        /\ \A u \in Tab : In(u, sshTabs') <=> In(u, sshTabs) /\ u \notin tabs
        /\ \A u \in Tab : In(u, localTabs') <=> In(u, localTabs) /\ u \notin tabs
        /\ Open \subseteq Tab /\ Open' = Open \ tabs
    BY Closed DEF TermInv
  <1>2. /\ closing' = closing \cup ({tab[t].session : t \in tabs} \ {None})
        /\ panel' = [t \in Tab |-> IF t \in tabs THEN NoPanel ELSE panel[t]]
        /\ UNCHANGED <<tab, request, session, ended, trusted>>
    BY DEF CloseTabs
  <1>3. TermTypeOK'
    <2>1. NoPanel \in PanelState
      BY DEF NoPanel, PanelState
    <2>2. panel' \in [Tab -> PanelState]
      BY <1>2, <2>1 DEF TermInv, TermTypeOK
    <2>3. \A t \in tabs : tab[t].session \in Request \cup {None}
      BY DEF TermInv, TermTypeOK, TabState
    <2>4. closing' \subseteq Request
      BY <1>2, <2>3 DEF TermInv, TermTypeOK
    <2> QED BY <1>1, <1>2, <2>2, <2>4 DEF TermInv, TermTypeOK
  <1>4. Placed'
    <2>1. \A u \in Tab : /\ In(u, sshTabs') => tab'[u].type \in {"connecting", "terminal"}
                                                /\ tab'[u].conn # None
                         /\ In(u, localTabs') => tab'[u].type = "local"
      BY <1>1, <1>2 DEF TermInv, Placed
    <2> QED BY <2>1 DEF Placed, In
  <1>5. Sessions' /\ OneAttempt'
    BY <1>2 DEF TermInv, Sessions, OneAttempt
  <1>6. Attempts'
    <2>1. \A r \in Request : /\ Preparing(r) => Preparing(r)'
                             /\ Opening(r) => Opening(r)'
      BY <1>2 DEF Preparing, Opening
    <2>2. \A r \in Request : request[r].tab \in Tab /\ Reconnecting(r) => Reconnecting(r)'
      BY <1>1, <1>2 DEF Reconnecting
    <2>3. "none" \notin InFlight
      BY DEF InFlight
    <2> QED BY <1>2, <2>1, <2>2, <2>3 DEF TermInv, Attempts
  <1>7. Panels'
    <2>1. \A k, x : Knows(k, x)' <=> Knows(k, x)
      BY <1>2 DEF Knows
    <2> SUFFICES ASSUME NEW u \in Tab
                 PROVE  PanelOf(u)'
      BY DEF Panels
    <2>2. CASE u \in tabs
      <3>1. panel'[u] = NoPanel
        BY <1>2, <2>2
      <3> QED BY <3>1 DEF PanelOf, NoPanel
    <2>3. CASE u \notin tabs
      BY <1>1, <1>2, <2>1, <2>3 DEF TermInv, Panels, PanelOf
    <2> QED BY <2>2, <2>3
  <1>8. NoOrphanSession'
    <2> SUFFICES ASSUME NEW s \in Request, session[s] = "live"
                 PROVE  \/ s \in closing'
                        \/ request[s].at = "opened"
                        \/ \E u \in Open' : tab[u].session = s
      BY <1>2 DEF NoOrphanSession
    <2>1. CASE s \in closing \/ request[s].at = "opened"
      BY <1>2, <2>1
    <2>2. CASE \E u \in Open : tab[u].session = s
      <3>1. PICK u \in Open : tab[u].session = s
        BY <2>2
      <3>2. CASE u \in tabs
        BY <1>2, <3>1, <3>2, NoNone
      <3>3. CASE u \notin tabs
        BY <1>1, <3>1, <3>3
      <3> QED BY <3>2, <3>3
    <2> QED BY <2>1, <2>2 DEF TermInv, NoOrphanSession
  <1> QED BY <1>3, <1>4, <1>5, <1>6, <1>7, <1>8 DEF TermInv

-----------------------------------------------------------------------------
(* The beginning, and what the invariant says.                             *)

LEMMA TermBegins ==
    ASSUME TermInit
    PROVE  TermInv
  <1>1. \A t \in Tab : tab[t] = NoTab /\ panel[t] = NoPanel
    BY DEF TermInit
  <1>2. \A r \in Request : request[r] = NoRequest /\ session[r] = "none"
    BY DEF TermInit
  <1>3. TermTypeOK
    <2>1. NoTab \in TabState /\ NoPanel \in PanelState /\ NoRequest \in RequestState
      BY DEF NoTab, TabState, NoPanel, PanelState, NoRequest, RequestState
    <2> QED BY <2>1 DEF TermInit, TermTypeOK
  <1>4. Open = {} /\ \A t : ~In(t, sshTabs) /\ ~In(t, localTabs)
    BY DEF TermInit, Open, In
  <1>5. Placed
    BY <1>4 DEF Placed
  <1>6. Sessions
    <2>1. NoTab.session = None /\ NoRequest.at = "none" /\ ended = {}
      BY DEF NoTab, NoRequest, TermInit
    <2> QED BY <1>1, <1>2, <2>1 DEF Sessions
  <1>7. Attempts /\ OneAttempt
    BY <1>2 DEF Attempts, OneAttempt, NoRequest, InFlight
  <1>8. Panels
    <2>1. NoPanel.at = "none"
      BY DEF NoPanel
    <2> QED BY <1>1, <2>1 DEF Panels, PanelOf
  <1>9. NoOrphanSession
    BY <1>2 DEF NoOrphanSession
  <1> QED BY <1>3, <1>5, <1>6, <1>7, <1>8, <1>9 DEF TermInv

(* A panel that says the session of its tab ended, with no reconnection      *)
(* under way, lost the session that its tab has.                            *)
LEMMA TermInvDisconnected ==
    ASSUME TermInv
    PROVE  DisconnectedIsEnded
  <1> SUFFICES ASSUME NEW t \in Open,
                      panel[t].says = "disconnected", ~panel[t].reconnecting
               PROVE  session[tab[t].session] = "ended"
    BY DEF DisconnectedIsEnded
  <1>1. t \in Tab
    BY DEF TermInv, TermTypeOK, Open
  <1>2. panel[t].at # "none"
    BY <1>1 DEF TermInv, Panels, PanelOf, NoPanel
  <1>3. panel[t].session = None /\ Knows(panel[t].session, tab[t].session)
        /\ tab[t].session # None
    BY <1>1, <1>2 DEF TermInv, Panels, PanelOf
  <1> QED BY <1>3 DEF Knows

=============================================================================
