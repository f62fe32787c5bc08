--------------------------- MODULE TerminalOutput ---------------------------
(***************************************************************************)
(* What a session prints, from the reader of the backend to the screen of    *)
(* its tab: the batches of terminal/manager.rs and terminal/session.rs, the   *)
(* capture of the first output by the tab (WorkspaceShell.tsx), the startup   *)
(* buffer and the listeners of the panel (TerminalPanel.tsx,                  *)
(* terminalStartupOutput.ts) and its write queue (terminalOutputFlow.ts).     *)
(*                                                                         *)
(* One tab is followed.  Session 1 is opened by the tab, every other by a     *)
(* reconnection of its panel; a session has the number of the request that    *)
(* opened it.  The k-th piece of what session s prints is the chunk <<s, k>>. *)
(* Until the panel listens for itself, the first output reaches it by two     *)
(* ways: the capture hands it over as initialOutput, and the panel hears the  *)
(* same events.                                                              *)
(***************************************************************************)
EXTENDS Naturals, Sequences, SequencesExt, FiniteSets, Lists

CONSTANTS
    MaxSessions,    \* bound on the sessions of the tab
    MaxOutput,      \* bound on the chunks of a behaviour
    BatchBytes,     \* TERMINAL_OUTPUT_BATCH_MAX_BYTES, in chunks
    BatchChars,     \* TERMINAL_OUTPUT_BATCH_MAX_CHARS, in chunks
    Blank,          \* the chunks of session 1 that are line breaks only
    Copies,         \* those that repeat the banner or prompt just before them
    None

Session == 1..MaxSessions
Chunk == Session \X (1..MaxOutput)

ASSUME OutputAssumption ==
    /\ MaxSessions \in Nat \ {0} /\ MaxOutput \in Nat
    /\ BatchBytes \in Nat \ {0} /\ BatchChars \in Nat \ {0}
    /\ Blank \subseteq Nat /\ Copies \subseteq Nat
    /\ None \notin Nat

VARIABLES
    reader,     \* the reader task of a session, with its TerminalOutputBatcher
    events,     \* output and closed events on their way to the window
    connect,    \* the terminal_connect command of a session
    capture,    \* the output listener of the tab and its warmupOutput
    tab,        \* the tab: its session and the warmupOutput it hands over
    panel,      \* the TerminalPanel of the tab
    queue,      \* its TerminalOutputQueue
    shown,      \* what the terminal has parsed
    trimmed,    \* what normalizeStartupOutput took away
    odd         \* the unusual orders that happened, named where they do

vars == <<reader, events, connect, capture, tab, panel, queue, shown, trimmed, odd>>

screen == <<shown, trimmed>>

Listener == {"output", "state"}
NoPanel == [mounted |-> FALSE, hears |-> {}, ready |-> FALSE, buffering |-> FALSE,
            timer |-> FALSE, startup |-> <<>>, written |-> 0, session |-> None,
            request |-> None, reconnecting |-> FALSE, was |-> None, wasRequest |-> None]
EmptyQueue == [chunks |-> <<>>, writing |-> <<>>, disposed |-> FALSE]

ReaderState ==
    [at : {"none", "running", "ended"}, sent : 0..MaxOutput, batch : Seq(Chunk)]
Event == [kind : {"output", "closed"}, session : Session, data : Seq(Chunk)]
CaptureState == [on : BOOLEAN, data : Seq(Chunk), grace : BOOLEAN]
TabState == [open : BOOLEAN, session : Session \cup {None}, warmup : Seq(Chunk)]
PanelState ==
    [mounted : BOOLEAN, hears : SUBSET Listener, ready : BOOLEAN, buffering : BOOLEAN,
     timer : BOOLEAN, startup : Seq(Chunk), written : Nat, session : Session \cup {None},
     request : Session \cup {None}, reconnecting : BOOLEAN, was : Session \cup {None},
     wasRequest : Session \cup {None}]
QueueState == [chunks : Seq(Chunk), writing : Seq(Chunk), disposed : BOOLEAN]

(* The types of the variables; the batches of both sides keep to their bounds. *)
TypeOK ==
    /\ reader \in [Session -> ReaderState]
    /\ \A s \in Session : Len(reader[s].batch) < BatchBytes
    /\ events \in Seq(Event)
    /\ connect \in [Session -> {"none", "asked", "opened", "refused", "done"}]
    /\ capture \in CaptureState /\ tab \in TabState
    /\ panel \in PanelState /\ queue \in QueueState
    /\ Len(queue.writing) <= BatchChars
    /\ shown \in Seq(Chunk) /\ trimmed \subseteq Chunk
    /\ odd \subseteq {"early", "behind", "cut", "hasty"}

Init ==
    /\ reader = [s \in Session |-> [at |-> "none", sent |-> 0, batch |-> <<>>]]
    /\ events = <<>>
    /\ connect = [s \in Session |-> IF s = 1 THEN "asked" ELSE "none"]
    /\ capture = [on |-> TRUE, data |-> <<>>, grace |-> FALSE]
    /\ tab = [open |-> TRUE, session |-> None, warmup |-> <<>>]
    /\ panel = NoPanel /\ queue = EmptyQueue
    /\ shown = <<>> /\ trimmed = {} /\ odd = {}

-----------------------------------------------------------------------------
(* The session in the backend.                                             *)

(* TerminalManager::connect: the reader runs before the command is answered. *)
Opens(s) ==
    /\ connect[s] = "asked"
    /\ connect' = [connect EXCEPT ![s] = "opened"]
    /\ reader' = [reader EXCEPT ![s].at = "running"]
    /\ UNCHANGED <<events, capture, tab, panel, queue, screen, odd>>

Refuses(s) ==
    /\ connect[s] = "asked"
    /\ connect' = [connect EXCEPT ![s] = "refused"]
    /\ UNCHANGED <<reader, events, capture, tab, panel, queue, screen, odd>>

OutputEvent(s, data) == [kind |-> "output", session |-> s, data |-> data]
Nonempty(s, data) == IF data = <<>> THEN <<>> ELSE <<OutputEvent(s, data)>>
ClosedEvent(s) == [kind |-> "closed", session |-> s, data |-> <<>>]

(* emit_terminal_output *)
Emit(s, data) == events' = Append(events, OutputEvent(s, data))

NextChunk(s) == <<s, reader[s].sent + 1>>
CanPrint == Cardinality({c \in Chunk : c[2] <= reader[c[1]].sent}) < MaxOutput

(* TerminalOutputBatcher::push: a full batch is emitted at once. *)
Receive(s) ==
    /\ reader[s].at = "running" /\ CanPrint
    /\ LET pending == Append(reader[s].batch, NextChunk(s))
           full == Len(pending) = BatchBytes IN
       /\ reader' = [reader EXCEPT ![s].sent = @ + 1,
                                   ![s].batch = IF full THEN <<>> ELSE pending]
       /\ IF full THEN Emit(s, pending) ELSE UNCHANGED events
    /\ UNCHANGED <<connect, capture, tab, panel, queue, screen, odd>>

(* A wrong variant: a batch has no deadline before its second piece. *)
DeadlineOfFirstMissed(s) ==
    /\ reader[s].at = "running" /\ Len(reader[s].batch) > 1
    /\ Emit(s, reader[s].batch)
    /\ reader' = [reader EXCEPT ![s].batch = <<>>]
    /\ UNCHANGED <<connect, capture, tab, panel, queue, screen, odd>>

(* spawn_reader: what is pending goes out when its deadline passes. *)
Deadline(s) ==
    /\ reader[s].at = "running" /\ reader[s].batch # <<>>
    /\ Emit(s, reader[s].batch)
    /\ reader' = [reader EXCEPT ![s].batch = <<>>]
    /\ UNCHANGED <<connect, capture, tab, panel, queue, screen, odd>>

(* The end of spawn_reader: the pending batch, the text of a decoding error  *)
(* if there was one, and the closed event, in this order.                    *)
Ends(s, error) ==
    /\ reader[s].at = "running"
    /\ error => CanPrint
    /\ LET last == IF error THEN <<NextChunk(s)>> ELSE <<>> IN
       /\ events' = events \o Nonempty(s, reader[s].batch) \o Nonempty(s, last)
                           \o <<ClosedEvent(s)>>
       /\ reader' = [reader EXCEPT ![s] =
                       [at |-> "ended", sent |-> @.sent + Len(last), batch |-> <<>>]]
    /\ UNCHANGED <<connect, capture, tab, panel, queue, screen, odd>>

-----------------------------------------------------------------------------
(* What the window does with an event.                                      *)

matchesTerminalEvent(p, s) == p.session = s \/ p.request = s

(* A wrong variant: live output is taken while the startup buffer is open. *)
HearsWhileBuffering(p, s) == "output" \in p.hears /\ matchesTerminalEvent(p, s)

(* The output listener of the panel: while the startup buffer is open, the   *)
(* output of the first request is left to the capture.                       *)
Hears(p, s) ==
    /\ "output" \in p.hears
    /\ ~(p.buffering /\ s = 1)
    /\ matchesTerminalEvent(p, s)

(* TerminalOutputQueue.enqueue *)
Enqueued(q, data) == IF q.disposed THEN q ELSE [q EXCEPT !.chunks = @ \o data]

(* writeDecodedOutput: to the startup buffer while it is open, else queued. *)
Write(p, data) ==
    /\ panel' = IF p.buffering THEN [p EXCEPT !.startup = @ \o data] ELSE p
    /\ queue' = IF p.buffering THEN queue ELSE Enqueued(queue, data)

(* The listener of the capture keeps the output until the handoff and        *)
(* appends it to the tab from then on (appendTerminalWarmupOutput).           *)
Captured(data) ==
    IF tab.session = None
    THEN capture' = [capture EXCEPT !.data = @ \o data] /\ UNCHANGED tab
    ELSE tab' = [tab EXCEPT !.warmup = @ \o data] /\ UNCHANGED capture

HandleOutput(e) ==
    /\ IF capture.on /\ e.session = 1 THEN Captured(e.data) ELSE UNCHANGED <<capture, tab>>
    /\ IF Hears(panel, e.session) THEN Write(panel, e.data) ELSE UNCHANGED <<panel, queue>>

(* The state listener of the panel forgets the session, not the request. *)
HandleClosed(e) ==
    /\ panel' = IF "state" \in panel.hears /\ matchesTerminalEvent(panel, e.session)
                THEN [panel EXCEPT !.session = None] ELSE panel
    /\ UNCHANGED <<capture, tab, queue>>

HandleEvent ==
    /\ events # <<>>
    /\ events' = Tail(events)
    /\ IF Head(events).kind = "output" THEN HandleOutput(Head(events))
                                       ELSE HandleClosed(Head(events))
    /\ UNCHANGED <<reader, connect, screen, odd>>

-----------------------------------------------------------------------------
(* The tab: from the answer of terminal_connect to the panel that listens.   *)

(* stopTerminalWarmupCapture *)
Stopped(c) == [c EXCEPT !.on = FALSE]

(* replaceConnectingTabWithTerminal, and its like for direct and local tabs: *)
(* the handoff.  The capture goes on for the time of grace.                   *)
Handoff ==
    /\ connect[1] = "opened"
    /\ connect' = [connect EXCEPT ![1] = "done"]
    /\ IF tab.open
       THEN /\ tab' = [tab EXCEPT !.session = 1, !.warmup = capture.data]
            /\ capture' = [capture EXCEPT !.data = <<>>, !.grace = TRUE]
       ELSE capture' = Stopped(capture) /\ UNCHANGED tab
    /\ UNCHANGED <<reader, events, panel, queue, screen, odd>>

(* The command failed: the tab shows the error. *)
OpenFails ==
    /\ connect[1] = "refused"
    /\ connect' = [connect EXCEPT ![1] = "done"]
    /\ capture' = Stopped(capture)
    /\ UNCHANGED <<reader, events, tab, panel, queue, screen, odd>>

(* The timer of the handoff stops the capture.  "cut": the panel did not      *)
(* take over before.                                                         *)
GraceEnds ==
    /\ capture.grace
    /\ capture' = [Stopped(capture) EXCEPT !.grace = FALSE]
    /\ odd' = odd \cup IF capture.on /\ tab.open THEN {"cut"} ELSE {}
    /\ UNCHANGED <<reader, events, connect, tab, panel, queue, screen>>

(* The effect that makes the terminal of the panel. *)
Mount ==
    /\ tab.open /\ tab.session # None /\ ~panel.mounted
    /\ panel' = [NoPanel EXCEPT !.mounted = TRUE, !.buffering = TRUE, !.timer = TRUE,
                                !.startup = tab.warmup, !.written = Len(tab.warmup),
                                !.session = tab.session, !.request = tab.session]
    /\ UNCHANGED <<reader, events, connect, capture, tab, queue, screen, odd>>

(* The listeners are registered one by one, each by a call of its own. *)
ListenerOn(l) ==
    /\ panel.mounted /\ l \notin panel.hears
    /\ panel' = [panel EXCEPT !.hears = @ \cup {l}]
    /\ UNCHANGED <<reader, events, connect, capture, tab, queue, screen, odd>>

(* initialOutput that the effect of the panel has not written yet. *)
Unwritten == SubSeq(tab.warmup, panel.written + 1, Len(tab.warmup))

(* "behind": the capture is stopped before what it handed over is written.   *)
Behind == IF Unwritten # <<>> THEN {"behind"} ELSE {}

(* A wrong variant: the capture is stopped as soon as the panel listens. *)
ReadyStopsCapture ==
    /\ panel.hears = Listener /\ ~panel.ready
    /\ panel' = [panel EXCEPT !.ready = TRUE]
    /\ capture' = Stopped(capture)
    /\ UNCHANGED <<reader, events, connect, tab, queue, screen, odd>>

(* Promise.all of the listeners: the panel listens.  The capture is stopped  *)
(* here if the startup buffer was written before.                            *)
Ready ==
    /\ panel.hears = Listener /\ ~panel.ready
    /\ panel' = [panel EXCEPT !.ready = TRUE]
    /\ IF panel.buffering THEN UNCHANGED <<capture, odd>>
       ELSE capture' = Stopped(capture) /\ odd' = odd \cup Behind
    /\ UNCHANGED <<reader, events, connect, tab, queue, screen>>

(* normalizeStartupOutput: leading line breaks go, and of a banner or prompt *)
(* that follows itself one copy is kept.                                     *)
normalizeStartupOutput(output) ==
    LET text == {i \in DOMAIN output : \E j \in 1..i : output[j][2] \notin Blank}
        Repeated(i) ==
            i - 1 \in text /\ output[i][2] \in Copies /\ output[i - 1][2] + 1 = output[i][2] IN
    At(output, {i \in text : ~Repeated(i)})

(* flushStartupOutput, by its timer: the buffer is queued, and from now on   *)
(* output is.  "early": the panel does not listen yet, and the capture goes   *)
(* on.                                                                       *)
FlushStartup ==
    /\ panel.timer
    /\ LET written == normalizeStartupOutput(panel.startup) IN
       /\ queue' = Enqueued(queue, written)
       /\ trimmed' = trimmed \cup (ToSet(panel.startup) \ ToSet(written))
    /\ panel' = [panel EXCEPT !.timer = FALSE, !.buffering = FALSE, !.startup = <<>>]
    /\ IF panel.ready
       THEN capture' = Stopped(capture) /\ odd' = odd \cup Behind
       ELSE UNCHANGED capture /\ odd' = odd \cup {"early"}
    /\ UNCHANGED <<reader, events, connect, tab, shown>>

(* The effect on initialOutput: what the capture appended is written.  It    *)
(* runs when React has rendered the tab, some time after the event.          *)
Rendered ==
    /\ panel.mounted /\ Unwritten # <<>>
    /\ Write([panel EXCEPT !.written = Len(tab.warmup)], Unwritten)
    /\ UNCHANGED <<reader, events, connect, capture, tab, screen, odd>>

-----------------------------------------------------------------------------
(* TerminalOutputQueue: one write at a time.                                *)

(* A wrong variant: a write takes all that is queued. *)
TakeAll(q) == [q EXCEPT !.chunks = <<>>, !.writing = q.chunks]

(* takeBatch *)
Taken(q) ==
    LET n == IF Len(q.chunks) > BatchChars THEN BatchChars ELSE Len(q.chunks) IN
    [q EXCEPT !.chunks = SubSeq(@, n + 1, Len(@)), !.writing = SubSeq(q.chunks, 1, n)]

(* flushNext, in the frame it was scheduled for. *)
FlushNext ==
    /\ queue.chunks # <<>> /\ queue.writing = <<>>
    /\ queue' = Taken(queue)
    /\ UNCHANGED <<reader, events, connect, capture, tab, panel, screen, odd>>

(* The terminal has parsed the batch (onParsed); the next one may go. *)
Parsed ==
    /\ queue.writing # <<>>
    /\ queue' = [queue EXCEPT !.writing = <<>>]
    /\ shown' = shown \o queue.writing
    /\ UNCHANGED <<reader, events, connect, capture, tab, panel, trimmed, odd>>

(* terminal.write throws: the queue gives up. *)
WriteFails ==
    /\ queue.chunks # <<>> /\ queue.writing = <<>>
    /\ queue' = [EmptyQueue EXCEPT !.disposed = TRUE]
    /\ UNCHANGED <<reader, events, connect, capture, tab, panel, screen, odd>>

-----------------------------------------------------------------------------
(* Reconnection and closing.                                                *)

(* reconnectCurrentTerminal: what is not written yet is thrown away; from     *)
(* here on the events of the new request are the panel's.  "hasty": the       *)
(* capture of the first session is still on, which nothing stops here, or its *)
(* output is not rendered yet.                                               *)
Reconnect(s) ==
    /\ connect[s] = "none" /\ \A r \in 1..(s - 1) : connect[r] = "done"
    /\ panel.ready /\ ~panel.reconnecting
    /\ connect' = [connect EXCEPT ![s] = "asked"]
    /\ panel' = [panel EXCEPT !.reconnecting = TRUE, !.session = None, !.request = s,
                              !.was = panel.session, !.wasRequest = panel.request,
                              !.startup = <<>>, !.buffering = FALSE]
    /\ queue' = [queue EXCEPT !.chunks = <<>>]
    /\ odd' = odd \cup IF capture.on \/ Unwritten # <<>> THEN {"hasty"} ELSE {}
    /\ UNCHANGED <<reader, events, capture, tab, screen>>

Settled(p) == [p EXCEPT !.reconnecting = FALSE, !.was = None, !.wasRequest = None]

(* The answer: the tab takes the new session and hands over nothing          *)
(* (updateTerminalRuntimeSession).  The old session is closed, which is one   *)
(* way for it to end; a tab that is gone closes the new one.                  *)
Reconnected(s) ==
    /\ s > 1 /\ connect[s] = "opened"
    /\ connect' = [connect EXCEPT ![s] = "done"]
    /\ IF panel.mounted
       THEN /\ panel' = [Settled(panel) EXCEPT !.session = s]
            /\ tab' = [tab EXCEPT !.session = s, !.warmup = <<>>]
       ELSE UNCHANGED <<panel, tab>>
    /\ UNCHANGED <<reader, events, capture, queue, screen, odd>>

(* The panel goes back to the session it had. *)
ReconnectFails(s) ==
    /\ s > 1 /\ connect[s] = "refused"
    /\ connect' = [connect EXCEPT ![s] = "done"]
    /\ panel' = IF panel.mounted
                THEN [Settled(panel) EXCEPT !.session = panel.was, !.request = panel.wasRequest]
                ELSE panel
    /\ UNCHANGED <<reader, events, capture, tab, queue, screen, odd>>

(* The tab is closed: the capture is stopped, the panel and its queue are     *)
(* disposed of.                                                              *)
CloseTab ==
    /\ tab.open
    /\ tab' = [open |-> FALSE, session |-> None, warmup |-> <<>>]
    /\ capture' = [Stopped(capture) EXCEPT !.data = <<>>]
    /\ panel' = NoPanel
    /\ queue' = [EmptyQueue EXCEPT !.disposed = TRUE]
    /\ UNCHANGED <<reader, events, connect, screen, odd>>

-----------------------------------------------------------------------------
Next ==
    \/ \E s \in Session :
        \/ Opens(s) \/ Refuses(s) \/ Receive(s) \/ Deadline(s)
        \/ \E error \in BOOLEAN : Ends(s, error)
        \/ Reconnect(s) \/ Reconnected(s) \/ ReconnectFails(s)
    \/ HandleEvent \/ Handoff \/ OpenFails \/ GraceEnds \/ Mount \/ Ready
    \/ \E l \in Listener : ListenerOn(l)
    \/ FlushStartup \/ Rendered \/ FlushNext \/ Parsed \/ WriteFails \/ CloseTab

Spec == Init /\ [][Next]_vars

(* Timers fire, events are delivered, commands are answered, React renders    *)
(* and runs its effects, and the terminal parses what it is given.  Nothing   *)
(* is assumed of the remote host or of the user.                              *)
FairSpec ==
    /\ Spec
    /\ \A s \in Session : WF_vars(Deadline(s))
    /\ WF_vars(HandleEvent) /\ WF_vars(Handoff) /\ WF_vars(Mount)
    /\ \A l \in Listener : WF_vars(ListenerOn(l))
    /\ WF_vars(Ready) /\ WF_vars(FlushStartup) /\ WF_vars(Rendered)
    /\ WF_vars(FlushNext) /\ WF_vars(Parsed)

-----------------------------------------------------------------------------
(* Properties.                                                             *)

Before(c, d) == c[1] < d[1] \/ (c[1] = d[1] /\ c[2] < d[2])

(* What the two ways of the first output, the startup buffer and the queue    *)
(* bring to the screen is what was printed, in its order and each chunk once, *)
(* however the handoff, the timers and the listeners come to follow each      *)
(* other, but for three orders: the startup buffer written before the panel   *)
(* listens, the capture stopped before its output is rendered, and a          *)
(* reconnection while the capture is on.                                      *)
ShownInOrder ==
    odd \cap {"early", "behind", "hasty"} = {} =>
        \A i \in 1..(Len(shown) - 1) : Before(shown[i], shown[i + 1])

InEvents == UNION {ToSet(events[i].data) : i \in DOMAIN events}
OnItsWay(s) ==
    ToSet(reader[s].batch) \cup InEvents \cup ToSet(capture.data) \cup ToSet(Unwritten)
        \cup ToSet(panel.startup) \cup ToSet(queue.chunks) \cup ToSet(queue.writing)
Arrived == ToSet(shown) \cup trimmed

(* The session that was asked for last.  When its reconnection fails the panel *)
(* shows the one before it again, whose output it dropped meanwhile: nothing  *)
(* is said of that one.                                                      *)
Latest(s) == connect[s] # "none" /\ \A r \in Session : r > s => connect[r] = "none"

(* What may cost output: the tab is closed, its terminal failed, or the time   *)
(* of grace was too short for the panel.                                     *)
Excused == ~tab.open \/ queue.disposed \/ "cut" \in odd

Printed(s) == {<<s, k>> : k \in 1..reader[s].sent}

(* Nothing that the latest session prints is dropped on its way: not in the   *)
(* gap between the answer of the command and the listeners of the panel, not  *)
(* at the end of the startup buffer, and not in a reconnection, whose output  *)
(* may come before its answer.                                               *)
NothingLost ==
    \A s \in Session : Latest(s) /\ ~Excused => Printed(s) \subseteq OnItsWay(s) \cup Arrived

(* All of it gets to the screen: no batch waits without a deadline, no buffer *)
(* without its timer and no queue without the callback that empties it.       *)
AllShown ==
    <>[](\A s \in Session : Latest(s) /\ ~Excused => Printed(s) \subseteq Arrived)
=============================================================================
