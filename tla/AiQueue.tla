------------------------------ MODULE AiQueue ------------------------------
(***************************************************************************)
(* The message queue of the AI assistant (aiMessageQueue.ts), the events    *)
(* and acts of its panel that touch it (AiAssistantPanel.tsx), and what the *)
(* backend does with the messages: the streams and their commands           *)
(* (ai_assistant.rs), the inbox of an agent run (ai_agent.rs).              *)
(*                                                                         *)
(* One terminal's scope, with agent streams.  The window runs to its next   *)
(* await without interruption, so a step of the window is a composition of  *)
(* functions from a state of the scope to the next.  Commands, their        *)
(* answers and the events of the stream travel on their own; events keep    *)
(* their order.                                                             *)
(***************************************************************************)
EXTENDS Naturals, Sequences, FiniteSets, Lists

CONSTANTS
    MaxMessages,    \* bound on the messages the user writes
    MaxSessions,    \* bound on the chat sessions
    MaxActs,        \* bound on the user's acts other than writing and sending
    MaxErrors,      \* bound on the failures
    New,            \* the session of a chat that has no id yet
    None

Message == 1..MaxMessages       \* in the order in which they are written
Session == 1..MaxSessions       \* ids; those the database has come first
StreamId == 1..(MaxMessages + MaxErrors)

VARIABLES
    w,          \* the scope of the window, see Scope
    run,        \* the backend's stream, see Run, or None
    chat,       \* how often each message is in the history of the database
    injected,   \* messages whose queue id is the id of their row there
    events,     \* the events of streams on their way to the window
    stops,      \* stop commands on their way to the backend
    refused,    \* messages that failed and were not asked for again
    dropped,    \* messages the user deleted before they were in the history
    acts, errors

backend == <<run, chat, injected, events, stops>>
history == <<refused, dropped>>
vars == <<w, backend, history, acts, errors>>

Shown == Session \cup {New}

Item == [m : Message, session : Shown,
         status : {"queued", "sending", "accepted", "failed"},
         immediate : BOOLEAN,
         ins : StreamId \cup {None}]        \* insertionStreamId

(* What waits for a reconciliation: the end of a stream, or a send of m.  One *)
(* that waits for its turn behind the reconciliation of another session does  *)
(* so through a promise on that one, a hop, and goes on that much later.      *)
Waiter == [kind : {"finish", "send"}, session : Shown, finished : BOOLEAN,
           m : Message \cup {None}, active : Shown, hops : Nat]

StreamState == [id : StreamId, session : Session, ready : BOOLEAN, stop : BOOLEAN]

(* The start under way, with the session it is wanted in; the insertion and the *)
(* reconciliation under way; a reconciliation that is over, and who waited.    *)
StartState ==
    [m : Message, queued : BOOLEAN, wanted : Shown, session : Session, id : StreamId,
     phase : {"sent", "ok", "rejected", "stopping", "stopped"}]
InsertState == [m : Message, id : StreamId, phase : {"sent", "ok", "closed", "error"}]
ReconcileState ==
    [session : Shown, phase : {"sent", "read", "failed"}, found : SUBSET Message,
     waiting : Seq(Waiter)]
ResumeState == [session : Shown, success : BOOLEAN, waiting : Seq(Waiter)]

Scope ==
    [active : Shown,                                \* activeSessionId
     loading : Session \cup {None},                 \* openSession waits for this one
     stream : StreamState \cup {None},              \* streamState
     queue : Seq(Item),                             \* queuedMessages
     autoRun : BOOLEAN,                             \* queueAutoRun
     input : Message \cup {None},                   \* the draft
     starting : StartState \cup {None},             \* startingScopes
     inserting : InsertState \cup {None},           \* insertingScopes
     reconciling : ReconcileState \cup {None},      \* reconcilingScopes
     resuming : ResumeState \cup {None},
     unverified : SUBSET Message,   \* ghost: the queue sent them without a look
                                    \* at what became of their insertion
     written : 0..MaxMessages, starts : 0..(MaxMessages + MaxErrors),
     known : 0..MaxSessions]                        \* sessions that exist

Run == [id : StreamId, session : Session, inbox : SUBSET Message, closed : BOOLEAN,
        committed : SUBSET Message, state : {"live", "finished", "error"}]

Event == [id : StreamId, kind : {"injected", "finished", "stopped", "error"},
          ms : SUBSET Message]

ASSUME AiQueueAssumption ==
    /\ MaxMessages \in Nat /\ MaxSessions \in Nat \ {0}
    /\ MaxActs \in Nat /\ MaxErrors \in Nat
    /\ New \notin Session /\ New # None
    /\ None \notin Session \cup Message \cup StreamId
    /\ None \notin Item /\ None \notin StreamState /\ None \notin StartState
    /\ None \notin InsertState /\ None \notin ReconcileState /\ None \notin ResumeState
    /\ None \notin Run

TypeOK ==
    /\ w \in Scope
    /\ run \in Run \cup {None}
    /\ chat \in [Message -> Nat]
    /\ injected \subseteq Message /\ refused \subseteq Message /\ dropped \subseteq Message
    /\ events \in Seq(Event)
    /\ stops \subseteq StreamId
    /\ acts \in 0..MaxActs /\ errors \in 0..MaxErrors

Init ==
    /\ w = [active |-> New, loading |-> None, stream |-> None, queue |-> <<>>,
            autoRun |-> FALSE, input |-> None, starting |-> None, inserting |-> None,
            reconciling |-> None, resuming |-> None, unverified |-> {},
            written |-> 0, starts |-> 0, known |-> 1]
    /\ run = None
    /\ chat = [m \in Message |-> 0]
    /\ injected = {}
    /\ events = <<>>
    /\ stops = {}
    /\ refused = {} /\ dropped = {}
    /\ acts = 0 /\ errors = 0

-----------------------------------------------------------------------------
(* The queue.                                                              *)

Queued(v, m) == \E i \in DOMAIN v.queue : v.queue[i].m = m
ItemOf(v, m) == v.queue[CHOOSE i \in DOMAIN v.queue : v.queue[i].m = m]

(* The queue with the items that satisfy P replaced. *)
Change(v, P(_), new(_)) ==
    [v EXCEPT !.queue = [i \in DOMAIN v.queue |->
                            IF P(v.queue[i]) THEN new(v.queue[i]) ELSE v.queue[i]]]

ChangeItem(v, m, status, immediate) ==
    Change(v, LAMBDA it : it.m = m,
           LAMBDA it : [it EXCEPT !.status = status, !.immediate = immediate])

Without(v, ms) ==
    [v EXCEPT !.queue = At(v.queue, {i \in DOMAIN v.queue : v.queue[i].m \notin ms})]

(* activeSessionId is null in a new chat, and the sessionId of its entries is  *)
(* "": the two do not match.                                                *)
Showing(v, s) == v.active = s /\ s # New

OnStream(v, id) == v.stream # None /\ v.stream.id = id

(* A wrong variant: an accepted entry can be edited. *)
EditableUnlessSending(it) == it.status # "sending"

canEditAiQueuedMessage(it) ==
    it.status \notin {"sending", "accepted"} /\ ~it.immediate /\ it.ins = None

queueAiMessage(v, m) ==
    [v EXCEPT !.queue = Append(v.queue,
        [m |-> m, session |-> IF v.stream # None THEN v.stream.session ELSE v.active,
         status |-> "queued", immediate |-> FALSE, ins |-> None])]

(* Up to the answer of the start command. *)
startAiMessage(v, m, wanted, queued) ==
    IF v.stream # None \/ v.starting # None \/ v.reconciling # None
    THEN IF queued THEN v ELSE queueAiMessage(v, m)
    ELSE LET id == v.starts + 1
             s == IF wanted = New THEN v.known + 1 ELSE wanted
             u == Change(v, LAMBDA it : it.session = New /\ wanted = New,
                            LAMBDA it : [it EXCEPT !.session = s])
             q == IF queued THEN ChangeItem(u, m, "sending", ItemOf(u, m).immediate) ELSE u
         IN  [q EXCEPT !.active = s, !.starts = id,
                       !.autoRun = queued /\ v.autoRun,
                       !.stream = [id |-> id, session |-> s, ready |-> FALSE, stop |-> FALSE],
                       !.starting = [m |-> m, queued |-> queued, wanted |-> wanted,
                                     session |-> s, id |-> id, phase |-> "sent"]]

(* The first item at these positions, or None. *)
FirstItem(v, at) ==
    IF at = {} THEN None ELSE v.queue[CHOOSE i \in at : \A j \in at : i <= j]

(* Up to the answer of the command that it sends: the next message when no  *)
(* stream runs, the next insertion when one does.                           *)
drainAiMessageQueue(v) ==
    IF v.starting # None \/ v.inserting # None \/ v.reconciling # None THEN v
    ELSE IF v.stream = None
    THEN LET it == FirstItem(v, {i \in DOMAIN v.queue : Showing(v, v.queue[i].session)})
         IN  IF ~v.autoRun \/ it = None THEN v
             ELSE IF it.status # "queued" THEN v
             ELSE startAiMessage(
                    [v EXCEPT !.unverified = IF it.ins = None THEN @ ELSE @ \cup {it.m}],
                    it.m, it.session, TRUE)
    ELSE LET it == FirstItem(v, {i \in DOMAIN v.queue :
                                    /\ v.queue[i].session = v.stream.session
                                    /\ v.queue[i].immediate
                                    /\ v.queue[i].status = "queued"})
         IN  IF ~v.stream.ready \/ v.stream.stop \/ it = None THEN v
             ELSE Change([v EXCEPT !.inserting =
                             [m |-> it.m, id |-> v.stream.id, phase |-> "sent"]],
                         LAMBDA x : x.m = it.m,
                         LAMBDA x : [x EXCEPT !.status = "sending", !.ins = v.stream.id])

(* Up to the answer of the read; one reconciliation at a time. *)
reconcileAiMessageQueue(v, waiter) ==
    IF v.reconciling # None
    THEN [v EXCEPT !.reconciling.waiting = Append(@,
             IF v.reconciling.session = waiter.session THEN waiter
             ELSE [waiter EXCEPT !.hops = @ + 1])]
    ELSE Change([v EXCEPT !.reconciling =
                    [session |-> waiter.session, phase |-> "sent", found |-> {},
                     waiting |-> <<waiter>>]],
                LAMBDA it : it.session = waiter.session /\ it.ins # None,
                LAMBDA it : [it EXCEPT !.status = "sending"])

(* A wrong variant: without a look at the history. *)
FinishAtOnce(v, status) ==
    drainAiMessageQueue(
        Change([v EXCEPT !.autoRun = status = "finished"],
               LAMBDA it : it.session = v.active /\ it.status # "failed",
               LAMBDA it : [it EXCEPT !.status = "queued", !.immediate = FALSE, !.ins = None]))

finishAiMessageQueue(v, status) ==
    LET unresolved == \E i \in DOMAIN v.queue :
                         Showing(v, v.queue[i].session) /\ v.queue[i].ins # None
        u == Change([v EXCEPT !.autoRun = ~unresolved /\ status = "finished"],
                    LAMBDA it : Showing(v, it.session) /\ it.status # "failed",
                    LAMBDA it : [it EXCEPT !.status = "queued", !.immediate = FALSE])
    IN  IF unresolved
        THEN reconcileAiMessageQueue(u,
                [kind |-> "finish", session |-> v.active, finished |-> status = "finished",
                 m |-> None, active |-> v.active, hops |-> 0])
        ELSE drainAiMessageQueue(u)

(* What waited for a reconciliation goes on with its result. *)
Resume(v, waiter, success) ==
    IF ~success THEN v
    ELSE IF waiter.kind = "finish"
    THEN drainAiMessageQueue(
            IF v.active = waiter.session /\ v.stream = None
            THEN [v EXCEPT !.autoRun = waiter.finished] ELSE v)
    ELSE IF ~Queued(v, waiter.m) \/ v.active # waiter.active THEN v
    ELSE startAiMessage(v, waiter.m, ItemOf(v, waiter.m).session, TRUE)

-----------------------------------------------------------------------------
(* The user.                                                               *)

Act == acts < MaxActs /\ acts' = acts + 1 /\ UNCHANGED errors

(* A draft is written. *)
Write ==
    /\ w.input = None /\ w.written < MaxMessages
    /\ w' = [w EXCEPT !.input = w.written + 1, !.written = @ + 1]
    /\ UNCHANGED <<backend, history, acts, errors>>

(* A wrong variant: also while a session is being opened. *)
SendWhileLoading(immediate) ==
    /\ w.input # None
    /\ w.active = New /\ w.stream = None => w.known < MaxSessions
    /\ LET m == w.input
           v == [w EXCEPT !.input = None]
       IN  /\ w' = IF w.stream = None THEN startAiMessage(v, m, w.active, FALSE)
                   ELSE IF immediate /\ ~w.stream.stop
                   THEN drainAiMessageQueue(ChangeItem(queueAiMessage(v, m), m, "queued", TRUE))
                   ELSE queueAiMessage(v, m)
           /\ refused' = refused \ {m}
    /\ UNCHANGED <<backend, dropped, acts, errors>>

(* sendMessage: the draft goes to the running stream's queue, to be inserted  *)
(* at once if the user prefers so (runningSendBehavior), or starts one.        *)
sendMessage(immediate) ==
    /\ w.input # None /\ w.loading = None
    /\ w.active = New /\ w.stream = None => w.known < MaxSessions
    /\ LET m == w.input
           v == [w EXCEPT !.input = None]
       IN  /\ w' = IF w.stream = None THEN startAiMessage(v, m, w.active, FALSE)
                   ELSE IF immediate /\ ~w.stream.stop
                   THEN drainAiMessageQueue(ChangeItem(queueAiMessage(v, m), m, "queued", TRUE))
                   ELSE queueAiMessage(v, m)
           /\ refused' = refused \ {m}
    /\ UNCHANGED <<backend, dropped, acts, errors>>

(* The send button of an entry: insert it, or send it as the next message. *)
sendQueuedAiMessageNow(m) ==
    /\ Queued(w, m)
    /\ LET it == ItemOf(w, m)
       IN  /\ it.session = w.active /\ it.status \notin {"sending", "accepted"}
           /\ it.session = New => w.known < MaxSessions
           /\ \/ /\ w.stream = None
                 /\ w' = IF it.ins # None \/ w.reconciling # None
                         THEN reconcileAiMessageQueue(w,
                                 [kind |-> "send", session |-> it.session, finished |-> FALSE,
                                  m |-> m, active |-> w.active, hops |-> 0])
                         ELSE startAiMessage(w, m, it.session, TRUE)
              \/ /\ w.stream # None /\ ~w.stream.stop
                 /\ w' = drainAiMessageQueue(ChangeItem(w, m, "queued", TRUE))
    /\ refused' = refused \ {m}
    /\ Act
    /\ UNCHANGED <<backend, dropped>>

stopAiMessage ==
    /\ w.stream # None /\ ~w.stream.stop
    /\ w' = [w EXCEPT !.autoRun = FALSE, !.stream.stop = TRUE]
    /\ stops' = IF w.stream.ready THEN stops \cup {w.stream.id} ELSE stops
    /\ Act
    /\ UNCHANGED <<run, chat, injected, events, refused, dropped>>

DeleteEntry(m) ==
    /\ Queued(w, m) /\ canEditAiQueuedMessage(ItemOf(w, m))
    /\ w' = Without(w, {m})
    /\ dropped' = IF chat[m] = 0 THEN dropped \cup {m} ELSE dropped
    /\ Act
    /\ UNCHANGED <<backend, refused>>

(* An edited entry is no longer a failed one. *)
EditEntry(m) ==
    /\ Queued(w, m) /\ canEditAiQueuedMessage(ItemOf(w, m))
    /\ ItemOf(w, m).status = "failed"
    /\ w' = ChangeItem(w, m, "queued", FALSE)
    /\ refused' = refused \ {m}
    /\ Act
    /\ UNCHANGED <<backend, dropped>>

openSession(s) ==
    /\ w.stream = None /\ w.loading = None /\ s <= w.known /\ s # w.active
    /\ w' = [w EXCEPT !.loading = s]
    /\ Act
    /\ UNCHANGED <<backend, history>>

(* The answer: nothing is checked again. *)
SessionLoaded ==
    /\ w.loading # None
    /\ w' = [w EXCEPT !.loading = None, !.active = w.loading]
    /\ UNCHANGED <<backend, history, acts, errors>>

(* A new chat begins with an empty draft. *)
startNewSession ==
    /\ w.stream = None /\ w.active # New
    /\ w' = [w EXCEPT !.active = New, !.input = None]
    /\ dropped' = dropped \cup ({w.input} \ {None})
    /\ Act
    /\ UNCHANGED <<backend, refused>>

-----------------------------------------------------------------------------
(* The window, when something arrives.                                     *)

Failed(v) == {m \in Message : Queued(v, m) /\ ItemOf(v, m).status = "failed"}

(* The failures that the window has just been told of. *)
Told == refused' = refused \cup (Failed(w') \ Failed(w))

(* A wrong variant: a stop asked for before the answer is forgotten. *)
StartAckForgetsStop ==
    /\ w.starting # None /\ w.starting.phase = "ok"
    /\ LET id == w.starting.id
           u == IF w.starting.queued THEN Without(w, {w.starting.m}) ELSE w
           v == IF OnStream(u, id) THEN [u EXCEPT !.stream.ready = TRUE] ELSE u
       IN  w' = drainAiMessageQueue([v EXCEPT !.starting = None])
    /\ Told
    /\ UNCHANGED <<backend, dropped, acts, errors>>

(* The start is acknowledged; a stop asked for meanwhile is sent now. *)
StartAcknowledged ==
    /\ w.starting # None /\ w.starting.phase = "ok"
    /\ LET id == w.starting.id
           u == IF w.starting.queued THEN Without(w, {w.starting.m}) ELSE w
           v == IF OnStream(u, id) THEN [u EXCEPT !.stream.ready = TRUE] ELSE u
       IN  IF v.stream # None /\ v.stream.stop
           THEN /\ w' = [v EXCEPT !.starting.phase = "stopping"]
                /\ stops' = stops \cup {id}
           ELSE /\ w' = drainAiMessageQueue([v EXCEPT !.starting = None])
                /\ UNCHANGED stops
    /\ Told
    /\ UNCHANGED <<run, chat, injected, events, dropped, acts, errors>>

(* ... and that stop is acknowledged. *)
StartStopped ==
    /\ w.starting # None /\ w.starting.phase = "stopped"
    /\ w' = drainAiMessageQueue([w EXCEPT !.starting = None])
    /\ Told
    /\ UNCHANGED <<backend, dropped, acts, errors>>

(* A wrong variant: the draft that was sent is not restored. *)
Restore(v, st, u) == u

(* The message of a rejected start: back to the draft if it is empty, else a *)
(* failed entry at the front of the queue.                                   *)
RestoreMessage(v, st, u) ==
    IF st.queued THEN ChangeItem(u, st.m, "failed", FALSE)
    ELSE IF v.input = None THEN [u EXCEPT !.input = st.m]
    ELSE [u EXCEPT !.queue = <<[m |-> st.m, session |-> st.wanted, status |-> "failed",
                               immediate |-> FALSE, ins |-> None]>> \o u.queue]

StartRejected ==
    /\ w.starting # None /\ w.starting.phase = "rejected"
    /\ LET st == w.starting
           back == Change([w EXCEPT !.active = st.wanted, !.stream = None, !.autoRun = FALSE],
                          LAMBDA it : st.wanted = New /\ it.session = st.session,
                          LAMBDA it : [it EXCEPT !.session = New])
           v == IF OnStream(w, st.id) THEN RestoreMessage(w, st, back) ELSE w
       IN  w' = drainAiMessageQueue([v EXCEPT !.starting = None])
    /\ Told
    /\ UNCHANGED <<backend, dropped, acts, errors>>

(* The insertion is accepted, refused because the run is over, or failed. *)
InsertionAnswered ==
    /\ w.inserting # None /\ w.inserting.phase # "sent"
    /\ LET ins == w.inserting
           v == IF ~OnStream(w, ins.id) \/ ~Queued(w, ins.m) THEN w
                ELSE CASE ins.phase = "ok" ->
                            ChangeItem(w, ins.m, "accepted", ItemOf(w, ins.m).immediate)
                       [] ins.phase = "closed" -> ChangeItem(w, ins.m, "queued", FALSE)
                       [] ins.phase = "error" -> ChangeItem(w, ins.m, "failed", FALSE)
       IN  w' = drainAiMessageQueue([v EXCEPT !.inserting = None])
    /\ Told
    /\ UNCHANGED <<backend, dropped, acts, errors>>

(* A wrong variant: a failed read leaves the entries as they are. *)
KeepUnread ==
    /\ w.reconciling # None /\ w.reconciling.phase = "failed"
    /\ w' = [w EXCEPT !.reconciling = None, !.autoRun = FALSE]
    /\ Told
    /\ UNCHANGED <<backend, dropped, acts, errors>>

(* The history of the session arrives, or the read failed. *)
ReconcileAnswered ==
    /\ w.reconciling # None /\ w.reconciling.phase # "sent"
    /\ LET rec == w.reconciling
           Mine(it) == it.session = rec.session
           Uncertain(it) == Mine(it) /\ it.ins # None
           kept == [w EXCEPT !.reconciling = None, !.queue = At(w.queue,
                        {i \in DOMAIN w.queue : ~(Mine(w.queue[i]) /\ w.queue[i].m \in rec.found)})]
           clean == Change(kept, Uncertain,
                           LAMBDA it : [it EXCEPT !.status = "queued", !.immediate = FALSE,
                                                  !.ins = None])
           failed == Change([w EXCEPT !.reconciling = None,
                                      !.autoRun = @ /\ ~Showing(w, rec.session)],
                            Uncertain,
                            LAMBDA it : [it EXCEPT !.status = "failed", !.immediate = FALSE])
           read == rec.phase = "read"
       IN  w' = [(IF read THEN clean ELSE failed) EXCEPT !.resuming =
                    [session |-> rec.session, success |-> read, waiting |-> rec.waiting]]
    /\ Told
    /\ UNCHANGED <<backend, dropped, acts, errors>>

(* The next of those that waited: each goes on in a microtask of its own, and  *)
(* nothing else happens in between.  Those of other sessions ask again in      *)
(* their turn; those of this one go on, the later the more hops they came by.  *)
Ticks(r, i) == IF r.waiting[i].session = r.session THEN r.waiting[i].hops ELSE 0

NextWaiter(r) ==
    CHOOSE i \in DOMAIN r.waiting : \A j \in DOMAIN r.waiting :
        Ticks(r, i) < Ticks(r, j) \/ (Ticks(r, i) = Ticks(r, j) /\ i <= j)

ResumeNext ==
    /\ w.resuming # None
    /\ LET r == w.resuming
           i == NextWaiter(r)
           rest == At(r.waiting, DOMAIN r.waiting \ {i})
           v == [w EXCEPT !.resuming =
                    IF rest = <<>> THEN None ELSE [r EXCEPT !.waiting = rest]]
       IN  w' = IF r.waiting[i].session = r.session THEN Resume(v, r.waiting[i], r.success)
                ELSE reconcileAiMessageQueue(v, r.waiting[i])
    /\ UNCHANGED <<backend, history, acts, errors>>

(* handleAiScopeStreamEvent: events of another stream are ignored, and a     *)
(* stopped stream that finished counts as stopped.                           *)
StreamEvent ==
    /\ events # <<>>
    /\ events' = Tail(events)
    /\ LET e == Head(events)
       IN  w' = IF ~OnStream(w, e.id) THEN w
                ELSE IF e.kind = "injected" THEN Without(w, e.ms)
                ELSE finishAiMessageQueue([w EXCEPT !.stream = None],
                        IF w.stream.stop /\ e.kind = "finished" THEN "stopped" ELSE e.kind)
    /\ Told
    /\ UNCHANGED <<run, chat, injected, stops, dropped, acts, errors>>

-----------------------------------------------------------------------------
(* The backend.  Start, enqueue, stop and delete take operation_lock.       *)

MayFail == errors < MaxErrors /\ errors' = errors + 1
NoFailure == UNCHANGED errors

(* A wrong variant: each start makes a session. *)
StartMakesSession ==
    /\ w.starting # None /\ w.starting.phase = "sent" /\ run = None
    /\ w' = [w EXCEPT !.starting.phase = "ok", !.known = @ + 1]
    /\ run' = [id |-> w.starting.id, session |-> w.starting.session, inbox |-> {},
               closed |-> FALSE, committed |-> {}, state |-> "live"]
    /\ chat' = [chat EXCEPT ![w.starting.m] = @ + 1]
    /\ UNCHANGED <<injected, events, stops, history, acts, errors>>

(* ai_chat_stream_start: the message is in the history before the answer. *)
StartArrives ==
    /\ w.starting # None /\ w.starting.phase = "sent"
    /\ \/ /\ run = None
          /\ w' = [w EXCEPT !.starting.phase = "ok",
                            !.known = IF w.starting.wanted = New THEN @ + 1 ELSE @]
          /\ run' = [id |-> w.starting.id, session |-> w.starting.session, inbox |-> {},
                     closed |-> FALSE, committed |-> {}, state |-> "live"]
          /\ chat' = [chat EXCEPT ![w.starting.m] = @ + 1]
          /\ NoFailure
       \/ /\ w' = [w EXCEPT !.starting.phase = "rejected"]
          /\ UNCHANGED <<run, chat>>
          /\ MayFail
    /\ UNCHANGED <<injected, events, stops, history, acts>>

(* ai_chat_stream_enqueue: a committed message is reported again, one that   *)
(* is pending is accepted again.                                             *)
EnqueueArrives ==
    /\ w.inserting # None /\ w.inserting.phase = "sent"
    /\ LET m == w.inserting.m
           mine == run # None /\ run.id = w.inserting.id
       IN  \/ /\ w' = [w EXCEPT !.inserting.phase =
                           IF mine /\ (m \in run.committed \/ ~run.closed)
                           THEN "ok" ELSE "closed"]
              /\ run' = IF mine /\ ~run.closed /\ m \notin run.committed
                        THEN [run EXCEPT !.inbox = @ \cup {m}] ELSE run
              /\ events' = IF mine /\ m \in run.committed
                           THEN Append(events, [id |-> run.id, kind |-> "injected", ms |-> {m}])
                           ELSE events
              /\ NoFailure
           \/ /\ mine /\ ~run.closed /\ m \notin run.committed \cup run.inbox
              /\ w' = [w EXCEPT !.inserting.phase = "error"]
              /\ UNCHANGED <<run, events>>
              /\ MayFail
    /\ UNCHANGED <<chat, injected, stops, history, acts>>

(* consume_messages: the inbox is emptied, then persisted in a transaction.   *)
(* A failure there ends the run, and it fails when an id of the inbox is in   *)
(* the history already: the ids are the primary keys.  That the event cannot  *)
(* be sent is ignored.                                                        *)
RunTakes ==
    /\ run # None /\ run.state = "live" /\ run.inbox # {}
    /\ \/ /\ run.inbox \cap injected = {}
          /\ run' = [run EXCEPT !.inbox = {}, !.committed = @ \cup run.inbox]
          /\ chat' = [m \in Message |-> IF m \in run.inbox THEN chat[m] + 1 ELSE chat[m]]
          /\ injected' = injected \cup run.inbox
          /\ \/ UNCHANGED events /\ MayFail
             \/ NoFailure /\ events' = Append(events,
                   [id |-> run.id, kind |-> "injected", ms |-> run.inbox])
       \/ /\ run' = [run EXCEPT !.inbox = {}, !.state = "error"]
          /\ IF run.inbox \cap injected = {} THEN MayFail ELSE NoFailure
          /\ UNCHANGED <<chat, injected, events>>
    /\ UNCHANGED <<w, stops, history, acts>>

(* The model's last turn: an empty inbox is closed, and the run ends. *)
RunCloses ==
    /\ run # None /\ run.state = "live" /\ run.inbox = {}
    /\ run' = [run EXCEPT !.closed = TRUE, !.state = "finished"]
    /\ UNCHANGED <<w, chat, injected, events, stops, history, acts, errors>>

(* An error of the provider leaves the inbox open and whatever is in it. *)
RunFails ==
    /\ run # None /\ run.state = "live"
    /\ run' = [run EXCEPT !.state = "error"]
    /\ MayFail
    /\ UNCHANGED <<w, chat, injected, events, stops, history, acts>>

(* finish_stream, then the last event. *)
RunEnds ==
    /\ run # None /\ run.state # "live"
    /\ run' = None
    /\ events' = Append(events, [id |-> run.id, kind |-> run.state, ms |-> {}])
    /\ UNCHANGED <<w, chat, injected, stops, history, acts, errors>>

(* ai_chat_stream_stop: the run is aborted, but one that is ending may still *)
(* send its own last event.  A run that is gone is not an error.             *)
StopArrives(id) ==
    /\ id \in stops
    /\ stops' = stops \ {id}
    /\ w' = IF w.starting # None /\ w.starting.phase = "stopping" /\ w.starting.id = id
            THEN [w EXCEPT !.starting.phase = "stopped"] ELSE w
    /\ IF run = None \/ run.id # id THEN UNCHANGED <<run, events>>
       ELSE LET stopped == [id |-> id, kind |-> "stopped", ms |-> {}]
                last == [id |-> id, kind |-> run.state, ms |-> {}]
            IN  /\ run' = None
                /\ events' \in {events \o <<stopped>>} \cup
                      (IF run.state = "live" THEN {}
                       ELSE {events \o <<last, stopped>>, events \o <<stopped, last>>})
    /\ UNCHANGED <<chat, injected, history, acts, errors>>

(* aiChatSessionGet: what the database has of the session's messages. *)
ReadArrives ==
    /\ w.reconciling # None /\ w.reconciling.phase = "sent"
    /\ \/ /\ w.reconciling.session # New
          /\ w' = [w EXCEPT !.reconciling.phase = "read", !.reconciling.found = injected]
          /\ NoFailure
       \/ /\ w' = [w EXCEPT !.reconciling.phase = "failed"]
          /\ IF w.reconciling.session = New THEN NoFailure ELSE MayFail
    /\ UNCHANGED <<backend, history, acts>>

-----------------------------------------------------------------------------

UserActs ==
    \/ Write \/ stopAiMessage \/ startNewSession
    \/ \E immediate \in BOOLEAN : sendMessage(immediate)
    \/ \E m \in Message : sendQueuedAiMessageNow(m) \/ DeleteEntry(m) \/ EditEntry(m)
    \/ \E s \in Session : openSession(s)

WindowGoesOn ==
    \/ StartAcknowledged \/ StartStopped \/ StartRejected
    \/ InsertionAnswered \/ ReconcileAnswered \/ StreamEvent

CommandsArrive ==
    \/ StartArrives \/ EnqueueArrives \/ ReadArrives \/ \E id \in StreamId : StopArrives(id)

RunGoesOn == RunTakes \/ RunCloses \/ RunFails \/ RunEnds

Next ==
    \/ ResumeNext
    \/ /\ w.resuming = None
       /\ SessionLoaded \/ UserActs \/ WindowGoesOn \/ CommandsArrive \/ RunGoesOn

Spec == Init /\ [][Next]_vars

(* The window handles what arrives, commands are answered, and a run takes   *)
(* the messages of its inbox, which interrupt its turn, and ends once it has  *)
(* decided to.  A turn of the model may last for ever.                        *)
FairSpec ==
    /\ Spec
    /\ WF_vars(ResumeNext \/ SessionLoaded \/ WindowGoesOn \/ CommandsArrive)
    /\ WF_vars(RunTakes \/ RunEnds)

-----------------------------------------------------------------------------
(* Properties.                                                             *)

(* No message enters the history twice, whether it was inserted, sent as the *)
(* next turn, retried or both, and whichever answer or event came late.  The  *)
(* exception is an entry whose insertion is unresolved and that the queue      *)
(* sends all the same: drainAiMessageQueue does not look at it.              *)
SavedOnce == \A m \in Message \ w.unverified : chat[m] <= 1

(* Every message the user sent is in the history, in the queue, back in the  *)
(* draft or on its way, unless the user deleted it: no failure, stop or late *)
(* answer loses one.                                                         *)
NothingLost ==
    \A m \in 1..w.written :
        \/ chat[m] > 0 \/ m \in dropped
        \/ Queued(w, m) \/ w.input = m
        \/ w.starting # None /\ w.starting.m = m

(* A message that was deleted before it was sent is never sent: entries can  *)
(* be deleted only while no insertion of them may be under way.  Nor can one    *)
(* that is being sent, with the same exception.                             *)
DeletedStaysOut == \A m \in dropped \ w.unverified : chat[m] = 0

(* The session that a draft is sent to stays the one that is shown until the  *)
(* start is answered, although another may be opening: a chat is opened after *)
(* an await, and its answer checks nothing again.                            *)
DraftIsShown ==
    w.starting # None /\ ~w.starting.queued /\ w.stream # None =>
        w.stream.session = w.active

(* A stop ends the reply, also one that is asked for before the start is     *)
(* acknowledged.                                                             *)
StopEnds ==
    (w.stream # None /\ w.stream.stop) ~> (w.stream = None \/ ~w.stream.stop)

(* An entry that the user cannot touch because it is sent, inserted or        *)
(* checked does not stay so once no reply runs: it leaves the queue or is     *)
(* released, whatever became of its command and its event.  This is for those *)
(* who always see the session of the reply; for others see EndIsVerified.     *)
Busy == \E i \in DOMAIN w.queue : w.queue[i].status \in {"sending", "accepted"}
ReplyIsShown == w.stream # None => w.stream.session = w.active
EntriesResolve ==
    []ReplyIsShown => ((Busy /\ w.stream = None) ~> (~Busy \/ w.stream # None))


(* Failed entries require an explicit retry: no automatic send takes one.    *)
FailedNeedsRetry == [][w'.starts # w.starts => w'.starting.m \notin refused']_vars
=============================================================================
