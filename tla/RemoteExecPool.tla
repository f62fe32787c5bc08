--------------------------- MODULE RemoteExecPool ---------------------------
(***************************************************************************)
(* The pool of reusable SSH exec sessions (remote_exec_pool.rs): one cached *)
(* session for a saved connection, shared by concurrent calls.             *)
(*                                                                         *)
(* The map of sessions has a mutex that is never held over an await, so a  *)
(* step of the model is what happens between two awaits.  A session has a  *)
(* mutex of its own, held while a command runs and taken to close it: who  *)
(* must close a session (`closing', `detached') waits for it.  A call goes *)
(* on only when what it has to close is closed.                            *)
(*                                                                         *)
(* A session that nobody refers to any more is dropped by Rust, and its    *)
(* number may be used again.  Time is one bit of a session: `fresh' while  *)
(* it is within the idle timeout.                                          *)
(***************************************************************************)
EXTENDS Naturals, FiniteSets

CONSTANTS
    Conn,           \* saved connections
    Sig,            \* signatures of their resolved configurations
    Call,           \* callers: tool calls, commands of the window, scheduled tasks
    Number,         \* tells sessions of one configuration from each other
    Asked,          \* the requests that may be made, see Request
    MaxCached,      \* max_cached_sessions
    MaxStarts,      \* bound on the calls of a behaviour
    MaxEvents,      \* bound on its failures, timeouts, cancellations, idle periods
                    \* and invalidations
    None

(* exec with RemoteExecRetry::None and ::ReconnectOnce, the two             *)
(* exec_with_stdout_chunks, warm_with_context.                              *)
Modes == {"exec", "retry", "stream", "warm"}
Request == [conn : Conn, sig : Sig, mode : Modes]

(* A session is made for one connection and one signature. *)
Sess == [conn : Conn, sig : Sig, number : Number]

ASSUME PoolAssumption ==
    /\ IsFiniteSet(Conn) /\ IsFiniteSet(Call)
    /\ Asked \subseteq Request
    /\ MaxCached \in Nat \ {0}
    /\ MaxStarts \in Nat /\ MaxEvents \in Nat
    /\ None \notin Conn \cup Call \cup Sess \cup Request

VARIABLES
    cached,     \* the map: connection id -> session
    open,       \* sessions that nobody has closed
    fresh,      \* sessions last used within the idle timeout
    inFlight,   \* in_flight of each session
    owner,      \* who holds each session's mutex
    due,        \* sessions that the prune of mark_handle_used found idle
    detached,   \* sessions a background task is about to close
    (* locals of each call *)
    pc,         \* the step it is at
    req,        \* what it was asked for
    h,          \* the session it deals with
    tried,      \* the session its first attempt failed on
    todo,       \* sessions its prune_idle_sessions has still to look at
    closing,    \* sessions it has to close before it goes on
    (* bookkeeping of the model *)
    starts, events

sessions == <<open, fresh, inFlight, owner>>
background == <<due, detached>>
locals == <<pc, req, h, tried, todo, closing>>
counters == <<starts, events>>
vars == <<cached, sessions, background, locals, counters>>

PoolSteps ==
    {"idle", "prune", "pruneOut", "lookup", "staleOut", "connect", "extra", "store",
     "begin", "lock", "run", "mark", "failOut", "end", "timedOut"}

Cached == {cached[k] : k \in Conn} \ {None}
CachedConns == {k \in Conn : cached[k] # None}

TypeOK ==
    /\ cached \in [Conn -> Sess \cup {None}]
    /\ open \in SUBSET Sess /\ fresh \in SUBSET Sess
    /\ inFlight \in [Sess -> Nat]
    /\ owner \in [Sess -> Call \cup {None}]
    /\ due \in SUBSET Sess /\ detached \in SUBSET Sess
    /\ pc \in [Call -> PoolSteps]
    /\ req \in [Call -> Request \cup {None}]
    /\ h \in [Call -> Sess \cup {None}] /\ tried \in [Call -> Sess \cup {None}]
    /\ todo \in [Call -> SUBSET Sess] /\ closing \in [Call -> SUBSET Sess]
    /\ starts \in 0..MaxStarts /\ events \in 0..MaxEvents

Init ==
    /\ cached = [k \in Conn |-> None]
    /\ open = {} /\ fresh = {}
    /\ inFlight = [s \in Sess |-> 0] /\ owner = [s \in Sess |-> None]
    /\ due = {} /\ detached = {}
    /\ pc = [c \in Call |-> "idle"] /\ req = [c \in Call |-> None]
    /\ h = [c \in Call |-> None] /\ tried = [c \in Call |-> None]
    /\ todo = [c \in Call |-> {}] /\ closing = [c \in Call |-> {}]
    /\ starts = 0 /\ events = 0

-----------------------------------------------------------------------------

(* No handle is left: Arc drops the session. *)
Free(s) ==
    /\ s \notin Cached \cup detached \cup due
    /\ \A c \in Call : s \notin {h[c], tried[c]} \cup todo[c] \cup closing[c]

(* A wrong variant: the guard is taken for granted before it is. *)
UsesEarly(c) ==
    \/ pc[c] \in {"begin", "lock", "run"}
    \/ req[c] # None /\ req[c].mode = "stream" /\ pc[c] \in {"mark", "failOut", "end"}

(* A call at this step has a RemoteExecUseGuard on h. *)
Uses(c) ==
    \/ pc[c] \in {"lock", "run"}
    \/ req[c] # None /\ req[c].mode = "stream" /\ pc[c] \in {"mark", "failOut", "end"}

At(c, step) == pc[c] = step /\ closing[c] = {}

Event == events < MaxEvents /\ events' = events + 1 /\ UNCHANGED starts

GoTo(c, step) == pc' = [pc EXCEPT ![c] = step]

(* The call returns, or its future is dropped: so are all its locals. *)
Release(c) ==
    /\ inFlight' = IF Uses(c) THEN [inFlight EXCEPT ![h[c]] = @ - 1] ELSE inFlight
    /\ owner' = [s \in Sess |-> IF owner[s] = c THEN None ELSE owner[s]]
    /\ todo' = [todo EXCEPT ![c] = {}]
    /\ closing' = [closing EXCEPT ![c] = {}]
    /\ tried' = [tried EXCEPT ![c] = None]

Return(c) ==
    /\ Release(c)
    /\ GoTo(c, "idle")
    /\ req' = [req EXCEPT ![c] = None]
    /\ h' = [h EXCEPT ![c] = None]

-----------------------------------------------------------------------------
(* Finding a session: session_handle_with_connector. *)

Start(c, r) ==
    /\ pc[c] = "idle"
    /\ req' = [req EXCEPT ![c] = r]
    /\ todo' = [todo EXCEPT ![c] = Cached]
    /\ GoTo(c, "prune")
    /\ starts < MaxStarts /\ starts' = starts + 1
    /\ UNCHANGED <<cached, sessions, background, h, tried, closing, events>>

(* prune_idle_sessions looks at one session after the other, and removes it *)
(* in a later step than the one that found it idle.                         *)
PruneIdle(c, s) ==
    /\ At(c, "prune")
    /\ todo' = [todo EXCEPT ![c] = @ \ {s}]
    /\ IF inFlight[s] = 0 /\ s \notin fresh
       THEN GoTo(c, "pruneOut") /\ h' = [h EXCEPT ![c] = s]
       ELSE UNCHANGED <<pc, h>>
    /\ UNCHANGED <<cached, sessions, background, req, tried, closing, counters>>

PruneEnds(c) ==
    /\ At(c, "prune") /\ todo[c] = {}
    /\ GoTo(c, "lookup")
    /\ UNCHANGED <<cached, sessions, background, req, h, tried, todo, closing, counters>>

Lookup(c) ==
    /\ At(c, "lookup")
    /\ LET s == cached[req[c].conn]
       IN  /\ h' = [h EXCEPT ![c] = s]
           /\ GoTo(c, IF s = None THEN "connect"
                      ELSE IF s.sig = req[c].sig /\ s \in fresh THEN "begin"
                      ELSE "staleOut")
    /\ UNCHANGED <<cached, sessions, background, req, tried, todo, closing, counters>>

Retries(c) == pc[c] = "failOut" /\ req[c].mode = "retry" /\ tried[c] = None

(* A wrong variant: a session that others use stays in the map. *)
InvalidateUnlessBusy(c) ==
    /\ pc[c] \in {"pruneOut", "staleOut", "failOut"}
    /\ IF h[c] \in Cached /\ inFlight[h[c]] = 0
       THEN /\ cached' = [cached EXCEPT ![h[c].conn] = None]
            /\ closing' = [closing EXCEPT ![c] = {h[c]}]
       ELSE UNCHANGED <<cached, closing>>
    /\ GoTo(c, CASE pc[c] = "pruneOut" -> "prune"
                 [] pc[c] = "staleOut" \/ Retries(c) -> "connect"
                 [] OTHER -> "end")
    /\ tried' = IF Retries(c) THEN [tried EXCEPT ![c] = h[c]] ELSE tried
    /\ h' = IF pc[c] = "failOut" THEN h ELSE [h EXCEPT ![c] = None]
    /\ UNCHANGED <<sessions, background, req, todo, counters>>

(* invalidate_handle: out of the map, if it is still there, then closed. *)
Invalidate(c) ==
    /\ pc[c] \in {"pruneOut", "staleOut", "failOut"}
    /\ IF h[c] \in Cached
       THEN /\ cached' = [cached EXCEPT ![h[c].conn] = None]
            /\ closing' = [closing EXCEPT ![c] = {h[c]}]
       ELSE UNCHANGED <<cached, closing>>
    /\ GoTo(c, CASE pc[c] = "pruneOut" -> "prune"
                 [] pc[c] = "staleOut" \/ Retries(c) -> "connect"
                 [] OTHER -> "end")
    /\ tried' = IF Retries(c) THEN [tried EXCEPT ![c] = h[c]] ELSE tried
    /\ h' = IF pc[c] = "failOut" THEN h ELSE [h EXCEPT ![c] = None]
    /\ UNCHANGED <<sessions, background, req, todo, counters>>

(* A wrong variant: close_handle does not lock the session. *)
CloseAtOnce(c) ==
    \E s \in closing[c] :
        /\ open' = open \ {s} /\ fresh' = fresh \ {s}
        /\ closing' = [closing EXCEPT ![c] = @ \ {s}]
        /\ UNCHANGED <<cached, inFlight, owner, background, pc, req, h, tried, todo, counters>>

(* close_handle waits for the command that runs on the session. *)
Close(c) ==
    \E s \in closing[c] :
        /\ owner[s] = None
        /\ open' = open \ {s} /\ fresh' = fresh \ {s}
        /\ closing' = [closing EXCEPT ![c] = @ \ {s}]
        /\ UNCHANGED <<cached, inFlight, owner, background, pc, req, h, tried, todo, counters>>

FreeFor(r) == {s \in Sess : s.conn = r.conn /\ s.sig = r.sig /\ Free(s)}

Connect(c) ==
    /\ At(c, "connect") /\ FreeFor(req[c]) # {}
    /\ LET s == CHOOSE s \in FreeFor(req[c]) : TRUE
       IN  /\ h' = [h EXCEPT ![c] = s]
           /\ open' = open \cup {s} /\ fresh' = fresh \ {s}
    /\ GoTo(c, "extra")
    /\ UNCHANGED <<cached, inFlight, owner, background, req, tried, todo, closing, counters>>

ConnectFails(c) ==
    /\ At(c, "connect")
    /\ Return(c)
    /\ UNCHANGED <<cached, open, fresh, background, counters>>

(* A wrong variant: room for the new session is not counted. *)
PruneToLimit(c) ==
    /\ At(c, "extra")
    /\ LET extra == Cardinality(CachedConns) - MaxCached
           others == CachedConns \ {req[c].conn}
       IN  IF Cardinality(CachedConns) < MaxCached
           THEN UNCHANGED <<cached, closing>>
           ELSE \E out \in SUBSET others :
                   /\ IF extra <= Cardinality(others)
                      THEN Cardinality(out) = extra ELSE out = others
                   /\ cached' = [k \in Conn |-> IF k \in out THEN None ELSE cached[k]]
                   /\ closing' = [closing EXCEPT ![c] = {cached[k] : k \in out}]
    /\ GoTo(c, "store")
    /\ UNCHANGED <<sessions, background, req, h, tried, todo, counters>>

(* connect_and_store: prune_extra_sessions makes room for one, busy or not, *)
(* in the order of ids, which say nothing.                                  *)
PruneExtra(c) ==
    /\ At(c, "extra")
    /\ LET extra == Cardinality(CachedConns) - (MaxCached - 1)
           others == CachedConns \ {req[c].conn}
       IN  IF Cardinality(CachedConns) < MaxCached
           THEN UNCHANGED <<cached, closing>>
           ELSE \E out \in SUBSET others :
                   /\ IF extra <= Cardinality(others)
                      THEN Cardinality(out) = extra ELSE out = others
                   /\ cached' = [k \in Conn |-> IF k \in out THEN None ELSE cached[k]]
                   /\ closing' = [closing EXCEPT ![c] = {cached[k] : k \in out}]
    /\ GoTo(c, "store")
    /\ UNCHANGED <<sessions, background, req, h, tried, todo, counters>>

(* A wrong variant: the signatures are not compared. *)
StoreUnlessThere(c) ==
    /\ At(c, "store")
    /\ LET old == cached[req[c].conn]
           keep == old # None
       IN  IF keep
           THEN /\ h' = [h EXCEPT ![c] = old]
                /\ closing' = [closing EXCEPT ![c] = {h[c]}]
                /\ UNCHANGED <<cached, fresh>>
           ELSE /\ cached' = [cached EXCEPT ![req[c].conn] = h[c]]
                /\ fresh' = fresh \cup {h[c]}
                /\ closing' = [closing EXCEPT ![c] = {old} \ {None}]
                /\ UNCHANGED h
    /\ GoTo(c, "begin")
    /\ UNCHANGED <<open, inFlight, owner, background, req, tried, todo, counters>>

(* A wrong variant: of the two sessions the one that is kept is closed. *)
StoreClosesOld(c) ==
    /\ At(c, "store")
    /\ LET old == cached[req[c].conn]
           keep == old # None /\ old.sig = req[c].sig
       IN  IF keep
           THEN /\ h' = [h EXCEPT ![c] = old]
                /\ closing' = [closing EXCEPT ![c] = {old}]
                /\ UNCHANGED <<cached, fresh>>
           ELSE /\ cached' = [cached EXCEPT ![req[c].conn] = h[c]]
                /\ fresh' = fresh \cup {h[c]}
                /\ closing' = [closing EXCEPT ![c] = {old} \ {None}]
                /\ UNCHANGED h
    /\ GoTo(c, "begin")
    /\ UNCHANGED <<open, inFlight, owner, background, req, tried, todo, counters>>

(* Another call may have stored a session meanwhile: with the same          *)
(* signature it is used and the new one closed, else the other way round.   *)
Store(c) ==
    /\ At(c, "store")
    /\ LET old == cached[req[c].conn]
           keep == old # None /\ old.sig = req[c].sig
       IN  IF keep
           THEN /\ h' = [h EXCEPT ![c] = old]
                /\ closing' = [closing EXCEPT ![c] = {h[c]}]
                /\ UNCHANGED <<cached, fresh>>
           ELSE /\ cached' = [cached EXCEPT ![req[c].conn] = h[c]]
                /\ fresh' = fresh \cup {h[c]}
                /\ closing' = [closing EXCEPT ![c] = {old} \ {None}]
                /\ UNCHANGED h
    /\ GoTo(c, "begin")
    /\ UNCHANGED <<open, inFlight, owner, background, req, tried, todo, counters>>

-----------------------------------------------------------------------------
(* Using it: run_exec, mark_handle_used. *)

BeginUse(c) ==
    /\ At(c, "begin") /\ req[c].mode # "warm"
    /\ inFlight' = [inFlight EXCEPT ![h[c]] = @ + 1]
    /\ GoTo(c, "lock")
    /\ UNCHANGED <<cached, open, fresh, owner, background, req, h, tried, todo, closing, counters>>

LockSession(c) ==
    /\ pc[c] = "lock" /\ owner[h[c]] = None
    /\ owner' = [owner EXCEPT ![h[c]] = c]
    /\ GoTo(c, "run")
    /\ UNCHANGED <<cached, open, fresh, inFlight, background, req, h, tried, todo, closing, counters>>

(* A wrong variant: the session is locked until the call returns. *)
CommandEndsLocked(c) ==
    /\ pc[c] = "run"
    /\ owner' = owner
    /\ inFlight' = IF req[c].mode = "stream" THEN inFlight
                   ELSE [inFlight EXCEPT ![h[c]] = @ - 1]
    /\ UNCHANGED <<cached, open, fresh, background, req, h, tried, todo, closing>>

(* The command is over: the guards of run_exec go, that of a stream stays. *)
CommandEnds(c) ==
    /\ pc[c] = "run"
    /\ owner' = [owner EXCEPT ![h[c]] = None]
    /\ inFlight' = IF req[c].mode = "stream" THEN inFlight
                   ELSE [inFlight EXCEPT ![h[c]] = @ - 1]
    /\ UNCHANGED <<cached, open, fresh, background, req, h, tried, todo, closing>>

RunOk(c) ==
    /\ CommandEnds(c)
    /\ h[c] \in open
    /\ GoTo(c, "mark")
    /\ UNCHANGED counters

RunFails(c) ==
    /\ CommandEnds(c)
    /\ IF h[c] \in open THEN Event ELSE UNCHANGED counters
    /\ GoTo(c, "failOut")

(* A stream that is cancelled has not failed, whatever its session is.       *)
RunCancelled(c) ==
    /\ CommandEnds(c)
    /\ req[c].mode = "stream"
    /\ Event
    /\ GoTo(c, "mark")

MarkUsed(c) ==
    /\ At(c, "mark") \/ (At(c, "begin") /\ req[c].mode = "warm")
    /\ fresh' = fresh \cup {h[c]}
    /\ Return(c)
    /\ UNCHANGED <<cached, open, background, counters>>

ReturnError(c) ==
    /\ At(c, "end")
    /\ Return(c)
    /\ UNCHANGED <<cached, open, fresh, background, counters>>

-----------------------------------------------------------------------------
(* Calls that give up, and what runs in the background. *)

(* A wrong variant: a dropped future keeps its use counted. *)
TimeoutKeepsUse(c) ==
    /\ pc[c] \notin {"idle", "timedOut"}
    /\ owner' = [s \in Sess |-> IF owner[s] = c THEN None ELSE owner[s]]
    /\ todo' = [todo EXCEPT ![c] = {}]
    /\ closing' = [closing EXCEPT ![c] = {}]
    /\ tried' = [tried EXCEPT ![c] = None]
    /\ GoTo(c, "timedOut")
    /\ Event
    /\ UNCHANGED <<cached, open, fresh, inFlight, background, req, h>>

(* tokio::time::timeout drops the future, wherever it is; the caller then   *)
(* invalidates the connection, whatever session it has.                     *)
Timeout(c) ==
    /\ pc[c] \notin {"idle", "timedOut"}
    /\ Release(c)
    /\ GoTo(c, "timedOut")
    /\ Event
    /\ UNCHANGED <<cached, open, fresh, background, req, h>>

Removes(k) ==
    /\ cached' = [cached EXCEPT ![k] = None]
    /\ detached' = detached \cup ({cached[k]} \ {None})

(* A wrong variant: the removal too is left to the background. *)
TimeoutReturnsFirst(c) ==
    /\ pc[c] = "timedOut"
    /\ due' = due \cup ({cached[req[c].conn]} \ {None})
    /\ Return(c)
    /\ UNCHANGED <<cached, open, fresh, detached, counters>>

TimeoutInvalidates(c) ==
    /\ pc[c] = "timedOut"
    /\ Removes(req[c].conn)
    /\ Return(c)
    /\ UNCHANGED <<open, fresh, due, counters>>

(* wait_for_cancellation wins before the command has started. *)
Cancel(c) ==
    /\ pc[c] \notin {"idle", "run", "mark", "failOut", "end", "timedOut"}
    /\ req[c].mode = "stream"
    /\ Return(c)
    /\ Event
    /\ UNCHANGED <<cached, open, fresh, background>>

(* docker_exec_invalidate_connection. *)
InvalidateConnection(k) ==
    /\ cached[k] # None
    /\ Removes(k)
    /\ Event
    /\ UNCHANGED <<sessions, due, locals>>

CloseDetached(s) ==
    /\ s \in detached /\ owner[s] = None
    /\ open' = open \ {s} /\ fresh' = fresh \ {s}
    /\ detached' = detached \ {s}
    /\ UNCHANGED <<cached, inFlight, owner, due, locals, counters>>

IdleTimeout(s) ==
    /\ s \in fresh
    /\ fresh' = fresh \ {s}
    /\ Event
    /\ UNCHANGED <<cached, open, inFlight, owner, background, locals>>

(* The task of schedule_idle_prune wakes up after the idle timeout, and     *)
(* again removes in a later step than it looks.                             *)
PruneWakes(s) ==
    /\ s \in Cached /\ inFlight[s] = 0 /\ s \notin fresh
    /\ due' = due \cup {s}
    /\ UNCHANGED <<cached, sessions, detached, locals, counters>>

PruneDue(s) ==
    /\ s \in due
    /\ due' = due \ {s}
    /\ IF s \in Cached THEN Removes(s.conn) ELSE UNCHANGED <<cached, detached>>
    /\ UNCHANGED <<sessions, locals, counters>>

-----------------------------------------------------------------------------

Step(c) ==
    \/ \E s \in todo[c] : PruneIdle(c, s)
    \/ PruneEnds(c) \/ Lookup(c) \/ Invalidate(c) \/ Connect(c) \/ ConnectFails(c)
    \/ PruneExtra(c) \/ Store(c) \/ Close(c)
    \/ BeginUse(c) \/ LockSession(c) \/ RunOk(c) \/ RunFails(c) \/ RunCancelled(c)
    \/ MarkUsed(c) \/ ReturnError(c) \/ TimeoutInvalidates(c)

Background ==
    \/ \E k \in Conn : InvalidateConnection(k)
    \/ \E s \in Sess : CloseDetached(s) \/ IdleTimeout(s) \/ PruneWakes(s) \/ PruneDue(s)

Next ==
    \/ \E c \in Call :
          \/ \E r \in Asked : Start(c, r)
          \/ Step(c) \/ Timeout(c) \/ Cancel(c)
    \/ Background

(* Tasks run, and commands end or fail: the keepalive of a session sees to  *)
(* it.  Calls are bounded, so a session's mutex is not contended for ever.  *)
Fairness == \A c \in Call : WF_vars(Step(c))

Spec == Init /\ [][Next]_vars
FairSpec == Spec /\ Fairness

-----------------------------------------------------------------------------
(* Properties. *)

(* What the pool hands out under a connection is a session of that          *)
(* connection that it has not closed (insert, remove and close_handle are   *)
(* steps of different calls).                                               *)
CachedIsOpen ==
    \A k \in CachedConns : cached[k] \in open /\ cached[k].conn = k

(* A command runs on a session that was made for the configuration its call *)
(* resolved, however many calls stored sessions of other configurations     *)
(* meanwhile (connect_and_store, can_reuse_remote_exec_session).            *)
RunsOnOwnConfiguration ==
    \A c \in Call :
        pc[c] \in {"begin", "lock", "run", "mark"} =>
            h[c].conn = req[c].conn /\ h[c].sig = req[c].sig

(* ReconnectOnce never runs the command again on the session that failed,   *)
(* not even when it finds a session in the map and closes its own.          *)
RetryUsesAnother ==
    \A c \in Call : pc[c] \in {"lock", "run"} => h[c] # tried[c]

(* in_flight counts exactly the commands that run or wait, also after       *)
(* timeouts and cancellations: a count too low closes a session that is     *)
(* used, one too high keeps an idle session for ever (RemoteExecUseGuard).  *)
UseIsCounted ==
    \A s \in Sess : inFlight[s] = Cardinality({c \in Call : Uses(c) /\ h[c] = s})

(* prune_extra_sessions and the insertion are two steps, so calls may exceed *)
(* max_cached_sessions; but never by more than the other callers.            *)
CacheBound ==
    Cardinality(CachedConns) <= MaxCached - 1 + Cardinality(Call)

(* docs/spec/backend/tauri-command-contracts.md: "Idle cleanup must not      *)
(* close a session while a command such as docker pull is still running";    *)
(* nor does anyone else: a command that runs keeps its session.              *)
NeverClosedUnderCommand ==
    [][\A c \in Call : pc[c] = "run" /\ pc'[c] = "run" /\ h[c] \in open => h[c] \in open']_vars

(* When a call returns a failure or a timeout, the session it used is out of *)
(* the map: the next call does not get it.                                   *)
FailedIsOut ==
    [][\A c \in Call :
          pc[c] \in {"end", "timedOut"} /\ pc'[c] = "idle" =>
             cached'[req[c].conn] = None \/ cached'[req[c].conn] # h[c]]_vars

(* Every call returns: calls that wait for each other's sessions to close    *)
(* do not wait in a circle.                                                  *)
CallsReturn ==
    \A c \in Call : pc[c] # "idle" ~> pc[c] = "idle"
=============================================================================
