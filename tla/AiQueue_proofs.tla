--------------------------- MODULE AiQueue_proofs ---------------------------
(***************************************************************************)
(* Proofs about AiQueue: its type invariant, that no message is saved       *)
(* twice, lost, or sent after its deletion, and that a reply is shown, for  *)
(* any number of messages, sessions, acts and failures.                     *)
(***************************************************************************)
EXTENDS AiQueue, Lists_proofs, FiniteSetTheorems, TLAPS

-----------------------------------------------------------------------------
(* The inductive invariant, of a state v of the scope that may be one in    *)
(* the middle of a step, and of the messages d deleted so far.              *)

(* A message counts once in the history for an insertion, once for a start. *)
Credit(m) == IF m \in injected THEN 1 ELSE 0
Started == {m \in Message : chat[m] > Credit(m)}

(* A start that has not reached the history, and may still be rejected.     *)
Pending(v) == v.starting # None /\ v.starting.phase \in {"sent", "rejected"}
NewSession(v) == Pending(v) /\ v.starting.wanted = New
Arrived(v, m) == v.starting # None /\ v.starting.m = m /\ v.starting.phase = "ok"

Unique(v) == \A i, j \in DOMAIN v.queue : v.queue[i].m = v.queue[j].m => i = j

(* The sessions there are for the window.                                   *)
Sess(v) == 1..v.known \cup {New} \cup
              (IF NewSession(v) THEN {v.starting.session} ELSE {})

(* What is queued has not been started; it may have been inserted, but then  *)
(* its entry has the stream.                                                *)
Entry(v, d, it) ==
    /\ it.m <= v.written /\ it.m \notin d
    /\ chat[it.m] = Credit(it.m) \/ Arrived(v, it.m)
    /\ it.m \in injected => it.ins # None
    /\ it.ins # None => it.ins <= v.starts /\ it.session \in 1..v.known
    /\ it.session \in Sess(v)
    /\ it.session = New => v.known < MaxSessions /\ ~NewSession(v)

Entries(v, d) == Unique(v) /\ \A i \in DOMAIN v.queue : Entry(v, d, v.queue[i])

Draft(v, d) ==
    v.input # None =>
        /\ v.input <= v.written /\ chat[v.input] = 0 /\ v.input \notin d
        /\ ~Queued(v, v.input)
        /\ v.starting # None => v.starting.m # v.input

Written(v, d) ==
    /\ \A m \in Message : chat[m] > 0 \/ m \in d => m <= v.written
    /\ \A m \in injected : chat[m] > 0

(* The entry of a message that is being sent.                               *)
Sending(v, m) ==
    \E i \in DOMAIN v.queue :
        v.queue[i].m = m /\ v.queue[i].status = "sending" /\ v.queue[i].ins = None

Undecided(v, d) ==
    Pending(v) =>
        /\ v.stream # None /\ run = None /\ chat[v.starting.m] = Credit(v.starting.m)
        /\ \A i \in DOMAIN events : events[i].id < v.starting.id
        /\ ~v.starting.queued => chat[v.starting.m] = 0 /\ v.starting.m \notin d
        /\ v.starting.queued /\ v.starting.m \notin v.unverified => Sending(v, v.starting.m)

Start(v) ==
    v.starting # None =>
        /\ v.starting.id = v.starts /\ v.starting.m <= v.written
        /\ v.stream # None => v.stream.id = v.starting.id
        /\ v.stream # None =>
             (v.stream.ready <=> v.starting.phase \in {"stopping", "stopped"})
        /\ v.starting.wanted # New =>
             v.starting.session = v.starting.wanted /\ v.starting.session <= v.known
        /\ NewSession(v) => v.known < MaxSessions /\ v.starting.session = v.known + 1
        /\ ~Pending(v) => chat[v.starting.m] > 0 /\ v.starting.session <= v.known
        /\ ~v.starting.queued \/ v.starting.phase \in {"stopping", "stopped"} =>
             ~Queued(v, v.starting.m)

Stream(v) ==
    /\ v.stream # None =>
         /\ v.stream.id <= v.starts /\ v.active # New
         /\ v.starting = None => v.stream.ready
         /\ v.stream.session \in Sess(v) \ {New}
    /\ v.active \in Sess(v)
    /\ v.loading # None => v.loading <= v.known

(* While a draft is started, no other session is opened.                    *)
Shows(v) ==
    v.starting # None /\ ~v.starting.queued /\ v.stream # None =>
        v.loading = None /\ v.stream.session = v.active

(* A message on its way to the history still has its entry.                 *)
Kept(v, m) ==
    \/ m \in injected
    \/ \E i \in DOMAIN v.queue : v.queue[i].m = m /\ v.queue[i].ins # None

Runs(v) ==
    /\ run # None =>
         /\ v.stream # None /\ v.stream.id = run.id /\ ~Pending(v)
         /\ run.committed \subseteq injected
         /\ \A m \in run.inbox : Kept(v, m)
    /\ \A i \in DOMAIN events :
         /\ events[i].id <= v.starts
         /\ events[i].kind # "injected" /\ run # None => events[i].id # run.id
         /\ events[i].ms \subseteq injected

(* An insertion that may reach the run.                                     *)
OnItsWay(v) ==
    v.inserting # None /\ v.inserting.phase = "sent" /\ run # None /\ run.id = v.inserting.id

Inserting(v) ==
    /\ v.inserting # None => v.inserting.id <= v.starts
    /\ OnItsWay(v) => Kept(v, v.inserting.m)

(* No insertion has been made on the stream: there is none before it is      *)
(* ready, and none while a reconciliation is under way or about to be.       *)
Untouched(v) ==
    /\ run # None => run.inbox = {}
    /\ v.inserting # None => v.inserting.id # v.stream.id

Others(r) == \E i \in DOMAIN r.waiting : r.waiting[i].session # r.session
AllLate(r) == \A i \in DOMAIN r.waiting : r.waiting[i].hops > 0

Quiet(v) ==
    v.stream # None /\ (~v.stream.ready \/ v.reconciling # None
                          \/ (v.resuming # None /\ Others(v.resuming))) => Untouched(v)

(* Those that wait for another session have come by a hop at least; so have  *)
(* all of them while a reply runs, and go on after the others.               *)
Late(r) ==
    /\ r.waiting # <<>>
    /\ \A i \in DOMAIN r.waiting : r.waiting[i].session # r.session => r.waiting[i].hops > 0

Hops(v) ==
    /\ v.reconciling # None =>
         Late(v.reconciling) /\ (v.stream # None => AllLate(v.reconciling))
    /\ v.resuming # None =>
         Late(v.resuming) /\ (v.stream # None => v.starting # None \/ AllLate(v.resuming))

(* What a read has found is all there is, nothing more is inserted.          *)
Found(v) ==
    v.reconciling # None =>
        /\ v.reconciling.found \subseteq injected
        /\ v.reconciling.phase = "read" =>
             /\ v.reconciling.session # New
             /\ \A i \in DOMAIN v.queue :
                  v.queue[i].m \in injected /\ v.queue[i].session = v.reconciling.session
                    => v.queue[i].m \in v.reconciling.found

(* A send that waits is of an entry of the session it waits for.             *)
Waits(v, x) ==
    /\ x.session \in 1..v.known \cup {New}
    /\ x.kind = "send" =>
         /\ x.m \in Message /\ x.m <= v.written /\ x.m # v.input
         /\ v.starting # None /\ ~v.starting.queued => v.starting.m # x.m
         /\ x.session # New =>
              \A j \in DOMAIN v.queue : v.queue[j].m = x.m => v.queue[j].session = x.session

Waiters(v) ==
    /\ v.reconciling # None =>
         \A i \in DOMAIN v.reconciling.waiting : Waits(v, v.reconciling.waiting[i])
    /\ v.resuming # None =>
         \A i \in DOMAIN v.resuming.waiting : Waits(v, v.resuming.waiting[i])

(* ... and after a successful one that entry can be sent again.               *)
Sendable(v) ==
    \A i \in DOMAIN v.resuming.waiting :
        \/ v.resuming.waiting[i].kind # "send"
        \/ v.resuming.waiting[i].session # v.resuming.session
        \/ \A j \in DOMAIN v.queue :
              v.queue[j].m = v.resuming.waiting[i].m => v.queue[j].ins = None

Cleaned(v) ==
    v.resuming # None /\ v.resuming.success =>
        /\ v.resuming.session # New
        /\ v.stream = None /\ v.starting = None /\ v.reconciling = None => Sendable(v)

(* Each start but the one under way has succeeded or used up a failure.      *)
Count(v) ==
    v.starts <= Cardinality(Started) + errors +
                (IF v.starting # None /\ v.starting.phase = "sent" THEN 1 ELSE 0)

Saved(v, d) ==
    /\ \A m \in Message \ v.unverified : chat[m] <= 1
    /\ \A m \in d \ v.unverified : chat[m] = 0

(* Every message but this one is accounted for.                             *)
Somewhere(v, d, but) ==
    \A m \in 1..v.written :
        \/ m = but
        \/ chat[m] > 0 \/ m \in d
        \/ Queued(v, m) \/ v.input = m
        \/ v.starting # None /\ v.starting.m = m /\ ~v.starting.queued

Core(v, d) ==
    /\ v \in Scope
    /\ Entries(v, d) /\ Draft(v, d) /\ Written(v, d) /\ Undecided(v, d) /\ Start(v)
    /\ Stream(v) /\ Shows(v) /\ Runs(v) /\ Inserting(v) /\ Quiet(v) /\ Hops(v) /\ Found(v)
    /\ Waiters(v) /\ Cleaned(v) /\ Count(v) /\ Saved(v, d)

Good(v, d) == Core(v, d) /\ Somewhere(v, d, None)

IInv == TypeOK /\ Good(w, dropped)

(* A message in the middle of a step, between the draft or the start it was   *)
(* in and the place it goes to.                                             *)
InHand(v, d, m) ==
    /\ Core(v, d) /\ Somewhere(v, d, m)
    /\ m \in Message /\ m <= v.written /\ chat[m] = 0 /\ m \notin d
    /\ ~Queued(v, m) /\ v.input # m
    /\ v.starting # None => v.starting.m # m
    /\ v.reconciling # None => \A i \in DOMAIN v.reconciling.waiting :
          v.reconciling.waiting[i].kind = "send" => v.reconciling.waiting[i].m # m
    /\ v.resuming # None => \A i \in DOMAIN v.resuming.waiting :
          v.resuming.waiting[i].kind = "send" => v.resuming.waiting[i].m # m

-----------------------------------------------------------------------------
(* Records and lists.                                                      *)

(* What the fields of a scope hold.                                         *)
LEMMA Fields ==
    ASSUME NEW v \in Scope
    PROVE  /\ v.active \in Shown /\ v.loading \in Session \cup {None}
           /\ v.stream \in StreamState \cup {None} /\ v.queue \in Seq(Item)
           /\ v.autoRun \in BOOLEAN /\ v.input \in Message \cup {None}
           /\ v.starting \in StartState \cup {None}
           /\ v.inserting \in InsertState \cup {None}
           /\ v.reconciling \in ReconcileState \cup {None}
           /\ v.resuming \in ResumeState \cup {None} /\ v.unverified \in SUBSET Message
           /\ v.written \in 0..MaxMessages /\ v.starts \in 0..(MaxMessages + MaxErrors)
           /\ v.known \in 0..MaxSessions
  BY DEF Scope

(* The bounds and the counters of a scope are numbers, and neither None nor New is an id. *)
LEMMA Numbers ==
    ASSUME NEW v \in Scope
    PROVE  /\ MaxMessages \in Nat /\ MaxErrors \in Nat /\ MaxSessions \in Nat
           /\ v.written \in Nat /\ v.starts \in Nat /\ v.known \in Nat
           /\ Message \subseteq Nat /\ Session \subseteq Nat /\ StreamId \subseteq Nat
           /\ v.known <= MaxSessions /\ v.written <= MaxMessages
           /\ v.starts <= MaxMessages + MaxErrors
           /\ None \notin Message /\ None \notin Session /\ None \notin StreamId
           /\ New # None /\ New \notin Session /\ 1..v.known \subseteq Session
           /\ New \notin 1..v.known
  <1>1. /\ MaxMessages \in Nat /\ MaxErrors \in Nat /\ MaxSessions \in Nat
        /\ v.written \in 0..MaxMessages /\ v.starts \in 0..(MaxMessages + MaxErrors)
        /\ v.known \in 0..MaxSessions
    BY Fields, AiQueueAssumption
  <1>2. 1..v.known \subseteq Session
    BY <1>1 DEF Session
  <1> QED  BY <1>1, <1>2, AiQueueAssumption DEF Message, Session, StreamId

(* The states of the commands under way.                                   *)
LEMMA Parts ==
    ASSUME NEW v \in Scope
    PROVE  /\ v.stream # None =>
                /\ v.stream \in StreamState
                /\ v.stream.id \in StreamId /\ v.stream.session \in Session
                /\ v.stream.ready \in BOOLEAN /\ v.stream.stop \in BOOLEAN
           /\ v.starting # None =>
                /\ v.starting \in StartState
                /\ v.starting.m \in Message /\ v.starting.queued \in BOOLEAN
                /\ v.starting.wanted \in Shown /\ v.starting.session \in Session
                /\ v.starting.id \in StreamId
                /\ v.starting.phase \in {"sent", "ok", "rejected", "stopping", "stopped"}
           /\ v.inserting # None =>
                /\ v.inserting \in InsertState
                /\ v.inserting.m \in Message /\ v.inserting.id \in StreamId
                /\ v.inserting.phase \in {"sent", "ok", "closed", "error"}
           /\ v.reconciling # None =>
                /\ v.reconciling \in ReconcileState
                /\ v.reconciling.session \in Shown
                /\ v.reconciling.phase \in {"sent", "read", "failed"}
                /\ v.reconciling.found \in SUBSET Message
                /\ v.reconciling.waiting \in Seq(Waiter)
           /\ v.resuming # None =>
                /\ v.resuming \in ResumeState
                /\ v.resuming.session \in Shown /\ v.resuming.success \in BOOLEAN
                /\ v.resuming.waiting \in Seq(Waiter)
  BY Fields DEF StreamState, StartState, InsertState, ReconcileState, ResumeState

(* What the entries of the queue hold.                                      *)
LEMMA Items ==
    ASSUME NEW v \in Scope, NEW i \in DOMAIN v.queue
    PROVE  /\ v.queue[i] \in Item /\ v.queue[i].m \in Message /\ v.queue[i].session \in Shown
           /\ v.queue[i].status \in {"queued", "sending", "accepted", "failed"}
           /\ v.queue[i].immediate \in BOOLEAN /\ v.queue[i].ins \in StreamId \cup {None}
           /\ i \in Nat /\ v.queue[i] # None
  <1>1. v.queue[i] \in Item /\ i \in Nat
    BY Fields
  <1> QED  BY <1>1, AiQueueAssumption DEF Item

(* What the events on their way hold.                                       *)
LEMMA Events ==
    ASSUME TypeOK, NEW i \in DOMAIN events
    PROVE  /\ events[i] \in Event /\ events[i].id \in StreamId /\ events[i].id \in Nat
           /\ events[i].kind \in {"injected", "finished", "stopped", "error"}
           /\ events[i].ms \in SUBSET Message
  <1>1. events \in Seq(Event)
    BY DEF TypeOK
  <1>2. events[i] \in Event
    BY <1>1
  <1>3. events[i].id \in StreamId /\ StreamId \subseteq Nat
    BY <1>2 DEF Event, StreamId
  <1> QED  BY <1>2, <1>3 DEF Event

(* A list that is mapped is a list as long.                                 *)
LEMMA Mapped ==
    ASSUME NEW S, NEW T, NEW q \in Seq(S), NEW r,
           r = [i \in DOMAIN q |-> r[i]], \A i \in DOMAIN q : r[i] \in T
    PROVE  r \in Seq(T) /\ DOMAIN r = DOMAIN q
  OBVIOUS

(* All but the queue, the insertion and autoRun.                            *)
Rest(v, u) ==
    /\ u.active = v.active /\ u.loading = v.loading /\ u.stream = v.stream
    /\ u.input = v.input /\ u.starting = v.starting /\ u.reconciling = v.reconciling
    /\ u.resuming = v.resuming /\ u.unverified = v.unverified /\ u.written = v.written
    /\ u.starts = v.starts /\ u.known = v.known

(* A scope with another queue.                                              *)
LEMMA NewQueue ==
    ASSUME NEW v \in Scope, NEW q \in Seq(Item)
    PROVE  LET u == [v EXCEPT !.queue = q]
           IN  /\ u \in Scope /\ Rest(v, u) /\ u.queue = q
               /\ u.inserting = v.inserting /\ u.autoRun = v.autoRun
  BY DEF Scope, Rest

(* The item of a message that is queued.                                    *)
LEMMA TheItem ==
    ASSUME NEW v \in Scope, NEW m, Queued(v, m)
    PROVE  \E i \in DOMAIN v.queue : v.queue[i].m = m /\ ItemOf(v, m) = v.queue[i]
  BY DEF Queued, ItemOf

Status == {"queued", "sending", "accepted", "failed"}

(* An entry of a message gets another status.                               *)
LEMMA ItemChanged ==
    ASSUME NEW v \in Scope, NEW m, NEW status \in Status,
           NEW immediate \in BOOLEAN, NEW u,
           u = ChangeItem(v, m, status, immediate)
    PROVE  /\ u \in Scope /\ Rest(v, u) /\ u.inserting = v.inserting
           /\ u.autoRun = v.autoRun /\ DOMAIN u.queue = DOMAIN v.queue
           /\ \A i \in DOMAIN v.queue :
                /\ u.queue[i].m = v.queue[i].m /\ u.queue[i].session = v.queue[i].session
                /\ u.queue[i].ins = v.queue[i].ins
                /\ v.queue[i].m # m => u.queue[i] = v.queue[i]
                /\ v.queue[i].m = m => u.queue[i].status = status
  <1> DEFINE q == [i \in DOMAIN v.queue |->
                     IF v.queue[i].m = m
                     THEN [v.queue[i] EXCEPT !.status = status, !.immediate = immediate]
                     ELSE v.queue[i]]
  <1>1. \A i \in DOMAIN v.queue :
           /\ q[i] \in Item
           /\ q[i].m = v.queue[i].m /\ q[i].session = v.queue[i].session
           /\ q[i].ins = v.queue[i].ins
           /\ v.queue[i].m # m => q[i] = v.queue[i]
           /\ v.queue[i].m = m => q[i].status = status /\ q[i].immediate = immediate
    BY Items DEF Item, Status
  <1>2. q \in Seq(Item) /\ DOMAIN q = DOMAIN v.queue
    <2>1. v.queue \in Seq(Item) /\ q = [i \in DOMAIN v.queue |-> q[i]]
      BY Fields
    <2> HIDE DEF q
    <2> QED  BY <1>1, <2>1, Mapped
  <1>3. ChangeItem(v, m, status, immediate) = [v EXCEPT !.queue = q]
    BY DEF ChangeItem, Change
  <1> HIDE DEF q
  <1> QED  BY <1>1, <1>2, <1>3, NewQueue

-----------------------------------------------------------------------------
(* A change of the queue: entries leave, are told another status, and get or *)
(* lose the stream of their insertion.                                      *)

(* No insertion of these messages is under way.                             *)
NotUnderWay(v, ms) ==
    /\ run # None => \A m \in ms : m \in run.inbox => m \in injected
    /\ OnItsWay(v) => v.inserting.m \notin ms \/ v.inserting.m \in injected

From(v, old, new, loose) ==
    /\ new.m = old.m /\ new.session = old.session
    /\ \/ new.ins = old.ins
       \/ /\ v.stream # None /\ new.ins # None /\ new.ins <= v.starts
          /\ old.session \in 1..v.known
       \/ new.ins = None /\ old.m \notin injected /\ old.m \in loose

(* The entries of the messages gone have left, those of loose may have lost  *)
(* their stream.                                                            *)
Follows(v, u, gone, loose) ==
    /\ u \in Scope /\ Rest(v, u) /\ Unique(u)
    /\ \A i \in DOMAIN u.queue : \E j \in DOMAIN v.queue :
          From(v, v.queue[j], u.queue[i], loose)
    /\ \A j \in DOMAIN v.queue :
          v.queue[j].m \notin gone =>
            \E i \in DOMAIN u.queue :
              /\ From(v, v.queue[j], u.queue[i], loose)
              /\ Pending(v) /\ v.starting.m = v.queue[j].m /\ v.queue[j].status = "sending"
                   /\ v.queue[j].ins = None
                 => u.queue[i].status = "sending" /\ u.queue[i].ins = None

(* The insertion stays, ends, or is a new one.                              *)
InsertionOf(v, u) ==
    \/ u.inserting = v.inserting
    \/ u.inserting = None
    \/ Inserting(u) /\ Quiet(u)

(* The messages d are deleted by the change, out of those gone.              *)
LEMMA Followed ==
    ASSUME TypeOK, NEW v, NEW u, NEW gone, NEW loose, NEW new \in SUBSET Message,
           Good(v, dropped), Follows(v, u, gone, loose), InsertionOf(v, u),
           NotUnderWay(v, gone \cup loose),
           \A m \in gone : Queued(v, m) => chat[m] > 0 \/ m \in new,
           Pending(v) => v.starting.m \notin gone \/ v.starting.m \in v.unverified,
           \A m \in new : Queued(v, m) /\ ~Queued(u, m) /\ chat[m] = 0
    PROVE  Good(u, dropped \cup new)
  <1> DEFINE d == dropped \cup new
  <1> USE DEF Rest
  <1>1. v \in Scope /\ u \in Scope /\ Rest(v, u)
    BY DEF Good, Core, Follows
  <1>2. /\ Pending(u) <=> Pending(v)
        /\ NewSession(u) <=> NewSession(v)
        /\ Sess(u) = Sess(v) /\ Unique(v) /\ Unique(u)
        /\ \A m : Arrived(u, m) <=> Arrived(v, m)
        /\ \A m : Queued(u, m) => Queued(v, m)
        /\ \A m : Queued(v, m) /\ m \notin gone => Queued(u, m)
    BY <1>1 DEF Good, Core, Follows, From, Queued, Pending, NewSession, Sess, Arrived, Entries
  <1>3. \A m : Kept(v, m) /\ (m \notin gone \cup loose \/ m \in injected) => Kept(u, m)
    BY <1>1 DEF Good, Core, Follows, From, Kept
  <1>4. Entries(u, d)
    <2> SUFFICES ASSUME NEW i \in DOMAIN u.queue
                 PROVE  Entry(u, d, u.queue[i])
      BY <1>2 DEF Entries
    <2>1. PICK j \in DOMAIN v.queue : From(v, v.queue[j], u.queue[i], loose)
      BY DEF Follows
    <2>2. Entry(v, dropped, v.queue[j])
      BY DEF Good, Core, Entries
    <2>3. u.queue[i].m \notin new
      BY DEF Queued
    <2> QED  BY <1>1, <1>2, <2>1, <2>2, <2>3 DEF From, Entry
  <1>5. Draft(u, d)
    BY <1>1, <1>2 DEF Good, Core, Draft
  <1>6. Written(u, d)
    <2>1. \A m \in new : m <= v.written
      BY <1>1, Items DEF Good, Core, Entries, Entry, Queued
    <2> QED  BY <1>1, <2>1 DEF Good, Core, Written
  <1>7. Undecided(u, d)
    <2> SUFFICES ASSUME Pending(v)
                 PROVE  Undecided(u, d)
      BY <1>2 DEF Undecided
    <2>1. v.starting = u.starting /\ v.starting \in StartState
      BY <1>1, Parts DEF Pending
    <2>2. ~v.starting.queued => v.starting.m \notin new
      BY <2>1 DEF Good, Core, Start, Pending
    <2>3. v.starting.queued /\ v.starting.m \notin v.unverified => Sending(u, v.starting.m)
      <3> SUFFICES ASSUME v.starting.queued, v.starting.m \notin v.unverified
                   PROVE  Sending(u, v.starting.m)
        OBVIOUS
      <3>1. PICK j \in DOMAIN v.queue : /\ v.queue[j].m = v.starting.m
                                        /\ v.queue[j].status = "sending"
                                        /\ v.queue[j].ins = None
        BY DEF Good, Core, Undecided, Sending
      <3>2. PICK i \in DOMAIN u.queue :
              /\ From(v, v.queue[j], u.queue[i], loose)
              /\ u.queue[i].status = "sending" /\ u.queue[i].ins = None
        BY <3>1 DEF Follows
      <3> QED  BY <3>1, <3>2 DEF From, Sending
    <2> QED  BY <1>1, <1>2, <2>1, <2>2, <2>3 DEF Good, Core, Undecided
  <1>8. Start(u)
    BY <1>1, <1>2 DEF Good, Core, Start
  <1>9. Stream(u) /\ Shows(u)
    BY <1>1, <1>2 DEF Good, Core, Stream, Shows
  <1>10. Runs(u)
    <2>1. run # None => \A m \in run.inbox : Kept(u, m)
      BY <1>3 DEF Good, Core, Runs, NotUnderWay
    <2> QED  BY <1>1, <1>2, <2>1 DEF Good, Core, Runs
  <1>11. Inserting(u) /\ Quiet(u)
    <2>1. Inserting(u)
      <3>1. CASE u.inserting = v.inserting
        <4>1. OnItsWay(u) <=> OnItsWay(v)
          BY <3>1 DEF OnItsWay
        <4> QED  BY <1>1, <1>3, <3>1, <4>1 DEF Good, Core, Inserting, NotUnderWay
      <3>2. CASE u.inserting = None
        BY <3>2 DEF Inserting, OnItsWay
      <3> QED  BY <3>1, <3>2 DEF InsertionOf
    <2>2. Quiet(u)
      BY <1>1 DEF Good, Core, Quiet, Untouched, InsertionOf
    <2> QED  BY <2>1, <2>2
  <1>12. Hops(u)
    BY <1>1 DEF Good, Core, Hops
  <1>13. Found(u)
    <2>1. \A i \in DOMAIN u.queue : \E j \in DOMAIN v.queue :
             u.queue[i].m = v.queue[j].m /\ u.queue[i].session = v.queue[j].session
      BY DEF Follows, From
    <2> QED  BY <1>1, <2>1 DEF Good, Core, Found
  <1>14. Waiters(u)
    <2>1. \A x : Waits(v, x) => Waits(u, x)
      <3>1. \A i \in DOMAIN u.queue : \E j \in DOMAIN v.queue :
               u.queue[i].m = v.queue[j].m /\ u.queue[i].session = v.queue[j].session
        BY DEF Follows, From
      <3> QED  BY <1>1, <3>1 DEF Waits
    <2> QED  BY <1>1, <2>1 DEF Good, Core, Waiters
  <1>15. Cleaned(u)
    <2>1. v.stream = None => \A i \in DOMAIN u.queue : \E j \in DOMAIN v.queue :
             u.queue[i].m = v.queue[j].m /\ (v.queue[j].ins = None => u.queue[i].ins = None)
      BY DEF Follows, From
    <2>2. v.stream = None /\ Sendable(v) => Sendable(u)
      BY <1>1, <2>1 DEF Sendable
    <2> QED  BY <1>1, <2>2 DEF Good, Core, Cleaned
  <1>16. Count(u)
    BY <1>1 DEF Good, Core, Count
  <1>17. Saved(u, d)
    BY <1>1 DEF Good, Core, Saved
  <1>18. Somewhere(u, d, None)
    <2> SUFFICES ASSUME NEW m \in 1..v.written
                 PROVE  \/ chat[m] > 0 \/ m \in d
                        \/ Queued(u, m) \/ u.input = m
                        \/ u.starting # None /\ u.starting.m = m /\ ~u.starting.queued
      BY <1>1 DEF Somewhere
    <2>1. m # None
      BY <1>1, Numbers DEF Message
    <2> QED  BY <1>1, <1>2, <2>1 DEF Good, Core, Somewhere
  <1> QED
    BY <1>1, <1>4, <1>5, <1>6, <1>7, <1>8, <1>9, <1>10, <1>11, <1>12, <1>13, <1>14, <1>15,
       <1>16, <1>17, <1>18 DEF Good, Core

(* Nobody leaves.                                                          *)
LEMMA InPlace ==
    ASSUME TypeOK, NEW v, NEW u, Good(v, dropped), u \in Scope, Rest(v, u), InsertionOf(v, u),
           DOMAIN u.queue = DOMAIN v.queue,
           \A i \in DOMAIN v.queue :
              /\ u.queue[i].m = v.queue[i].m /\ u.queue[i].session = v.queue[i].session
              /\ \/ u.queue[i].ins = v.queue[i].ins
                 \/ /\ v.stream # None /\ u.queue[i].ins # None /\ u.queue[i].ins <= v.starts
                    /\ v.queue[i].session \in 1..v.known
              /\ Pending(v) /\ v.starting.m = v.queue[i].m /\ v.queue[i].status = "sending"
                   /\ v.queue[i].ins = None
                 => u.queue[i].status = "sending" /\ u.queue[i].ins = None
    PROVE  Good(u, dropped)
  <1>1. Unique(u)
    BY DEF Good, Core, Entries, Unique
  <1>2. Follows(v, u, {}, {})
    BY <1>1 DEF Follows, From
  <1>3. NotUnderWay(v, {} \cup {})
    BY DEF NotUnderWay
  <1>4. Good(u, dropped \cup {})
    BY <1>2, <1>3, Followed
  <1>5. dropped \cup {} = dropped
    OBVIOUS
  <1> QED  BY <1>4, <1>5

(* An entry may change its status unless it is that of a start that may be rejected. *)
LEMMA ItemChanges ==
    ASSUME TypeOK, NEW v, NEW m, NEW status \in Status,
           NEW immediate \in BOOLEAN, Good(v, dropped),
           Pending(v) /\ v.starting.m = m =>
              \A i \in DOMAIN v.queue : v.queue[i].m = m => v.queue[i].status # "sending"
    PROVE  Good(ChangeItem(v, m, status, immediate), dropped)
  <1> DEFINE u == ChangeItem(v, m, status, immediate)
  <1>1. v \in Scope
    BY DEF Good, Core
  <1>2. /\ u \in Scope /\ Rest(v, u) /\ u.inserting = v.inserting
        /\ u.autoRun = v.autoRun /\ DOMAIN u.queue = DOMAIN v.queue
        /\ \A i \in DOMAIN v.queue :
              /\ u.queue[i].m = v.queue[i].m /\ u.queue[i].session = v.queue[i].session
              /\ u.queue[i].ins = v.queue[i].ins
              /\ v.queue[i].m # m => u.queue[i] = v.queue[i]
              /\ v.queue[i].m = m => u.queue[i].status = status
    BY <1>1, ItemChanged
  <1> HIDE DEF u
  <1>3. InsertionOf(v, u)
    BY <1>2 DEF InsertionOf
  <1>4. Good(u, dropped)
    BY <1>2, <1>3, InPlace
  <1> QED  BY <1>4 DEF u

(* The entries of the messages ms leave.                                    *)
LEMMA Removed ==
    ASSUME NEW v \in Scope, NEW ms
    PROVE  LET u == Without(v, ms)
           IN  /\ u \in Scope /\ Rest(v, u) /\ u.inserting = v.inserting
               /\ u.autoRun = v.autoRun
               /\ \A n \in DOMAIN u.queue : \E i \in DOMAIN v.queue :
                     u.queue[n] = v.queue[i] /\ v.queue[i].m \notin ms
               /\ \A i \in DOMAIN v.queue : v.queue[i].m \notin ms =>
                     \E n \in DOMAIN u.queue : u.queue[n] = v.queue[i]
               /\ Unique(v) => Unique(u)
               /\ \A m \in ms : ~Queued(u, m)
  <1> DEFINE at == {i \in DOMAIN v.queue : v.queue[i].m \notin ms}
             q == At(v.queue, at)
  <1>1. at \in SUBSET DOMAIN v.queue /\ v.queue \in Seq(Item)
    BY Fields
  <1>2. /\ q \in Seq(Item)
        /\ \A n \in DOMAIN q : \E i \in at : q[n] = v.queue[i]
        /\ \A i \in at : \E n \in DOMAIN q : q[n] = v.queue[i]
        /\ \A n, m \in DOMAIN q : n < m =>
              \E i, j \in at : i < j /\ q[n] = v.queue[i] /\ q[m] = v.queue[j]
    <2> HIDE DEF at
    <2> QED  BY <1>1, AtPositions, ZenonT(60)
  <1>3. Without(v, ms) = [v EXCEPT !.queue = q]
    BY DEF Without
  <1>4. \A n \in DOMAIN q : n \in Nat
    BY <1>2
  <1>5. \A i \in at : i \in Nat /\ i \in DOMAIN v.queue /\ v.queue[i].m \notin ms
    BY <1>1
  <1>6. \A i \in DOMAIN v.queue : v.queue[i].m \notin ms => i \in at
    OBVIOUS
  <1> HIDE DEF q, at
  <1> DEFINE u == [v EXCEPT !.queue = q]
  <1>7. /\ u \in Scope /\ Rest(v, u) /\ u.queue = q
        /\ u.inserting = v.inserting /\ u.autoRun = v.autoRun
    BY <1>2, NewQueue
  <1> HIDE DEF u
  <1>8. Unique(v) => Unique(u)
    <2> SUFFICES ASSUME Unique(v), NEW n \in DOMAIN q, NEW m \in DOMAIN q, n < m,
                        q[n].m = q[m].m
                 PROVE  FALSE
      BY <1>4, <1>7 DEF Unique
    <2>1. PICK i \in at, j \in at : i < j /\ q[n] = v.queue[i] /\ q[m] = v.queue[j]
      BY <1>2
    <2> QED  BY <2>1, <1>5 DEF Unique
  <1>9. \A m \in ms : ~Queued(u, m)
    BY <1>2, <1>5, <1>7 DEF Queued
  <1>10. Without(v, ms) = u
    BY <1>3 DEF u
  <1> QED  BY <1>2, <1>5, <1>6, <1>7, <1>8, <1>9, <1>10

(* Entries leave the queue when they are in the history, or deleted, and not under way. *)
LEMMA Leave ==
    ASSUME TypeOK, NEW v, NEW ms, NEW new \in SUBSET Message, Good(v, dropped),
           NotUnderWay(v, ms),
           \A m \in ms : Queued(v, m) => chat[m] > 0 \/ m \in new,
           Pending(v) => v.starting.m \notin ms \/ v.starting.m \in v.unverified,
           \A m \in new : Queued(v, m) /\ m \in ms /\ chat[m] = 0
    PROVE  Good(Without(v, ms), dropped \cup new)
  <1> DEFINE u == Without(v, ms)
  <1>1. v \in Scope /\ Unique(v)
    BY DEF Good, Core, Entries
  <1>2. /\ u \in Scope /\ Rest(v, u) /\ u.inserting = v.inserting
        /\ \A n \in DOMAIN u.queue : \E i \in DOMAIN v.queue :
              u.queue[n] = v.queue[i] /\ v.queue[i].m \notin ms
        /\ \A i \in DOMAIN v.queue : v.queue[i].m \notin ms =>
              \E n \in DOMAIN u.queue : u.queue[n] = v.queue[i]
        /\ Unique(u)
        /\ \A m \in ms : ~Queued(u, m)
    BY <1>1, Removed
  <1> HIDE DEF u
  <1>3. Follows(v, u, ms, {})
    BY <1>2 DEF Follows, From
  <1>4. InsertionOf(v, u)
    BY <1>2 DEF InsertionOf
  <1>5. NotUnderWay(v, ms \cup {})
    BY DEF NotUnderWay
  <1>6. \A m \in new : Queued(v, m) /\ ~Queued(u, m) /\ chat[m] = 0
    BY <1>2
  <1>7. Good(u, dropped \cup new)
    BY <1>3, <1>4, <1>5, <1>6, Followed
  <1> QED  BY <1>7 DEF u

-----------------------------------------------------------------------------
(* A message goes from the draft or a rejected start into the queue.         *)

(* The draft is taken: it is in hand.                                       *)
LEMMA TakeDraft ==
    ASSUME TypeOK, NEW v, Good(v, dropped), v.input # None,
           NEW u, u = [v EXCEPT !.input = None]
    PROVE  /\ InHand(u, dropped, v.input)
           /\ u \in Scope /\ u.input = None /\ u.stream = v.stream /\ u.active = v.active
           /\ u.starting = v.starting
           /\ u.known = v.known /\ u.reconciling = v.reconciling /\ u.loading = v.loading
           /\ u.resuming = v.resuming
  <1>1. v \in Scope
    BY DEF Good, Core
  <1>2. /\ u \in Scope /\ u.input = None
        /\ u.active = v.active /\ u.loading = v.loading /\ u.stream = v.stream
        /\ u.starting = v.starting /\ u.reconciling = v.reconciling
        /\ u.resuming = v.resuming /\ u.unverified = v.unverified /\ u.written = v.written
        /\ u.starts = v.starts /\ u.known = v.known /\ u.queue = v.queue
        /\ u.inserting = v.inserting
    BY <1>1 DEF Scope, Rest
  <1>3. v.input \in Message /\ None \notin Message
    BY <1>1, Fields, AiQueueAssumption
  <1>4. /\ Pending(u) <=> Pending(v)
        /\ NewSession(u) <=> NewSession(v)
        /\ Sess(u) = Sess(v) /\ Unique(v) /\ Unique(u)
        /\ \A m : Arrived(u, m) <=> Arrived(v, m)
        /\ \A m : Queued(u, m) <=> Queued(v, m)
        /\ \A m : Kept(u, m) <=> Kept(v, m)
        /\ \A m : Sending(u, m) <=> Sending(v, m)
        /\ OnItsWay(u) <=> OnItsWay(v)
        /\ Untouched(u) <=> Untouched(v)
        /\ Sendable(u) <=> Sendable(v)
    BY <1>2 DEF Good, Core, Queued, Pending, NewSession, Sess, Arrived, Entries, Unique, Kept,
                Sending, OnItsWay, Untouched, Sendable
  <1>5. Entries(u, dropped) /\ Draft(u, dropped) /\ Written(u, dropped)
    BY <1>2, <1>4 DEF Good, Core, Entries, Entry, Draft, Written
  <1>6. Undecided(u, dropped) /\ Start(u) /\ Stream(u) /\ Shows(u)
    BY <1>2, <1>4 DEF Good, Core, Undecided, Start, Stream, Shows
  <1>7. Runs(u) /\ Inserting(u) /\ Quiet(u) /\ Hops(u) /\ Found(u)
    BY <1>2, <1>4 DEF Good, Core, Runs, Inserting, Quiet, Hops, Found
  <1>8. Waiters(u) /\ Cleaned(u) /\ Count(u) /\ Saved(u, dropped)
    <2>1. \A x : Waits(v, x) => Waits(u, x)
      BY <1>2, <1>3 DEF Waits
    <2> QED  BY <1>2, <1>4, <2>1 DEF Good, Core, Waiters, Cleaned, Count, Saved
  <1>9. Somewhere(u, dropped, v.input)
    BY <1>2, <1>3, <1>4 DEF Good, Somewhere
  <1>10. /\ u.reconciling # None => \A i \in DOMAIN u.reconciling.waiting :
              u.reconciling.waiting[i].kind = "send" => u.reconciling.waiting[i].m # v.input
         /\ u.resuming # None => \A i \in DOMAIN u.resuming.waiting :
              u.resuming.waiting[i].kind = "send" => u.resuming.waiting[i].m # v.input
    BY <1>2 DEF Good, Core, Waiters, Waits
  <1>11. /\ v.input <= u.written /\ chat[v.input] = 0 /\ v.input \notin dropped
         /\ ~Queued(u, v.input) /\ u.input # v.input
         /\ u.starting # None => u.starting.m # v.input
    BY <1>2, <1>4 DEF Good, Core, Draft
  <1> QED
    BY <1>2, <1>3, <1>5, <1>6, <1>7, <1>8, <1>9, <1>10, <1>11 DEF InHand, Core

(* One entry joins the queue.                                               *)
LEMMA Joined ==
    ASSUME TypeOK, NEW v, NEW u, NEW it, InHand(v, dropped, it.m),
           u \in Scope, Rest(v, u), u.inserting = v.inserting, Unique(u),
           it.ins = None, it.session \in Sess(v),
           it.session = New => v.known < MaxSessions /\ ~NewSession(v),
           \A i \in DOMAIN u.queue :
              u.queue[i] = it \/ \E j \in DOMAIN v.queue : u.queue[i] = v.queue[j],
           \A j \in DOMAIN v.queue : \E i \in DOMAIN u.queue : u.queue[i] = v.queue[j],
           \E i \in DOMAIN u.queue : u.queue[i] = it
    PROVE  Good(u, dropped)
  <1> USE DEF Rest
  <1>1. v \in Scope /\ Core(v, dropped)
    BY DEF InHand, Core
  <1>2. it.m \notin injected /\ chat[it.m] = Credit(it.m)
    BY DEF InHand, Core, Written, Credit
  <1>3. /\ Pending(u) <=> Pending(v)
        /\ NewSession(u) <=> NewSession(v)
        /\ Sess(u) = Sess(v)
        /\ \A m : Arrived(u, m) <=> Arrived(v, m)
        /\ \A m : Queued(u, m) <=> Queued(v, m) \/ m = it.m
        /\ \A m : Kept(v, m) => Kept(u, m)
        /\ \A m : Sending(v, m) => Sending(u, m)
        /\ OnItsWay(u) <=> OnItsWay(v)
        /\ Untouched(u) <=> Untouched(v)
        /\ v.resuming # None /\ Sendable(v) => Sendable(u)
    BY DEF Queued, Pending, NewSession, Sess, Arrived, Kept, Sending, OnItsWay, Untouched,
           Sendable
  <1>4. Entries(u, dropped)
    <2> SUFFICES ASSUME NEW i \in DOMAIN u.queue
                 PROVE  Entry(u, dropped, u.queue[i])
      BY DEF Entries
    <2>1. CASE u.queue[i] = it
      BY <1>2, <1>3, <2>1 DEF InHand, Entry
    <2>2. CASE \E j \in DOMAIN v.queue : u.queue[i] = v.queue[j]
      BY <1>1, <1>3, <2>2 DEF Core, Entries, Entry
    <2> QED  BY <2>1, <2>2
  <1>5. Draft(u, dropped) /\ Written(u, dropped) /\ Undecided(u, dropped)
    BY <1>1, <1>3 DEF InHand, Core, Draft, Written, Undecided
  <1>6. Start(u) /\ Stream(u) /\ Shows(u)
    BY <1>1, <1>3 DEF InHand, Core, Start, Stream, Shows
  <1>7. Runs(u) /\ Inserting(u) /\ Quiet(u) /\ Hops(u)
    BY <1>1, <1>3 DEF Core, Runs, Inserting, Quiet, Hops
  <1>8. Found(u)
    BY <1>1, <1>2 DEF Core, Found
  <1>9. Waiters(u)
    <2>1. \A x : Waits(v, x) /\ (x.kind = "send" => x.m # it.m) => Waits(u, x)
      BY <1>3 DEF Waits
    <2> QED  BY <1>1, <2>1 DEF InHand, Core, Waiters
  <1>10. Cleaned(u) /\ Count(u) /\ Saved(u, dropped)
    BY <1>1, <1>3 DEF Core, Cleaned, Count, Saved
  <1>11. Somewhere(u, dropped, None)
    BY <1>3 DEF InHand, Somewhere
  <1> QED
    BY <1>4, <1>5, <1>6, <1>7, <1>8, <1>9, <1>10, <1>11 DEF Good, Core

(* A list with one item more at its end ...                                 *)
LEMMA Appended ==
    ASSUME NEW S, NEW q \in Seq(S), NEW it \in S
    PROVE  /\ Append(q, it) \in Seq(S)
           /\ DOMAIN Append(q, it) = 1..(Len(q) + 1) /\ DOMAIN q = 1..Len(q) /\ Len(q) \in Nat
           /\ \A i \in DOMAIN q : Append(q, it)[i] = q[i]
           /\ Append(q, it)[Len(q) + 1] = it /\ Append(q, it) # <<>>
  OBVIOUS

(* ... and at its front.                                                    *)
LEMMA Prepended ==
    ASSUME NEW S, NEW q \in Seq(S), NEW it \in S
    PROVE  /\ <<it>> \o q \in Seq(S)
           /\ DOMAIN (<<it>> \o q) = 1..(Len(q) + 1) /\ DOMAIN q = 1..Len(q) /\ Len(q) \in Nat
           /\ \A i \in DOMAIN q : (<<it>> \o q)[i + 1] = q[i]
           /\ (<<it>> \o q)[1] = it
  OBVIOUS

(* A follow-up is queued.                                                   *)
LEMMA FollowUp ==
    ASSUME TypeOK, NEW v, NEW m, InHand(v, dropped, m),
           v.stream = None /\ v.active = New => v.known < MaxSessions
    PROVE  Good(queueAiMessage(v, m), dropped)
  <1> DEFINE it == [m |-> m,
                    session |-> IF v.stream # None THEN v.stream.session ELSE v.active,
                    status |-> "queued", immediate |-> FALSE, ins |-> None]
             q == Append(v.queue, it)
             u == [v EXCEPT !.queue = q]
  <1>1. v \in Scope /\ m \in Message /\ Unique(v) /\ ~Queued(v, m)
    BY DEF InHand, Core, Entries
  <1>2. /\ it \in Item /\ it.m = m /\ it.ins = None
        /\ it.session = (IF v.stream # None THEN v.stream.session ELSE v.active)
    <2>1. it.session \in Shown
      BY <1>1, Fields, Parts DEF Shown
    <2> QED  BY <1>1, <2>1 DEF Item
  <1>3. it.session \in Sess(v)
    BY <1>2 DEF InHand, Core, Stream
  <1>4. it.session = New => v.known < MaxSessions /\ ~NewSession(v)
    BY <1>2 DEF InHand, Core, Stream, Undecided, NewSession
  <1>5. v.queue \in Seq(Item)
    BY <1>1, Fields
  <1> HIDE DEF it
  <1>6. /\ q \in Seq(Item)
        /\ DOMAIN q = 1..(Len(v.queue) + 1) /\ DOMAIN v.queue = 1..Len(v.queue)
        /\ Len(v.queue) \in Nat
        /\ \A i \in DOMAIN v.queue : q[i] = v.queue[i]
        /\ q[Len(v.queue) + 1] = it
    BY <1>2, <1>5, Appended
  <1> HIDE DEF q
  <1>7. /\ \A i \in DOMAIN q : i \in DOMAIN v.queue \/ i = Len(v.queue) + 1
        /\ \A i \in DOMAIN v.queue : i \in DOMAIN q
        /\ Len(v.queue) + 1 \in DOMAIN q
    BY <1>6
  <1>8. /\ u \in Scope /\ Rest(v, u) /\ u.queue = q
        /\ u.inserting = v.inserting /\ u.autoRun = v.autoRun
    BY <1>1, <1>6, NewQueue
  <1>9. queueAiMessage(v, m) = u
    BY DEF queueAiMessage, q, it
  <1> HIDE DEF u
  <1>10. Unique(u)
    BY <1>1, <1>2, <1>6, <1>7, <1>8 DEF Unique, Queued
  <1>11. /\ \A i \in DOMAIN u.queue :
               u.queue[i] = it \/ \E j \in DOMAIN v.queue : u.queue[i] = v.queue[j]
         /\ \A j \in DOMAIN v.queue : \E i \in DOMAIN u.queue : u.queue[i] = v.queue[j]
         /\ \E i \in DOMAIN u.queue : u.queue[i] = it
    BY <1>6, <1>7, <1>8
  <1>12. Good(u, dropped)
    BY <1>2, <1>3, <1>4, <1>8, <1>10, <1>11, Joined
  <1> QED  BY <1>9, <1>12

-----------------------------------------------------------------------------
(* A start.                                                                *)

(* There are no more started messages than messages.                        *)
LEMMA StartedFinite ==
    ASSUME TypeOK
    PROVE  /\ IsFiniteSet(Started) /\ Cardinality(Started) \in Nat
           /\ Cardinality(Started) <= MaxMessages
  <1>1. MaxMessages \in Nat
    BY AiQueueAssumption
  <1>2. IsFiniteSet(Message) /\ Cardinality(Message) = MaxMessages
    BY <1>1, FS_Interval DEF Message
  <1>3. Started \subseteq Message
    BY DEF Started
  <1> QED  BY <1>2, <1>3, FS_Subset, FS_CardinalityType

(* There is a start left for a message that was not started.                *)
LEMMA StartLeft ==
    ASSUME TypeOK, NEW m \in Message, chat[m] = Credit(m)
    PROVE  Cardinality(Started) + 1 <= MaxMessages
  <1>1. m \notin Started
    BY DEF Started, Credit, TypeOK
  <1>2. MaxMessages \in Nat
    BY AiQueueAssumption
  <1>3. IsFiniteSet(Message) /\ Cardinality(Message) = MaxMessages
    BY <1>2, FS_Interval DEF Message
  <1>4. Cardinality(Started \cup {m}) = Cardinality(Started) + 1
    BY <1>1, StartedFinite, FS_AddElement
  <1>5. Started \cup {m} \subseteq Message
    BY DEF Started
  <1>6. Cardinality(Started \cup {m}) <= Cardinality(Message)
    BY <1>3, <1>5, FS_Subset
  <1> QED  BY <1>3, <1>4, <1>6

(* The session of a message to start, and of its reply.                     *)
Chosen(v, wanted) == IF wanted = New THEN v.known + 1 ELSE wanted

(* From v to u a start begins.                                              *)
Begins(v, u, m, wanted) ==
    /\ u \in Scope
    /\ u.loading = v.loading /\ u.input = v.input /\ u.inserting = v.inserting
    /\ u.reconciling = v.reconciling /\ u.resuming = v.resuming
    /\ u.unverified = v.unverified /\ u.written = v.written /\ u.known = v.known
    /\ u.active = Chosen(v, wanted) /\ u.starts = v.starts + 1
    /\ u.stream # None /\ u.stream.id = u.starts /\ u.stream.session = u.active
    /\ ~u.stream.ready
    /\ u.starting # None /\ u.starting.m = m /\ u.starting.wanted = wanted
    /\ u.starting.session = u.active /\ u.starting.id = u.starts
    /\ u.starting.phase = "sent"
    /\ DOMAIN u.queue = DOMAIN v.queue
    /\ \A i \in DOMAIN v.queue :
         /\ u.queue[i].m = v.queue[i].m /\ u.queue[i].ins = v.queue[i].ins
         /\ u.queue[i].session =
              (IF v.queue[i].session = New /\ wanted = New THEN u.active
               ELSE v.queue[i].session)

(* One may begin.                                                          *)
MayBegin(v, m, wanted) ==
    /\ v.stream = None /\ v.starting = None /\ v.reconciling = None
    /\ m \in Message /\ m <= v.written /\ chat[m] = Credit(m)
    /\ wanted \in 1..v.known \cup {New}
    /\ wanted = New => v.known < MaxSessions

(* A start begins: of an entry that is marked as sent, or of the message in hand. *)
LEMMA Begun ==
    ASSUME TypeOK, NEW v, NEW u, NEW m, NEW wanted, Core(v, dropped),
           MayBegin(v, m, wanted), Begins(v, u, m, wanted), v.input # m,
           u.starting.queued =>
             /\ Somewhere(v, dropped, None)
             /\ m \notin v.unverified => \E i \in DOMAIN u.queue :
                  u.queue[i].m = m /\ u.queue[i].status = "sending" /\ u.queue[i].ins = None,
           ~u.starting.queued => InHand(v, dropped, m) /\ v.loading = None
    PROVE  Good(u, dropped)
  <1>1. v \in Scope /\ u \in Scope
    BY DEF Core, Begins
  <1>2. /\ Pending(u) /\ ~Pending(v) /\ ~NewSession(v)
        /\ NewSession(u) <=> wanted = New
        /\ \A k : ~Arrived(v, k) /\ ~Arrived(u, k)
        /\ \A k : Queued(u, k) <=> Queued(v, k)
        /\ Sess(v) = 1..v.known \cup {New}
        /\ Sess(u) = 1..v.known \cup {New} \cup (IF wanted = New THEN {u.active} ELSE {})
    BY DEF Pending, NewSession, Arrived, Queued, Sess, Begins, MayBegin
  <1>3. /\ v.known \in Nat /\ v.starts \in Nat /\ u.starts = v.starts + 1
        /\ 1..v.known \subseteq Session /\ New \notin Session /\ New \notin 1..v.known
        /\ None \notin Message /\ None \notin StreamId /\ MaxSessions \in Nat
    BY <1>1, Numbers DEF Begins
  <1>4. /\ wanted = New => u.active = v.known + 1
        /\ wanted # New => u.active = wanted /\ wanted \in 1..v.known
        /\ u.active \in Sess(u) /\ u.active # New
    BY <1>1, <1>2, <1>3, Fields, Parts DEF Begins, Chosen, MayBegin
  <1>5. run = None
    BY DEF Core, Runs, MayBegin
  <1>6. Entries(u, dropped)
    <2>1. Unique(u)
      BY DEF Core, Entries, Unique, Begins
    <2> SUFFICES ASSUME NEW i \in DOMAIN v.queue
                 PROVE  Entry(u, dropped, u.queue[i])
      BY <2>1 DEF Entries, Begins
    <2>2. Entry(v, dropped, v.queue[i])
      BY DEF Core, Entries
    <2>3. v.queue[i].ins # None => v.queue[i].ins <= v.starts + 1
      BY <1>1, <1>3, <2>2, Items, Numbers DEF Entry
    <2>4. u.queue[i].session \in Sess(u)
      BY <1>2, <1>4, <2>2 DEF Entry, Begins
    <2>5. u.queue[i].session = New => v.known < MaxSessions /\ ~NewSession(u)
      BY <1>2, <1>4, <2>2 DEF Entry, Begins
    <2>6. u.queue[i].ins # None => u.queue[i].session \in 1..v.known
      BY <1>3, <2>2 DEF Entry, Begins
    <2> QED  BY <1>2, <2>2, <2>3, <2>4, <2>5, <2>6 DEF Entry, Begins
  <1>7. Draft(u, dropped) /\ Written(u, dropped)
    BY <1>2 DEF Core, Draft, Written, Begins
  <1>8. Undecided(u, dropped)
    <2>1. \A i \in DOMAIN events : events[i].id < u.starts
      <3>1. \A i \in DOMAIN events : events[i].id \in Nat
        BY Events
      <3>2. \A i \in DOMAIN events : events[i].id <= v.starts
        BY DEF Core, Runs
      <3> QED  BY <1>3, <3>1, <3>2
    <2>2. ~u.starting.queued => chat[m] = 0 /\ m \notin dropped
      BY DEF InHand
    <2>3. u.starting.queued /\ m \notin v.unverified => Sending(u, m)
      BY DEF Sending
    <2> QED  BY <1>5, <2>1, <2>2, <2>3 DEF Undecided, Begins, MayBegin
  <1>9. Start(u)
    <2>1. wanted # New => u.active <= u.known
      BY <1>1, <1>3, <1>4 DEF Begins
    <2>2. ~u.starting.queued => ~Queued(u, m)
      BY <1>2 DEF InHand
    <2> QED  BY <1>2, <1>4, <2>1, <2>2 DEF Start, Begins, MayBegin
  <1>10. Stream(u)
    <2>1. u.starts <= u.starts
      BY <1>3
    <2> QED  BY <1>4, <2>1 DEF Core, Stream, Begins
  <1>11. Shows(u)
    BY DEF Shows, Begins, MayBegin
  <1>12. Runs(u)
    <2>1. \A i \in DOMAIN events : events[i].id <= u.starts
      <3>1. \A i \in DOMAIN events : events[i].id \in Nat
        BY Events
      <3>2. \A i \in DOMAIN events : events[i].id <= v.starts
        BY DEF Core, Runs
      <3> QED  BY <1>3, <3>1, <3>2
    <2> QED  BY <1>5, <2>1 DEF Core, Runs
  <1>13. Inserting(u) /\ Quiet(u)
    <2>1. u.inserting # None => u.inserting.id <= u.starts /\ u.inserting.id # u.stream.id
      <3>1. u.inserting # None => u.inserting.id \in Nat /\ u.inserting.id <= v.starts
        BY <1>1, Parts, Numbers DEF Core, Inserting, Begins
      <3> QED  BY <1>3, <3>1 DEF Begins
    <2> QED  BY <1>5, <2>1 DEF Inserting, Quiet, Untouched, OnItsWay
  <1>14. Hops(u) /\ Found(u)
    BY DEF Core, Hops, Found, Begins, MayBegin
  <1>15. Waiters(u)
    <2>1. \A x : Waits(v, x) /\ (~u.starting.queued /\ x.kind = "send" => x.m # m)
                   => Waits(u, x)
      BY DEF Waits, Begins
    <2>2. u.resuming # None => \A i \in DOMAIN u.resuming.waiting :
             /\ Waits(v, u.resuming.waiting[i])
             /\ ~u.starting.queued /\ u.resuming.waiting[i].kind = "send"
                  => u.resuming.waiting[i].m # m
      BY DEF Core, Waiters, InHand, Begins
    <2> QED  BY <2>1, <2>2 DEF Waiters, Begins, MayBegin
  <1>16. Cleaned(u)
    BY DEF Core, Cleaned, Begins
  <1>17. Count(u)
    <2>1. v.starts <= Cardinality(Started) + errors
      <3>1. Cardinality(Started) \in Nat /\ errors \in Nat
        BY StartedFinite DEF TypeOK
      <3> QED  BY <3>1 DEF Core, Count, MayBegin
    <2>2. Cardinality(Started) \in Nat /\ errors \in Nat
      BY StartedFinite DEF TypeOK
    <2>3. u.starts <= Cardinality(Started) + errors + 1
      BY <1>3, <2>1, <2>2
    <2> QED  BY <2>3 DEF Count, Begins
  <1>18. Saved(u, dropped)
    BY DEF Core, Saved, Begins
  <1>19. Somewhere(u, dropped, None)
    <2>1. Somewhere(v, dropped, None) => Somewhere(u, dropped, None)
      BY <1>2 DEF Somewhere, Begins, MayBegin
    <2>2. ~u.starting.queued => Somewhere(v, dropped, m)
      BY DEF InHand
    <2>3. Somewhere(v, dropped, m) => Somewhere(u, dropped, None)
      BY <1>2 DEF Somewhere, Begins, MayBegin
    <2> QED  BY <2>1, <2>2, <2>3
  <1> QED
    BY <1>1, <1>6, <1>7, <1>8, <1>9, <1>10, <1>11, <1>12, <1>13, <1>14, <1>15, <1>16, <1>17,
       <1>18, <1>19 DEF Good, Core

(* The entries of a new chat get the session that the start makes.           *)
Renamed(v, wanted, s) ==
    Change(v, LAMBDA it : it.session = New /\ wanted = New,
              LAMBDA it : [it EXCEPT !.session = s])

(* The entries of a chat without an id get that of the session to be made.  *)
LEMMA SessionMade ==
    ASSUME NEW v \in Scope, NEW wanted, NEW s \in Session, NEW u, u = Renamed(v, wanted, s)
    PROVE  /\ u \in Scope /\ Rest(v, u) /\ u.inserting = v.inserting /\ u.autoRun = v.autoRun
           /\ DOMAIN u.queue = DOMAIN v.queue
           /\ \A i \in DOMAIN v.queue :
                /\ u.queue[i].m = v.queue[i].m /\ u.queue[i].ins = v.queue[i].ins
                /\ u.queue[i].session =
                     (IF v.queue[i].session = New /\ wanted = New THEN s
                      ELSE v.queue[i].session)
  <1> DEFINE q == [i \in DOMAIN v.queue |->
                     IF v.queue[i].session = New /\ wanted = New
                     THEN [v.queue[i] EXCEPT !.session = s] ELSE v.queue[i]]
  <1>1. \A i \in DOMAIN v.queue :
           /\ q[i] \in Item
           /\ q[i].m = v.queue[i].m /\ q[i].ins = v.queue[i].ins
           /\ q[i].session = (IF v.queue[i].session = New /\ wanted = New THEN s
                              ELSE v.queue[i].session)
    BY Items DEF Item, Shown
  <1>2. q \in Seq(Item) /\ DOMAIN q = DOMAIN v.queue
    <2>1. v.queue \in Seq(Item) /\ q = [i \in DOMAIN v.queue |-> q[i]]
      BY Fields
    <2> HIDE DEF q
    <2> QED  BY <1>1, <2>1, Mapped
  <1>3. u = [v EXCEPT !.queue = q]
    BY DEF Renamed, Change
  <1> HIDE DEF q
  <1> QED  BY <1>1, <1>2, <1>3, NewQueue

(* The number of the stream is in its range.                                *)
LEMMA NextStream ==
    ASSUME TypeOK, NEW v, NEW m, NEW wanted, Core(v, dropped), MayBegin(v, m, wanted)
    PROVE  /\ v.starts + 1 \in StreamId /\ v.starts + 1 \in 0..(MaxMessages + MaxErrors)
           /\ Chosen(v, wanted) \in Session
  <1>1. v \in Scope
    BY DEF Core
  <1>2. /\ v.starts \in Nat /\ MaxMessages \in Nat /\ MaxErrors \in Nat /\ errors \in Nat
        /\ errors <= MaxErrors /\ v.known \in Nat /\ MaxSessions \in Nat
        /\ 1..v.known \subseteq Session
    BY <1>1, Numbers DEF TypeOK
  <1>3. /\ Cardinality(Started) \in Nat
        /\ Cardinality(Started) + 1 <= MaxMessages
    BY StartedFinite, StartLeft DEF MayBegin
  <1>4. v.starts <= Cardinality(Started) + errors
    BY <1>2, <1>3 DEF Core, Count, MayBegin
  <1>5. v.starts + 1 <= MaxMessages + MaxErrors
    BY <1>2, <1>3, <1>4
  <1>6. wanted = New => v.known + 1 \in Session
    BY <1>2 DEF MayBegin, Session
  <1> QED  BY <1>2, <1>5, <1>6 DEF StreamId, Chosen, MayBegin

(* An entry is started, when nothing of it may be on its way to the history. *)
LEMMA StartsQueued ==
    ASSUME TypeOK, NEW v, NEW i \in DOMAIN v.queue, Good(v, dropped),
           v.queue[i].m \in v.unverified \/ v.queue[i].ins = None
    PROVE  Good(startAiMessage(v, v.queue[i].m, v.queue[i].session, TRUE), dropped)
  <1> DEFINE m == v.queue[i].m
             wanted == v.queue[i].session
             s == Chosen(v, wanted)
             id == v.starts + 1
  <1>1. v \in Scope /\ Core(v, dropped) /\ Somewhere(v, dropped, None)
    BY DEF Good, Core
  <1>2. CASE v.stream # None \/ v.starting # None \/ v.reconciling # None
    BY <1>2 DEF startAiMessage
  <1>3. CASE v.stream = None /\ v.starting = None /\ v.reconciling = None
    <2>1. /\ m \in Message /\ wanted \in Shown
          /\ Entry(v, dropped, v.queue[i]) /\ Unique(v)
      BY <1>1, Items DEF Core, Entries
    <2>2. MayBegin(v, m, wanted)
      BY <1>3, <2>1 DEF MayBegin, Entry, Arrived, Sess, NewSession, Pending
    <2>3. id \in StreamId /\ id \in 0..(MaxMessages + MaxErrors) /\ s \in Session
      BY <1>1, <2>2, NextStream
    <2> DEFINE u == Renamed(v, wanted, s)
               q == ChangeItem(u, m, "sending", ItemOf(u, m).immediate)
               auto == TRUE /\ v.autoRun
               str == [id |-> id, session |-> s, ready |-> FALSE, stop |-> FALSE]
               st == [m |-> m, queued |-> TRUE, wanted |-> wanted, session |-> s, id |-> id,
                      phase |-> "sent"]
               t == [q EXCEPT !.active = s, !.starts = id, !.autoRun = auto,
                              !.stream = str, !.starting = st]
    <2>4. startAiMessage(v, m, wanted, TRUE) = t
      BY <1>3 DEF startAiMessage, Renamed, Chosen
    <2>5. v.input # m
      BY <1>1, <2>1, Numbers DEF Core, Draft, Queued
    <2> HIDE DEF m, wanted, s, id
    <2>6. /\ u \in Scope /\ Rest(v, u) /\ u.inserting = v.inserting /\ u.autoRun = v.autoRun
          /\ DOMAIN u.queue = DOMAIN v.queue
          /\ \A j \in DOMAIN v.queue :
                /\ u.queue[j].m = v.queue[j].m /\ u.queue[j].ins = v.queue[j].ins
                /\ u.queue[j].session =
                     (IF v.queue[j].session = New /\ wanted = New THEN s
                      ELSE v.queue[j].session)
      BY <1>1, <2>3, SessionMade
    <2> HIDE DEF u
    <2>7. ItemOf(u, m).immediate \in BOOLEAN
      <3>1. Queued(u, m)
        BY <2>6 DEF m, Queued
      <3> QED  BY <2>6, <3>1, TheItem, Items
    <2>8. /\ q \in Scope /\ Rest(u, q) /\ q.inserting = u.inserting /\ q.autoRun = u.autoRun
          /\ DOMAIN q.queue = DOMAIN u.queue
          /\ \A j \in DOMAIN u.queue :
                /\ q.queue[j].m = u.queue[j].m /\ q.queue[j].session = u.queue[j].session
                /\ q.queue[j].ins = u.queue[j].ins
                /\ u.queue[j].m # m => q.queue[j] = u.queue[j]
                /\ u.queue[j].m = m => q.queue[j].status = "sending"
      <3>1. "sending" \in Status
        BY DEF Status
      <3> QED  BY <2>6, <2>7, <3>1, ItemChanged
    <2> HIDE DEF q
    <2>9. /\ t \in Scope /\ t.queue = q.queue
          /\ t.loading = q.loading /\ t.input = q.input /\ t.inserting = q.inserting
          /\ t.reconciling = q.reconciling /\ t.resuming = q.resuming
          /\ t.unverified = q.unverified /\ t.written = q.written /\ t.known = q.known
          /\ t.active = s /\ t.starts = id
          /\ t.stream = str /\ t.starting = st
      <3>1. auto \in BOOLEAN
        OBVIOUS
      <3>2. str \in StreamState
        BY <2>3 DEF StreamState
      <3>3. st \in StartState
        BY <2>1, <2>3 DEF StartState, m, wanted
      <3>4. s \in Shown
        BY <2>3 DEF Shown
      <3> HIDE DEF auto, str, st
      <3> QED  BY <2>3, <2>8, <3>1, <3>2, <3>3, <3>4 DEF Scope
    <2> HIDE DEF t
    <2>10. str # None /\ st # None
      <3>1. str \in StreamState /\ st \in StartState
        BY <2>1, <2>3 DEF StreamState, StartState, m, wanted
      <3> HIDE DEF str, st
      <3> QED  BY <3>1, AiQueueAssumption
    <2>11. Begins(v, t, m, wanted)
      BY <2>6, <2>8, <2>9, <2>10 DEF Begins, Rest, s, id
    <2>12. \E j \in DOMAIN t.queue :
               t.queue[j].m = m /\ t.queue[j].status = "sending"
               /\ (m \notin v.unverified => t.queue[j].ins = None)
      BY <2>6, <2>8, <2>9 DEF m
    <2>13. t.starting.queued
      BY <2>9
    <2>14. Good(t, dropped)
      BY <1>1, <2>2, <2>5, <2>11, <2>12, <2>13, Begun DEF m, wanted
    <2> QED  BY <2>4, <2>14 DEF m, wanted
  <1> QED  BY <1>2, <1>3

(* The message in hand is started, or queued when something else is under way. *)
LEMMA StartsDraft ==
    ASSUME TypeOK, NEW v, NEW m, InHand(v, dropped, m), v.stream = None,
           v.active = New => v.known < MaxSessions, v.loading = None
    PROVE  Good(startAiMessage(v, m, v.active, FALSE), dropped)
  <1> DEFINE wanted == v.active
             s == Chosen(v, wanted)
             id == v.starts + 1
  <1>1. v \in Scope /\ Core(v, dropped) /\ m \in Message /\ v.input # m
    BY DEF InHand, Core
  <1>2. CASE v.starting # None \/ v.reconciling # None
    <2>1. startAiMessage(v, m, wanted, FALSE) = queueAiMessage(v, m)
      BY <1>2 DEF startAiMessage
    <2> QED  BY <2>1, FollowUp
  <1>3. CASE v.starting = None /\ v.reconciling = None
    <2>1. wanted \in Shown /\ chat[m] = Credit(m)
      BY <1>1, Fields DEF InHand, Core, Written, Credit
    <2>2. MayBegin(v, m, wanted)
      BY <1>1, <1>3, <2>1 DEF MayBegin, InHand, Core, Stream, Sess, NewSession, Pending
    <2>3. id \in StreamId /\ id \in 0..(MaxMessages + MaxErrors) /\ s \in Session
      BY <1>1, <2>2, NextStream
    <2> DEFINE q == Renamed(v, wanted, s)
               auto == FALSE /\ v.autoRun
               str == [id |-> id, session |-> s, ready |-> FALSE, stop |-> FALSE]
               st == [m |-> m, queued |-> FALSE, wanted |-> wanted, session |-> s, id |-> id,
                      phase |-> "sent"]
               t == [q EXCEPT !.active = s, !.starts = id, !.autoRun = auto,
                              !.stream = str, !.starting = st]
    <2>4. startAiMessage(v, m, wanted, FALSE) = t
      BY <1>3 DEF startAiMessage, Renamed, Chosen
    <2> HIDE DEF wanted, s, id
    <2>5. /\ q \in Scope /\ Rest(v, q) /\ q.inserting = v.inserting /\ q.autoRun = v.autoRun
          /\ DOMAIN q.queue = DOMAIN v.queue
          /\ \A j \in DOMAIN v.queue :
                /\ q.queue[j].m = v.queue[j].m /\ q.queue[j].ins = v.queue[j].ins
                /\ q.queue[j].session =
                     (IF v.queue[j].session = New /\ wanted = New THEN s
                      ELSE v.queue[j].session)
      BY <1>1, <2>3, SessionMade
    <2> HIDE DEF q
    <2>6. /\ t \in Scope /\ t.queue = q.queue
          /\ t.loading = q.loading /\ t.input = q.input /\ t.inserting = q.inserting
          /\ t.reconciling = q.reconciling /\ t.resuming = q.resuming
          /\ t.unverified = q.unverified /\ t.written = q.written /\ t.known = q.known
          /\ t.active = s /\ t.starts = id
          /\ t.stream = str /\ t.starting = st
      <3>1. auto \in BOOLEAN
        OBVIOUS
      <3>2. str \in StreamState
        BY <2>3 DEF StreamState
      <3>3. st \in StartState
        BY <1>1, <2>1, <2>3 DEF StartState
      <3>4. s \in Shown
        BY <2>3 DEF Shown
      <3>5. q \in Scope
        BY <2>5
      <3> HIDE DEF auto, str, st
      <3> QED  BY <2>3, <3>1, <3>2, <3>3, <3>4, <3>5, ZenonT(60) DEF Scope
    <2> HIDE DEF t
    <2>7. str # None /\ st # None
      <3>1. str \in StreamState /\ st \in StartState
        BY <1>1, <2>1, <2>3 DEF StreamState, StartState
      <3> HIDE DEF str, st
      <3> QED  BY <3>1, AiQueueAssumption
    <2>8. Begins(v, t, m, wanted)
      BY <2>5, <2>6, <2>7 DEF Begins, Rest, s, id
    <2>9. ~t.starting.queued
      BY <2>6
    <2>10. Good(t, dropped)
      BY <1>1, <2>2, <2>8, <2>9, Begun
    <2> QED  BY <2>4, <2>10 DEF wanted
  <1> QED  BY <1>2, <1>3

-----------------------------------------------------------------------------
(* The next entry is sent or inserted.                                      *)

(* To note that an entry is sent without a look at its insertion changes nothing else. *)
LEMMA SentUnseen ==
    ASSUME NEW v, NEW m \in Message, Good(v, dropped),
           NEW u, u = [v EXCEPT !.unverified = @ \cup {m}]
    PROVE  /\ Good(u, dropped) /\ u.queue = v.queue /\ u.loading = v.loading
           /\ m \in u.unverified
  <1>1. v \in Scope
    BY DEF Good, Core
  <1>2. /\ u \in Scope /\ u.unverified = v.unverified \cup {m}
        /\ u.active = v.active /\ u.loading = v.loading /\ u.stream = v.stream
        /\ u.starting = v.starting /\ u.reconciling = v.reconciling
        /\ u.resuming = v.resuming /\ u.input = v.input /\ u.written = v.written
        /\ u.starts = v.starts /\ u.known = v.known /\ u.queue = v.queue
        /\ u.inserting = v.inserting
    BY <1>1 DEF Scope
  <1>3. /\ Pending(u) <=> Pending(v)
        /\ NewSession(u) <=> NewSession(v)
        /\ Sess(u) = Sess(v) /\ Unique(v) /\ Unique(u)
        /\ \A k : Arrived(u, k) <=> Arrived(v, k)
        /\ \A k : Queued(u, k) <=> Queued(v, k)
        /\ \A k : Kept(u, k) <=> Kept(v, k)
        /\ \A k : Sending(u, k) <=> Sending(v, k)
        /\ \A x : Waits(u, x) <=> Waits(v, x)
        /\ OnItsWay(u) <=> OnItsWay(v)
        /\ Untouched(u) <=> Untouched(v)
        /\ Sendable(u) <=> Sendable(v)
    BY <1>2 DEF Good, Core, Queued, Pending, NewSession, Sess, Arrived, Entries, Unique, Kept,
                Sending, OnItsWay, Untouched, Sendable, Waits
  <1>4. Entries(u, dropped) /\ Draft(u, dropped) /\ Written(u, dropped)
    BY <1>2, <1>3 DEF Good, Core, Entries, Entry, Draft, Written
  <1>5. Undecided(u, dropped) /\ Start(u) /\ Stream(u) /\ Shows(u)
    BY <1>2, <1>3 DEF Good, Core, Undecided, Start, Stream, Shows
  <1>6. Runs(u) /\ Inserting(u) /\ Quiet(u) /\ Hops(u) /\ Found(u)
    BY <1>2, <1>3 DEF Good, Core, Runs, Inserting, Quiet, Hops, Found
  <1>7. /\ Waiters(u) /\ Cleaned(u) /\ Count(u) /\ Saved(u, dropped)
        /\ Somewhere(u, dropped, None)
    BY <1>2, <1>3, ZenonT(60) DEF Good, Core, Waiters, Cleaned, Count, Saved, Somewhere
  <1> QED  BY <1>2, <1>4, <1>5, <1>6, <1>7 DEF Good, Core

(* The first item at some positions is one of the items there.              *)
LEMMA TheFirst ==
    ASSUME NEW v \in Scope, NEW at \in SUBSET DOMAIN v.queue
    PROVE  /\ FirstItem(v, at) = None <=> at = {}
           /\ at # {} => \E i \in at : FirstItem(v, at) = v.queue[i]
  <1>1. CASE at = {}
    BY <1>1 DEF FirstItem
  <1>2. CASE at # {}
    <2>1. DOMAIN v.queue \subseteq Nat
      BY Fields
    <2>2. \E i \in at : \A j \in at : i <= j
      <3>1. at \in SUBSET (1..Len(v.queue)) /\ Len(v.queue) \in Nat
        BY Fields
      <3>2. IsFiniteSet(1..Len(v.queue))
        BY <3>1, FS_Interval
      <3>3. IsFiniteSet(at)
        BY <3>1, <3>2, FS_Subset
      <3> QED  BY <1>2, <2>1, <3>3, Smallest
    <2>3. \E i \in at : FirstItem(v, at) = v.queue[i]
      BY <1>2, <2>2 DEF FirstItem
    <2> QED  BY <1>2, <2>3, Items
  <1> QED  BY <1>1, <1>2

(* An entry is inserted into the reply.                                     *)
Inserted(v, m, ins) ==
    Change([v EXCEPT !.inserting = ins],
           LAMBDA x : x.m = m,
           LAMBDA x : [x EXCEPT !.status = "sending", !.ins = v.stream.id])

(* An entry with its insertion under way.                                   *)
LEMMA InsertionMade ==
    ASSUME NEW v \in Scope, NEW m, NEW ins \in InsertState, v.stream # None,
           NEW u, u = Inserted(v, m, ins)
    PROVE  /\ u \in Scope /\ Rest(v, u) /\ u.inserting = ins
           /\ DOMAIN u.queue = DOMAIN v.queue
           /\ \A i \in DOMAIN v.queue :
                /\ u.queue[i].m = v.queue[i].m /\ u.queue[i].session = v.queue[i].session
                /\ v.queue[i].m # m => u.queue[i] = v.queue[i]
                /\ v.queue[i].m = m => u.queue[i].ins = v.stream.id
  <1> DEFINE id == v.stream.id
             q == [i \in DOMAIN v.queue |->
                     IF v.queue[i].m = m
                     THEN [v.queue[i] EXCEPT !.status = "sending", !.ins = id]
                     ELSE v.queue[i]]
             t == [v EXCEPT !.inserting = ins]
  <1>1. id \in StreamId
    BY Parts
  <1>2. /\ t \in Scope /\ Rest(v, t) /\ t.queue = v.queue /\ t.inserting = ins
    BY DEF Scope, Rest
  <1>3. u = [t EXCEPT !.queue = q]
    <2>1. t.queue = v.queue
      BY <1>2
    <2> HIDE DEF t
    <2> QED  BY <2>1 DEF Inserted, Change, t
  <1> HIDE DEF id, t
  <1>4. \A i \in DOMAIN v.queue :
           /\ q[i] \in Item
           /\ q[i].m = v.queue[i].m /\ q[i].session = v.queue[i].session
           /\ v.queue[i].m # m => q[i] = v.queue[i]
           /\ v.queue[i].m = m => q[i].ins = id
    BY <1>1, Items DEF Item
  <1>5. q \in Seq(Item) /\ DOMAIN q = DOMAIN v.queue
    <2>1. v.queue \in Seq(Item) /\ q = [i \in DOMAIN v.queue |-> q[i]]
      BY Fields
    <2> HIDE DEF q
    <2> QED  BY <1>4, <2>1, Mapped
  <1> HIDE DEF q
  <1>6. /\ u \in Scope /\ Rest(t, u) /\ u.queue = q /\ u.inserting = t.inserting
    BY <1>2, <1>3, <1>5, NewQueue
  <1>7. Rest(v, u)
    BY <1>2, <1>6 DEF Rest
  <1> QED  BY <1>2, <1>4, <1>5, <1>6, <1>7 DEF id

(* While those of other sessions wait to go on, nothing is inserted.         *)
MayDrain(v) ==
    v.resuming # None /\ v.stream # None /\ v.starting = None => ~Others(v.resuming)

(* No stream runs: the drain starts the first entry, or nothing.            *)
LEMMA SendsNext ==
    ASSUME TypeOK, NEW v, Good(v, dropped), MayDrain(v), v.stream = None
    PROVE  Good(drainAiMessageQueue(v), dropped)
  <1> DEFINE at == {i \in DOMAIN v.queue : Showing(v, v.queue[i].session)}
             it == FirstItem(v, at)
             u == [v EXCEPT !.unverified = IF it.ins = None THEN @ ELSE @ \cup {it.m}]
  <1>1. v \in Scope
    BY DEF Good, Core
  <1>2. drainAiMessageQueue(v) =
          IF v.starting # None \/ v.inserting # None \/ v.reconciling # None THEN v
          ELSE IF ~v.autoRun \/ it = None THEN v
          ELSE IF it.status # "queued" THEN v
          ELSE startAiMessage(u, it.m, it.session, TRUE)
    BY DEF drainAiMessageQueue
  <1>3. at \in SUBSET DOMAIN v.queue
    OBVIOUS
  <1> HIDE DEF at
  <1>4. it # None => \E i \in DOMAIN v.queue : it = v.queue[i]
    BY <1>1, <1>3, TheFirst
  <1> HIDE DEF it
  <1>5. ASSUME it # None
        PROVE  Good(startAiMessage(u, it.m, it.session, TRUE), dropped)
    <2>1. PICK i \in DOMAIN v.queue : it = v.queue[i]
      BY <1>4, <1>5
    <2>2. /\ Good(u, dropped) /\ u.queue = v.queue /\ u.loading = v.loading
          /\ it.m \in u.unverified \/ it.ins = None
      <3>1. CASE it.ins = None
        <4>1. u = v
          <5>1. u = [v EXCEPT !.unverified = v.unverified]
            BY <3>1
          <5> QED  BY <1>1, <5>1 DEF Scope
        <4> QED  BY <3>1, <4>1
      <3>2. CASE it.ins # None
        <4>1. u = [v EXCEPT !.unverified = @ \cup {it.m}]
          BY <3>2
        <4>2. it.m \in Message
          BY <1>1, <2>1, Items
        <4> HIDE DEF u
        <4> QED  BY <4>1, <4>2, SentUnseen
      <3> QED  BY <3>1, <3>2
    <2> HIDE DEF u
    <2>3. i \in DOMAIN u.queue /\ it = u.queue[i]
      BY <2>1, <2>2
    <2>4. Good(startAiMessage(u, u.queue[i].m, u.queue[i].session, TRUE), dropped)
      BY <2>2, <2>3, StartsQueued
    <2> QED  BY <2>3, <2>4
  <1> QED  BY <1>2, <1>5

(* A stream runs: the drain inserts an entry, or nothing.                   *)
LEMMA InsertsNext ==
    ASSUME TypeOK, NEW v, Good(v, dropped), MayDrain(v), v.stream # None
    PROVE  Good(drainAiMessageQueue(v), dropped)
  <1> DEFINE at == {i \in DOMAIN v.queue : /\ v.queue[i].session = v.stream.session
                                           /\ v.queue[i].immediate
                                           /\ v.queue[i].status = "queued"}
             it == FirstItem(v, at)
             ins == [m |-> it.m, id |-> v.stream.id, phase |-> "sent"]
             u == Inserted(v, it.m, ins)
  <1>1. v \in Scope
    BY DEF Good, Core
  <1>2. drainAiMessageQueue(v) =
          IF v.starting # None \/ v.inserting # None \/ v.reconciling # None THEN v
          ELSE IF ~v.stream.ready \/ v.stream.stop \/ it = None THEN v
          ELSE u
    BY DEF drainAiMessageQueue, Inserted
  <1>3. /\ at \in SUBSET DOMAIN v.queue
        /\ \A i \in at : v.queue[i].session = v.stream.session
    OBVIOUS
  <1> HIDE DEF at
  <1>4. it # None => \E i \in at : it = v.queue[i]
    BY <1>1, <1>3, TheFirst
  <1> HIDE DEF it
  <1>5. ASSUME it # None, v.starting = None, v.reconciling = None, v.stream.ready
        PROVE  Good(u, dropped)
    <2>1. PICK i \in DOMAIN v.queue : it = v.queue[i] /\ it.session = v.stream.session
      BY <1>3, <1>4, <1>5
    <2>2. /\ ins \in InsertState /\ ins.m = it.m /\ ins.id = v.stream.id
          /\ v.stream.id \in StreamId /\ v.stream.id # None /\ ins # None
      BY <1>1, <2>1, Items, Parts, AiQueueAssumption DEF InsertState
    <2> HIDE DEF ins
    <2>3. /\ u \in Scope /\ Rest(v, u) /\ u.inserting = ins
          /\ DOMAIN u.queue = DOMAIN v.queue
          /\ \A j \in DOMAIN v.queue :
                /\ u.queue[j].m = v.queue[j].m /\ u.queue[j].session = v.queue[j].session
                /\ v.queue[j].m # it.m => u.queue[j] = v.queue[j]
                /\ v.queue[j].m = it.m => u.queue[j].ins = v.stream.id
      BY <1>1, <2>2, InsertionMade
    <2> HIDE DEF u
    <2>4. v.stream.id <= v.starts /\ it.session \in 1..v.known
      BY <1>5, <2>1 DEF Good, Core, Stream, Sess, NewSession, Pending
    <2>5. Inserting(u)
      <3>1. Kept(u, it.m)
        BY <2>1, <2>2, <2>3 DEF Kept
      <3> QED  BY <2>2, <2>3, <2>4, <3>1 DEF Inserting, Rest
    <2>6. Quiet(u)
      BY <1>5, <2>3 DEF Quiet, MayDrain, Rest
    <2>7. \A j \in DOMAIN v.queue :
             \/ u.queue[j].ins = v.queue[j].ins
             \/ /\ v.stream # None /\ u.queue[j].ins # None /\ u.queue[j].ins <= v.starts
                /\ v.queue[j].session \in 1..v.known
      <3> SUFFICES ASSUME NEW j \in DOMAIN v.queue, v.queue[j].m = it.m
                   PROVE  /\ u.queue[j].ins # None /\ u.queue[j].ins <= v.starts
                          /\ v.queue[j].session \in 1..v.known
        BY <2>3
      <3>1. j = i
        BY <2>1 DEF Good, Core, Entries, Unique
      <3> QED  BY <2>1, <2>2, <2>3, <2>4, <3>1
    <2>8. ~Pending(v)
      BY <1>5 DEF Pending
    <2> QED  BY <2>3, <2>5, <2>6, <2>7, <2>8, InPlace DEF InsertionOf
  <1> QED  BY <1>2, <1>5

(* The drain, whenever nothing else is to come first.                       *)
LEMMA Drains ==
    ASSUME TypeOK, NEW v, Good(v, dropped), MayDrain(v)
    PROVE  Good(drainAiMessageQueue(v), dropped)
  BY SendsNext, InsertsNext

-----------------------------------------------------------------------------
(* Something waits for a reconciliation.                                    *)

(* A reconciliation with those that wait for it, while no insertion is made. *)
LEMMA NewReconciliation ==
    ASSUME TypeOK, NEW v, NEW r \in ReconcileState, Good(v, dropped), Late(r),
           v.stream # None => AllLate(r) /\ Untouched(v),
           r.found \subseteq injected,
           r.phase = "read" =>
              /\ r.session # New
              /\ \A i \in DOMAIN v.queue :
                   v.queue[i].m \in injected /\ v.queue[i].session = r.session
                     => v.queue[i].m \in r.found,
           \A i \in DOMAIN r.waiting : Waits(v, r.waiting[i]),
           NEW u, u = [v EXCEPT !.reconciling = r]
    PROVE  Good(u, dropped)
  <1>1. v \in Scope
    BY DEF Good, Core
  <1>2. /\ u \in Scope /\ u.unverified = v.unverified /\ u.reconciling = r
        /\ u.active = v.active /\ u.loading = v.loading /\ u.stream = v.stream
        /\ u.starting = v.starting
        /\ u.resuming = v.resuming /\ u.input = v.input /\ u.written = v.written
        /\ u.starts = v.starts /\ u.known = v.known /\ u.queue = v.queue
        /\ u.inserting = v.inserting
    BY <1>1 DEF Scope
  <1>3. r # None
    BY AiQueueAssumption
  <1>4. /\ Pending(u) <=> Pending(v)
        /\ NewSession(u) <=> NewSession(v)
        /\ Sess(u) = Sess(v) /\ Unique(v) /\ Unique(u)
        /\ \A k : Arrived(u, k) <=> Arrived(v, k)
        /\ \A k : Queued(u, k) <=> Queued(v, k)
        /\ \A k : Kept(u, k) <=> Kept(v, k)
        /\ \A k : Sending(u, k) <=> Sending(v, k)
        /\ \A x : Waits(u, x) <=> Waits(v, x)
        /\ OnItsWay(u) <=> OnItsWay(v)
        /\ Untouched(u) <=> Untouched(v)
    BY <1>2 DEF Good, Core, Queued, Pending, NewSession, Sess, Arrived, Entries, Unique, Kept,
                Sending, OnItsWay, Untouched, Waits
  <1>5. Entries(u, dropped) /\ Draft(u, dropped) /\ Written(u, dropped)
    BY <1>2, <1>4 DEF Good, Core, Entries, Entry, Draft, Written
  <1>6. Undecided(u, dropped) /\ Start(u) /\ Stream(u) /\ Shows(u)
    BY <1>2, <1>4 DEF Good, Core, Undecided, Start, Stream, Shows
  <1>7. Runs(u) /\ Inserting(u) /\ Quiet(u)
    BY <1>2, <1>4 DEF Good, Core, Runs, Inserting, Quiet
  <1>8. Hops(u) /\ Found(u)
    BY <1>2, <1>3 DEF Good, Core, Hops, Found
  <1>9. Waiters(u) /\ Cleaned(u)
    BY <1>2, <1>3, <1>4 DEF Good, Core, Waiters, Cleaned
  <1>10. Count(u) /\ Saved(u, dropped) /\ Somewhere(u, dropped, None)
    BY <1>2, <1>4 DEF Good, Core, Count, Saved, Somewhere
  <1> QED  BY <1>2, <1>5, <1>6, <1>7, <1>8, <1>9, <1>10 DEF Good, Core

(* The uncertain entries of the session are checked.                        *)
Checked(v, s) ==
    Change(v, LAMBDA it : it.session = s /\ it.ins # None,
              LAMBDA it : [it EXCEPT !.status = "sending"])

(* The entries that are checked are marked as sent.                         *)
LEMMA CheckedStays ==
    ASSUME TypeOK, NEW v, NEW s, Good(v, dropped)
    PROVE  Good(Checked(v, s), dropped)
  <1> DEFINE q == [i \in DOMAIN v.queue |->
                     IF v.queue[i].session = s /\ v.queue[i].ins # None
                     THEN [v.queue[i] EXCEPT !.status = "sending"] ELSE v.queue[i]]
             u == [v EXCEPT !.queue = q]
  <1>1. v \in Scope
    BY DEF Good, Core
  <1>2. \A i \in DOMAIN v.queue :
           /\ q[i] \in Item
           /\ q[i].m = v.queue[i].m /\ q[i].session = v.queue[i].session
           /\ q[i].ins = v.queue[i].ins
           /\ v.queue[i].status = "sending" => q[i].status = "sending"
    BY <1>1, Items DEF Item
  <1>3. q \in Seq(Item) /\ DOMAIN q = DOMAIN v.queue
    <2>1. v.queue \in Seq(Item) /\ q = [i \in DOMAIN v.queue |-> q[i]]
      BY <1>1, Fields
    <2> HIDE DEF q
    <2> QED  BY <1>2, <2>1, Mapped
  <1>4. Checked(v, s) = u
    BY DEF Checked, Change
  <1> HIDE DEF q
  <1>5. u \in Scope /\ Rest(v, u) /\ u.queue = q /\ u.inserting = v.inserting
    BY <1>1, <1>3, NewQueue
  <1> HIDE DEF u
  <1>6. Good(u, dropped)
    BY <1>2, <1>3, <1>5, InPlace DEF InsertionOf
  <1> QED  BY <1>4, <1>6

(* What has to wait joins the reconciliation under way or begins one.       *)
LEMMA Reconciles ==
    ASSUME TypeOK, NEW v, NEW x \in Waiter, Good(v, dropped), Waits(v, x),
           v.stream # None => x.hops > 0 /\ Untouched(v)
    PROVE  Good(reconcileAiMessageQueue(v, x), dropped)
  <1>1. v \in Scope
    BY DEF Good, Core
  <1>2. CASE v.reconciling # None
    <2> DEFINE rec == v.reconciling
               y == IF rec.session = x.session THEN x ELSE [x EXCEPT !.hops = @ + 1]
               waiting == Append(rec.waiting, y)
               r == [rec EXCEPT !.waiting = waiting]
               u == [v EXCEPT !.reconciling = r]
    <2>1. /\ y \in Waiter /\ y.session = x.session /\ y.kind = x.kind /\ y.m = x.m
          /\ y.session # rec.session => y.hops > 0
          /\ x.hops > 0 => y.hops > 0
      BY DEF Waiter
    <2>2. Waits(v, y)
      BY <2>1 DEF Waits
    <2>3. reconcileAiMessageQueue(v, x) = u
      BY <1>2 DEF reconcileAiMessageQueue
    <2>4. /\ rec \in ReconcileState /\ rec.waiting \in Seq(Waiter)
          /\ rec.found \subseteq injected /\ Late(rec)
          /\ v.stream # None => AllLate(rec)
          /\ \A i \in DOMAIN rec.waiting : Waits(v, rec.waiting[i])
          /\ rec.phase = "read" =>
              /\ rec.session # New
              /\ \A i \in DOMAIN v.queue :
                   v.queue[i].m \in injected /\ v.queue[i].session = rec.session
                     => v.queue[i].m \in rec.found
      BY <1>1, <1>2, Parts DEF Good, Core, Found, Hops, Waiters
    <2> HIDE DEF y, rec
    <2>5. /\ waiting \in Seq(Waiter) /\ DOMAIN waiting = 1..(Len(rec.waiting) + 1)
          /\ DOMAIN rec.waiting = 1..Len(rec.waiting) /\ Len(rec.waiting) \in Nat
          /\ \A i \in DOMAIN rec.waiting : waiting[i] = rec.waiting[i]
          /\ waiting[Len(rec.waiting) + 1] = y /\ waiting # <<>>
      BY <2>1, <2>4, Appended
    <2>6. \A i \in DOMAIN waiting :
             waiting[i] = y \/ \E j \in DOMAIN rec.waiting : waiting[i] = rec.waiting[j]
      BY <2>5
    <2> HIDE DEF waiting
    <2>7. /\ r \in ReconcileState /\ r.session = rec.session /\ r.phase = rec.phase
          /\ r.found = rec.found /\ r.waiting = waiting
      BY <2>4, <2>5 DEF ReconcileState
    <2> HIDE DEF r
    <2>8. Late(r) /\ (v.stream # None => AllLate(r))
      BY <2>1, <2>4, <2>5, <2>6, <2>7 DEF Late, AllLate
    <2>9. \A i \in DOMAIN r.waiting : Waits(v, r.waiting[i])
      BY <2>2, <2>4, <2>6, <2>7
    <2>10. Good(u, dropped)
      BY <2>4, <2>7, <2>8, <2>9, NewReconciliation
    <2> QED  BY <2>3, <2>10
  <1>3. CASE v.reconciling = None
    <2> DEFINE r == [session |-> x.session, phase |-> "sent", found |-> {},
                     waiting |-> <<x>>]
               u == [v EXCEPT !.reconciling = r]
    <2>1. reconcileAiMessageQueue(v, x) = Checked(u, x.session)
      BY <1>3 DEF reconcileAiMessageQueue, Checked
    <2>2. /\ r \in ReconcileState /\ r.session = x.session /\ r.phase = "sent"
          /\ r.found = {} /\ DOMAIN r.waiting = {1} /\ r.waiting[1] = x /\ r.waiting # <<>>
      BY DEF ReconcileState, Waiter
    <2> HIDE DEF r
    <2>3. Late(r) /\ (v.stream # None => AllLate(r) /\ Untouched(v))
      BY <2>2 DEF Late, AllLate
    <2>4. Good(u, dropped)
      BY <2>2, <2>3, NewReconciliation
    <2> HIDE DEF u
    <2>5. Good(Checked(u, x.session), dropped)
      BY <2>4, CheckedStays
    <2> QED  BY <2>1, <2>5
  <1> QED  BY <1>2, <1>3

-----------------------------------------------------------------------------
(* The end of a reply.                                                     *)

Released(v, finished) ==
    Change([v EXCEPT !.autoRun = finished],
           LAMBDA it : Showing(v, it.session) /\ it.status # "failed",
           LAMBDA it : [it EXCEPT !.status = "queued", !.immediate = FALSE])

(* At the end of a stream the entries are released.                         *)
LEMMA ReleasedStays ==
    ASSUME TypeOK, NEW v, NEW finished, {finished} \subseteq BOOLEAN, Good(v, dropped),
           v.stream = None, NEW t, t = Released(v, finished)
    PROVE  Good(t, dropped) /\ Rest(v, t)
  <1> DEFINE q == [i \in DOMAIN v.queue |->
                     IF Showing(v, v.queue[i].session) /\ v.queue[i].status # "failed"
                     THEN [v.queue[i] EXCEPT !.status = "queued", !.immediate = FALSE]
                     ELSE v.queue[i]]
             b == [v EXCEPT !.autoRun = finished]
             u == [b EXCEPT !.queue = q]
  <1>1. v \in Scope
    BY DEF Good, Core
  <1>2. b \in Scope /\ Rest(v, b) /\ b.queue = v.queue /\ b.inserting = v.inserting
    BY <1>1 DEF Scope, Rest
  <1>3. \A i \in DOMAIN v.queue :
           /\ q[i] \in Item
           /\ q[i].m = v.queue[i].m /\ q[i].session = v.queue[i].session
           /\ q[i].ins = v.queue[i].ins
    BY <1>1, Items DEF Item
  <1>4. q \in Seq(Item) /\ DOMAIN q = DOMAIN v.queue
    <2>1. v.queue \in Seq(Item) /\ q = [i \in DOMAIN v.queue |-> q[i]]
      BY <1>1, Fields
    <2> HIDE DEF q
    <2> QED  BY <1>3, <2>1, Mapped
  <1>5. t = u
    <2> HIDE DEF b
    <2> QED  BY <1>2 DEF Released, Change, b
  <1> HIDE DEF q, b
  <1>6. u \in Scope /\ Rest(b, u) /\ u.queue = q /\ u.inserting = b.inserting
    BY <1>2, <1>4, NewQueue
  <1> HIDE DEF u
  <1>7. Rest(v, u) /\ ~Pending(v)
    BY <1>2, <1>6 DEF Rest, Good, Core, Undecided
  <1>8. Good(u, dropped)
    BY <1>2, <1>3, <1>4, <1>6, <1>7, InPlace DEF InsertionOf
  <1> QED  BY <1>5, <1>7, <1>8

(* The stream has ended: those that wait may be sent, or are checked first.  *)
LEMMA Finishes ==
    ASSUME TypeOK, NEW v, NEW status, Good(v, dropped), v.stream = None,
           v.resuming = None
    PROVE  Good(finishAiMessageQueue(v, status), dropped)
  <1> DEFINE unresolved == \E i \in DOMAIN v.queue :
                              Showing(v, v.queue[i].session) /\ v.queue[i].ins # None
             finished == ~unresolved /\ status = "finished"
             u == Released(v, finished)
             x == [kind |-> "finish", session |-> v.active, finished |-> status = "finished",
                   m |-> None, active |-> v.active, hops |-> 0]
  <1>1. finishAiMessageQueue(v, status) =
          IF unresolved THEN reconcileAiMessageQueue(u, x) ELSE drainAiMessageQueue(u)
    BY DEF finishAiMessageQueue, Released
  <1>2. {finished} \subseteq BOOLEAN
    OBVIOUS
  <1> HIDE DEF unresolved, finished
  <1>3. Good(u, dropped) /\ Rest(v, u)
    BY <1>2, ReleasedStays
  <1>4. v \in Scope /\ v.active \in Shown /\ v.active \in 1..v.known \cup {New}
    BY Fields DEF Good, Core, Stream, Sess, NewSession, Undecided
  <1>5. x \in Waiter /\ x.kind = "finish" /\ x.session = v.active
    BY <1>4 DEF Waiter
  <1> HIDE DEF x, u
  <1>6. Waits(u, x)
    BY <1>3, <1>4, <1>5 DEF Waits, Rest
  <1>7. Good(reconcileAiMessageQueue(u, x), dropped)
    BY <1>3, <1>5, <1>6, Reconciles DEF Rest
  <1>8. Good(drainAiMessageQueue(u), dropped)
    BY <1>3, Drains DEF Rest, MayDrain
  <1> QED  BY <1>1, <1>7, <1>8

-----------------------------------------------------------------------------
(* Those that waited go on.                                                *)

(* The next to go on is of another session, or comes at once, or none of those is left. *)
LEMMA TheNext ==
    ASSUME NEW r \in ResumeState, r.waiting # <<>>
    PROVE  /\ NextWaiter(r) \in DOMAIN r.waiting
           /\ r.waiting[NextWaiter(r)].session = r.session
                /\ r.waiting[NextWaiter(r)].hops > 0 => ~Others(r)
  <1> DEFINE at == DOMAIN r.waiting
             f == [j \in at |-> Ticks(r, j)]
  <1>1. /\ r.waiting \in Seq(Waiter) /\ at = 1..Len(r.waiting) /\ Len(r.waiting) \in Nat
        /\ Len(r.waiting) # 0
    BY DEF ResumeState
  <1>2. at \subseteq Nat /\ IsFiniteSet(at) /\ at # {}
    <2>1. 1 \in Int /\ Len(r.waiting) \in Int /\ at = 1..Len(r.waiting)
      BY <1>1
    <2> HIDE DEF at
    <2>2. IsFiniteSet(at)
      BY <2>1, FS_Interval
    <2>3. 1 \in at /\ at \subseteq Nat
      BY <1>1, <2>1
    <2> QED  BY <2>2, <2>3
  <1>3. f \in [at -> Nat]
    <2> SUFFICES ASSUME NEW j \in at
                 PROVE  Ticks(r, j) \in Nat
      OBVIOUS
    <2>1. r.waiting[j] \in Waiter
      BY <1>1
    <2> QED  BY <2>1 DEF Ticks, Waiter
  <1>4. \A j \in at : f[j] = Ticks(r, j)
    OBVIOUS
  <1> HIDE DEF f, at
  <1>5. \E i \in at : \A j \in at : f[i] < f[j] \/ (f[i] = f[j] /\ i <= j)
    BY <1>2, <1>3, SmallestBy
  <1>6. \E i \in at : \A j \in at :
           Ticks(r, i) < Ticks(r, j) \/ (Ticks(r, i) = Ticks(r, j) /\ i <= j)
    BY <1>4, <1>5
  <1> DEFINE n == NextWaiter(r)
  <1>7. /\ n \in at
        /\ \A j \in at : Ticks(r, n) < Ticks(r, j) \/ (Ticks(r, n) = Ticks(r, j) /\ n <= j)
    BY <1>6 DEF NextWaiter, at
  <1> HIDE DEF n
  <1>8. ASSUME r.waiting[n].session = r.session, r.waiting[n].hops > 0,
               NEW j \in at
        PROVE  r.waiting[j].session = r.session
    <2>1. Ticks(r, n) > 0 /\ Ticks(r, n) \in Nat /\ Ticks(r, j) \in Nat
      BY <1>3, <1>4, <1>7, <1>8 DEF Ticks
    <2>2. Ticks(r, j) # 0
      BY <1>7, <2>1
    <2> QED  BY <2>2 DEF Ticks
  <1> QED  BY <1>7, <1>8 DEF Others, at, n

(* All but what waits for a reconciliation that is over.                    *)
SameBut(v, u) ==
    /\ u \in Scope /\ u.unverified = v.unverified /\ u.reconciling = v.reconciling
    /\ u.active = v.active /\ u.loading = v.loading /\ u.stream = v.stream
    /\ u.starting = v.starting /\ u.input = v.input /\ u.written = v.written
    /\ u.starts = v.starts /\ u.known = v.known /\ u.queue = v.queue
    /\ u.inserting = v.inserting

(* Those of s wait among those of r.                                        *)
Among(s, r) ==
    /\ s.session = r.session /\ s.success = r.success
    /\ \A n \in DOMAIN s.waiting : \E j \in DOMAIN r.waiting :
          s.waiting[n] = r.waiting[j]
    /\ Others(s) => Others(r)
    /\ Late(r) => Late(s)
    /\ AllLate(r) => AllLate(s)

(* Those that are left wait as they did.                                    *)
LEMMA Fewer ==
    ASSUME NEW r \in ResumeState, NEW i, NEW rest, rest # <<>>,
           rest = At(r.waiting, DOMAIN r.waiting \ {i}),
           NEW s, s = [r EXCEPT !.waiting = rest]
    PROVE  s \in ResumeState /\ Among(s, r)
  <1> DEFINE at == DOMAIN r.waiting \ {i}
  <1>1. r.waiting \in Seq(Waiter) /\ at \in SUBSET DOMAIN r.waiting
    BY DEF ResumeState
  <1> HIDE DEF at
  <1>2. /\ At(r.waiting, at) \in Seq(Waiter)
        /\ \A n \in DOMAIN At(r.waiting, at) : \E j \in at :
              At(r.waiting, at)[n] = r.waiting[j]
    BY <1>1, AtPositions
  <1>3. rest = At(r.waiting, at)
    BY DEF at
  <1>4. /\ rest \in Seq(Waiter)
        /\ \A n \in DOMAIN rest : \E j \in DOMAIN r.waiting : rest[n] = r.waiting[j]
    BY <1>1, <1>2, <1>3
  <1>5. /\ s \in ResumeState /\ s.session = r.session /\ s.success = r.success
        /\ s.waiting = rest
    BY <1>4 DEF ResumeState
  <1>6. \A n \in DOMAIN s.waiting : \E j \in DOMAIN r.waiting :
           s.waiting[n] = r.waiting[j]
    BY <1>4, <1>5, ZenonT(60)
  <1>7. (Others(s) => Others(r)) /\ (AllLate(r) => AllLate(s))
    BY <1>5, <1>6 DEF Others, AllLate
  <1>8. Late(r) => Late(s)
    BY <1>5, <1>6 DEF Late
  <1> QED  BY <1>5, <1>6, <1>7, <1>8 DEF Among

(* The others still wait.                                                  *)
LEMMA OneLess ==
    ASSUME TypeOK, NEW v, NEW u, Good(v, dropped), v.resuming # None, SameBut(v, u),
           u.resuming # None => Among(u.resuming, v.resuming)
    PROVE  Good(u, dropped)
  <1> USE DEF SameBut
  <1>1. /\ Pending(u) <=> Pending(v)
        /\ NewSession(u) <=> NewSession(v)
        /\ Sess(u) = Sess(v) /\ Unique(v) /\ Unique(u)
        /\ \A k : Arrived(u, k) <=> Arrived(v, k)
        /\ \A k : Queued(u, k) <=> Queued(v, k)
        /\ \A k : Kept(u, k) <=> Kept(v, k)
        /\ \A k : Sending(u, k) <=> Sending(v, k)
        /\ \A x : Waits(u, x) <=> Waits(v, x)
        /\ OnItsWay(u) <=> OnItsWay(v)
        /\ Untouched(u) <=> Untouched(v)
    BY DEF Good, Core, Queued, Pending, NewSession, Sess, Arrived, Entries, Unique, Kept,
           Sending, OnItsWay, Untouched, Waits
  <1>2. Entries(u, dropped) /\ Draft(u, dropped) /\ Written(u, dropped)
    BY <1>1 DEF Good, Core, Entries, Entry, Draft, Written
  <1>3. Undecided(u, dropped) /\ Start(u) /\ Stream(u) /\ Shows(u)
    BY <1>1 DEF Good, Core, Undecided, Start, Stream, Shows
  <1>4. Runs(u) /\ Inserting(u) /\ Quiet(u) /\ Found(u)
    BY <1>1 DEF Good, Core, Runs, Inserting, Quiet, Found, Among
  <1>5. Hops(u)
    BY DEF Good, Core, Hops, Among
  <1>6. Waiters(u)
    BY <1>1 DEF Good, Core, Waiters, Among
  <1>7. Cleaned(u)
    <2>1. u.resuming # None /\ Sendable(v) => Sendable(u)
      <3> SUFFICES ASSUME u.resuming # None, Sendable(v), NEW n \in DOMAIN u.resuming.waiting,
                          u.resuming.waiting[n].kind = "send",
                          u.resuming.waiting[n].session = u.resuming.session,
                          NEW j \in DOMAIN v.queue,
                          v.queue[j].m = u.resuming.waiting[n].m
                   PROVE  v.queue[j].ins = None
        BY DEF Sendable
      <3>1. PICK k \in DOMAIN v.resuming.waiting :
               u.resuming.waiting[n] = v.resuming.waiting[k]
        BY DEF Among
      <3> QED  BY <3>1 DEF Sendable, Among
    <2> QED  BY <2>1 DEF Good, Core, Cleaned, Among
  <1>8. Count(u) /\ Saved(u, dropped) /\ Somewhere(u, dropped, None)
    BY <1>1 DEF Good, Core, Count, Saved, Somewhere
  <1> QED  BY <1>2, <1>3, <1>4, <1>5, <1>6, <1>7, <1>8 DEF Good, Core

(* Whether the queue goes on by itself makes no difference to the invariant. *)
LEMMA AutoRunStays ==
    ASSUME TypeOK, NEW v, NEW auto, {auto} \subseteq BOOLEAN, Good(v, dropped),
           NEW u, u = [v EXCEPT !.autoRun = auto]
    PROVE  Good(u, dropped) /\ Rest(v, u)
  <1>1. v \in Scope
    BY DEF Good, Core
  <1>2. u \in Scope /\ Rest(v, u) /\ u.queue = v.queue /\ u.inserting = v.inserting
    BY <1>1 DEF Scope, Rest
  <1> QED  BY <1>2, InPlace DEF InsertionOf

(* A waiter whose session was reconciled.                                   *)
LEMMA Resumes ==
    ASSUME TypeOK, NEW v, NEW x \in Waiter, NEW success, Good(v, dropped), MayDrain(v),
           success /\ v.stream = None /\ v.starting = None /\ v.reconciling = None
             /\ x.kind = "send" =>
               \A j \in DOMAIN v.queue : v.queue[j].m = x.m => v.queue[j].ins = None
    PROVE  Good(Resume(v, x, success), dropped)
  <1>1. CASE ~success
    BY <1>1 DEF Resume
  <1>2. CASE success /\ x.kind = "finish"
    <2> DEFINE u == IF v.active = x.session /\ v.stream = None
                    THEN [v EXCEPT !.autoRun = x.finished] ELSE v
    <2>1. Resume(v, x, success) = drainAiMessageQueue(u)
      BY <1>2 DEF Resume
    <2>2. {x.finished} \subseteq BOOLEAN
      BY DEF Waiter
    <2>3. Good(u, dropped) /\ MayDrain(u)
      <3> DEFINE t == [v EXCEPT !.autoRun = x.finished]
      <3>1. Good(t, dropped) /\ Rest(v, t)
        BY <2>2, AutoRunStays
      <3> HIDE DEF t
      <3>2. MayDrain(t)
        BY <3>1 DEF MayDrain, Rest
      <3> QED  BY <3>1, <3>2 DEF t
    <2> HIDE DEF u
    <2> QED  BY <2>1, <2>3, Drains
  <1>3. CASE success /\ x.kind # "finish"
    <2>1. x.kind = "send"
      BY <1>3 DEF Waiter
    <2>2. CASE ~Queued(v, x.m) \/ v.active # x.active
      BY <1>3, <2>2 DEF Resume
    <2>3. CASE Queued(v, x.m) /\ v.active = x.active
      <3>1. Resume(v, x, success) = startAiMessage(v, x.m, ItemOf(v, x.m).session, TRUE)
        BY <1>3, <2>3 DEF Resume
      <3>2. CASE v.stream # None \/ v.starting # None \/ v.reconciling # None
        BY <3>1, <3>2 DEF startAiMessage
      <3>3. CASE v.stream = None /\ v.starting = None /\ v.reconciling = None
        <4>1. PICK i \in DOMAIN v.queue : v.queue[i].m = x.m /\ ItemOf(v, x.m) = v.queue[i]
          BY <2>3, TheItem DEF Good, Core
        <4>2. v.queue[i].ins = None
          BY <1>3, <2>1, <3>3, <4>1
        <4>3. Good(startAiMessage(v, v.queue[i].m, v.queue[i].session, TRUE), dropped)
          BY <4>2, StartsQueued DEF MayDrain
        <4> QED  BY <3>1, <4>1, <4>3
      <3> QED  BY <3>2, <3>3
    <2> QED  BY <2>2, <2>3
  <1> QED  BY <1>1, <1>2, <1>3

(* The next of those that waited, without it and with its turn.              *)
Waiterless(v, i) ==
    LET rest == At(v.resuming.waiting, DOMAIN v.resuming.waiting \ {i})
    IN  [v EXCEPT !.resuming =
            IF rest = <<>> THEN None ELSE [v.resuming EXCEPT !.waiting = rest]]

(* One of those that waited is taken.                                       *)
LEMMA WaiterLeaves ==
    ASSUME TypeOK, NEW v, NEW i, Good(v, dropped), v.resuming # None,
           NEW u, u = Waiterless(v, i)
    PROVE  /\ Good(u, dropped) /\ SameBut(v, u)
           /\ u.resuming # None => Among(u.resuming, v.resuming)
  <1>1. v \in Scope /\ v.resuming \in ResumeState
    BY Fields DEF Good, Core
  <1> DEFINE rest == At(v.resuming.waiting, DOMAIN v.resuming.waiting \ {i})
             s == [v.resuming EXCEPT !.waiting = rest]
             r == IF rest = <<>> THEN None ELSE s
  <1>2. u = [v EXCEPT !.resuming = r]
    BY DEF Waiterless
  <1>3. rest # <<>> => s \in ResumeState /\ Among(s, v.resuming)
    BY <1>1, Fewer
  <1>4. None \notin ResumeState
    BY AiQueueAssumption
  <1>5. r \in ResumeState \cup {None} /\ (r # None => Among(r, v.resuming))
    BY <1>3
  <1> HIDE DEF r
  <1>6. u.resuming = r /\ SameBut(v, u)
    BY <1>1, <1>2, <1>5 DEF Scope, SameBut
  <1>7. Good(u, dropped)
    BY <1>5, <1>6, OneLess
  <1> QED  BY <1>5, <1>6, <1>7

(* It goes on: as what it was, or to wait again.                            *)
LEMMA ResumesNext ==
    ASSUME IInv, ResumeNext
    PROVE  Good(w', dropped)
  <1> DEFINE r == w.resuming
             i == NextWaiter(r)
             x == r.waiting[i]
             v == Waiterless(w, i)
  <1>1. TypeOK /\ Good(w, dropped) /\ r # None /\ w \in Scope
    BY DEF IInv, ResumeNext, Good, Core
  <1>2. r \in ResumeState /\ Late(r)
    BY <1>1, Fields DEF Good, Core, Hops
  <1>3. w' = IF x.session = r.session THEN Resume(v, x, r.success)
             ELSE reconcileAiMessageQueue(v, x)
    BY DEF ResumeNext, Waiterless
  <1>4. i \in DOMAIN r.waiting /\ (x.session = r.session /\ x.hops > 0 => ~Others(r))
    BY <1>2, TheNext DEF Late
  <1>5. x \in Waiter
    BY <1>2, <1>4 DEF ResumeState
  <1>6. Waits(w, x)
    BY <1>1, <1>4 DEF Good, Core, Waiters
  <1> DEFINE u == v
  <1>7. /\ Good(v, dropped) /\ SameBut(w, v)
        /\ v.resuming # None => Among(v.resuming, r)
    BY <1>1, WaiterLeaves
  <1> HIDE DEF v, i
  <1>8. CASE x.session = r.session
    <2>1. v.resuming # None /\ v.stream # None /\ v.starting = None => ~Others(v.resuming)
      <3>1. v.stream # None /\ v.starting = None => AllLate(r)
        BY <1>1, <1>7 DEF Good, Core, Hops, SameBut
      <3>2. AllLate(r) => ~Others(r)
        BY <1>4, <1>8 DEF AllLate
      <3> QED  BY <1>7, <3>1, <3>2 DEF Among
    <2>2. MayDrain(v)
      BY <2>1 DEF MayDrain
    <2>3. r.success /\ v.stream = None /\ v.starting = None /\ v.reconciling = None
            /\ x.kind = "send" =>
              \A j \in DOMAIN v.queue : v.queue[j].m = x.m => v.queue[j].ins = None
      <3>1. r.success /\ v.stream = None /\ v.starting = None /\ v.reconciling = None =>
              Sendable(w)
        BY <1>1, <1>7 DEF Good, Core, Cleaned, SameBut
      <3> QED  BY <1>4, <1>7, <1>8, <3>1 DEF Sendable, SameBut
    <2>4. Good(Resume(v, x, r.success), dropped)
      BY <1>1, <1>5, <1>7, <2>2, <2>3, Resumes
    <2> QED  BY <1>3, <1>8, <2>4
  <1>9. CASE x.session # r.session
    <2>1. Waits(v, x)
      BY <1>6, <1>7 DEF Waits, SameBut
    <2>2. v.stream # None => x.hops > 0 /\ Untouched(v)
      <3>1. Others(r)
        BY <1>4, <1>9 DEF Others
      <3>2. w.stream # None => Untouched(w)
        BY <1>1, <3>1 DEF Good, Core, Quiet
      <3>3. Untouched(w) => Untouched(v)
        BY <1>7 DEF Untouched, SameBut
      <3>4. x.hops > 0
        BY <1>2, <1>4, <1>9 DEF Late
      <3> QED  BY <1>7, <3>2, <3>3, <3>4 DEF SameBut
    <2>3. Good(reconcileAiMessageQueue(v, x), dropped)
      BY <1>1, <1>5, <1>7, <2>1, <2>2, Reconciles
    <2> QED  BY <1>3, <1>9, <2>3
  <1> QED  BY <1>8, <1>9

-----------------------------------------------------------------------------
(* A step of the window: the backend stays as it is, but for the event read. *)

(* The scope is good again, and so is the whole, with the deletions and events there are. *)
LEMMA Stays ==
    ASSUME TypeOK, Good(w', dropped'), dropped' \in SUBSET Message,
           run' = run, chat' = chat, injected' = injected,
           errors' \in 0..MaxErrors, errors' >= errors,
           events' \in Seq(Event),
           \A i \in DOMAIN events' : \E j \in DOMAIN events : events'[i] = events[j],
           refused' \in SUBSET Message, stops' \in SUBSET StreamId, acts' \in 0..MaxActs
    PROVE  IInv'
  <1>1. w' \in Scope
    BY DEF Good, Core
  <1>2. TypeOK'
    BY <1>1 DEF TypeOK
  <1>3. Entries(w, dropped)' /\ Draft(w, dropped)' /\ Written(w, dropped)'
    BY DEF Good, Core, Entries, Unique, Entry, Credit, Arrived, Sess, NewSession, Pending,
           Draft, Queued, Written
  <1>4. Undecided(w, dropped)'
    BY DEF Good, Core, Undecided, Pending, Credit, Sending
  <1>5. Start(w)' /\ Stream(w)' /\ Shows(w)'
    BY DEF Good, Core, Start, Stream, Shows, NewSession, Pending, Queued, Sess
  <1>6. Runs(w)'
    BY DEF Good, Core, Runs, Pending, Kept
  <1>7. Inserting(w)' /\ Quiet(w)'
    BY DEF Good, Core, Inserting, OnItsWay, Kept, Quiet, Untouched, Others
  <1>8. Hops(w)' /\ Found(w)' /\ Waiters(w)' /\ Cleaned(w)'
    BY DEF Good, Core, Hops, Late, AllLate, Found, Waiters, Waits, Cleaned, Sendable
  <1>9. Count(w)'
    <2>1. Started' = Started
      BY DEF Started, Credit
    <2>2. /\ Cardinality(Started) \in Nat /\ errors \in Nat /\ errors' \in Nat
          /\ w'.starts \in Nat
      BY <1>1, StartedFinite, Numbers, AiQueueAssumption DEF TypeOK
    <2> QED  BY <2>1, <2>2 DEF Good, Core, Count
  <1>10. Saved(w, dropped)' /\ Somewhere(w, dropped, None)'
    BY DEF Good, Core, Saved, Somewhere, Queued
  <1> QED
    BY <1>1, <1>2, <1>3, <1>4, <1>5, <1>6, <1>7, <1>8, <1>9, <1>10 DEF IInv, Good, Core

(* ... and an act of the user.                                              *)
LEMMA Acted ==
    ASSUME TypeOK, Good(w', dropped'), dropped' \in SUBSET Message,
           UNCHANGED <<run, chat, injected, events>>, UNCHANGED errors,
           refused' \in SUBSET Message, stops' \in SUBSET StreamId, acts' \in 0..MaxActs
    PROVE  IInv'
  <1>1. /\ events' \in Seq(Event)
        /\ \A i \in DOMAIN events' : \E j \in DOMAIN events : events'[i] = events[j]
    BY DEF TypeOK
  <1>2. errors' \in 0..MaxErrors /\ errors' >= errors
    BY AiQueueAssumption DEF TypeOK
  <1> QED  BY <1>1, <1>2, Stays

-----------------------------------------------------------------------------
(* The user's acts.                                                        *)

(* The acts are counted, failures are not.                                  *)
LEMMA ActBounded ==
    ASSUME TypeOK, Act
    PROVE  acts' \in 0..MaxActs /\ UNCHANGED errors
  BY AiQueueAssumption DEF TypeOK, Act

(* The types of the variables that the steps of the window seldom touch.    *)
LEMMA Kind ==
    ASSUME TypeOK
    PROVE  /\ dropped \in SUBSET Message /\ refused \in SUBSET Message
           /\ stops \in SUBSET StreamId /\ acts \in 0..MaxActs
           /\ \A m : refused \ {m} \in SUBSET Message
  BY DEF TypeOK

(* A draft is written: it is accounted for as the draft.                    *)
LEMMA WriteStays ==
    ASSUME IInv, Write
    PROVE  IInv'
  <1> DEFINE u == w'
             n == w.written + 1
  <1>1. TypeOK /\ Good(w, dropped) /\ w \in Scope
    BY DEF IInv, Good, Core
  <1>2. /\ w.written \in Nat /\ MaxMessages \in Nat /\ n \in Message /\ n \in 0..MaxMessages
        /\ n > w.written /\ None \notin Message
    <2>1. w.written \in Nat /\ MaxMessages \in Nat /\ w.written < MaxMessages
      BY <1>1, Numbers DEF Write
    <2> QED  BY <2>1, AiQueueAssumption DEF Message
  <1>3. /\ u \in Scope /\ u.input = n /\ u.written = n
        /\ u.active = w.active /\ u.loading = w.loading /\ u.stream = w.stream
        /\ u.starting = w.starting /\ u.reconciling = w.reconciling
        /\ u.resuming = w.resuming /\ u.unverified = w.unverified
        /\ u.starts = w.starts /\ u.known = w.known /\ u.queue = w.queue
        /\ u.inserting = w.inserting
    <2>1. u = [w EXCEPT !.input = n, !.written = n]
      BY DEF Write
    <2> HIDE DEF u, n
    <2> QED  BY <1>1, <1>2, <2>1 DEF Scope
  <1> HIDE DEF u, n
  <1>4. /\ Pending(u) <=> Pending(w)
        /\ NewSession(u) <=> NewSession(w)
        /\ Sess(u) = Sess(w) /\ Unique(w) /\ Unique(u)
        /\ \A m : Arrived(u, m) <=> Arrived(w, m)
        /\ \A m : Queued(u, m) <=> Queued(w, m)
        /\ \A m : Kept(u, m) <=> Kept(w, m)
        /\ \A m : Sending(u, m) <=> Sending(w, m)
        /\ OnItsWay(u) <=> OnItsWay(w)
        /\ Untouched(u) <=> Untouched(w)
        /\ Sendable(u) <=> Sendable(w)
    BY <1>1, <1>3 DEF Good, Core, Queued, Pending, NewSession, Sess, Arrived, Entries, Unique,
                Kept, Sending, OnItsWay, Untouched, Sendable
  <1>5. \A m \in Message : m <= w.written => m <= u.written /\ m # n
    BY <1>1, <1>2, <1>3 DEF Message
  <1>6. chat[n] = 0 /\ n \notin dropped /\ ~Queued(w, n)
    <2>1. chat[n] \in Nat /\ ~(chat[n] > 0)
      BY <1>1, <1>2 DEF TypeOK, Good, Core, Written
    <2>2. ~Queued(w, n)
      BY <1>1, <1>2 DEF Good, Core, Entries, Entry, Queued
    <2> QED  BY <1>1, <1>2, <2>1, <2>2 DEF Good, Core, Written
  <1>7. w.starting # None => w.starting.m # n
    BY <1>1, <1>2 DEF Good, Core, Start
  <1>8. Entries(u, dropped)
    <2> SUFFICES ASSUME NEW i \in DOMAIN w.queue
                 PROVE  Entry(u, dropped, w.queue[i])
      BY <1>3, <1>4 DEF Entries
    <2>1. w.queue[i].m \in Message
      BY <1>1, Items
    <2>2. Entry(w, dropped, w.queue[i])
      BY <1>1 DEF Good, Core, Entries
    <2> QED  BY <1>3, <1>4, <1>5, <2>1, <2>2 DEF Entry
  <1>9. Draft(u, dropped)
    BY <1>2, <1>3, <1>4, <1>6, <1>7 DEF Draft
  <1>10. Written(u, dropped)
    BY <1>1, <1>3, <1>5 DEF Good, Core, Written
  <1>11. Undecided(u, dropped) /\ Stream(u) /\ Shows(u)
    BY <1>1, <1>3, <1>4 DEF Good, Core, Undecided, Stream, Shows
  <1>12. Start(u)
    <2>1. u.starting # None => u.starting.m \in Message
      BY <1>3, Parts
    <2> QED  BY <1>1, <1>3, <1>4, <1>5, <2>1 DEF Good, Core, Start
  <1>13. Runs(u) /\ Inserting(u) /\ Quiet(u) /\ Hops(u) /\ Found(u)
    BY <1>1, <1>3, <1>4 DEF Good, Core, Runs, Inserting, Quiet, Hops, Found
  <1>14. Waiters(u) /\ Cleaned(u) /\ Count(u) /\ Saved(u, dropped)
    <2>1. \A x : Waits(w, x) => Waits(u, x)
      BY <1>3, <1>5 DEF Waits
    <2> QED  BY <1>1, <1>3, <1>4, <2>1 DEF Good, Core, Waiters, Cleaned, Count, Saved
  <1>15. Somewhere(u, dropped, None)
    <2> SUFFICES ASSUME NEW m \in 1..u.written
                 PROVE  \/ m = None
                        \/ chat[m] > 0 \/ m \in dropped
                        \/ Queued(u, m) \/ u.input = m
                        \/ u.starting # None /\ u.starting.m = m /\ ~u.starting.queued
      BY DEF Somewhere
    <2>1. m = n \/ m \in 1..w.written
      BY <1>2, <1>3 DEF n
    <2>2. CASE m = n
      BY <1>3, <2>2
    <2>3. CASE m \in 1..w.written
      <3>1. \/ m = None
            \/ chat[m] > 0 \/ m \in dropped
            \/ Queued(w, m) \/ w.input = m
            \/ w.starting # None /\ w.starting.m = m /\ ~w.starting.queued
        BY <1>1, <2>3 DEF Good, Somewhere
      <3>2. w.input = None
        BY DEF Write
      <3> QED  BY <1>3, <1>4, <3>1, <3>2
    <2> QED  BY <2>1, <2>2, <2>3
  <1>16. Good(u, dropped)
    BY <1>3, <1>8, <1>9, <1>10, <1>11, <1>12, <1>13, <1>14, <1>15 DEF Good, Core
  <1> QED  BY <1>1, <1>16, Acted, Kind DEF Write, u, backend, history

(* A stop is asked for.                                                     *)
LEMMA StopStays ==
    ASSUME IInv, stopAiMessage
    PROVE  IInv'
  <1>1. TypeOK /\ Good(w, dropped) /\ w \in Scope /\ w.stream # None
    BY DEF IInv, Good, Core, stopAiMessage
  <1> DEFINE s == [w.stream EXCEPT !.stop = TRUE]
             v == [w EXCEPT !.autoRun = FALSE, !.stream = s]
  <1>2. /\ s \in StreamState /\ s # None /\ s.id = w.stream.id /\ s.session = w.stream.session
        /\ s.ready = w.stream.ready /\ w.stream.id \in StreamId
    <2>1. w.stream \in StreamState /\ None \notin StreamState
      BY <1>1, Parts, AiQueueAssumption
    <2> QED  BY <2>1 DEF StreamState
  <1> HIDE DEF s
  <1>3. /\ v \in Scope /\ v.stream = s
        /\ v.active = w.active /\ v.loading = w.loading /\ v.input = w.input
        /\ v.starting = w.starting /\ v.reconciling = w.reconciling
        /\ v.resuming = w.resuming /\ v.unverified = w.unverified /\ v.written = w.written
        /\ v.starts = w.starts /\ v.known = w.known /\ v.queue = w.queue
        /\ v.inserting = w.inserting
    BY <1>1, <1>2 DEF Scope
  <1>4. w' = v
    BY DEF stopAiMessage, s
  <1> HIDE DEF v
  <1>5. /\ Pending(v) <=> Pending(w)
        /\ NewSession(v) <=> NewSession(w)
        /\ Sess(v) = Sess(w) /\ Unique(w) /\ Unique(v)
        /\ \A m : Arrived(v, m) <=> Arrived(w, m)
        /\ \A m : Queued(v, m) <=> Queued(w, m)
        /\ \A m : Kept(v, m) <=> Kept(w, m)
        /\ \A m : Sending(v, m) <=> Sending(w, m)
        /\ OnItsWay(v) <=> OnItsWay(w)
        /\ Untouched(v) <=> Untouched(w)
        /\ \A x : Waits(v, x) <=> Waits(w, x)
    BY <1>1, <1>2, <1>3 DEF Good, Core, Queued, Pending, NewSession, Sess, Arrived, Entries,
                Unique, Kept, Sending, OnItsWay, Untouched, Waits
  <1>6. Entries(v, dropped) /\ Draft(v, dropped) /\ Written(v, dropped)
    BY <1>1, <1>3, <1>5 DEF Good, Core, Entries, Entry, Draft, Written
  <1>7. Undecided(v, dropped) /\ Start(v) /\ Stream(v) /\ Shows(v)
    BY <1>1, <1>2, <1>3, <1>5 DEF Good, Core, Undecided, Start, Stream, Shows
  <1>8. Runs(v) /\ Inserting(v) /\ Quiet(v) /\ Hops(v) /\ Found(v)
    BY <1>1, <1>2, <1>3, <1>5 DEF Good, Core, Runs, Inserting, Quiet, Hops, Found
  <1>9. Waiters(v) /\ Cleaned(v) /\ Count(v) /\ Saved(v, dropped)
    BY <1>1, <1>2, <1>3, <1>5 DEF Good, Core, Waiters, Cleaned, Count, Saved
  <1>10. Somewhere(v, dropped, None)
    BY <1>1, <1>3, <1>5 DEF Good, Somewhere
  <1>11. Good(w', dropped)
    BY <1>3, <1>4, <1>6, <1>7, <1>8, <1>9, <1>10 DEF Good, Core
  <1>12. stops' \in SUBSET StreamId
    BY <1>1, <1>2, Kind DEF stopAiMessage
  <1>13. Act
    BY DEF stopAiMessage
  <1> QED  BY <1>1, <1>11, <1>12, <1>13, ActBounded, Acted, Kind DEF stopAiMessage

(* The draft is sent: started, queued or queued to be inserted at once.     *)
LEMMA SendStays ==
    ASSUME IInv, w.resuming = None, NEW immediate \in BOOLEAN, sendMessage(immediate)
    PROVE  IInv'
  <1> DEFINE m == w.input
             v == [w EXCEPT !.input = None]
  <1>1. TypeOK /\ Good(w, dropped) /\ w \in Scope /\ m # None /\ w.loading = None
    BY DEF IInv, Good, Core, sendMessage
  <1>2. /\ InHand(v, dropped, m)
        /\ v \in Scope /\ v.input = None /\ v.stream = w.stream /\ v.active = w.active
        /\ v.starting = w.starting /\ v.known = w.known /\ v.reconciling = w.reconciling
        /\ v.loading = w.loading /\ v.resuming = w.resuming
    BY <1>1, TakeDraft
  <1>3. /\ w.active = New /\ w.stream = None => w.known < MaxSessions
        /\ w' = IF w.stream = None THEN startAiMessage(v, m, w.active, FALSE)
                ELSE IF immediate /\ ~w.stream.stop
                THEN drainAiMessageQueue(ChangeItem(queueAiMessage(v, m), m, "queued", TRUE))
                ELSE queueAiMessage(v, m)
    BY DEF sendMessage
  <1> DEFINE q == queueAiMessage(v, m)
             c == ChangeItem(q, m, "queued", TRUE)
  <1> HIDE DEF v, m
  <1>4. ASSUME w.stream = None
        PROVE  Good(w', dropped)
    <2>1. Good(startAiMessage(v, m, v.active, FALSE), dropped)
      BY <1>1, <1>2, <1>3, <1>4, StartsDraft
    <2> QED  BY <1>2, <1>3, <1>4, <2>1
  <1>5. ASSUME w.stream # None
        PROVE  Good(w', dropped)
    <2>1. Good(q, dropped)
      BY <1>1, <1>2, <1>5, FollowUp
    <2>2. q.starting = v.starting /\ q.loading = v.loading /\ q.resuming = v.resuming
      BY <1>2 DEF queueAiMessage, Scope
    <2>3. q \in Scope
      BY <2>1 DEF Good, Core
    <2> HIDE DEF q
    <2>4. ~(Pending(q) /\ q.starting.m = m)
      BY <1>2, <2>2 DEF InHand, Pending
    <2>5. "queued" \in Status /\ TRUE \in BOOLEAN
      BY DEF Status
    <2>6. Good(c, dropped)
      BY <1>1, <2>1, <2>4, <2>5, ItemChanges
    <2>7. Rest(q, c)
      BY <2>3, <2>5, ItemChanged
    <2> HIDE DEF c
    <2>8. MayDrain(c)
      BY <1>1, <1>2, <2>2, <2>7 DEF MayDrain, Rest
    <2>9. Good(drainAiMessageQueue(c), dropped)
      BY <1>1, <2>6, <2>8, Drains
    <2> QED  BY <1>3, <1>5, <2>1, <2>9 DEF q, c
  <1>6. refused' \in SUBSET Message
    BY <1>1, Kind DEF sendMessage
  <1> QED  BY <1>1, <1>4, <1>5, <1>6, Acted, Kind DEF sendMessage, backend

(* What is on its way to the history cannot be touched.                      *)
LEMMA OnlyEntry ==
    ASSUME NEW v, NEW m, Good(v, dropped), Queued(v, m)
    PROVE  \E i \in DOMAIN v.queue :
              /\ v.queue[i].m = m /\ ItemOf(v, m) = v.queue[i]
              /\ Entry(v, dropped, v.queue[i])
              /\ \A j \in DOMAIN v.queue : v.queue[j].m = m => j = i
  <1>1. v \in Scope /\ Unique(v)
    BY DEF Good, Core, Entries
  <1>2. PICK i \in DOMAIN v.queue : v.queue[i].m = m /\ ItemOf(v, m) = v.queue[i]
    BY <1>1, TheItem
  <1> QED  BY <1>1, <1>2 DEF Good, Core, Entries, Unique

(* An entry is sent: started, checked first, or inserted.                   *)
LEMMA SendNowStays ==
    ASSUME IInv, w.resuming = None,
           NEW m \in Message, sendQueuedAiMessageNow(m)
    PROVE  IInv'
  <1>1. TypeOK /\ Good(w, dropped) /\ w \in Scope /\ Queued(w, m)
    BY DEF IInv, Good, Core, sendQueuedAiMessageNow
  <1>2. PICK i \in DOMAIN w.queue :
           /\ w.queue[i].m = m /\ ItemOf(w, m) = w.queue[i]
           /\ Entry(w, dropped, w.queue[i])
           /\ \A j \in DOMAIN w.queue : w.queue[j].m = m => j = i
    BY <1>1, OnlyEntry
  <1> DEFINE it == w.queue[i]
             x == [kind |-> "send", session |-> it.session, finished |-> FALSE,
                   m |-> m, active |-> w.active, hops |-> 0]
             c == ChangeItem(w, m, "queued", TRUE)
  <1>3. /\ it.session = w.active /\ it.status \notin {"sending", "accepted"}
        /\ \/ /\ w.stream = None
              /\ w' = IF it.ins # None \/ w.reconciling # None
                      THEN reconcileAiMessageQueue(w, x)
                      ELSE startAiMessage(w, m, it.session, TRUE)
           \/ w.stream # None /\ w' = drainAiMessageQueue(c)
    BY <1>2 DEF sendQueuedAiMessageNow
  <1>4. ASSUME w.stream = None /\ (it.ins # None \/ w.reconciling # None)
        PROVE  Good(w', dropped)
    <2>1. x \in Waiter /\ x.session = it.session /\ x.kind = "send" /\ x.m = m
      BY <1>1, <1>2, Items, Fields DEF Waiter
    <2> HIDE DEF x
    <2>2. ~NewSession(w)
      BY <1>1, <1>4 DEF Good, Core, Undecided, NewSession
    <2>3. it.session \in 1..w.known \cup {New} /\ m <= w.written
      BY <1>2, <2>2 DEF Entry, Sess
    <2>4. m # w.input
      <3>1. None \notin Message
        BY AiQueueAssumption
      <3> QED  BY <1>1, <3>1 DEF Good, Core, Draft
    <2>5. w.starting # None /\ ~w.starting.queued => w.starting.m # m
      BY <1>1 DEF Good, Core, Start
    <2>6. Waits(w, x)
      BY <1>2, <2>1, <2>3, <2>4, <2>5 DEF Waits
    <2>7. Good(reconcileAiMessageQueue(w, x), dropped)
      BY <1>1, <1>4, <2>1, <2>6, Reconciles
    <2> QED  BY <1>3, <1>4, <2>7
  <1>5. ASSUME w.stream = None /\ ~(it.ins # None \/ w.reconciling # None)
        PROVE  Good(w', dropped)
    <2>1. Good(startAiMessage(w, w.queue[i].m, w.queue[i].session, TRUE), dropped)
      BY <1>1, <1>5, StartsQueued
    <2> QED  BY <1>2, <1>3, <1>5, <2>1
  <1>6. ASSUME w.stream # None
        PROVE  Good(w', dropped)
    <2>1. "queued" \in Status /\ TRUE \in BOOLEAN
      BY DEF Status
    <2>2. \A j \in DOMAIN w.queue : w.queue[j].m = m => w.queue[j].status # "sending"
      BY <1>2, <1>3
    <2>3. Good(c, dropped)
      BY <1>1, <2>1, <2>2, ItemChanges
    <2>4. Rest(w, c)
      BY <1>1, <2>1, ItemChanged
    <2> HIDE DEF c
    <2>5. MayDrain(c)
      BY <2>4 DEF MayDrain, Rest
    <2>6. Good(drainAiMessageQueue(c), dropped)
      BY <1>1, <2>3, <2>5, Drains
    <2> QED  BY <1>3, <1>6, <2>6
  <1>7. Good(w', dropped)
    BY <1>4, <1>5, <1>6
  <1>8. refused' \in SUBSET Message /\ Act
    BY <1>1, Kind DEF sendQueuedAiMessageNow
  <1> QED
    BY <1>1, <1>7, <1>8, ActBounded, Acted, Kind DEF sendQueuedAiMessageNow, backend

(* An entry is deleted: nothing of it is under way, so it stays out of the history. *)
LEMMA DeleteStays ==
    ASSUME IInv, NEW m \in Message, DeleteEntry(m)
    PROVE  IInv'
  <1>1. TypeOK /\ Good(w, dropped) /\ w \in Scope /\ Queued(w, m)
    BY DEF IInv, Good, Core, DeleteEntry
  <1>2. PICK i \in DOMAIN w.queue :
           /\ w.queue[i].m = m /\ ItemOf(w, m) = w.queue[i]
           /\ Entry(w, dropped, w.queue[i])
           /\ \A j \in DOMAIN w.queue : w.queue[j].m = m => j = i
    BY <1>1, OnlyEntry
  <1>3. w.queue[i].status # "sending" /\ w.queue[i].ins = None
    BY <1>2 DEF DeleteEntry, canEditAiQueuedMessage
  <1>4. Kept(w, m) => m \in injected
    BY <1>2, <1>3 DEF Kept
  <1>5. NotUnderWay(w, {m})
    BY <1>1, <1>4 DEF NotUnderWay, Good, Core, Runs, Inserting
  <1>6. Pending(w) => w.starting.m # m \/ w.starting.m \in w.unverified
    <2>1. Sending(w, m) => FALSE
      BY <1>2, <1>3 DEF Sending
    <2>2. Pending(w) /\ w.starting.m = m => w.starting.queued
      BY <1>1 DEF Good, Core, Start, Pending
    <2> QED  BY <1>1, <2>1, <2>2 DEF Good, Core, Undecided
  <1> DEFINE new == IF chat[m] = 0 THEN {m} ELSE {}
  <1>7. /\ new \in SUBSET Message /\ chat[m] \in Nat
        /\ \A k \in new : Queued(w, k) /\ k \in {m} /\ chat[k] = 0
    BY <1>1 DEF TypeOK
  <1>8. \A k \in {m} : Queued(w, k) => chat[k] > 0 \/ k \in new
    BY <1>7
  <1>9. dropped' = dropped \cup new
    BY DEF DeleteEntry
  <1> HIDE DEF new
  <1>10. Good(Without(w, {m}), dropped \cup new)
    BY <1>1, <1>5, <1>6, <1>7, <1>8, Leave
  <1>11. Good(w', dropped') /\ dropped' \in SUBSET Message /\ Act
    BY <1>1, <1>7, <1>9, <1>10, Kind DEF DeleteEntry
  <1> QED  BY <1>1, <1>11, ActBounded, Acted, Kind DEF DeleteEntry, backend

(* An edited entry is no longer a failed one.                               *)
LEMMA EditStays ==
    ASSUME IInv, NEW m \in Message, EditEntry(m)
    PROVE  IInv'
  <1>1. TypeOK /\ Good(w, dropped) /\ Queued(w, m)
    BY DEF IInv, EditEntry
  <1>2. PICK i \in DOMAIN w.queue :
           /\ w.queue[i].m = m /\ ItemOf(w, m) = w.queue[i]
           /\ \A j \in DOMAIN w.queue : w.queue[j].m = m => j = i
    BY <1>1, OnlyEntry
  <1>3. \A j \in DOMAIN w.queue : w.queue[j].m = m => w.queue[j].status # "sending"
    BY <1>2 DEF EditEntry
  <1>4. "queued" \in Status /\ FALSE \in BOOLEAN
    BY DEF Status
  <1>5. Good(ChangeItem(w, m, "queued", FALSE), dropped)
    BY <1>1, <1>3, <1>4, ItemChanges
  <1>6. Good(w', dropped) /\ refused' \in SUBSET Message /\ Act
    BY <1>1, <1>5, Kind DEF EditEntry
  <1> QED  BY <1>1, <1>6, ActBounded, Acted, Kind DEF EditEntry, backend

(* Another session is shown, or asked for.                                  *)
LEMMA Moves ==
    ASSUME TypeOK, NEW v, Good(v, dropped),
           NEW active \in Shown, NEW loading \in Session \cup {None},
           active \in Sess(v), loading # None => loading <= v.known,
           v.stream # None => active # New,
           v.starting # None /\ ~v.starting.queued /\ v.stream # None =>
               loading = None /\ active = v.active,
           NEW u, u = [v EXCEPT !.active = active, !.loading = loading]
    PROVE  /\ Good(u, dropped) /\ u.input = v.input /\ u.stream = v.stream
           /\ u.resuming = v.resuming
  <1>1. v \in Scope
    BY DEF Good, Core
  <1>2. /\ u \in Scope /\ u.active = active /\ u.loading = loading /\ u.stream = v.stream
        /\ u.starting = v.starting /\ u.reconciling = v.reconciling /\ u.input = v.input
        /\ u.resuming = v.resuming /\ u.unverified = v.unverified /\ u.written = v.written
        /\ u.starts = v.starts /\ u.known = v.known /\ u.queue = v.queue
        /\ u.inserting = v.inserting
    BY <1>1 DEF Scope
  <1>3. /\ Pending(u) <=> Pending(v)
        /\ NewSession(u) <=> NewSession(v)
        /\ Sess(u) = Sess(v) /\ Unique(v) /\ Unique(u)
        /\ \A m : Arrived(u, m) <=> Arrived(v, m)
        /\ \A m : Queued(u, m) <=> Queued(v, m)
        /\ \A m : Kept(u, m) <=> Kept(v, m)
        /\ \A m : Sending(u, m) <=> Sending(v, m)
        /\ \A x : Waits(u, x) <=> Waits(v, x)
        /\ OnItsWay(u) <=> OnItsWay(v)
        /\ Untouched(u) <=> Untouched(v)
        /\ Sendable(u) <=> Sendable(v)
    BY <1>2 DEF Good, Core, Queued, Pending, NewSession, Sess, Arrived, Entries, Unique, Kept,
                Sending, Waits, OnItsWay, Untouched, Sendable
  <1>4. Entries(u, dropped) /\ Draft(u, dropped) /\ Written(u, dropped)
    BY <1>2, <1>3 DEF Good, Core, Entries, Entry, Draft, Written
  <1>5. Undecided(u, dropped) /\ Start(u)
    BY <1>2, <1>3 DEF Good, Core, Undecided, Start
  <1>6. Stream(u) /\ Shows(u)
    BY <1>2, <1>3 DEF Good, Core, Stream, Shows
  <1>7. Runs(u) /\ Inserting(u) /\ Quiet(u) /\ Hops(u) /\ Found(u)
    BY <1>2, <1>3 DEF Good, Core, Runs, Inserting, Quiet, Hops, Found
  <1>8. Waiters(u) /\ Cleaned(u) /\ Count(u) /\ Saved(u, dropped)
    BY <1>2, <1>3 DEF Good, Core, Waiters, Cleaned, Count, Saved
  <1>9. Somewhere(u, dropped, None)
    BY <1>2, <1>3 DEF Good, Somewhere
  <1> QED
    BY <1>2, <1>4, <1>5, <1>6, <1>7, <1>8, <1>9 DEF Good, Core

(* A session is opened, when no reply runs.                                 *)
LEMMA OpenStays ==
    ASSUME IInv, w.resuming = None, NEW s \in Session, openSession(s)
    PROVE  IInv'
  <1>1. TypeOK /\ Good(w, dropped) /\ w \in Scope
    BY DEF IInv, Good, Core
  <1>2. w' = [w EXCEPT !.active = w.active, !.loading = s]
    <2>1. w = [w EXCEPT !.active = w.active]
      BY <1>1 DEF Scope
    <2>2. w' = [w EXCEPT !.loading = s]
      BY DEF openSession
    <2> QED  BY <1>1, <2>1, <2>2 DEF Scope
  <1>3. /\ w.active \in Shown /\ w.active \in Sess(w) /\ s <= w.known /\ w.stream = None
    BY <1>1, Fields DEF Good, Core, Stream, openSession
  <1>4. Good(w', dropped)
    BY <1>1, <1>2, <1>3, Moves
  <1>5. Act
    BY DEF openSession
  <1> QED
    BY <1>1, <1>4, <1>5, ActBounded, Acted, Kind DEF openSession, backend, history

(* The session that was opened is shown.                                    *)
LEMMA LoadedStays ==
    ASSUME IInv, w.resuming = None, SessionLoaded
    PROVE  IInv'
  <1>1. TypeOK /\ Good(w, dropped) /\ w \in Scope /\ w.loading # None
    BY DEF IInv, Good, Core, SessionLoaded
  <1>2. w.loading \in Session /\ w.loading \in Shown /\ w.loading # New
    BY <1>1, Fields, AiQueueAssumption DEF Shown
  <1>3. w.loading <= w.known /\ w.loading \in Sess(w)
    <2>1. w.loading <= w.known
      BY <1>1 DEF Good, Core, Stream
    <2>2. w.loading \in 1..w.known
      BY <1>1, <1>2, <2>1, Numbers DEF Session
    <2> QED  BY <2>1, <2>2 DEF Sess
  <1>4. ~(w.starting # None /\ ~w.starting.queued /\ w.stream # None)
    BY <1>1 DEF Good, Core, Shows
  <1>5. w' = [w EXCEPT !.active = w.loading, !.loading = None]
    BY <1>1 DEF SessionLoaded, Scope
  <1>6. Good(w', dropped)
    <2> DEFINE l == w.loading
    <2>1. w' = [w EXCEPT !.active = l, !.loading = None]
      BY <1>5
    <2>2. l \in Shown /\ l \in Sess(w) /\ l # New
      BY <1>2, <1>3, <1>4
    <2> HIDE DEF l
    <2> QED  BY <1>1, <1>4, <2>1, <2>2, Moves
  <1> QED
    BY <1>1, <1>6, Acted, Kind DEF SessionLoaded, backend, history

(* The message in hand is deleted.                                          *)
LEMMA DraftDropped ==
    ASSUME NEW v, NEW m, InHand(v, dropped, m), v.stream = None, v.input = None
    PROVE  Good(v, dropped \cup {m})
  <1> DEFINE d == dropped \cup {m}
  <1>1. v \in Scope /\ Core(v, dropped) /\ m \in Message
    BY DEF InHand, Core
  <1>2. Entries(v, d)
    <2> SUFFICES ASSUME NEW i \in DOMAIN v.queue
                 PROVE  Entry(v, d, v.queue[i])
      BY <1>1 DEF Core, Entries
    <2>1. Entry(v, dropped, v.queue[i]) /\ v.queue[i].m # m
      BY <1>1 DEF Core, Entries, InHand, Queued
    <2> QED  BY <2>1 DEF Entry
  <1>3. Draft(v, d) /\ Written(v, d) /\ Saved(v, d)
    BY <1>1 DEF Core, Draft, Written, Saved, InHand
  <1>4. Undecided(v, d)
    BY <1>1 DEF Core, Undecided
  <1>5. Somewhere(v, d, None)
    BY DEF InHand, Somewhere
  <1> QED  BY <1>1, <1>2, <1>3, <1>4, <1>5 DEF Good, Core

(* A new chat begins, and the draft is gone with the old one.               *)
LEMMA NewChatStays ==
    ASSUME IInv, w.resuming = None, startNewSession
    PROVE  IInv'
  <1>1. TypeOK /\ Good(w, dropped) /\ w \in Scope /\ w.stream = None
    BY DEF IInv, Good, Core, startNewSession
  <1> DEFINE v == [w EXCEPT !.active = New, !.loading = w.loading]
             u == [v EXCEPT !.input = None]
  <1>2. /\ New \in Shown /\ New \in Sess(w) /\ w.loading \in Session \cup {None}
        /\ w.loading # None => w.loading <= w.known
    BY <1>1, Fields DEF Shown, Sess, Good, Core, Stream
  <1>3. Good(v, dropped) /\ v.input = w.input /\ v.stream = None
    <2> DEFINE l == w.loading
    <2>1. v = [w EXCEPT !.active = New, !.loading = l]
      OBVIOUS
    <2>2. l \in Session \cup {None} /\ (l # None => l <= w.known)
      BY <1>2
    <2> DEFINE a == New
    <2>3. /\ v = [w EXCEPT !.active = a, !.loading = l]
          /\ a \in Shown /\ a \in Sess(w)
      BY <1>2, <2>1
    <2> HIDE DEF l, v, a
    <2> QED  BY <1>1, <2>2, <2>3, Moves, ZenonT(60)
  <1>4. v \in Scope
    BY <1>3 DEF Good, Core
  <1>5. w' = u
    BY <1>1 DEF startNewSession, Scope
  <1>6. dropped' = dropped \cup ({w.input} \ {None})
    BY DEF startNewSession
  <1> HIDE DEF v
  <1>7. CASE w.input = None
    <2>1. u = v
      BY <1>3, <1>4, <1>7 DEF Scope
    <2>2. dropped' = dropped
      BY <1>6, <1>7
    <2>3. Good(w', dropped') /\ dropped' \in SUBSET Message /\ Act
      BY <1>1, <1>3, <1>5, <2>1, <2>2, Kind DEF startNewSession
    <2> QED  BY <1>1, <2>3, ActBounded, Acted, Kind DEF startNewSession, backend
  <1>8. CASE w.input # None
    <2>1. InHand(u, dropped, w.input) /\ u.input = None /\ u.stream = None
      BY <1>1, <1>3, <1>8, TakeDraft
    <2>2. dropped' = dropped \cup {w.input}
      BY <1>6, <1>8
    <2> HIDE DEF u
    <2>3. Good(u, dropped \cup {w.input}) /\ w.input \in Message
      BY <2>1, DraftDropped DEF InHand
    <2>4. Good(w', dropped') /\ dropped' \in SUBSET Message /\ Act
      BY <1>1, <1>5, <2>2, <2>3, Kind DEF startNewSession
    <2> QED  BY <1>1, <2>4, ActBounded, Acted, Kind DEF startNewSession, backend
  <1> QED  BY <1>7, <1>8

-----------------------------------------------------------------------------
(* The answers that the window gets.                                        *)

(* What failed is some of the messages.                                     *)
LEMMA ToldOf ==
    ASSUME TypeOK, Told
    PROVE  refused' \in SUBSET Message
  BY DEF TypeOK, Told, Failed

(* A step of the window after which the next message may be sent.            *)
LEMMA Answered ==
    ASSUME TypeOK, Good(w', dropped), Told, UNCHANGED <<run, chat, injected, events>>,
           UNCHANGED <<dropped, acts, errors>>, stops' \in SUBSET StreamId
    PROVE  IInv'
  <1>1. refused' \in SUBSET Message /\ dropped' = dropped /\ acts' \in 0..MaxActs
    BY ToldOf, Kind
  <1> QED  BY <1>1, Acted, Kind

StopPhase == {"stopping", "stopped"}

(* A scope with another stream and another start.                           *)
LEMMA StreamAndStart ==
    ASSUME NEW v \in Scope, NEW str \in StreamState \cup {None},
           NEW st \in StartState \cup {None},
           NEW u, u = [v EXCEPT !.stream = str, !.starting = st]
    PROVE  /\ u \in Scope /\ u.stream = str /\ u.starting = st
           /\ u.active = v.active /\ u.loading = v.loading /\ u.input = v.input
           /\ u.reconciling = v.reconciling
           /\ u.resuming = v.resuming /\ u.unverified = v.unverified /\ u.written = v.written
           /\ u.starts = v.starts /\ u.known = v.known /\ u.queue = v.queue
           /\ u.inserting = v.inserting
  BY DEF Scope

(* The stream is ready, and the start is over or waits for the stop that was  *)
(* asked for.                                                              *)
Acks(v, str, st) ==
    /\ str \in StreamState \cup {None} /\ (str = None <=> v.stream = None)
    /\ str # None => /\ str.id = v.stream.id /\ str.session = v.stream.session
                     /\ str.ready
    /\ st \in StartState \cup {None}
    /\ st # None => /\ st.id = v.starting.id /\ st.m = v.starting.m
                    /\ st.wanted = v.starting.wanted
                    /\ st.session = v.starting.session
                    /\ st.queued = v.starting.queued
                    /\ st.phase \in {"stopping", "stopped"}

(* A start that is acknowledged makes the stream ready, a stop may be on its way. *)
LEMMA ReadyOrStopping ==
    ASSUME NEW v \in Scope, v.starting # None,
           NEW str, str = IF v.stream = None THEN None ELSE [v.stream EXCEPT !.ready = TRUE],
           NEW phase \in StopPhase
    PROVE  /\ Acks(v, str, None)
           /\ Acks(v, str, [v.starting EXCEPT !.phase = phase])
  <1>1. v.starting \in StartState
    BY Parts
  <1>2. /\ str \in StreamState \cup {None} /\ (str = None <=> v.stream = None)
        /\ str # None => /\ str.id = v.stream.id /\ str.session = v.stream.session
                         /\ str.ready
    <2>1. None \notin StreamState /\ v.stream \in StreamState \cup {None}
      BY Fields, AiQueueAssumption
    <2>2. v.stream \in StreamState => [v.stream EXCEPT !.ready = TRUE] \in StreamState
      BY DEF StreamState
    <2> QED  BY <2>1, <2>2 DEF StreamState
  <1>3. ASSUME NEW st, st = [v.starting EXCEPT !.phase = phase]
        PROVE  /\ st \in StartState
               /\ st.id = v.starting.id /\ st.m = v.starting.m
               /\ st.wanted = v.starting.wanted
               /\ st.session = v.starting.session
               /\ st.queued = v.starting.queued
               /\ st.phase \in {"stopping", "stopped"}
    BY <1>1, <1>3 DEF StartState, StopPhase
  <1> QED  BY <1>2, <1>3 DEF Acks

(* A start that is in the history is over for the window, or waits for its stop. *)
LEMMA Acknowledged ==
    ASSUME TypeOK, NEW v, Good(v, dropped), v.starting # None, v.resuming = None,
           ~Pending(v), ~Queued(v, v.starting.m),
           NEW str \in StreamState \cup {None}, NEW st \in StartState \cup {None}, Acks(v, str, st),
           NEW u, u = [v EXCEPT !.stream = str, !.starting = st]
    PROVE  Good(u, dropped) /\ u.loading = v.loading /\ u.resuming = None
  <1>1. v \in Scope /\ v.starting \in StartState /\ v.starting.queued \in BOOLEAN
    BY Parts DEF Good, Core
  <1>2. /\ str \in StreamState \cup {None} /\ (str = None <=> v.stream = None)
        /\ str # None => /\ str.id = v.stream.id /\ str.session = v.stream.session
                         /\ str.ready
    BY DEF Acks
  <1>3. /\ st \in StartState \cup {None}
        /\ st # None => /\ st.id = v.starting.id /\ st.m = v.starting.m
                        /\ st.wanted = v.starting.wanted
                        /\ st.session = v.starting.session
                        /\ st.queued = v.starting.queued
                        /\ st.phase \in {"stopping", "stopped"}
    BY DEF Acks
  <1>4. /\ u \in Scope /\ u.stream = str /\ u.starting = st
        /\ u.active = v.active /\ u.loading = v.loading /\ u.input = v.input
        /\ u.reconciling = v.reconciling
        /\ u.resuming = v.resuming /\ u.unverified = v.unverified /\ u.written = v.written
        /\ u.starts = v.starts /\ u.known = v.known /\ u.queue = v.queue
        /\ u.inserting = v.inserting
    BY <1>1, ZenonT(60) DEF Scope
  <1>5. ~Pending(u) /\ ~Pending(v) /\ ~NewSession(u) /\ ~NewSession(v)
    BY <1>3, <1>4 DEF Pending, NewSession
  <1>6. /\ Sess(u) = Sess(v) /\ Unique(v) /\ Unique(u)
        /\ \A m : Queued(u, m) <=> Queued(v, m)
        /\ \A m : Kept(u, m) <=> Kept(v, m)
        /\ OnItsWay(u) <=> OnItsWay(v)
    BY <1>4, <1>5 DEF Good, Core, Queued, Sess, Entries, Unique, Kept, OnItsWay
  <1>7. v.stream # None => (Untouched(u) <=> Untouched(v))
    <2>1. v.stream # None => u.stream.id = v.stream.id /\ u.inserting = v.inserting
      BY <1>2, <1>4
    <2> QED  BY <2>1 DEF Untouched
  <1>8. chat[v.starting.m] > 0
    BY <1>5 DEF Good, Core, Start
  <1>9. Entries(u, dropped)
    <2> SUFFICES ASSUME NEW i \in DOMAIN v.queue
                 PROVE  Entry(u, dropped, v.queue[i])
      BY <1>4, <1>6 DEF Entries
    <2>1. Entry(v, dropped, v.queue[i]) /\ ~Arrived(v, v.queue[i].m)
      BY DEF Good, Core, Entries, Arrived, Queued
    <2> QED  BY <1>4, <1>5, <1>6, <2>1 DEF Entry
  <1>10. Draft(u, dropped) /\ Written(u, dropped)
    BY <1>3, <1>4, <1>6 DEF Good, Core, Draft, Written
  <1>11. Undecided(u, dropped) /\ Start(u)
    BY <1>1, <1>2, <1>3, <1>4, <1>5, <1>6 DEF Good, Core, Undecided, Start
  <1>12. Stream(u) /\ Shows(u)
    <2>1. Stream(u)
      BY <1>2, <1>4, <1>6 DEF Good, Core, Stream
    <2>2. Shows(v)
      BY DEF Good, Core
    <2> QED  BY <1>2, <1>3, <1>4, <2>1, <2>2 DEF Shows
  <1>13. Runs(u) /\ Inserting(u)
    BY <1>2, <1>4, <1>5, <1>6 DEF Good, Core, Runs, Inserting
  <1>14. Quiet(u)
    BY <1>2, <1>4, <1>7 DEF Good, Core, Quiet
  <1>15. Hops(u) /\ Found(u)
    BY <1>2, <1>4 DEF Good, Core, Hops, Found
  <1>16. Waiters(u) /\ Cleaned(u)
    <2>1. \A x : Waits(v, x) => Waits(u, x)
      BY <1>3, <1>4 DEF Waits
    <2> QED  BY <1>4, <2>1 DEF Good, Core, Waiters, Cleaned
  <1>17. Count(u)
    <2>1. /\ ~(v.starting # None /\ v.starting.phase = "sent")
          /\ ~(u.starting # None /\ u.starting.phase = "sent")
      BY <1>5 DEF Pending
    <2> QED  BY <1>4, <2>1 DEF Good, Core, Count
  <1>18. Saved(u, dropped)
    BY <1>4 DEF Good, Core, Saved
  <1>19. Somewhere(u, dropped, None)
    BY <1>4, <1>6, <1>8 DEF Good, Somewhere
  <1> QED
    BY <1>4, <1>9, <1>10, <1>11, <1>12, <1>13, <1>14, <1>15, <1>16, <1>17, <1>18, <1>19
       DEF Good, Core

(* The entry of a start that has reached the history leaves.                  *)
LEMMA StartedLeaves ==
    ASSUME TypeOK, NEW v, Good(v, dropped), v.starting # None, v.starting.phase = "ok",
           NEW u, u = IF v.starting.queued THEN Without(v, {v.starting.m}) ELSE v
    PROVE  Good(u, dropped) /\ Rest(v, u) /\ ~Queued(u, v.starting.m)
  <1>1. v \in Scope
    BY DEF Good, Core
  <1> DEFINE m == v.starting.m
  <1>2. ~Pending(v) /\ chat[m] > 0
    BY DEF Good, Core, Pending, Start
  <1>3. NotUnderWay(v, {m})
    <2>1. run # None => v.stream # None /\ v.stream.id = run.id
      BY DEF Good, Core, Runs
    <2>2. v.stream # None => ~v.stream.ready
      BY DEF Good, Core, Start
    <2>3. run # None => Untouched(v)
      BY <2>1, <2>2 DEF Good, Core, Quiet
    <2> QED  BY <2>1, <2>3 DEF NotUnderWay, Untouched, OnItsWay
  <1>4. CASE v.starting.queued
    <2>1. Good(Without(v, {m}), dropped \cup {})
      BY <1>2, <1>3, Leave
    <2>2. dropped \cup {} = dropped
      OBVIOUS
    <2>3. Rest(v, Without(v, {m})) /\ ~Queued(Without(v, {m}), m)
      BY <1>1, Removed
    <2> QED  BY <1>4, <2>1, <2>2, <2>3
  <1>5. CASE ~v.starting.queued
    <2>1. ~Queued(v, m) /\ u = v
      BY <1>5 DEF Good, Core, Start
    <2> QED  BY <2>1 DEF Rest
  <1> QED  BY <1>4, <1>5

(* The start is acknowledged: its entry leaves, or is where the draft went. *)
LEMMA AckStays ==
    ASSUME IInv, w.resuming = None, StartAcknowledged
    PROVE  IInv'
  <1> DEFINE st == w.starting
             u == IF st.queued THEN Without(w, {st.m}) ELSE w
             v == IF OnStream(u, st.id) THEN [u EXCEPT !.stream.ready = TRUE] ELSE u
             str == IF u.stream = None THEN None ELSE [u.stream EXCEPT !.ready = TRUE]
             end == [u EXCEPT !.stream = str, !.starting = None]
             stop == [u.starting EXCEPT !.phase = "stopping"]
             wait == [u EXCEPT !.stream = str, !.starting = stop]
  <1>1. TypeOK /\ Good(w, dropped) /\ st # None /\ st.phase = "ok" /\ st.id \in StreamId
    BY Parts DEF IInv, StartAcknowledged, Good, Core
  <1>2. \/ /\ w' = [v EXCEPT !.starting.phase = "stopping"]
           /\ stops' = stops \cup {st.id}
        \/ w' = drainAiMessageQueue([v EXCEPT !.starting = None]) /\ stops' = stops
    BY DEF StartAcknowledged
  <1>3. Good(u, dropped) /\ Rest(w, u) /\ ~Queued(u, st.m)
    BY <1>1, StartedLeaves
  <1> HIDE DEF u
  <1>4. u \in Scope /\ u.starting = st /\ ~Pending(u) /\ (u.stream # None => u.stream.id = st.id)
    BY <1>1, <1>3 DEF Good, Core, Rest, Start, Pending
  <1>5. v = [u EXCEPT !.stream = str]
    BY <1>4 DEF Scope, OnStream
  <1>6. /\ [v EXCEPT !.starting = None] = end
        /\ [v EXCEPT !.starting.phase = "stopping"] = wait
    BY <1>4, <1>5 DEF Scope
  <1>7. Acks(u, str, None) /\ Acks(u, str, stop)
    <2>1. "stopping" \in StopPhase
      BY DEF StopPhase
    <2> QED  BY <1>1, <1>4, <2>1, ReadyOrStopping
  <1>8. /\ str \in StreamState \cup {None} /\ None \in StartState \cup {None}
        /\ stop \in StartState \cup {None}
    BY <1>7 DEF Acks
  <1>9. u.resuming = None /\ u.loading = w.loading /\ ~Queued(u, u.starting.m)
    BY <1>3, <1>4 DEF Rest
  <1> HIDE DEF str, stop, v
  <1>10. Good(end, dropped) /\ MayDrain(end)
    <2> DEFINE over == None
    <2>2. /\ end = [u EXCEPT !.stream = str, !.starting = over]
          /\ Acks(u, str, over) /\ over \in StartState \cup {None}
      BY <1>7, <1>8
    <2> HIDE DEF over, end
    <2>3. Good(end, dropped)
      BY <1>1, <1>3, <1>4, <1>8, <1>9, <2>2, Acknowledged
    <2>1. Good(end, dropped) /\ end.loading = u.loading /\ end.resuming = None
      BY <1>4, <1>9, <2>2, <2>3 DEF Scope
    <2> QED  BY <1>9, <2>1 DEF MayDrain
  <1>11. Good(wait, dropped)
    BY <1>1, <1>3, <1>4, <1>7, <1>8, <1>9, Acknowledged
  <1> HIDE DEF end, wait
  <1>12. Good(drainAiMessageQueue(end), dropped)
    BY <1>1, <1>10, Drains
  <1>13. Good(w', dropped) /\ stops' \in SUBSET StreamId
    BY <1>1, <1>2, <1>6, <1>11, <1>12, Kind
  <1> QED  BY <1>1, <1>13, Answered DEF StartAcknowledged

(* The stop of an acknowledged start is acknowledged.                       *)
LEMMA StoppedStays ==
    ASSUME IInv, w.resuming = None, StartStopped
    PROVE  IInv'
  <1> DEFINE str == IF w.stream = None THEN None ELSE [w.stream EXCEPT !.ready = TRUE]
             end == [w EXCEPT !.stream = str, !.starting = None]
  <1>1. TypeOK /\ Good(w, dropped) /\ w \in Scope /\ w.starting # None
        /\ w.starting.phase = "stopped"
    BY DEF IInv, StartStopped, Good, Core
  <1>2. w' = drainAiMessageQueue([w EXCEPT !.starting = None])
    BY DEF StartStopped
  <1>3. ~Pending(w) /\ ~Queued(w, w.starting.m)
    BY <1>1 DEF Pending, Good, Core, Start
  <1>4. Acks(w, str, None)
    <2>1. "stopping" \in StopPhase
      BY DEF StopPhase
    <2> QED  BY <1>1, <2>1, ReadyOrStopping
  <1>5. str \in StreamState \cup {None} /\ None \in StartState \cup {None}
    BY <1>4 DEF Acks
  <1>6. str = w.stream
    <2>1. w.stream # None => w.stream \in StreamState /\ w.stream.ready = TRUE
      BY <1>1, Parts DEF Good, Core, Start
    <2> QED  BY <2>1 DEF StreamState
  <1>7. end = [w EXCEPT !.starting = None]
    BY <1>1, <1>6 DEF Scope
  <1> HIDE DEF str
  <1>8. Good(end, dropped) /\ end.loading = w.loading /\ end.resuming = None
    <2> DEFINE over == None
    <2>1. /\ end = [w EXCEPT !.stream = str, !.starting = over]
          /\ Acks(w, str, over) /\ over \in StartState \cup {None}
      BY <1>4, <1>5
    <2> HIDE DEF over, end
    <2>2. Good(end, dropped)
      BY <1>1, <1>3, <1>5, <2>1, Acknowledged
    <2> QED  BY <1>1, <2>1, <2>2 DEF Scope
  <1> HIDE DEF end
  <1>9. Good(drainAiMessageQueue(end), dropped)
    BY <1>1, <1>8, Drains DEF MayDrain
  <1>10. Good(w', dropped)
    BY <1>2, <1>7, <1>9
  <1> QED  BY <1>1, <1>10, Answered, Kind DEF StartStopped, backend

-----------------------------------------------------------------------------
(* A start is rejected.                                                     *)

(* The chat goes back to the session that was wanted.                        *)
Back(v, st) ==
    Change([v EXCEPT !.active = st.wanted, !.stream = None, !.autoRun = FALSE],
           LAMBDA it : st.wanted = New /\ it.session = st.session,
           LAMBDA it : [it EXCEPT !.session = New])

(* All of u is as in v but for the start, its stream and its session.         *)
Withdrawn(v, u, st) ==
    /\ u \in Scope
    /\ u.active = st.wanted /\ u.stream = None /\ u.autoRun = FALSE /\ u.starting = None
    /\ u.loading = v.loading /\ u.input = v.input /\ u.inserting = v.inserting
    /\ u.reconciling = v.reconciling /\ u.resuming = v.resuming
    /\ u.unverified = v.unverified /\ u.written = v.written
    /\ u.starts = v.starts /\ u.known = v.known
    /\ DOMAIN u.queue = DOMAIN v.queue
    /\ \A i \in DOMAIN v.queue :
         /\ u.queue[i].m = v.queue[i].m /\ u.queue[i].ins = v.queue[i].ins
         /\ u.queue[i].session =
              (IF st.wanted = New /\ v.queue[i].session = st.session THEN New
               ELSE v.queue[i].session)

(* A rejected start is taken back, with the session that was to be made.    *)
LEMMA GoneBack ==
    ASSUME NEW v \in Scope, NEW st \in StartState, NEW b, b = Back(v, st)
    PROVE  b \in Scope /\ b.input = v.input /\ Withdrawn(v, [b EXCEPT !.starting = None], st)
  <1> DEFINE u == [b EXCEPT !.starting = None]
             t == [v EXCEPT !.active = st.wanted, !.stream = None, !.autoRun = FALSE]
             q == [i \in DOMAIN v.queue |->
                     IF st.wanted = New /\ v.queue[i].session = st.session
                     THEN [v.queue[i] EXCEPT !.session = New] ELSE v.queue[i]]
  <1>1. \A i \in DOMAIN v.queue :
           /\ q[i] \in Item
           /\ q[i].m = v.queue[i].m /\ q[i].ins = v.queue[i].ins
           /\ q[i].session = (IF st.wanted = New /\ v.queue[i].session = st.session THEN New
                              ELSE v.queue[i].session)
    BY Items DEF Item, Shown
  <1>2. q \in Seq(Item) /\ DOMAIN q = DOMAIN v.queue
    <2>1. v.queue \in Seq(Item) /\ q = [i \in DOMAIN v.queue |-> q[i]]
      BY Fields
    <2> HIDE DEF q
    <2> QED  BY <1>1, <2>1, Mapped
  <1>3. t.queue = v.queue
    BY DEF Scope
  <1>4. b = [t EXCEPT !.queue = q]
    BY <1>3 DEF Back, Change
  <1>5. st.wanted \in Shown
    BY DEF StartState
  <1>6. b = [v EXCEPT !.active = st.wanted, !.stream = None, !.autoRun = FALSE, !.queue = q]
    BY <1>4 DEF Scope
  <1> HIDE DEF q, t
  <1>7. b \in Scope /\ b.input = v.input
    BY <1>2, <1>5, <1>6 DEF Scope
  <1>8. /\ u \in Scope
        /\ u.active = st.wanted /\ u.stream = None /\ u.autoRun = FALSE /\ u.starting = None
        /\ u.loading = v.loading /\ u.input = v.input /\ u.inserting = v.inserting
        /\ u.reconciling = v.reconciling /\ u.resuming = v.resuming
        /\ u.unverified = v.unverified /\ u.written = v.written
        /\ u.starts = v.starts /\ u.known = v.known /\ u.queue = q
    <2>1. u = [b EXCEPT !.starting = None]
      OBVIOUS
    <2> HIDE DEF u
    <2>2. u = [v EXCEPT !.active = st.wanted, !.stream = None, !.autoRun = FALSE,
                        !.queue = q, !.starting = None]
      BY <1>6, <2>1 DEF Scope
    <2> QED  BY <1>2, <1>5, <2>2 DEF Scope
  <1> HIDE DEF u
  <1> QED  BY <1>1, <1>2, <1>7, <1>8 DEF Withdrawn, u

(* The start is withdrawn: its message is in hand again, or still an entry. *)
LEMMA WithdrawnStays ==
    ASSUME TypeOK, NEW v, NEW u, Good(v, dropped), v.resuming = None,
           v.starting # None, v.starting.phase = "rejected", Withdrawn(v, u, v.starting)
    PROVE  /\ v.starting.queued => Good(u, dropped)
           /\ ~v.starting.queued => InHand(u, dropped, v.starting.m)
           /\ v.stream # None /\ v.stream.id = v.starting.id
           /\ v.starting.wanted \in Sess(u) /\ ~NewSession(u)
           /\ v.starting.wanted = New => u.known < MaxSessions
  <1> DEFINE st == v.starting
  <1>1. /\ v \in Scope /\ u \in Scope /\ Pending(v) /\ ~Pending(u) /\ ~NewSession(u)
        /\ NewSession(v) <=> st.wanted = New
    BY DEF Good, Core, Withdrawn, Pending, NewSession
  <1>2. /\ st.m \in Message /\ st.queued \in BOOLEAN /\ st.wanted \in Shown
        /\ st.session \in Session /\ v.known \in Nat /\ New \notin 1..v.known
        /\ New \notin Session /\ None \notin Message
    BY <1>1, Parts, Numbers, AiQueueAssumption
  <1>3. /\ run = None /\ v.stream # None /\ chat[st.m] = Credit(st.m)
        /\ ~st.queued => chat[st.m] = 0 /\ st.m \notin dropped
        /\ v.stream.id = st.id
        /\ st.wanted # New => st.session = st.wanted /\ st.session <= v.known
        /\ st.wanted = New => v.known < MaxSessions /\ st.session = v.known + 1
        /\ ~st.queued => ~Queued(v, st.m)
    BY <1>1 DEF Good, Core, Undecided, Start
  <1> USE DEF Withdrawn
  <1>4. Sess(u) = 1..v.known \cup {New} /\ st.wanted \in Sess(u)
    <2>1. Sess(u) = 1..v.known \cup {New}
      BY <1>1 DEF Sess
    <2>2. st.wanted # New => st.wanted \in 1..v.known
      BY <1>2, <1>3 DEF Session
    <2> QED  BY <2>1, <2>2
  <1>5. /\ Unique(u)
        /\ \A m : Queued(u, m) <=> Queued(v, m)
    BY DEF Good, Core, Entries, Unique, Queued
  <1>6. Entries(u, dropped)
    <2> SUFFICES ASSUME NEW i \in DOMAIN v.queue
                 PROVE  Entry(u, dropped, u.queue[i])
      BY <1>5 DEF Entries
    <2>1. Entry(v, dropped, v.queue[i])
      BY DEF Good, Core, Entries
    <2>2. ~Arrived(v, v.queue[i].m)
      BY DEF Arrived
    <2>3. v.queue[i].session \in 1..v.known => u.queue[i].session = v.queue[i].session
      <3>1. v.known + 1 \notin 1..v.known
        BY <1>2
      <3> QED  BY <1>3, <3>1
    <2>4. /\ u.queue[i].session \in Sess(u)
          /\ u.queue[i].session = New => v.known < MaxSessions
      <3>1. CASE st.wanted = New
        BY <1>1, <1>3, <1>4, <2>1, <3>1 DEF Entry, Sess
      <3>2. CASE st.wanted # New
        BY <1>1, <1>4, <2>1, <3>2 DEF Entry, Sess
      <3> QED  BY <3>1, <3>2
    <2>5. /\ u.queue[i].m = v.queue[i].m /\ u.queue[i].ins = v.queue[i].ins
          /\ u.written = v.written /\ u.starts = v.starts /\ u.known = v.known
      OBVIOUS
    <2>6. u.queue[i].ins # None => u.queue[i].session \in 1..u.known
      BY <2>1, <2>3, <2>5 DEF Entry
    <2> QED  BY <1>1, <2>1, <2>2, <2>4, <2>5, <2>6 DEF Entry
  <1>7. Draft(u, dropped) /\ Written(u, dropped) /\ Undecided(u, dropped)
    BY <1>1, <1>5 DEF Good, Core, Draft, Written, Undecided
  <1>8. Start(u) /\ Stream(u) /\ Shows(u)
    BY <1>1, <1>4 DEF Good, Core, Start, Stream, Shows
  <1>9. Runs(u) /\ Inserting(u) /\ Quiet(u) /\ Hops(u)
    BY <1>3 DEF Good, Core, Runs, Inserting, OnItsWay, Quiet, Hops
  <1>10. Found(u)
    BY <1>2 DEF Good, Core, Found
  <1>11. Waiters(u) /\ Cleaned(u)
    <2> SUFFICES ASSUME NEW x, Waits(v, x)
                 PROVE  Waits(u, x)
      BY DEF Good, Core, Waiters, Cleaned
    <2>1. x.session # New => x.session # st.session \/ st.wanted # New
      <3>1. v.known + 1 \notin 1..v.known
        BY <1>2
      <3> QED  BY <1>3, <3>1 DEF Waits
    <2> QED  BY <2>1 DEF Waits
  <1>12. Count(u) /\ Saved(u, dropped)
    BY DEF Good, Core, Count, Saved
  <1>13. Core(u, dropped)
    BY <1>1, <1>6, <1>7, <1>8, <1>9, <1>10, <1>11, <1>12 DEF Core
  <1>14. ASSUME st.queued
         PROVE  Good(u, dropped)
    BY <1>5, <1>13, <1>14 DEF Good, Somewhere
  <1>15. ASSUME ~st.queued
         PROVE  InHand(u, dropped, st.m)
    <2>1. Somewhere(u, dropped, st.m)
      <3>1. \A m \in 1..v.written : m # None
        BY <1>1, Numbers DEF Message
      <3> QED  BY <1>5, <3>1 DEF Good, Somewhere
    <2>2. u.reconciling # None => \A i \in DOMAIN u.reconciling.waiting :
             u.reconciling.waiting[i].kind = "send" => u.reconciling.waiting[i].m # st.m
      BY <1>15 DEF Good, Core, Waiters, Waits
    <2>3. st.m <= u.written /\ u.input # st.m
      BY <1>2 DEF Good, Core, Start, Draft
    <2> QED  BY <1>2, <1>3, <1>5, <1>13, <1>15, <2>1, <2>2, <2>3 DEF InHand
  <1> QED  BY <1>1, <1>3, <1>4, <1>14, <1>15

(* The message is back in the draft.                                        *)
LEMMA DraftAgain ==
    ASSUME TypeOK, NEW v, NEW m, InHand(v, dropped, m), v.input = None, v.starting = None,
           NEW u, u = [v EXCEPT !.input = m]
    PROVE  Good(u, dropped)
  <1>1. v \in Scope /\ Core(v, dropped) /\ m \in Message
    BY DEF InHand, Core
  <1>2. /\ u \in Scope /\ u.input = m
        /\ u.active = v.active /\ u.loading = v.loading /\ u.stream = v.stream
        /\ u.starting = v.starting /\ u.reconciling = v.reconciling
        /\ u.resuming = v.resuming /\ u.unverified = v.unverified /\ u.written = v.written
        /\ u.starts = v.starts /\ u.known = v.known /\ u.queue = v.queue
        /\ u.inserting = v.inserting
    BY <1>1 DEF Scope
  <1>3. /\ Pending(u) <=> Pending(v)
        /\ NewSession(u) <=> NewSession(v)
        /\ Sess(u) = Sess(v) /\ Unique(v) /\ Unique(u)
        /\ \A k : Arrived(u, k) <=> Arrived(v, k)
        /\ \A k : Queued(u, k) <=> Queued(v, k)
        /\ \A k : Kept(u, k) <=> Kept(v, k)
        /\ \A k : Sending(u, k) <=> Sending(v, k)
        /\ OnItsWay(u) <=> OnItsWay(v)
        /\ Untouched(u) <=> Untouched(v)
        /\ Sendable(u) <=> Sendable(v)
    BY <1>1, <1>2 DEF Core, Queued, Pending, NewSession, Sess, Arrived, Entries, Unique, Kept,
                Sending, OnItsWay, Untouched, Sendable
  <1>4. Entries(u, dropped) /\ Written(u, dropped)
    BY <1>1, <1>2, <1>3 DEF Core, Entries, Entry, Written
  <1>5. Draft(u, dropped)
    BY <1>2, <1>3 DEF InHand, Draft
  <1>6. Undecided(u, dropped) /\ Start(u) /\ Stream(u) /\ Shows(u)
    BY <1>1, <1>2, <1>3 DEF Core, Undecided, Start, Stream, Shows
  <1>7. Runs(u) /\ Inserting(u) /\ Quiet(u) /\ Hops(u) /\ Found(u)
    BY <1>1, <1>2, <1>3 DEF Core, Runs, Inserting, Quiet, Hops, Found
  <1>8. Waiters(u)
    <2>1. \A x : Waits(v, x) /\ (x.kind = "send" => x.m # m) => Waits(u, x)
      BY <1>2 DEF Waits
    <2> QED  BY <1>1, <1>2, <2>1 DEF InHand, Core, Waiters
  <1>9. Cleaned(u) /\ Count(u) /\ Saved(u, dropped)
    BY <1>1, <1>2, <1>3 DEF Core, Cleaned, Count, Saved
  <1>10. Somewhere(u, dropped, None)
    <2>1. Somewhere(v, dropped, m)
      BY DEF InHand
    <2> QED  BY <1>2, <1>3, <2>1 DEF Somewhere
  <1> QED  BY <1>2, <1>4, <1>5, <1>6, <1>7, <1>8, <1>9, <1>10 DEF Good, Core

(* ... or in an entry at the front of the queue.                            *)
LEMMA FailedEntry ==
    ASSUME TypeOK, NEW v, NEW it \in Item, InHand(v, dropped, it.m), it.ins = None,
           it.session \in Sess(v),
           it.session = New => v.known < MaxSessions /\ ~NewSession(v)
    PROVE  Good([v EXCEPT !.queue = <<it>> \o v.queue], dropped)
  <1>1. v \in Scope /\ v.queue \in Seq(Item) /\ Unique(v)
    BY Fields DEF InHand, Core, Entries
  <1> DEFINE q == <<it>> \o v.queue
             u == [v EXCEPT !.queue = q]
  <1>2. /\ q \in Seq(Item)
        /\ DOMAIN q = 1..(Len(v.queue) + 1) /\ DOMAIN v.queue = 1..Len(v.queue)
        /\ Len(v.queue) \in Nat
        /\ \A i \in DOMAIN v.queue : q[i + 1] = v.queue[i]
        /\ q[1] = it
    BY <1>1, Prepended
  <1> HIDE DEF q
  <1>4. u \in Scope /\ Rest(v, u) /\ u.queue = q /\ u.inserting = v.inserting
    BY <1>1, <1>2, NewQueue
  <1> HIDE DEF u
  <1>5. \A i \in DOMAIN q : i = 1 \/ (i - 1 \in DOMAIN v.queue /\ q[i] = v.queue[i - 1])
    <2> SUFFICES ASSUME NEW i \in DOMAIN q, i # 1
                 PROVE  i - 1 \in DOMAIN v.queue /\ q[i] = v.queue[i - 1]
      OBVIOUS
    <2>1. i - 1 \in DOMAIN v.queue /\ (i - 1) + 1 = i
      BY <1>2
    <2> QED  BY <1>2, <2>1
  <1>6. /\ \A i \in DOMAIN u.queue :
              u.queue[i] = it \/ \E j \in DOMAIN v.queue : u.queue[i] = v.queue[j]
        /\ \A j \in DOMAIN v.queue : \E i \in DOMAIN u.queue : u.queue[i] = v.queue[j]
        /\ \E i \in DOMAIN u.queue : u.queue[i] = it
    <2>1. \A j \in DOMAIN v.queue : j + 1 \in DOMAIN q
      BY <1>2
    <2>2. 1 \in DOMAIN q
      BY <1>2
    <2> QED  BY <1>2, <1>4, <1>5, <2>1, <2>2
  <1>7. Unique(u)
    <2> SUFFICES ASSUME NEW i \in DOMAIN q, NEW j \in DOMAIN q, q[i].m = q[j].m
                 PROVE  i = j
      BY <1>4 DEF Unique
    <2>1. \A k \in DOMAIN v.queue : v.queue[k].m # it.m
      BY DEF InHand, Queued
    <2>2. CASE i = 1 \/ j = 1
      BY <1>2, <1>5, <2>1, <2>2
    <2>3. CASE i # 1 /\ j # 1
      <3>1. i - 1 = j - 1
        BY <1>1, <1>5, <2>3 DEF Unique
      <3> QED  BY <1>2, <3>1
    <2> QED  BY <2>2, <2>3
  <1>8. Good(u, dropped)
    BY <1>4, <1>6, <1>7, Joined
  <1> QED  BY <1>8 DEF u, q

(* A start is rejected: its message is a failed entry or the draft again.   *)
LEMMA RejectedStays ==
    ASSUME IInv, w.resuming = None, StartRejected
    PROVE  IInv'
  <1> DEFINE st == w.starting
             b == Back(w, st)
             t == [b EXCEPT !.starting = None]
             r == RestoreMessage(w, st, b)
             u == [r EXCEPT !.starting = None]
             it == [m |-> st.m, session |-> st.wanted, status |-> "failed",
                    immediate |-> FALSE, ins |-> None]
  <1>1. TypeOK /\ Good(w, dropped) /\ w \in Scope /\ st # None /\ st.phase = "rejected"
    BY DEF IInv, StartRejected, Good, Core
  <1>2. /\ st \in StartState /\ st.m \in Message /\ st.queued \in BOOLEAN
        /\ st.wanted \in Shown
    BY <1>1, Parts
  <1>3. w' = drainAiMessageQueue(
                [(IF OnStream(w, st.id) THEN r ELSE w) EXCEPT !.starting = None])
    BY DEF StartRejected, Back
  <1>4. b \in Scope /\ b.input = w.input /\ Withdrawn(w, t, st)
    BY <1>1, <1>2, GoneBack
  <1> HIDE DEF b
  <1>5. /\ st.queued => Good(t, dropped)
        /\ ~st.queued => InHand(t, dropped, st.m)
        /\ OnStream(w, st.id)
        /\ st.wanted \in Sess(t) /\ ~NewSession(t)
        /\ st.wanted = New => t.known < MaxSessions
    <2> HIDE DEF t
    <2> QED  BY <1>1, <1>4, WithdrawnStays DEF OnStream
  <1>6. /\ t \in Scope /\ t.input = w.input /\ t.queue = b.queue /\ t.starting = None
        /\ t.stream = None /\ t.autoRun = FALSE
    BY <1>4 DEF Withdrawn, Scope
  <1>7. w' = drainAiMessageQueue(u)
    BY <1>3, <1>5
  <1>8. Good(u, dropped) /\ u.stream = None /\ u.autoRun = FALSE
    <2>1. CASE st.queued
      <3>1. "failed" \in Status /\ FALSE \in BOOLEAN
        BY DEF Status
      <3>2. u = ChangeItem(t, st.m, "failed", FALSE)
        BY <1>4, <1>6, <2>1 DEF RestoreMessage, ChangeItem, Change, Scope
      <3> HIDE DEF t, u
      <3>3. ~Pending(t)
        BY <1>6 DEF Pending
      <3>4. Good(ChangeItem(t, st.m, "failed", FALSE), dropped)
        BY <1>1, <1>5, <2>1, <3>1, <3>3, ItemChanges
      <3>5. /\ Rest(t, ChangeItem(t, st.m, "failed", FALSE))
            /\ ChangeItem(t, st.m, "failed", FALSE).autoRun = t.autoRun
        <4> DEFINE m == st.m
                   failed == "failed"
                   no == FALSE
                   c == ChangeItem(t, m, failed, no)
        <4>1. failed \in Status /\ no \in BOOLEAN
          BY <3>1
        <4> HIDE DEF m, failed, no
        <4>2. t \in Scope
          BY <1>6
        <4>3. Rest(t, c) /\ c.autoRun = t.autoRun
          BY <4>1, <4>2, ItemChanged
        <4> QED  BY <4>3 DEF m, failed, no
      <3> QED  BY <1>6, <3>2, <3>4, <3>5 DEF Rest
    <2>2. CASE ~st.queued /\ w.input = None
      <3>1. u = [t EXCEPT !.input = st.m]
        BY <1>4, <2>2 DEF RestoreMessage, Scope
      <3> HIDE DEF t, u
      <3>2. Good(u, dropped)
        BY <1>1, <1>5, <1>6, <2>2, <3>1, DraftAgain
      <3> QED  BY <1>6, <3>1, <3>2 DEF Scope
    <2>3. CASE ~st.queued /\ w.input # None
      <3>1. u = [t EXCEPT !.queue = <<it>> \o t.queue]
        BY <1>4, <1>6, <2>3 DEF RestoreMessage, Scope
      <3>2. /\ it \in Item /\ it.m = st.m /\ it.ins = None /\ it.session = st.wanted
        BY <1>2 DEF Item
      <3> HIDE DEF t, u, it
      <3>3. Good([t EXCEPT !.queue = <<it>> \o t.queue], dropped)
        BY <1>1, <1>5, <2>3, <3>2, FailedEntry
      <3> QED  BY <1>6, <3>1, <3>3 DEF Scope
    <2> QED  BY <1>2, <2>1, <2>2, <2>3
  <1> HIDE DEF u
  <1>9. drainAiMessageQueue(u) = u
    BY <1>8 DEF drainAiMessageQueue
  <1>10. Good(w', dropped)
    BY <1>7, <1>8, <1>9
  <1> QED  BY <1>1, <1>10, Answered, Kind DEF StartRejected, backend

-----------------------------------------------------------------------------
(* An insertion is answered.                                                *)

(* An insertion is over for the window.                                     *)
LEMMA InsertionOver ==
    ASSUME TypeOK, NEW v, Good(v, dropped), NEW u, u = [v EXCEPT !.inserting = None]
    PROVE  Good(u, dropped) /\ Rest(v, u)
  <1>1. v \in Scope
    BY DEF Good, Core
  <1>2. u \in Scope /\ Rest(v, u) /\ u.queue = v.queue /\ u.inserting = None
    BY <1>1 DEF Scope, Rest
  <1> QED  BY <1>2, InPlace DEF InsertionOf

(* An insertion is answered: its entry is accepted, released or failed.     *)
LEMMA InsertionStays ==
    ASSUME IInv, w.resuming = None, InsertionAnswered
    PROVE  IInv'
  <1> DEFINE m == w.inserting.m
             now == ItemOf(w, m).immediate
  <1>1. TypeOK /\ Good(w, dropped) /\ w \in Scope /\ w.inserting # None
    BY DEF IInv, InsertionAnswered, Good, Core
  <1>2. w.inserting.phase \in {"ok", "closed", "error"}
    BY <1>1, Parts DEF InsertionAnswered
  <1>3. PICK v : /\ w' = drainAiMessageQueue([v EXCEPT !.inserting = None])
                 /\ \/ v = w
                    \/ /\ OnStream(w, w.inserting.id) /\ Queued(w, m)
                       /\ \/ v = ChangeItem(w, m, "accepted", now)
                          \/ v = ChangeItem(w, m, "queued", FALSE)
                          \/ v = ChangeItem(w, m, "failed", FALSE)
    BY <1>2 DEF InsertionAnswered
  <1>4. Good(v, dropped) /\ Rest(w, v)
    <2>1. CASE v = w
      BY <1>1, <2>1 DEF Rest
    <2>2. CASE OnStream(w, w.inserting.id) /\ Queued(w, m) /\ v # w
      <3>1. ~Pending(w)
        <4>1. SUFFICES ASSUME Pending(w)
                       PROVE  FALSE
          OBVIOUS
        <4>2. w.stream # None /\ w.stream.id = w.inserting.id
          BY <2>2 DEF OnStream
        <4>3. ~w.stream.ready
          BY <1>1, <4>1, <4>2 DEF Good, Core, Start, Pending
        <4> QED  BY <1>1, <4>2, <4>3 DEF Good, Core, Quiet, Untouched
      <3>2. ASSUME NEW status \in Status, NEW immediate \in BOOLEAN
            PROVE  /\ Good(ChangeItem(w, m, status, immediate), dropped)
                   /\ Rest(w, ChangeItem(w, m, status, immediate))
        <4> DEFINE k == m
                   c == ChangeItem(w, k, status, immediate)
        <4> HIDE DEF k
        <4>1. Rest(w, c)
          BY <1>1, ItemChanged
        <4>2. Good(c, dropped)
          BY <1>1, <3>1, ItemChanges
        <4> QED  BY <4>1, <4>2 DEF k
      <3>3. now \in BOOLEAN
        <4>1. PICK i \in DOMAIN w.queue : ItemOf(w, m) = w.queue[i]
          BY <1>1, <2>2, TheItem
        <4> QED  BY <1>1, <4>1, Items
      <3>4. "accepted" \in Status /\ "queued" \in Status /\ "failed" \in Status
            /\ FALSE \in BOOLEAN
        BY DEF Status
      <3> HIDE DEF now, m
      <3> QED  BY <1>3, <2>2, <3>2, <3>3, <3>4
    <2> QED  BY <1>3, <2>1, <2>2
  <1> DEFINE u == [v EXCEPT !.inserting = None]
  <1>5. Good(u, dropped) /\ Rest(v, u)
    BY <1>1, <1>4, InsertionOver
  <1> HIDE DEF u
  <1>6. MayDrain(u)
    BY <1>4, <1>5 DEF MayDrain, Rest
  <1>7. Good(drainAiMessageQueue(u), dropped)
    BY <1>1, <1>5, <1>6, Drains
  <1>8. Good(w', dropped)
    BY <1>3, <1>7 DEF u
  <1> QED  BY <1>1, <1>8, Answered, Kind DEF InsertionAnswered, backend

-----------------------------------------------------------------------------
(* The history of a session has been read, or not.                           *)

(* Nothing is inserted while it is read.                                     *)
LEMMA NothingUnderWay ==
    ASSUME NEW v, Good(v, dropped), v.reconciling # None, NEW ms
    PROVE  NotUnderWay(v, ms)
  <1>1. run # None => v.stream # None /\ v.stream.id = run.id
    BY DEF Good, Core, Runs
  <1>2. run # None => Untouched(v)
    BY <1>1 DEF Good, Core, Quiet
  <1> QED  BY <1>1, <1>2 DEF NotUnderWay, Untouched, OnItsWay

(* The messages of the entries that the read has found.                      *)
Gone(v) == {m \in v.reconciling.found : \E i \in DOMAIN v.queue :
               v.queue[i].m = m /\ v.queue[i].session = v.reconciling.session}

(* The entries that a read has found leave the queue.                       *)
LEMMA FoundLeave ==
    ASSUME TypeOK, NEW v, Good(v, dropped), v.reconciling # None,
           NEW u, u = Without(v, Gone(v))
    PROVE  /\ Good(u, dropped) /\ Rest(v, u) /\ u.autoRun = v.autoRun
           /\ u.inserting = v.inserting
           /\ \A j \in DOMAIN u.queue :
                u.queue[j].session = v.reconciling.session =>
                   u.queue[j].m \notin v.reconciling.found
  <1> DEFINE ms == Gone(v)
  <1>1. v \in Scope /\ v.reconciling \in ReconcileState
    BY Fields DEF Good, Core
  <1>2. ms \subseteq injected /\ ms \subseteq Message
    BY <1>1 DEF Gone, Good, Core, Found, TypeOK
  <1>3. \A m \in ms : chat[m] > 0
    BY <1>2 DEF Good, Core, Written
  <1>4. Pending(v) => v.starting.m \notin ms \/ v.starting.m \in v.unverified
    <2> SUFFICES ASSUME Pending(v), v.starting.m \in ms, v.starting.m \notin v.unverified
                 PROVE  FALSE
      OBVIOUS
    <2>1. PICK i \in DOMAIN v.queue : v.queue[i].m = v.starting.m
      BY DEF Gone
    <2>2. v.starting.queued
      BY <2>1 DEF Good, Core, Start, Pending, Queued
    <2>3. PICK j \in DOMAIN v.queue : v.queue[j].m = v.starting.m /\ v.queue[j].ins = None
      BY <2>2 DEF Good, Core, Undecided, Sending
    <2>4. v.starting.m \in injected
      BY <1>2
    <2> QED  BY <2>3, <2>4 DEF Good, Core, Entries, Entry
  <1>5. NotUnderWay(v, ms)
    BY NothingUnderWay
  <1> DEFINE t == Without(v, ms)
  <1>6. Good(t, dropped \cup {}) /\ dropped \cup {} = dropped
    BY <1>3, <1>4, <1>5, Leave
  <1>7. /\ Rest(v, t) /\ t.autoRun = v.autoRun /\ t.inserting = v.inserting
        /\ \A n \in DOMAIN t.queue : \E i \in DOMAIN v.queue :
              t.queue[n] = v.queue[i] /\ v.queue[i].m \notin ms
    BY <1>1, Removed
  <1> HIDE DEF t
  <1>8. \A j \in DOMAIN t.queue :
           t.queue[j].session = v.reconciling.session =>
              t.queue[j].m \notin v.reconciling.found
    BY <1>7 DEF Gone
  <1> QED  BY <1>6, <1>7, <1>8 DEF t

(* The others lose the stream of their insertion, which was in vain.          *)
Clean(v, s) ==
    Change(v, LAMBDA it : it.session = s /\ it.ins # None,
              LAMBDA it : [it EXCEPT !.status = "queued", !.immediate = FALSE, !.ins = None])

(* Those it has not found were never inserted, and are as new.              *)
LEMMA OthersClean ==
    ASSUME TypeOK, NEW v, Good(v, dropped), v.reconciling # None,
           v.reconciling.phase = "read",
           \A j \in DOMAIN v.queue : v.queue[j].session = v.reconciling.session =>
              v.queue[j].m \notin v.reconciling.found,
           NEW u, u = Clean(v, v.reconciling.session)
    PROVE  /\ Good(u, dropped) /\ Rest(v, u) /\ u.autoRun = v.autoRun
           /\ u.inserting = v.inserting
           /\ \A j \in DOMAIN u.queue :
                u.queue[j].session = v.reconciling.session => u.queue[j].ins = None
  <1>1. v \in Scope
    BY DEF Good, Core
  <1> DEFINE s == v.reconciling.session
             loose == {m \in Message : m \notin injected}
             q == [i \in DOMAIN v.queue |->
                     IF v.queue[i].session = s /\ v.queue[i].ins # None
                     THEN [v.queue[i] EXCEPT !.status = "queued", !.immediate = FALSE,
                                             !.ins = None]
                     ELSE v.queue[i]]
  <1>2. \A i \in DOMAIN v.queue :
           /\ q[i] \in Item
           /\ q[i].m = v.queue[i].m /\ q[i].session = v.queue[i].session
           /\ v.queue[i].ins = None \/ v.queue[i].session # s => q[i] = v.queue[i]
           /\ v.queue[i].session = s => q[i].ins = None
    BY <1>1, Items DEF Item
  <1>3. q \in Seq(Item) /\ DOMAIN q = DOMAIN v.queue
    <2>1. v.queue \in Seq(Item) /\ q = [i \in DOMAIN v.queue |-> q[i]]
      BY <1>1, Fields
    <2> HIDE DEF q
    <2> QED  BY <1>2, <2>1, Mapped
  <1>4. u = [v EXCEPT !.queue = q]
    BY DEF Clean, Change
  <1> HIDE DEF q
  <1> DEFINE t == [v EXCEPT !.queue = q]
  <1>5. /\ t \in Scope /\ Rest(v, t) /\ t.queue = q
        /\ t.inserting = v.inserting /\ t.autoRun = v.autoRun
    BY <1>1, <1>3, NewQueue
  <1> HIDE DEF t
  <1>6. \A i \in DOMAIN v.queue : v.queue[i].session = s => v.queue[i].m \in loose
    <2>1. \A i \in DOMAIN v.queue : v.queue[i].session = s => v.queue[i].m \notin injected
      BY DEF Good, Core, Found
    <2> QED  BY <1>1, <2>1, Items
  <1>7. \A i \in DOMAIN v.queue : From(v, v.queue[i], q[i], loose)
    BY <1>2, <1>6 DEF From
  <1>8. Unique(t)
    BY <1>2, <1>3, <1>5 DEF Good, Core, Entries, Unique
  <1>9. Follows(v, t, {}, loose)
    <2>1. \A i \in DOMAIN v.queue : v.queue[i].status = "sending" /\ v.queue[i].ins = None =>
             q[i].status = "sending" /\ q[i].ins = None
      BY <1>2
    <2> QED  BY <1>3, <1>5, <1>7, <1>8, <2>1 DEF Follows
  <1>10. NotUnderWay(v, {} \cup loose)
    BY NothingUnderWay
  <1>11. InsertionOf(v, t)
    BY <1>5 DEF InsertionOf
  <1>12. Good(t, dropped \cup {}) /\ dropped \cup {} = dropped
    BY <1>9, <1>10, <1>11, Followed
  <1>13. \A j \in DOMAIN t.queue : t.queue[j].session = s => t.queue[j].ins = None
    BY <1>2, <1>3, <1>5
  <1> QED  BY <1>4, <1>5, <1>12, <1>13 DEF t

(* When the read fails, they are failed entries.                             *)
Doubted(v, s) ==
    Change(v, LAMBDA it : it.session = s /\ it.ins # None,
              LAMBDA it : [it EXCEPT !.status = "failed", !.immediate = FALSE])

(* After a failed read the entries keep their doubt, and fail.              *)
LEMMA OthersFail ==
    ASSUME TypeOK, NEW v, Good(v, dropped), NEW s, NEW u, u = Doubted(v, s)
    PROVE  Good(u, dropped) /\ Rest(v, u) /\ u.autoRun = v.autoRun
  <1>1. v \in Scope
    BY DEF Good, Core
  <1> DEFINE q == [i \in DOMAIN v.queue |->
                     IF v.queue[i].session = s /\ v.queue[i].ins # None
                     THEN [v.queue[i] EXCEPT !.status = "failed", !.immediate = FALSE]
                     ELSE v.queue[i]]
  <1>2. \A i \in DOMAIN v.queue :
           /\ q[i] \in Item
           /\ q[i].m = v.queue[i].m /\ q[i].session = v.queue[i].session
           /\ q[i].ins = v.queue[i].ins
           /\ v.queue[i].ins = None => q[i] = v.queue[i]
    BY <1>1, Items DEF Item
  <1>3. q \in Seq(Item) /\ DOMAIN q = DOMAIN v.queue
    <2>1. v.queue \in Seq(Item) /\ q = [i \in DOMAIN v.queue |-> q[i]]
      BY <1>1, Fields
    <2> HIDE DEF q
    <2> QED  BY <1>2, <2>1, Mapped
  <1>4. u = [v EXCEPT !.queue = q]
    BY DEF Doubted, Change
  <1> HIDE DEF q
  <1> DEFINE t == [v EXCEPT !.queue = q]
  <1>5. /\ t \in Scope /\ Rest(v, t) /\ t.queue = q
        /\ t.inserting = v.inserting /\ t.autoRun = v.autoRun
    BY <1>1, <1>3, NewQueue
  <1> HIDE DEF t
  <1>6. Good(t, dropped)
    BY <1>2, <1>3, <1>5, InPlace DEF InsertionOf
  <1> QED  BY <1>4, <1>5, <1>6 DEF t

(* Those that waited for it are about to go on.                              *)
LEMMA TurnsTo ==
    ASSUME TypeOK, NEW v, Good(v, dropped), v.reconciling # None, v.resuming = None,
           NEW r \in ResumeState, r.session = v.reconciling.session,
           r.waiting = v.reconciling.waiting,
           r.success => /\ r.session # New
                        /\ \A j \in DOMAIN v.queue :
                             v.queue[j].session = r.session => v.queue[j].ins = None,
           NEW auto, {auto} \subseteq BOOLEAN,
           NEW u, u = [v EXCEPT !.autoRun = auto, !.reconciling = None, !.resuming = r]
    PROVE  Good(u, dropped)
  <1>1. v \in Scope /\ None \notin ResumeState
    BY AiQueueAssumption DEF Good, Core
  <1>2. /\ u \in Scope /\ u.reconciling = None /\ u.resuming = r
        /\ u.active = v.active /\ u.loading = v.loading /\ u.input = v.input
        /\ u.stream = v.stream /\ u.starting = v.starting
        /\ u.unverified = v.unverified /\ u.written = v.written
        /\ u.starts = v.starts /\ u.known = v.known /\ u.queue = v.queue
        /\ u.inserting = v.inserting
    BY <1>1, ZenonT(60) DEF Scope
  <1>3. /\ Pending(u) <=> Pending(v)
        /\ NewSession(u) <=> NewSession(v)
        /\ Sess(u) = Sess(v) /\ Unique(v) /\ Unique(u)
        /\ \A k : Arrived(u, k) <=> Arrived(v, k)
        /\ \A k : Queued(u, k) <=> Queued(v, k)
        /\ \A k : Kept(u, k) <=> Kept(v, k)
        /\ \A k : Sending(u, k) <=> Sending(v, k)
        /\ \A x : Waits(u, x) <=> Waits(v, x)
        /\ OnItsWay(u) <=> OnItsWay(v)
        /\ Untouched(u) <=> Untouched(v)
    BY <1>2 DEF Good, Core, Queued, Pending, NewSession, Sess, Arrived, Entries, Unique, Kept,
                Sending, Waits, OnItsWay, Untouched
  <1>4. Entries(u, dropped) /\ Draft(u, dropped) /\ Written(u, dropped)
    BY <1>2, <1>3 DEF Good, Core, Entries, Entry, Draft, Written
  <1>5. Undecided(u, dropped) /\ Start(u) /\ Stream(u) /\ Shows(u)
    BY <1>2, <1>3 DEF Good, Core, Undecided, Start, Stream, Shows
  <1>6. Runs(u) /\ Inserting(u)
    BY <1>2, <1>3 DEF Good, Core, Runs, Inserting
  <1>7. Quiet(u) /\ Found(u)
    BY <1>2, <1>3 DEF Good, Core, Quiet, Found
  <1>8. Hops(u)
    <2>1. Late(r) /\ (v.stream # None => AllLate(r))
      BY DEF Good, Core, Hops, Late, AllLate
    <2> QED  BY <1>2, <2>1 DEF Hops
  <1>9. Waiters(u)
    BY <1>2, <1>3 DEF Good, Core, Waiters
  <1>10. Cleaned(u)
    <2> SUFFICES ASSUME r.success
                 PROVE  r.session # New /\ Sendable(u)
      BY <1>2 DEF Cleaned
    <2> SUFFICES ASSUME NEW n \in DOMAIN r.waiting, r.waiting[n].kind = "send",
                        r.waiting[n].session = r.session,
                        NEW j \in DOMAIN v.queue, v.queue[j].m = r.waiting[n].m
                 PROVE  v.queue[j].ins = None
      BY <1>2 DEF Sendable
    <2>1. Waits(v, r.waiting[n])
      BY DEF Good, Core, Waiters
    <2>2. v.queue[j].session = r.session
      BY <2>1 DEF Waits
    <2> QED  BY <2>2
  <1>11. Count(u) /\ Saved(u, dropped)
    BY <1>2 DEF Good, Core, Count, Saved
  <1>12. Somewhere(u, dropped, None)
    BY <1>2, <1>3 DEF Good, Somewhere
  <1> QED
    BY <1>2, <1>4, <1>5, <1>6, <1>7, <1>8, <1>9, <1>10, <1>11, <1>12 DEF Good, Core

(* A reconciliation is answered, and those that waited are to go on.        *)
LEMMA ReconciledStays ==
    ASSUME IInv, w.resuming = None, ReconcileAnswered
    PROVE  IInv'
  <1> DEFINE rec == w.reconciling
             s == rec.session
             r == [session |-> s, success |-> rec.phase = "read", waiting |-> rec.waiting]
             gone == Gone(w)
             left == Without(w, gone)
             clean == Clean(left, s)
             failed == Doubted(w, s)
             auto == w.autoRun /\ ~Showing(w, s)
  <1>1. TypeOK /\ Good(w, dropped) /\ w \in Scope /\ rec # None
    BY DEF IInv, ReconcileAnswered, Good, Core
  <1>2. /\ rec \in ReconcileState /\ rec.session \in Shown /\ rec.waiting \in Seq(Waiter)
        /\ rec.phase \in {"read", "failed"} /\ None \notin ResumeState
        /\ w.autoRun \in BOOLEAN
    <2>1. rec \in ReconcileState /\ w.autoRun \in BOOLEAN
      BY <1>1, Fields
    <2> QED  BY <2>1, AiQueueAssumption DEF ReconcileState, ReconcileAnswered
  <1>3. /\ r \in ResumeState /\ r.session = s /\ r.waiting = rec.waiting
        /\ r.success = (rec.phase = "read")
    BY <1>2 DEF ResumeState
  <1> HIDE DEF r
  <1>4. CASE rec.phase = "read"
    <2>1. /\ Good(left, dropped) /\ Rest(w, left) /\ left.autoRun = w.autoRun
          /\ left.inserting = w.inserting
          /\ \A j \in DOMAIN left.queue :
               left.queue[j].session = s => left.queue[j].m \notin rec.found
      BY <1>1, FoundLeave
    <2>2. left \in Scope /\ left.reconciling = rec
      BY <2>1 DEF Good, Core, Rest
    <2>3. left = [w EXCEPT !.queue = At(w.queue,
                    {i \in DOMAIN w.queue : ~(w.queue[i].session = s
                                                /\ w.queue[i].m \in rec.found)})]
      <3>1. {i \in DOMAIN w.queue : w.queue[i].m \notin gone} =
               {i \in DOMAIN w.queue : ~(w.queue[i].session = s
                                           /\ w.queue[i].m \in rec.found)}
        BY <1>1 DEF Gone, Good, Core, Entries, Unique
      <3> QED  BY <3>1 DEF Without
    <2> HIDE DEF left
    <2>4. /\ Good(clean, dropped) /\ Rest(left, clean) /\ clean.autoRun = left.autoRun
          /\ clean.inserting = left.inserting
          /\ \A j \in DOMAIN clean.queue :
               clean.queue[j].session = s => clean.queue[j].ins = None
      <3> DEFINE t == clean
      <3>1. t = Clean(left, left.reconciling.session)
        BY <2>2
      <3> HIDE DEF clean
      <3> QED  BY <1>1, <1>4, <2>1, <2>2, <3>1, OthersClean, SMTT(30)
    <2>5. w' = [clean EXCEPT !.autoRun = w.autoRun, !.reconciling = None, !.resuming = r]
      <3> DEFINE k == [w EXCEPT !.reconciling = None, !.queue = At(w.queue,
                         {i \in DOMAIN w.queue : ~(w.queue[i].session = s
                                                     /\ w.queue[i].m \in rec.found)})]
      <3>1. w' = [Clean(k, s) EXCEPT !.resuming = r]
        BY <1>4 DEF ReconcileAnswered, r, Clean
      <3>2. k = [left EXCEPT !.reconciling = None]
        BY <1>1, <2>3 DEF Scope
      <3> HIDE DEF k
      <3>3. k.queue = left.queue
        BY <2>2, <3>2 DEF Scope
      <3>4. Clean(k, s) = [clean EXCEPT !.reconciling = None]
        BY <2>2, <3>2, <3>3 DEF Clean, Change, Scope
      <3>5. clean \in Scope /\ clean.autoRun = w.autoRun
        BY <2>1, <2>4 DEF Good, Core
      <3> HIDE DEF clean
      <3> QED  BY <3>1, <3>4, <3>5, ZenonT(60) DEF Scope
    <2>6. /\ clean.reconciling = rec /\ clean.resuming = None
          /\ clean.loading = w.loading
      BY <2>1, <2>4 DEF Rest
    <2>7. s # New
      BY <1>1, <1>4 DEF Good, Core, Found
    <2> HIDE DEF clean
    <2>8. {w.autoRun} \subseteq BOOLEAN
      BY <1>2
    <2>9. Good(w', dropped)
      <3> DEFINE a == w.autoRun
      <3> HIDE DEF a
      <3>1. {a} \subseteq BOOLEAN
                /\ w' = [clean EXCEPT !.autoRun = a, !.reconciling = None, !.resuming = r]
        BY <2>5, <2>8 DEF a
      <3>2. /\ r.session = clean.reconciling.session
            /\ r.waiting = clean.reconciling.waiting
            /\ r.session # New
            /\ \A j \in DOMAIN clean.queue :
                 clean.queue[j].session = r.session => clean.queue[j].ins = None
        BY <1>3, <2>4, <2>6, <2>7
      <3>3. clean.reconciling # None /\ clean.resuming = None
        BY <1>1, <2>6
      <3>4. Good(clean, dropped) /\ TypeOK /\ r \in ResumeState
        BY <1>1, <1>3, <2>4
      <3> QED  BY <3>1, <3>2, <3>3, <3>4, TurnsTo
    <2> QED  BY <1>1, <2>9, Answered, Kind DEF ReconcileAnswered, backend
  <1>5. CASE rec.phase = "failed"
    <2>1. Good(failed, dropped) /\ Rest(w, failed) /\ failed.autoRun = w.autoRun
      BY <1>1, OthersFail
    <2>2. w' = [failed EXCEPT !.autoRun = auto, !.reconciling = None, !.resuming = r]
      <3> DEFINE k == [w EXCEPT !.reconciling = None, !.autoRun = auto]
      <3>1. w' = [Doubted(k, s) EXCEPT !.resuming = r]
        <4>1. w' = [Change([w EXCEPT !.reconciling = None,
                                     !.autoRun = @ /\ ~Showing(w, s)],
                           LAMBDA it : it.session = s /\ it.ins # None,
                           LAMBDA it : [it EXCEPT !.status = "failed", !.immediate = FALSE])
                      EXCEPT !.resuming = r]
          BY <1>5 DEF ReconcileAnswered, r
        <4> QED  BY <4>1 DEF Doubted
      <3>2. k.queue = w.queue
        BY <1>1 DEF Scope
      <3>3. Doubted(k, s) = [failed EXCEPT !.reconciling = None, !.autoRun = auto]
        <4> HIDE DEF auto
        <4> QED  BY <1>1, <3>2 DEF Doubted, Change, Scope
      <3>4. failed \in Scope
        BY <2>1 DEF Good, Core
      <3> HIDE DEF failed, k, auto
      <3> QED  BY <3>1, <3>3, <3>4 DEF Scope
    <2>3. {auto} \subseteq BOOLEAN
      BY <1>2
    <2>4. failed.reconciling = rec /\ failed.resuming = None /\ failed.loading = w.loading
      BY <2>1 DEF Rest
    <2>5. ~r.success
      BY <1>3, <1>5
    <2> HIDE DEF failed, auto
    <2>6. Good(w', dropped)
      BY <1>1, <1>3, <2>1, <2>2, <2>3, <2>4, <2>5, TurnsTo
    <2> QED  BY <1>1, <2>6, Answered, Kind DEF ReconcileAnswered, backend
  <1> QED  BY <1>2, <1>4, <1>5

-----------------------------------------------------------------------------
(* An event of a stream.                                                    *)

(* The stream is over for the window.                                       *)
LEMMA StreamEnds ==
    ASSUME TypeOK, NEW v, Good(v, dropped), run = None, ~Pending(v), v.resuming = None,
           NEW u, u = [v EXCEPT !.stream = None]
    PROVE  Good(u, dropped) /\ u.stream = None /\ u.resuming = None /\ u.loading = v.loading
  <1>1. v \in Scope
    BY DEF Good, Core
  <1>2. /\ u \in Scope /\ u.stream = None
        /\ u.active = v.active /\ u.loading = v.loading /\ u.input = v.input
        /\ u.starting = v.starting /\ u.reconciling = v.reconciling
        /\ u.resuming = v.resuming /\ u.unverified = v.unverified /\ u.written = v.written
        /\ u.starts = v.starts /\ u.known = v.known /\ u.queue = v.queue
        /\ u.inserting = v.inserting
    BY <1>1 DEF Scope
  <1>3. /\ Pending(u) <=> Pending(v)
        /\ NewSession(u) <=> NewSession(v)
        /\ Sess(u) = Sess(v) /\ Unique(v) /\ Unique(u)
        /\ \A k : Arrived(u, k) <=> Arrived(v, k)
        /\ \A k : Queued(u, k) <=> Queued(v, k)
        /\ \A x : Waits(u, x) <=> Waits(v, x)
    BY <1>2 DEF Good, Core, Queued, Pending, NewSession, Sess, Arrived, Entries, Unique, Waits
  <1>4. Entries(u, dropped) /\ Draft(u, dropped) /\ Written(u, dropped)
    BY <1>2, <1>3 DEF Good, Core, Entries, Entry, Draft, Written
  <1>5. Undecided(u, dropped) /\ Start(u) /\ Stream(u) /\ Shows(u)
    BY <1>2, <1>3 DEF Good, Core, Undecided, Start, Stream, Shows
  <1>6. Runs(u) /\ Inserting(u) /\ Quiet(u) /\ Hops(u) /\ Found(u)
    BY <1>2, <1>3 DEF Good, Core, Runs, Inserting, OnItsWay, Quiet, Hops, Found
  <1>7. Waiters(u) /\ Cleaned(u) /\ Count(u) /\ Saved(u, dropped)
    BY <1>2, <1>3 DEF Good, Core, Waiters, Cleaned, Count, Saved
  <1>8. Somewhere(u, dropped, None)
    BY <1>2, <1>3 DEF Good, Somewhere
  <1> QED  BY <1>2, <1>4, <1>5, <1>6, <1>7, <1>8 DEF Good, Core

(* An event arrives: entries leave, or the stream ends; one of another stream is ignored. *)
LEMMA EventStays ==
    ASSUME IInv, w.resuming = None, StreamEvent
    PROVE  IInv'
  <1> DEFINE e == Head(events)
  <1>1. TypeOK /\ Good(w, dropped) /\ w \in Scope /\ events \in Seq(Event) /\ events # <<>>
    BY DEF IInv, StreamEvent, Good, Core, TypeOK
  <1>2. /\ 1 \in DOMAIN events /\ e = events[1] /\ events' = Tail(events)
        /\ Tail(events) \in Seq(Event)
        /\ \A i \in DOMAIN Tail(events) : i + 1 \in DOMAIN events /\
              Tail(events)[i] = events[i + 1]
    BY <1>1 DEF StreamEvent
  <1>3. /\ e.id \in Nat /\ e.kind \in {"injected", "finished", "stopped", "error"}
        /\ e.ms \in SUBSET Message
    BY <1>1, <1>2, Events
  <1>4. /\ e.ms \subseteq injected
        /\ e.kind # "injected" /\ run # None => e.id # run.id
        /\ Pending(w) => e.id < w.starting.id
    BY <1>1, <1>2 DEF Good, Core, Runs, Undecided
  <1> HIDE DEF e
  <1>5. ASSUME ~OnStream(w, e.id)
        PROVE  Good(w', dropped)
    <2>1. w' = w
      BY <1>5 DEF StreamEvent, e
    <2> QED  BY <1>1, <2>1
  <1>6. ASSUME OnStream(w, e.id)
        PROVE  w.stream # None /\ w.stream.id = e.id /\ ~Pending(w)
    <2>1. w.stream # None /\ w.stream.id = e.id
      BY <1>6 DEF OnStream
    <2>2. Pending(w) => w.starting.id = e.id
      BY <1>1, <2>1 DEF Good, Core, Start, Pending
    <2> QED  BY <1>3, <1>4, <2>1, <2>2
  <1>7. ASSUME OnStream(w, e.id) /\ e.kind = "injected"
        PROVE  Good(w', dropped)
    <2>1. w' = Without(w, e.ms)
      BY <1>7 DEF StreamEvent, e
    <2>2. NotUnderWay(w, e.ms)
      BY <1>4 DEF NotUnderWay
    <2>3. \A m \in e.ms : chat[m] > 0
      BY <1>1, <1>4 DEF Good, Core, Written
    <2> DEFINE ms == e.ms
    <2>4. NotUnderWay(w, ms) /\ (\A m \in ms : chat[m] > 0) /\ ~Pending(w)
      BY <1>6, <1>7, <2>2, <2>3
    <2> HIDE DEF ms
    <2>5. Good(Without(w, ms), dropped \cup {}) /\ dropped \cup {} = dropped
      BY <1>1, <2>4, Leave
    <2> QED  BY <2>1, <2>5 DEF ms
  <1>8. ASSUME OnStream(w, e.id) /\ e.kind # "injected"
        PROVE  Good(w', dropped)
    <2> DEFINE u == [w EXCEPT !.stream = None]
               status == IF w.stream.stop /\ e.kind = "finished" THEN "stopped" ELSE e.kind
    <2>1. w' = finishAiMessageQueue(u, status)
      BY <1>8 DEF StreamEvent, e
    <2>2. run = None
      BY <1>1, <1>4, <1>6, <1>8 DEF Good, Core, Runs
    <2>3. Good(u, dropped) /\ u.stream = None /\ u.resuming = None /\ u.loading = w.loading
      BY <1>1, <1>6, <1>8, <2>2, StreamEnds
    <2> HIDE DEF u, status
    <2>4. Good(finishAiMessageQueue(u, status), dropped)
      BY <1>1, <2>3, Finishes
    <2> QED  BY <2>1, <2>4
  <1>9. Good(w', dropped)
    BY <1>1, <1>5, <1>7, <1>8
  <1>10. \A i \in DOMAIN events' : \E j \in DOMAIN events : events'[i] = events[j]
    BY <1>2
  <1>11. refused' \in SUBSET Message /\ stops' \in SUBSET StreamId /\ acts' \in 0..MaxActs
    BY <1>1, ToldOf, Kind DEF StreamEvent
  <1>12. /\ run' = run /\ chat' = chat /\ injected' = injected /\ errors' \in 0..MaxErrors
         /\ errors' >= errors /\ dropped' = dropped /\ dropped' \in SUBSET Message
         /\ events' \in Seq(Event)
    BY <1>1, <1>2, Kind, AiQueueAssumption DEF StreamEvent, TypeOK
  <1> QED  BY <1>1, <1>9, <1>10, <1>11, <1>12, Stays

-----------------------------------------------------------------------------
(* The backend.                                                            *)

(* The failures are counted and bounded.                                    *)
LEMMA Failures ==
    ASSUME TypeOK, MayFail \/ NoFailure
    PROVE  errors' \in 0..MaxErrors /\ errors' >= errors
  BY AiQueueAssumption DEF TypeOK, MayFail, NoFailure

(* The run goes on, and its inbox does not grow.                             *)
LEMMA RunStays ==
    ASSUME IInv, run # None, run' \in Run, run' # None, run'.id = run.id,
           run'.committed = run.committed, run'.inbox \subseteq run.inbox,
           UNCHANGED <<w, chat, injected, events, stops, refused, dropped, acts>>,
           errors' \in 0..MaxErrors, errors' >= errors
    PROVE  IInv'
  <1>1. TypeOK /\ Good(w, dropped) /\ w \in Scope
    BY DEF IInv, Good, Core
  <1>2. TypeOK'
    BY <1>1 DEF TypeOK
  <1>3. Entries(w, dropped)' /\ Draft(w, dropped)' /\ Written(w, dropped)'
    BY <1>1 DEF Good, Core, Entries, Unique, Entry, Credit, Arrived, Sess, NewSession, Pending,
           Draft, Queued, Written
  <1>4. Undecided(w, dropped)'
    BY <1>1 DEF Good, Core, Undecided, Pending
  <1>5. Start(w)' /\ Stream(w)' /\ Shows(w)'
    BY <1>1 DEF Good, Core, Start, Stream, Shows, NewSession, Pending, Queued, Sess
  <1>6. Runs(w)'
    BY <1>1 DEF Good, Core, Runs, Pending, Kept
  <1>7. Inserting(w)' /\ Quiet(w)'
    BY <1>1 DEF Good, Core, Inserting, OnItsWay, Kept, Quiet, Untouched, Others
  <1>8. Hops(w)' /\ Found(w)' /\ Waiters(w)' /\ Cleaned(w)'
    BY <1>1 DEF Good, Core, Hops, Late, AllLate, Found, Waiters, Waits, Cleaned, Sendable
  <1>9. Count(w)'
    <2>1. Started' = Started
      BY DEF Started, Credit
    <2>2. /\ Cardinality(Started) \in Nat /\ errors \in Nat /\ errors' \in Nat
          /\ w.starts \in Nat
      BY <1>1, StartedFinite, Numbers, AiQueueAssumption DEF TypeOK
    <2> QED  BY <1>1, <2>1, <2>2 DEF Good, Core, Count
  <1>10. Saved(w, dropped)' /\ Somewhere(w, dropped, None)'
    BY <1>1 DEF Good, Core, Saved, Somewhere, Queued
  <1> QED
    BY <1>1, <1>2, <1>3, <1>4, <1>5, <1>6, <1>7, <1>8, <1>9, <1>10 DEF IInv, Good, Core

(* The run is over, and says so.                                            *)
LEMMA RunOver ==
    ASSUME TypeOK, Good(w', dropped), run # None, run' = None,
           events' \in Seq(Event),
           \A i \in DOMAIN events' :
              \/ \E j \in DOMAIN events : events'[i] = events[j]
              \/ events'[i].id = run.id /\ events'[i].ms = {},
           UNCHANGED <<chat, injected, refused, dropped, acts, errors>>,
           stops' \in SUBSET StreamId
    PROVE  IInv'
  <1>1. w' \in Scope /\ ~Pending(w')
    BY DEF Good, Core, Runs
  <1>2. TypeOK'
    BY <1>1 DEF TypeOK
  <1>3. Entries(w, dropped)' /\ Draft(w, dropped)' /\ Written(w, dropped)'
    BY DEF Good, Core, Entries, Unique, Entry, Credit, Arrived, Sess, NewSession, Pending,
           Draft, Queued, Written
  <1>4. Undecided(w, dropped)'
    BY <1>1 DEF Undecided, Pending
  <1>5. Start(w)' /\ Stream(w)' /\ Shows(w)'
    BY DEF Good, Core, Start, Stream, Shows, NewSession, Pending, Queued, Sess
  <1>6. Runs(w)'
    <2>1. run.id <= w'.starts
      BY DEF Good, Core, Runs, Stream
    <2> QED  BY <2>1 DEF Good, Core, Runs
  <1>7. Inserting(w)' /\ Quiet(w)'
    BY DEF Good, Core, Inserting, OnItsWay, Quiet, Untouched, Others
  <1>8. Hops(w)' /\ Found(w)' /\ Waiters(w)' /\ Cleaned(w)'
    BY DEF Good, Core, Hops, Late, AllLate, Found, Waiters, Waits, Cleaned, Sendable
  <1>9. Count(w)' /\ Saved(w, dropped)' /\ Somewhere(w, dropped, None)'
    BY DEF Good, Core, Count, Started, Credit, Saved, Somewhere, Queued
  <1> QED
    BY <1>1, <1>2, <1>3, <1>4, <1>5, <1>6, <1>7, <1>8, <1>9 DEF IInv, Good, Core

(* The run closes its inbox, or its provider fails.                         *)
LEMMA ClosesStays ==
    ASSUME IInv, RunCloses \/ RunFails
    PROVE  IInv'
  <1>1. TypeOK /\ run # None /\ run \in Run /\ None \notin Run
    BY AiQueueAssumption DEF IInv, TypeOK, RunCloses, RunFails
  <1>2. /\ run' \in Run /\ run'.id = run.id /\ run'.committed = run.committed
        /\ run'.inbox \subseteq run.inbox
    BY <1>1 DEF Run, RunCloses, RunFails
  <1>3. errors' \in 0..MaxErrors /\ errors' >= errors
    BY <1>1, Failures DEF RunCloses, RunFails, NoFailure
  <1>4. UNCHANGED <<w, chat, injected, events, stops, refused, dropped, acts>>
    BY DEF RunCloses, RunFails, history
  <1> QED  BY <1>1, <1>2, <1>3, <1>4, RunStays

(* An event more.                                                          *)
LEMMA OneMore ==
    ASSUME TypeOK, NEW e \in Event
    PROVE  LET q == Append(events, e)
           IN  /\ q \in Seq(Event)
               /\ \A i \in DOMAIN q :
                     q[i] = e \/ \E j \in DOMAIN events : q[i] = events[j]
  <1> DEFINE q == Append(events, e)
  <1>1. events \in Seq(Event)
    BY DEF TypeOK
  <1>2. /\ q \in Seq(Event) /\ DOMAIN q = 1..(Len(events) + 1)
        /\ DOMAIN events = 1..Len(events) /\ Len(events) \in Nat
        /\ \A i \in DOMAIN events : q[i] = events[i]
        /\ q[Len(events) + 1] = e
    BY <1>1, Appended
  <1>3. \A i \in DOMAIN q : i \in DOMAIN events \/ i = Len(events) + 1
    BY <1>2
  <1> HIDE DEF q
  <1>4. /\ q \in Seq(Event)
        /\ \A i \in DOMAIN q : q[i] = e \/ \E j \in DOMAIN events : q[i] = events[j]
    BY <1>2, <1>3
  <1> QED  BY <1>4 DEF q

(* The run ends with its last event.                                        *)
LEMMA EndsStays ==
    ASSUME IInv, RunEnds
    PROVE  IInv'
  <1> DEFINE e == [id |-> run.id, kind |-> run.state, ms |-> {}]
  <1>1. TypeOK /\ Good(w, dropped) /\ run # None /\ run \in Run
    BY DEF IInv, TypeOK, RunEnds
  <1>2. e \in Event /\ e.id = run.id /\ e.ms = {}
    BY <1>1 DEF RunEnds, Run, Event
  <1>3. events' = Append(events, e) /\ run' = None /\ w' = w
    BY DEF RunEnds
  <1> HIDE DEF e
  <1>4. /\ events' \in Seq(Event)
        /\ \A i \in DOMAIN events' :
             events'[i] = e \/ \E j \in DOMAIN events : events'[i] = events[j]
    <2> DEFINE q == Append(events, e)
    <2>1. /\ q \in Seq(Event)
          /\ \A i \in DOMAIN q : q[i] = e \/ \E j \in DOMAIN events : q[i] = events[j]
      BY <1>1, <1>2, OneMore
    <2>2. events' = q
      BY <1>3
    <2> HIDE DEF q
    <2> QED  BY <2>1, <2>2
  <1>5. /\ UNCHANGED <<chat, injected, refused, dropped, acts, errors>>
        /\ stops' \in SUBSET StreamId
    BY <1>1, Kind DEF RunEnds, history
  <1>6. Good(w', dropped)
    BY <1>1, <1>3
  <1> QED  BY <1>1, <1>2, <1>3, <1>4, <1>5, <1>6, RunOver

(* A stop arrives: the run is over, and the order of its last events is open. *)
LEMMA StopArrivesStays ==
    ASSUME IInv, w.resuming = None, NEW id \in StreamId, StopArrives(id)
    PROVE  IInv'
  <1>1. TypeOK /\ Good(w, dropped) /\ w \in Scope
    BY DEF IInv, Good, Core
  <1>2. Good(w', dropped)
    <2>1. CASE ~(w.starting # None /\ w.starting.phase = "stopping" /\ w.starting.id = id)
      <3>1. w' = w
        BY <2>1 DEF StopArrives
      <3> QED  BY <1>1, <3>1
    <2>2. CASE w.starting # None /\ w.starting.phase = "stopping" /\ w.starting.id = id
      <3> DEFINE str == IF w.stream = None THEN None ELSE [w.stream EXCEPT !.ready = TRUE]
                 st == [w.starting EXCEPT !.phase = "stopped"]
                 u == [w EXCEPT !.stream = str, !.starting = st]
      <3>1. ~Pending(w) /\ ~Queued(w, w.starting.m)
        BY <1>1, <2>2 DEF Pending, Good, Core, Start
      <3>2. str = w.stream
        <4>1. w.stream # None => w.stream \in StreamState /\ w.stream.ready = TRUE
          BY <1>1, <2>2, Parts DEF Good, Core, Start
        <4> QED  BY <4>1 DEF StreamState
      <3>3. w' = u
        <4>1. w' = [w EXCEPT !.starting = st]
          BY <2>2 DEF StopArrives
        <4> HIDE DEF st
        <4> QED  BY <1>1, <3>2, <4>1 DEF Scope
      <3>4. Acks(w, str, st)
        <4>1. "stopped" \in StopPhase
          BY DEF StopPhase
        <4> QED  BY <1>1, <2>2, <4>1, ReadyOrStopping
      <3>5. str \in StreamState \cup {None} /\ st \in StartState \cup {None}
        BY <3>4 DEF Acks
      <3> HIDE DEF str, st
      <3>6. Good(u, dropped)
        BY <1>1, <2>2, <3>1, <3>4, <3>5, Acknowledged
      <3> QED  BY <3>3, <3>6
    <2> QED  BY <2>1, <2>2
  <1>3. /\ stops' \in SUBSET StreamId
        /\ UNCHANGED <<chat, injected, refused, dropped, acts, errors>>
    BY <1>1, Kind DEF StopArrives, history
  <1>4. CASE run = None \/ run.id # id
    <2>1. run' = run /\ events' = events
      BY <1>4 DEF StopArrives
    <2> QED  BY <1>1, <1>2, <1>3, <2>1, Acted, Kind
  <1>5. CASE run # None /\ run.id = id
    <2> DEFINE stopped == [id |-> id, kind |-> "stopped", ms |-> {}]
               last == [id |-> id, kind |-> run.state, ms |-> {}]
    <2>1. /\ run' = None
          /\ \/ events' = events \o <<stopped>>
             \/ run.state # "live" /\ events' = events \o <<last, stopped>>
             \/ run.state # "live" /\ events' = events \o <<stopped, last>>
      BY <1>5 DEF StopArrives
    <2>2. /\ stopped \in Event /\ stopped.id = id /\ stopped.ms = {}
          /\ run.state # "live" => last \in Event
          /\ last.id = id /\ last.ms = {}
      BY <1>1, <1>5 DEF TypeOK, Run, Event
    <2>3. events \in Seq(Event)
      BY <1>1 DEF TypeOK
    <2> HIDE DEF stopped, last
    <2>4. \E a, b \in Event : /\ events' = events \o <<a>> \/ events' = events \o <<a, b>>
                              /\ a.id = id /\ a.ms = {} /\ b.id = id /\ b.ms = {}
      BY <2>1, <2>2
    <2>5. /\ events' \in Seq(Event)
          /\ \A i \in DOMAIN events' :
                \/ \E j \in DOMAIN events : events'[i] = events[j]
                \/ events'[i].id = id /\ events'[i].ms = {}
      <3>1. PICK a \in Event, b \in Event :
               /\ events' = events \o <<a>> \/ events' = events \o <<a, b>>
               /\ a.id = id /\ a.ms = {} /\ b.id = id /\ b.ms = {}
        BY <2>4
      <3>2. CASE events' = events \o <<a>>
        <4>1. /\ events' \in Seq(Event) /\ DOMAIN events' = 1..(Len(events) + 1)
              /\ DOMAIN events = 1..Len(events) /\ Len(events) \in Nat
              /\ \A i \in DOMAIN events : events'[i] = events[i]
              /\ events'[Len(events) + 1] = a
          BY <2>3, <3>2
        <4>2. \A i \in DOMAIN events' : i \in DOMAIN events \/ i = Len(events) + 1
          BY <4>1
        <4> QED  BY <3>1, <4>1, <4>2
      <3>3. CASE events' = events \o <<a, b>>
        <4>1. /\ events' \in Seq(Event) /\ DOMAIN events' = 1..(Len(events) + 2)
              /\ DOMAIN events = 1..Len(events) /\ Len(events) \in Nat
              /\ \A i \in DOMAIN events : events'[i] = events[i]
              /\ events'[Len(events) + 1] = a /\ events'[Len(events) + 2] = b
          BY <2>3, <3>3
        <4>2. \A i \in DOMAIN events' :
                 i \in DOMAIN events \/ i = Len(events) + 1 \/ i = Len(events) + 2
          BY <4>1
        <4> QED  BY <3>1, <4>1, <4>2
      <3> QED  BY <3>1, <3>2, <3>3
    <2> QED  BY <1>1, <1>2, <1>3, <1>5, <2>1, <2>5, RunOver
  <1> QED  BY <1>4, <1>5

(* A read arrives: nothing is on its way then, so what it finds is all there is. *)
LEMMA ReadStays ==
    ASSUME IInv, w.resuming = None, ReadArrives
    PROVE  IInv'
  <1> DEFINE rec == w.reconciling
             read == [rec EXCEPT !.phase = "read", !.found = injected]
             failed == [rec EXCEPT !.phase = "failed"]
  <1>1. TypeOK /\ Good(w, dropped) /\ w \in Scope /\ rec # None
    BY DEF IInv, ReadArrives, Good, Core
  <1>2. rec \in ReconcileState
    BY <1>1, Fields
  <1>3. /\ Late(rec) /\ (w.stream # None => AllLate(rec) /\ Untouched(w))
        /\ rec.found \subseteq injected
        /\ \A i \in DOMAIN rec.waiting : Waits(w, rec.waiting[i])
    BY <1>1 DEF Good, Core, Hops, Quiet, Found, Waiters
  <1>4. PICK r : /\ w' = [w EXCEPT !.reconciling = r]
                 /\ \/ r = read /\ rec.session # New
                    \/ r = failed
    <2>1. \/ w' = [w EXCEPT !.reconciling = read] /\ rec.session # New
          \/ w' = [w EXCEPT !.reconciling = failed]
      BY DEF ReadArrives
    <2> QED  BY <2>1
  <1>5. /\ r \in ReconcileState /\ r.session = rec.session /\ r.waiting = rec.waiting
        /\ r.found \subseteq injected
        /\ r.phase = "read" => r.session # New /\ r.found = injected
    <2>1. injected \in SUBSET Message
      BY <1>1 DEF TypeOK
    <2>2. CASE r = read /\ rec.session # New
      BY <1>2, <2>1, <2>2 DEF ReconcileState
    <2>3. CASE r = failed
      BY <1>2, <1>3, <2>3 DEF ReconcileState
    <2> QED  BY <1>4, <2>2, <2>3
  <1>6. Late(r) /\ (w.stream # None => AllLate(r))
    BY <1>3, <1>5 DEF Late, AllLate
  <1> HIDE DEF rec, read, failed
  <1> DEFINE u == [w EXCEPT !.reconciling = r]
  <1>7. Good(u, dropped)
    BY <1>1, <1>3, <1>5, <1>6, NewReconciliation
  <1> HIDE DEF u
  <1>8. Good(w', dropped)
    BY <1>4, <1>7 DEF u
  <1>9. errors' \in 0..MaxErrors /\ errors' >= errors
    BY <1>1, Failures DEF ReadArrives
  <1>10. /\ events' \in Seq(Event)
         /\ \A i \in DOMAIN events' : \E j \in DOMAIN events : events'[i] = events[j]
    BY <1>1 DEF TypeOK, ReadArrives, backend
  <1>11. /\ run' = run /\ chat' = chat /\ injected' = injected /\ dropped' = dropped
         /\ refused' \in SUBSET Message /\ stops' \in SUBSET StreamId
         /\ acts' \in 0..MaxActs /\ dropped' \in SUBSET Message
    BY <1>1, Kind DEF ReadArrives, backend, history
  <1> QED  BY <1>1, <1>8, <1>9, <1>10, <1>11, Stays

(* The inbox is persisted.                                                  *)
LEMMA Persisted ==
    ASSUME IInv, run # None, run.inbox # {}, run.inbox \cap injected = {},
           run' \in Run, run' # None, run'.id = run.id, run'.inbox = {},
           run'.committed = run.committed \cup run.inbox,
           chat' = [m \in Message |-> IF m \in run.inbox THEN chat[m] + 1 ELSE chat[m]],
           injected' = injected \cup run.inbox,
           events' \in Seq(Event),
           \A i \in DOMAIN events' :
              \/ \E j \in DOMAIN events : events'[i] = events[j]
              \/ events'[i].id = run.id /\ events'[i].ms = run.inbox
                   /\ events'[i].kind = "injected",
           UNCHANGED <<w, stops, refused, dropped, acts>>,
           errors' \in 0..MaxErrors, errors' >= errors
    PROVE  IInv'
  <1>1. TypeOK /\ Good(w, dropped) /\ w \in Scope /\ Unique(w)
    BY DEF IInv, Good, Core, Entries
  <1>2. /\ run.inbox \subseteq Message /\ injected \subseteq Message
        /\ \A m \in Message : chat[m] \in Nat
    BY <1>1 DEF TypeOK, Run
  <1>3. TypeOK'
    BY <1>1, <1>2 DEF TypeOK
  <1>4. /\ w.stream # None /\ w.stream.id = run.id /\ ~Pending(w) /\ ~Untouched(w)
        /\ w.stream.ready /\ w.reconciling = None
    BY <1>1 DEF Good, Core, Runs, Quiet, Untouched
  <1>5. \A m : ~Arrived(w, m)
    BY <1>1, <1>4 DEF Good, Core, Start, Arrived
  <1>6. \A m \in run.inbox : \E i \in DOMAIN w.queue :
           /\ w.queue[i].m = m /\ w.queue[i].ins # None
           /\ Entry(w, dropped, w.queue[i])
           /\ \A j \in DOMAIN w.queue : w.queue[j].m = m => j = i
    <2> SUFFICES ASSUME NEW m \in run.inbox
                 PROVE  \E i \in DOMAIN w.queue :
                           /\ w.queue[i].m = m /\ w.queue[i].ins # None
                           /\ Entry(w, dropped, w.queue[i])
                           /\ \A j \in DOMAIN w.queue : w.queue[j].m = m => j = i
      OBVIOUS
    <2>1. m \notin injected
      OBVIOUS
    <2>2. PICK i \in DOMAIN w.queue : w.queue[i].m = m /\ w.queue[i].ins # None
      BY <1>1, <2>1 DEF Good, Core, Runs, Kept
    <2>3. \A j \in DOMAIN w.queue : w.queue[j].m = m => j = i
      BY <1>1, <2>2 DEF Unique
    <2>4. Entry(w, dropped, w.queue[i])
      BY <1>1, <2>2 DEF Good, Core, Entries
    <2> QED  BY <2>2, <2>3, <2>4
  <1>7. \A m \in run.inbox : /\ chat[m] = 0 /\ m <= w.written /\ m \notin dropped
                             /\ Queued(w, m)
    BY <1>5, <1>6 DEF Entry, Credit, Queued
  <1>8. \A m \in Message : /\ m \in run.inbox => chat'[m] = 1 /\ Credit(m)' = 1
                           /\ m \notin run.inbox => chat'[m] = chat[m] /\ Credit(m)' = Credit(m)
    BY <1>2, <1>7 DEF Credit
  <1>9. Entries(w, dropped)'
    <2> SUFFICES ASSUME NEW i \in DOMAIN w.queue
                 PROVE  Entry(w, dropped, w.queue[i])'
      BY <1>1 DEF Entries, Unique
    <2>1. Entry(w, dropped, w.queue[i]) /\ w.queue[i].m \in Message
      BY <1>1, Items DEF Good, Core, Entries
    <2>2. w.queue[i].m \in injected' => w.queue[i].ins # None
      BY <1>6, <2>1 DEF Entry
    <2> QED
      BY <1>5, <1>8, <2>1, <2>2 DEF Entry, Sess, NewSession, Pending, Arrived
  <1>10. Draft(w, dropped)'
    <2>1. w.input # None => w.input \in Message /\ w.input \notin run.inbox
      BY <1>1, <1>7, Fields DEF Good, Core, Draft
    <2> QED  BY <1>1, <1>8, <2>1 DEF Good, Core, Draft, Queued
  <1>11. Written(w, dropped)'
    BY <1>1, <1>2, <1>7, <1>8 DEF Good, Core, Written
  <1>12. Undecided(w, dropped)' /\ Shows(w)'
    BY <1>1, <1>4 DEF Good, Core, Undecided, Pending, Shows
  <1>13. Start(w)'
    <2>1. w.starting # None => w.starting.m \in Message
      BY <1>1, Parts
    <2>2. \A m \in Message : chat[m] > 0 => chat'[m] > 0
      BY <1>8
    <2> QED  BY <1>1, <2>1, <2>2 DEF Good, Core, Start, NewSession, Pending, Queued
  <1>14. Stream(w)'
    BY <1>1 DEF Good, Core, Stream, NewSession, Pending, Sess
  <1>15. Runs(w)'
    <2>1. run.id <= w.starts
      BY <1>1, <1>4 DEF Good, Core, Stream
    <2>2. \A i \in DOMAIN events' :
             /\ events'[i].id <= w.starts
             /\ events'[i].kind # "injected" => events'[i].id # run.id
             /\ events'[i].ms \subseteq injected'
      BY <1>1, <2>1 DEF Good, Core, Runs
    <2> QED  BY <1>1, <1>4, <2>2 DEF Good, Core, Runs, Pending
  <1>16. Inserting(w)' /\ Quiet(w)'
    BY <1>1 DEF Good, Core, Inserting, OnItsWay, Kept, Quiet, Untouched, Others
  <1>17. Hops(w)' /\ Found(w)' /\ Waiters(w)' /\ Cleaned(w)'
    BY <1>1, <1>4 DEF Good, Core, Hops, Late, AllLate, Found, Waiters, Waits, Cleaned, Sendable
  <1>18. Count(w)'
    <2>1. Started' = Started
      <3>1. \A m \in Message : (chat'[m] > Credit(m)') <=> (chat[m] > Credit(m))
        <4>1. \A m \in run.inbox : ~(chat[m] > Credit(m))
          BY <1>2, <1>7 DEF Credit
        <4> QED  BY <1>8, <4>1
      <3> QED  BY <3>1 DEF Started
    <2>2. /\ Cardinality(Started) \in Nat /\ errors \in Nat /\ errors' \in Nat
          /\ w.starts \in Nat
      BY <1>1, StartedFinite, Numbers, AiQueueAssumption DEF TypeOK
    <2> QED  BY <1>1, <2>1, <2>2 DEF Good, Core, Count
  <1>19. Saved(w, dropped)'
    <2>1. w.unverified \in SUBSET Message /\ dropped \subseteq Message
      BY <1>1, Fields DEF TypeOK
    <2> QED  BY <1>1, <1>7, <1>8, <2>1 DEF Good, Core, Saved
  <1>20. Somewhere(w, dropped, None)'
    <2>1. \A m \in 1..w.written : m \in Message
      BY <1>1, Numbers DEF Message
    <2> QED  BY <1>1, <1>8, <2>1 DEF Good, Somewhere, Queued
  <1> QED
    BY <1>1, <1>3, <1>9, <1>10, <1>11, <1>12, <1>13, <1>14, <1>15, <1>16, <1>17, <1>18, <1>19,
       <1>20 DEF IInv, Good, Core

(* The run takes the messages of its inbox, or fails to.                    *)
LEMMA TakesStays ==
    ASSUME IInv, RunTakes
    PROVE  IInv'
  <1>1. /\ TypeOK /\ run # None /\ run.inbox # {} /\ run \in Run /\ None \notin Run
        /\ UNCHANGED <<w, stops, refused, dropped, acts>>
    BY AiQueueAssumption DEF IInv, TypeOK, RunTakes, history
  <1>2. errors' \in 0..MaxErrors /\ errors' >= errors
    BY <1>1, Failures DEF RunTakes
  <1>3. CASE /\ run.inbox \cap injected = {}
             /\ run' = [run EXCEPT !.inbox = {}, !.committed = @ \cup run.inbox]
             /\ chat' = [m \in Message |-> IF m \in run.inbox THEN chat[m] + 1 ELSE chat[m]]
             /\ injected' = injected \cup run.inbox
             /\ \/ UNCHANGED events
                \/ events' = Append(events,
                      [id |-> run.id, kind |-> "injected", ms |-> run.inbox])
    <2>1. /\ run' \in Run /\ run'.id = run.id /\ run'.inbox = {}
          /\ run'.committed = run.committed \cup run.inbox
      BY <1>1, <1>3 DEF Run
    <2> DEFINE e == [id |-> run.id, kind |-> "injected", ms |-> run.inbox]
    <2>2. e \in Event /\ e.id = run.id /\ e.kind = "injected" /\ e.ms = run.inbox
      BY <1>1 DEF Run, Event
    <2>3. UNCHANGED events \/ events' = Append(events, e)
      BY <1>3
    <2> HIDE DEF e
    <2>4. /\ events' \in Seq(Event)
          /\ \A i \in DOMAIN events' :
                events'[i] = e \/ \E j \in DOMAIN events : events'[i] = events[j]
      <3>1. LET q == Append(events, e)
            IN  /\ q \in Seq(Event)
                /\ \A i \in DOMAIN q :
                      q[i] = e \/ \E j \in DOMAIN events : q[i] = events[j]
        BY <1>1, <2>2, OneMore
      <3> QED  BY <1>1, <2>3, <3>1 DEF TypeOK
    <2>5. \A i \in DOMAIN events' :
             \/ \E j \in DOMAIN events : events'[i] = events[j]
             \/ events'[i].id = run.id /\ events'[i].ms = run.inbox
                  /\ events'[i].kind = "injected"
      BY <2>2, <2>4
    <2> QED  BY <1>1, <1>2, <1>3, <2>1, <2>4, <2>5, Persisted
  <1>4. CASE /\ run' = [run EXCEPT !.inbox = {}, !.state = "error"]
             /\ UNCHANGED <<chat, injected, events>>
    <2>1. /\ run' \in Run /\ run'.id = run.id /\ run'.committed = run.committed
          /\ run'.inbox \subseteq run.inbox
      BY <1>1, <1>4 DEF Run
    <2> QED  BY <1>1, <1>2, <1>4, <2>1, RunStays
  <1> QED  BY <1>3, <1>4 DEF RunTakes

(* An insertion gets to the backend: it takes the message, or has it already. *)
LEMMA Inserts ==
    ASSUME TypeOK, Good(w', dropped), NEW m \in Message, run # None, ~Untouched(w'),
           run' \in Run, run' # None, run'.id = run.id, run'.committed = run.committed,
           run'.inbox \subseteq run.inbox \cup {m}, Kept(w', m), ~OnItsWay(w'),
           events' \in Seq(Event),
           \A i \in DOMAIN events' :
              \/ \E j \in DOMAIN events : events'[i] = events[j]
              \/ events'[i].id = run.id /\ events'[i].ms \subseteq injected
                   /\ events'[i].kind = "injected",
           UNCHANGED <<chat, injected, stops, refused, dropped, acts, errors>>
    PROVE  IInv'
  <1>1. w' \in Scope /\ ~Pending(w') /\ w'.stream # None
    BY DEF Good, Core, Runs
  <1>2. TypeOK'
    BY <1>1 DEF TypeOK
  <1>3. Entries(w, dropped)' /\ Draft(w, dropped)' /\ Written(w, dropped)'
    BY DEF Good, Core, Entries, Unique, Entry, Credit, Arrived, Sess, NewSession, Pending,
           Draft, Queued, Written
  <1>4. Undecided(w, dropped)'
    BY <1>1 DEF Undecided, Pending
  <1>5. Start(w)' /\ Stream(w)' /\ Shows(w)'
    BY DEF Good, Core, Start, Stream, Shows, NewSession, Pending, Queued, Sess
  <1>6. Runs(w)'
    <2>1. run.id <= w'.starts
      BY DEF Good, Core, Runs, Stream
    <2>2. \A i \in DOMAIN events' :
             /\ events'[i].id <= w'.starts
             /\ events'[i].kind # "injected" => events'[i].id # run.id
             /\ events'[i].ms \subseteq injected'
      BY <2>1 DEF Good, Core, Runs
    <2>3. \A k \in run'.inbox : Kept(w, k)'
      BY DEF Good, Core, Runs, Kept
    <2> QED  BY <2>2, <2>3 DEF Good, Core, Runs, Pending
  <1>7. Inserting(w)'
    BY DEF Good, Core, Inserting, OnItsWay
  <1>8. Quiet(w)'
    BY <1>1 DEF Good, Core, Quiet, Others
  <1>9. Hops(w)' /\ Found(w)' /\ Waiters(w)' /\ Cleaned(w)'
    BY DEF Good, Core, Hops, Late, AllLate, Found, Waiters, Waits, Cleaned, Sendable
  <1>10. Count(w)' /\ Saved(w, dropped)' /\ Somewhere(w, dropped, None)'
    BY DEF Good, Core, Count, Started, Credit, Saved, Somewhere, Queued
  <1> QED
    BY <1>1, <1>2, <1>3, <1>4, <1>5, <1>6, <1>7, <1>8, <1>9, <1>10 DEF IInv, Good, Core

(* It is no longer on its way.                                              *)
Answer == {"ok", "closed", "error"}

(* An insertion that has arrived leaves the scope good.                     *)
LEMMA Delivered ==
    ASSUME TypeOK, NEW v, Good(v, dropped), v.inserting # None,
           NEW phase \in Answer,
           NEW u, u = [v EXCEPT !.inserting.phase = phase]
    PROVE  /\ Good(u, dropped) /\ Rest(v, u) /\ u.queue = v.queue /\ ~OnItsWay(u)
           /\ u.inserting # None /\ u.inserting.id = v.inserting.id
  <1>1. v \in Scope /\ v.inserting \in InsertState /\ None \notin InsertState
    BY Parts, AiQueueAssumption DEF Good, Core
  <1> DEFINE ins == [v.inserting EXCEPT !.phase = phase]
  <1>2. /\ ins \in InsertState /\ ins.id = v.inserting.id /\ ins.m = v.inserting.m
        /\ ins.phase # "sent"
    BY <1>1 DEF InsertState, Answer
  <1>3. u = [v EXCEPT !.inserting = ins]
    BY <1>1 DEF Scope
  <1> HIDE DEF ins
  <1>4. u \in Scope /\ Rest(v, u) /\ u.queue = v.queue /\ u.inserting = ins
    BY <1>1, <1>2, <1>3 DEF Scope, Rest
  <1>5. ~OnItsWay(u)
    BY <1>2, <1>4 DEF OnItsWay
  <1>6. Inserting(u) /\ Quiet(u)
    <2>1. u.inserting # None /\ u.inserting.id = v.inserting.id
      BY <1>1, <1>2, <1>4
    <2>2. Inserting(u)
      BY <1>4, <1>5, <2>1 DEF Good, Core, Inserting, Rest
    <2>3. v.stream # None => (Untouched(v) => Untouched(u))
      BY <1>4, <2>1 DEF Untouched, Rest
    <2> QED  BY <1>4, <2>2, <2>3 DEF Good, Core, Quiet, Rest
  <1>7. Good(u, dropped)
    BY <1>4, <1>6, InPlace DEF InsertionOf
  <1> QED  BY <1>1, <1>2, <1>4, <1>5, <1>7

(* An insertion arrives at the run, at another one, or too late.            *)
LEMMA EnqueueStays ==
    ASSUME IInv, w.resuming = None, EnqueueArrives
    PROVE  IInv'
  <1> DEFINE m == w.inserting.m
             mine == run # None /\ run.id = w.inserting.id
             e == [id |-> run.id, kind |-> "injected", ms |-> {m}]
  <1>1. TypeOK /\ Good(w, dropped) /\ w \in Scope /\ w.inserting # None /\ m \in Message
        /\ w.inserting.phase = "sent"
    BY Parts DEF IInv, EnqueueArrives, Good, Core
  <1>2. PICK phase \in Answer : w' = [w EXCEPT !.inserting.phase = phase]
    <2>1. \/ w' = [w EXCEPT !.inserting.phase =
                     IF mine /\ (m \in run.committed \/ ~run.closed) THEN "ok" ELSE "closed"]
          \/ w' = [w EXCEPT !.inserting.phase = "error"]
      BY DEF EnqueueArrives
    <2>2. "ok" \in Answer /\ "closed" \in Answer /\ "error" \in Answer
      BY DEF Answer
    <2> QED  BY <2>1, <2>2
  <1> DEFINE u == [w EXCEPT !.inserting.phase = phase]
  <1>3. /\ Good(u, dropped) /\ Rest(w, u) /\ u.queue = w.queue /\ ~OnItsWay(u)
        /\ u.inserting # None /\ u.inserting.id = w.inserting.id
    BY <1>1, Delivered
  <1>4. w' = u
    BY <1>2
  <1> HIDE DEF u
  <1>5. /\ Good(w', dropped) /\ ~OnItsWay(w') /\ w'.inserting # None
        /\ w'.inserting.id = w.inserting.id
        /\ w'.queue = w.queue /\ w'.stream = w.stream
    BY <1>3, <1>4 DEF Rest
  <1>6. /\ chat' = chat /\ injected' = injected /\ stops' = stops /\ refused' = refused
        /\ dropped' = dropped /\ acts' = acts
    BY DEF EnqueueArrives, history
  <1>7. ASSUME run' = run, events' = events
        PROVE  IInv'
    <2>1. errors' \in 0..MaxErrors /\ errors' >= errors
      BY <1>1, Failures DEF EnqueueArrives
    <2>2. /\ events' \in Seq(Event)
          /\ \A i \in DOMAIN events' : \E j \in DOMAIN events : events'[i] = events[j]
      BY <1>1, <1>7 DEF TypeOK
    <2>3. Good(w', dropped') /\ dropped' \in SUBSET Message /\ refused' \in SUBSET Message
          /\ stops' \in SUBSET StreamId /\ acts' \in 0..MaxActs
      BY <1>1, <1>5, <1>6, Kind
    <2> QED  BY <1>1, <1>6, <1>7, <2>1, <2>2, <2>3, Stays
  <1>8. ASSUME mine, NoFailure,
               \/ run' = run \/ run' = [run EXCEPT !.inbox = @ \cup {m}],
               \/ events' = events
               \/ events' = Append(events, e) /\ m \in run.committed
        PROVE  IInv'
    <2>1. run \in Run /\ run # None /\ None \notin Run /\ events \in Seq(Event)
      BY <1>1, <1>8, AiQueueAssumption DEF TypeOK
    <2>2. /\ run' \in Run /\ run' # None /\ run'.id = run.id /\ run'.committed = run.committed
          /\ run'.inbox \subseteq run.inbox \cup {m}
      BY <1>1, <1>8, <2>1 DEF Run
    <2>3. w.stream # None /\ w.stream.id = run.id /\ run.committed \subseteq injected
      BY <1>1, <2>1 DEF Good, Core, Runs
    <2>4. ~Untouched(w')
      BY <1>5, <1>8, <2>3 DEF Untouched
    <2>5. Kept(w', m)
      <3>1. OnItsWay(w)
        BY <1>1, <1>8 DEF OnItsWay
      <3> QED  BY <1>1, <1>5, <3>1 DEF Good, Core, Inserting, Kept
    <2>6. e \in Event /\ e.id = run.id /\ e.kind = "injected" /\ e.ms = {m}
      BY <1>1, <2>1 DEF Run, Event
    <2> HIDE DEF e
    <2>7. /\ events' \in Seq(Event)
          /\ \A i \in DOMAIN events' :
                \/ \E j \in DOMAIN events : events'[i] = events[j]
                \/ events'[i] = e /\ m \in run.committed
      <3>1. LET q == Append(events, e)
            IN  /\ q \in Seq(Event)
                /\ \A i \in DOMAIN q :
                      q[i] = e \/ \E j \in DOMAIN events : q[i] = events[j]
        BY <1>1, <2>6, OneMore
      <3> QED  BY <1>8, <2>1, <3>1
    <2>8. \A i \in DOMAIN events' :
             \/ \E j \in DOMAIN events : events'[i] = events[j]
             \/ events'[i].id = run.id /\ events'[i].ms \subseteq injected
                  /\ events'[i].kind = "injected"
      BY <2>3, <2>6, <2>7
    <2>9. errors' = errors
      BY <1>8 DEF NoFailure
    <2> HIDE DEF m
    <2>10. m \in Message
      BY <1>1
    <2> QED  BY <1>1, <1>5, <1>6, <2>1, <2>2, <2>4, <2>5, <2>7, <2>8, <2>9, <2>10, Inserts
  <1>9. CASE mine
    <2>1. \/ run' = run /\ events' = events
          \/ /\ NoFailure
             /\ \/ run' = run \/ run' = [run EXCEPT !.inbox = @ \cup {m}]
             /\ \/ events' = events
                \/ events' = Append(events, e) /\ m \in run.committed
      BY <1>9 DEF EnqueueArrives
    <2> QED  BY <1>7, <1>8, <1>9, <2>1
  <1>10. CASE ~mine
    <2>1. run' = run /\ events' = events
      BY <1>10 DEF EnqueueArrives
    <2> QED  BY <1>7, <2>1
  <1> QED  BY <1>9, <1>10

(* The run of a start.                                                      *)
LEMMA RunRecord ==
    ASSUME NEW id \in StreamId, NEW s \in Session, NEW none \in SUBSET Message,
           NEW closed \in BOOLEAN, NEW States, NEW state \in States, NEW r,
           r = [id |-> id, session |-> s, inbox |-> none, closed |-> closed,
                committed |-> none, state |-> state]
    PROVE  /\ r \in [id : StreamId, session : Session, inbox : SUBSET Message, closed : BOOLEAN,
                     committed : SUBSET Message, state : States]
           /\ r.id = id /\ r.inbox = none /\ r.committed = none
  OBVIOUS

(* ... is a run with an empty inbox.                                        *)
LEMMA FreshRun ==
    ASSUME NEW id \in StreamId, NEW s \in Session, NEW r,
           r = [id |-> id, session |-> s, inbox |-> {}, closed |-> FALSE, committed |-> {},
                state |-> "live"]
    PROVE  r \in Run /\ r # None /\ r.id = id /\ r.inbox = {} /\ r.committed = {}
  <1> DEFINE States == {"live", "finished", "error"}
             state == "live"
             none == {}
             closed == FALSE
  <1>1. closed \in BOOLEAN /\ state \in States /\ none \in SUBSET Message
    OBVIOUS
  <1>2. r = [id |-> id, session |-> s, inbox |-> none, closed |-> closed, committed |-> none,
             state |-> state]
    OBVIOUS
  <1> HIDE DEF States, state, none, closed
  <1>3. /\ r \in [id : StreamId, session : Session, inbox : SUBSET Message, closed : BOOLEAN,
                  committed : SUBSET Message, state : States]
        /\ r.id = id /\ r.inbox = none /\ r.committed = none
    BY <1>1, <1>2, RunRecord
  <1>4. r \in Run /\ None \notin Run
    BY <1>3, AiQueueAssumption DEF Run, States
  <1> QED  BY <1>3, <1>4 DEF none

(* The backend takes the start: the message is in the history.               *)
LEMMA StartSucceeds ==
    ASSUME IInv, w.resuming = None, w.starting # None, w.starting.phase = "sent", run = None,
           NEW st \in StartState, st = [w.starting EXCEPT !.phase = "ok"],
           w' = [w EXCEPT !.starting = st,
                          !.known = IF w.starting.wanted = New THEN @ + 1 ELSE @],
           run' = [id |-> w.starting.id, session |-> w.starting.session, inbox |-> {},
                   closed |-> FALSE, committed |-> {}, state |-> "live"],
           chat' = [chat EXCEPT ![w.starting.m] = @ + 1],
           UNCHANGED <<injected, events, stops, refused, dropped, acts, errors>>
    PROVE  IInv'
  <1> DEFINE m == w.starting.m
  <1>1. TypeOK /\ Good(w, dropped) /\ w \in Scope /\ Unique(w) /\ Pending(w)
    BY DEF IInv, Good, Core, Entries, Pending
  <1>2. /\ m \in Message /\ m <= w.written /\ w.starting.session \in Session
        /\ w.starting.id \in StreamId /\ w.starting.queued \in BOOLEAN
        /\ w.starting.wanted \in Shown
        /\ \A k \in Message : chat[k] \in Nat
        /\ chat \in [Message -> Nat] /\ None \notin StartState /\ None \notin Run
    BY <1>1, Parts, AiQueueAssumption DEF Good, Core, Start, TypeOK
  <1>3. /\ st # None /\ st.m = m /\ st.phase = "ok" /\ st.id = w.starting.id
        /\ st.session = w.starting.session /\ st.queued = w.starting.queued
        /\ st.wanted = w.starting.wanted
    BY <1>2 DEF StartState
  <1>4. /\ w.stream # None /\ w.stream.id = w.starting.id /\ ~w.stream.ready
        /\ chat[m] = Credit(m) /\ w.starting.id = w.starts
        /\ \A i \in DOMAIN events : events[i].id < w.starting.id
        /\ Untouched(w)
    BY <1>1, <1>2 DEF Good, Core, Undecided, Start, Quiet
  <1> DEFINE known == IF w.starting.wanted = New THEN w.known + 1 ELSE w.known
  <1>5. /\ known \in 0..MaxSessions /\ known >= w.known
        /\ w.starting.wanted # New => known = w.known
        /\ w.starting.session \in 1..known
        /\ w.starting.wanted = New => w.starting.session = known
    <2>1. w.known \in Nat /\ MaxSessions \in Nat /\ w.known <= MaxSessions
      BY <1>1, Numbers
    <2>2. w.starting.session \in Nat /\ w.starting.session >= 1
      BY <1>2, AiQueueAssumption DEF Session
    <2>3. CASE w.starting.wanted = New
      <3>1. w.known < MaxSessions /\ w.starting.session = w.known + 1
        BY <1>1, <2>3 DEF Good, Core, Start, NewSession
      <3> QED  BY <2>1, <2>2, <2>3, <3>1
    <2>4. CASE w.starting.wanted # New
      <3>1. w.starting.session <= w.known
        BY <1>1, <2>4 DEF Good, Core, Start
      <3> QED  BY <2>1, <2>2, <2>4, <3>1
    <2> QED  BY <2>3, <2>4
  <1>6. /\ w' \in Scope /\ w'.starting = st /\ w'.known = known
        /\ w'.active = w.active /\ w'.loading = w.loading /\ w'.stream = w.stream
        /\ w'.queue = w.queue /\ w'.input = w.input /\ w'.inserting = w.inserting
        /\ w'.reconciling = w.reconciling /\ w'.resuming = None
        /\ w'.unverified = w.unverified /\ w'.written = w.written /\ w'.starts = w.starts
    <2>1. w' = [w EXCEPT !.starting = st, !.known = known]
      OBVIOUS
    <2> HIDE DEF known
    <2> QED  BY <1>1, <1>5, <2>1, ZenonT(60) DEF Scope
  <1> HIDE DEF known
  <1>7. /\ ~Pending(w') /\ ~NewSession(w') /\ \A k : Arrived(w', k) <=> k = m
        /\ Sess(w') = 1..known \cup {New} /\ Sess(w) = Sess(w')
    <2>1. ~Pending(w') /\ ~NewSession(w') /\ \A k : Arrived(w', k) <=> k = m
      BY <1>3, <1>6 DEF Pending, NewSession, Arrived
    <2>2. Sess(w') = 1..known \cup {New}
      BY <1>6, <2>1 DEF Sess
    <2>3. w.known \in Nat /\ known \in Nat
      BY <1>1, <1>5, Numbers
    <2>4. CASE w.starting.wanted = New
      <3>1. NewSession(w) /\ known = w.known + 1 /\ w.starting.session = known
        BY <1>1, <1>5, <2>4 DEF NewSession, known
      <3>2. 1..known = 1..w.known \cup {known}
        BY <2>3, <3>1
      <3> QED  BY <2>1, <2>2, <3>1, <3>2 DEF Sess
    <2>5. CASE w.starting.wanted # New
      <3> QED  BY <1>5, <2>1, <2>2, <2>5 DEF Sess, NewSession
    <2> QED  BY <2>4, <2>5
  <1>8. run' \in Run /\ run' # None /\ run'.id = w.starting.id /\ run'.inbox = {}
        /\ run'.committed = {}
    <2> DEFINE id == w.starting.id
               s == w.starting.session
    <2>1. id \in StreamId /\ s \in Session
      BY <1>2
    <2>2. run' = [id |-> id, session |-> s, inbox |-> {}, closed |-> FALSE,
                  committed |-> {}, state |-> "live"]
      OBVIOUS
    <2> HIDE DEF id, s
    <2>3. run' \in Run /\ run' # None /\ run'.id = id /\ run'.inbox = {}
          /\ run'.committed = {}
      BY <2>1, <2>2, FreshRun
    <2> QED  BY <2>3 DEF id
  <1>9. /\ chat' \in [Message -> Nat] /\ chat'[m] = chat[m] + 1
        /\ \A k \in Message : k # m => chat'[k] = chat[k]
        /\ \A k \in Message : chat'[k] >= chat[k] /\ chat'[k] \in Nat
        /\ chat'[m] > Credit(m) /\ chat'[m] > 0
    BY <1>2, <1>4 DEF Credit
  <1> HIDE DEF m
  <1>10. TypeOK'
    BY <1>1, <1>6, <1>8, <1>9 DEF TypeOK
  <1>11. Entries(w, dropped)'
    <2> SUFFICES ASSUME NEW i \in DOMAIN w.queue
                 PROVE  Entry(w, dropped, w.queue[i])'
      BY <1>1, <1>6 DEF Entries, Unique
    <2>1. Entry(w, dropped, w.queue[i]) /\ w.queue[i].m \in Message
      BY <1>1, Items DEF Good, Core, Entries
    <2>2. ~Arrived(w, w.queue[i].m)
      BY <1>1 DEF Arrived, Pending
    <2>3. chat'[w.queue[i].m] = Credit(w.queue[i].m)' \/ Arrived(w', w.queue[i].m)
      BY <1>7, <1>9, <2>1, <2>2 DEF Entry, Credit
    <2>4. w.queue[i].session \in 1..w.known => w.queue[i].session \in 1..known
      <3>1. w.known \in Nat /\ known \in Nat
        BY <1>1, <1>5, Numbers
      <3> QED  BY <1>5, <3>1
    <2>5. w.queue[i].session = New => known < MaxSessions
      BY <1>1, <1>5, <2>1 DEF Entry, NewSession
    <2> QED  BY <1>6, <1>7, <2>1, <2>3, <2>4, <2>5 DEF Entry
  <1>12. Draft(w, dropped)'
    <2>1. w.input # None => w.input \in Message /\ w.input # m
      BY <1>1, Fields DEF Good, Core, Draft, m
    <2>2. w.input # None => /\ w.input <= w.written /\ chat'[w.input] = 0
                            /\ w.input \notin dropped /\ ~Queued(w, w.input)
      BY <1>1, <1>9, <2>1 DEF Good, Core, Draft
    <2>3. \A k : Queued(w, k)' <=> Queued(w, k)
      BY <1>6 DEF Queued
    <2>4. w.input # None => ~Queued(w, w.input)'
      BY <2>2, <2>3
    <2>5. CASE w.input = None
      BY <1>6, <2>5 DEF Draft
    <2>6. CASE w.input # None
      <3>1. w'.input <= w'.written /\ w'.input \notin dropped'
        BY <1>6, <2>2, <2>6
      <3>3. chat'[w'.input] = 0
        BY <1>6, <2>2, <2>6
      <3>4. w'.starting.m # w'.input
        BY <1>3, <1>6, <2>1, <2>6
      <3>2. ~Queued(w, w.input)'
        BY <2>4, <2>6
      <3> QED  BY <3>1, <3>2, <3>3, <3>4 DEF Draft
    <2> QED  BY <2>5, <2>6
  <1>13. Written(w, dropped)'
    <2>1. \A k \in Message : chat'[k] > 0 => chat[k] > 0 \/ k = m
      BY <1>9
    <2>2. injected \subseteq Message
      BY <1>1 DEF TypeOK
    <2> QED  BY <1>1, <1>2, <1>6, <1>9, <2>1, <2>2 DEF Good, Core, Written, m
  <1>14. Undecided(w, dropped)' /\ Shows(w)'
    <2>1. Undecided(w, dropped)'
      BY <1>7 DEF Undecided
    <2>2. Shows(w)
      BY <1>1 DEF Good, Core
    <2> QED  BY <1>3, <1>6, <2>1, <2>2 DEF Shows
  <1>15. Start(w)'
    <2>1. /\ st.id = w'.starts /\ m <= w.written /\ w.stream.id = st.id /\ ~w.stream.ready
          /\ st.session <= known
      BY <1>1, <1>2, <1>3, <1>4, <1>5, <1>6 DEF Good, Core, Start, m
    <2>2. st.wanted # New => st.session = st.wanted
      BY <1>1, <1>3 DEF Good, Core, Start
    <2>3. ~st.queued => ~Queued(w, m)
      BY <1>1, <1>3 DEF Good, Core, Start, m
    <2>4. Queued(w', m) <=> Queued(w, m)
      BY <1>6 DEF Queued
    <2> QED
      BY <1>3, <1>6, <1>7, <1>9, <2>1, <2>2, <2>3, <2>4 DEF Start
  <1>16. Stream(w)'
    <2>1. w.loading # None => w.loading <= known
      <3>1. w.known \in Nat /\ known \in Nat /\ Session \subseteq Nat
        BY <1>1, <1>5, Numbers
      <3>2. w.loading # None => w.loading \in Session /\ w.loading <= w.known
        BY <1>1, Fields DEF Good, Core, Stream
      <3> QED  BY <1>5, <3>1, <3>2
    <2> QED  BY <1>1, <1>3, <1>6, <1>7, <2>1 DEF Good, Core, Stream
  <1>17. Runs(w)'
    <2>1. \A i \in DOMAIN events : events[i].id # w.starting.id
      <3>1. \A i \in DOMAIN events : events[i].id \in Nat
        BY <1>1, Events
      <3>2. w.starting.id \in Nat
        BY <1>1, <1>2, Numbers
      <3> QED  BY <1>4, <3>1, <3>2
    <2> QED  BY <1>1, <1>4, <1>6, <1>7, <1>8, <2>1 DEF Good, Core, Runs
  <1>18. Inserting(w)' /\ Quiet(w)'
    <2>1. Untouched(w)'
      BY <1>4, <1>6, <1>8 DEF Untouched
    <2>2. ~OnItsWay(w)'
      BY <1>4, <1>6, <1>8 DEF Untouched, OnItsWay
    <2> QED  BY <1>1, <1>6, <2>1, <2>2 DEF Good, Core, Inserting, Quiet
  <1>19. Hops(w)' /\ Found(w)' /\ Cleaned(w)'
    BY <1>1, <1>4, <1>6 DEF Good, Core, Hops, Found, Cleaned
  <1>20. Waiters(w)'
    <2>1. \A x : Waits(w, x) => Waits(w', x)
      <3> SUFFICES ASSUME NEW x, Waits(w, x) PROVE Waits(w', x)
        OBVIOUS
      <3>1. x.session \in 1..known \cup {New}
        <4>1. w.known \in Nat /\ known \in Nat
          BY <1>1, <1>5, Numbers
        <4> QED  BY <1>5, <4>1 DEF Waits
      <3>2. x.kind = "send" => (st # None /\ ~st.queued => st.m # x.m)
        BY <1>3 DEF Waits, m
      <3> QED  BY <1>6, <3>1, <3>2, ZenonT(60) DEF Waits
    <2> QED  BY <1>1, <1>6, <2>1 DEF Good, Core, Waiters
  <1>21. Count(w)'
    <2>1. Started' = Started \cup {m} /\ m \notin Started
      <3>1. m \in Started' /\ m \notin Started
        BY <1>2, <1>4, <1>9 DEF Started, Credit, m
      <3>2. \A k \in Message : k # m => (k \in Started' <=> k \in Started)
        BY <1>9 DEF Started, Credit
      <3> QED  BY <1>2, <3>1, <3>2 DEF Started
    <2>2. IsFiniteSet(Started) /\ Cardinality(Started) \in Nat /\ errors \in Nat
          /\ w.starts \in Nat
      BY <1>1, StartedFinite, Numbers, AiQueueAssumption DEF TypeOK
    <2>3. Cardinality(Started') = Cardinality(Started) + 1
      BY <2>1, <2>2, FS_AddElement
    <2>4. w.starts <= Cardinality(Started) + errors + 1
      BY <1>1 DEF Good, Core, Count
    <2>5. w.starts <= Cardinality(Started') + errors
      BY <2>2, <2>3, <2>4
    <2> QED  BY <1>3, <1>6, <2>2, <2>3, <2>5 DEF Count
  <1>22. Saved(w, dropped)'
    <2>1. m \notin w.unverified => chat[m] = 0 /\ m \notin dropped
      <3> SUFFICES ASSUME m \notin w.unverified PROVE chat[m] = 0 /\ m \notin dropped
        OBVIOUS
      <3>1. CASE ~w.starting.queued
        BY <1>1, <3>1 DEF Good, Core, Undecided, m
      <3>2. CASE w.starting.queued
        <4>1. Sending(w, m)
          BY <1>1, <3>2 DEF Good, Core, Undecided, m
        <4>2. PICK i \in DOMAIN w.queue : w.queue[i].m = m /\ w.queue[i].ins = None
          BY <4>1 DEF Sending
        <4>3. Entry(w, dropped, w.queue[i])
          BY <1>1, <4>2 DEF Good, Core, Entries
        <4> QED  BY <1>4, <4>2, <4>3 DEF Entry, Credit, m
      <3> QED  BY <1>2, <3>1, <3>2
    <2>2. dropped \subseteq Message
      BY <1>1 DEF TypeOK
    <2> QED  BY <1>1, <1>6, <1>9, <2>1, <2>2 DEF Good, Core, Saved
  <1>23. Somewhere(w, dropped, None)'
    <2>1. \A k \in 1..w.written : k \in Message
      BY <1>1, Numbers DEF Message
    <2>2. \A k \in Message : chat[k] > 0 => chat'[k] > 0
      BY <1>2, <1>9
    <2>3. \A k : Queued(w, k)' <=> Queued(w, k)
      BY <1>6 DEF Queued
    <2>4. \A k \in 1..w.written :
             \/ chat[k] > 0 \/ k \in dropped
             \/ Queued(w, k) \/ w.input = k \/ (k = m /\ ~st.queued) \/ k = None
      BY <1>1, <1>3 DEF Good, Somewhere, m
    <2> QED  BY <1>3, <1>6, <2>1, <2>2, <2>3, <2>4 DEF Somewhere
  <1> QED
    BY <1>6, <1>10, <1>11, <1>12, <1>13, <1>14, <1>15, <1>16, <1>17, <1>18, <1>19, <1>20,
       <1>21, <1>22, <1>23 DEF IInv, Good, Core

(* The backend refuses the start: the message is nowhere but in the window.  *)
LEMMA StartRefused ==
    ASSUME IInv, w.resuming = None, w.starting # None, w.starting.phase = "sent",
           NEW st \in StartState, st = [w.starting EXCEPT !.phase = "rejected"],
           w' = [w EXCEPT !.starting = st], MayFail,
           UNCHANGED <<run, chat, injected, events, stops, refused, dropped, acts>>
    PROVE  IInv'
  <1>1. TypeOK /\ Good(w, dropped) /\ w \in Scope /\ Unique(w) /\ Pending(w)
    BY DEF IInv, Good, Core, Entries, Pending
  <1>2. /\ w.starting.m \in Message /\ w.starting.id \in StreamId
        /\ None \notin StartState
    BY <1>1, Parts, AiQueueAssumption
  <1>3. /\ st # None /\ st.m = w.starting.m /\ st.phase = "rejected" /\ st.id = w.starting.id
        /\ st.session = w.starting.session /\ st.queued = w.starting.queued
        /\ st.wanted = w.starting.wanted
    BY <1>1, <1>2, Parts DEF StartState
  <1>4. /\ w' \in Scope /\ w'.starting = st /\ w'.known = w.known
        /\ w'.active = w.active /\ w'.loading = w.loading /\ w'.stream = w.stream
        /\ w'.queue = w.queue /\ w'.input = w.input /\ w'.inserting = w.inserting
        /\ w'.reconciling = w.reconciling /\ w'.resuming = None
        /\ w'.unverified = w.unverified /\ w'.written = w.written /\ w'.starts = w.starts
    BY <1>1 DEF Scope
  <1>5. /\ Pending(w') /\ (NewSession(w') <=> NewSession(w)) /\ Sess(w') = Sess(w)
        /\ \A k : ~Arrived(w', k) /\ ~Arrived(w, k)
    BY <1>1, <1>3, <1>4, ZenonT(60) DEF Pending, NewSession, Sess, Arrived
  <1>6. errors' \in 0..MaxErrors /\ errors' = errors + 1 /\ errors \in Nat
    BY <1>1, Failures, AiQueueAssumption DEF MayFail, TypeOK
  <1>7. TypeOK'
    BY <1>1, <1>4, <1>6 DEF TypeOK
  <1>8. \A k : Queued(w, k)' <=> Queued(w, k)
    BY <1>4 DEF Queued
  <1>9. Entries(w, dropped)' /\ Written(w, dropped)'
    <2>1. ASSUME NEW i \in DOMAIN w.queue
          PROVE  Entry(w, dropped, w.queue[i])'
      <3>1. Entry(w, dropped, w.queue[i])
        BY <1>1 DEF Good, Core, Entries
      <3> QED  BY <1>4, <1>5, <3>1 DEF Entry, Credit
    <2>2. Entries(w, dropped)'
      BY <1>1, <1>4, <2>1 DEF Entries, Unique
    <2> QED  BY <1>1, <1>4, <2>2 DEF Good, Core, Written
  <1>10. Draft(w, dropped)'
    <2>1. CASE w.input = None
      BY <1>4, <2>1 DEF Draft
    <2>2. CASE w.input # None
      <3>1. /\ w.input <= w.written /\ chat[w.input] = 0 /\ w.input \notin dropped
            /\ ~Queued(w, w.input) /\ w.starting.m # w.input
        BY <1>1, <2>2 DEF Good, Core, Draft
      <3>2. w'.input <= w'.written /\ chat'[w'.input] = 0 /\ w'.input \notin dropped'
        BY <1>4, <3>1
      <3>3. w'.starting.m # w'.input
        BY <1>3, <1>4, <3>1
      <3> QED  BY <1>4, <1>8, <3>1, <3>2, <3>3 DEF Draft
    <2> QED  BY <2>1, <2>2
  <1>11. Undecided(w, dropped)'
    <2>1. Sending(w, st.m) => Sending(w', st.m)
      BY <1>4 DEF Sending
    <2>2. /\ w.stream # None /\ run = None /\ chat[st.m] = Credit(st.m)
          /\ \A i \in DOMAIN events : events[i].id < st.id
          /\ ~st.queued => chat[st.m] = 0 /\ st.m \notin dropped
          /\ st.queued /\ st.m \notin w.unverified => Sending(w', st.m)
      BY <1>1, <1>3, <2>1 DEF Good, Core, Undecided
    <2>3. Sending(w', st.m) <=> Sending(w, st.m)'
      BY <1>4 DEF Sending
    <2>4. /\ w'.stream # None /\ run' = None
          /\ \A i \in DOMAIN events' : events'[i].id < w'.starting.id
      BY <1>4, <2>2
    <2>6. chat' = chat /\ injected' = injected /\ dropped' = dropped /\ w'.starting = st
      BY <1>4
    <2>7. chat'[w'.starting.m] = Credit(w.starting.m)'
      BY <2>2, <2>6, Zenon DEF Credit
    <2>8. ~w'.starting.queued => chat'[w'.starting.m] = 0 /\ w'.starting.m \notin dropped'
      BY <2>2, <2>6, Zenon
    <2>5. w'.starting.queued /\ w'.starting.m \notin w'.unverified =>
             Sending(w, w.starting.m)'
      BY <1>4, <2>2, <2>3, ZenonT(60) DEF Sending
    <2> QED  BY <2>4, <2>5, <2>7, <2>8 DEF Undecided
  <1>12. Start(w)'
    BY <1>1, <1>3, <1>4, <1>5, <1>8, ZenonT(60) DEF Good, Core, Start
  <1>13. Stream(w)' /\ Shows(w)'
    BY <1>1, <1>3, <1>4, <1>5 DEF Good, Core, Stream, Shows
  <1>14. Runs(w)' /\ Inserting(w)' /\ Quiet(w)'
    BY <1>1, <1>4 DEF Good, Core, Runs, Inserting, OnItsWay, Kept, Quiet, Untouched, Others
  <1>15. Hops(w)' /\ Found(w)' /\ Cleaned(w)'
    BY <1>1, <1>4 DEF Good, Core, Hops, Late, AllLate, Found, Cleaned
  <1>16. Waiters(w)'
    <2>1. \A x : Waits(w, x) => Waits(w', x)
      <3> SUFFICES ASSUME NEW x, Waits(w, x) PROVE Waits(w', x)
        OBVIOUS
      <3>1. x.kind = "send" => (st # None /\ ~st.queued => st.m # x.m)
        BY <1>3 DEF Waits
      <3> QED  BY <1>4, <3>1, ZenonT(60) DEF Waits
    <2> QED  BY <1>1, <1>4, <2>1 DEF Good, Core, Waiters
  <1>17. Count(w)'
    <2>1. Started' = Started
      BY DEF Started, Credit
    <2>2. Cardinality(Started) \in Nat /\ w.starts \in Nat
      BY <1>1, StartedFinite, Numbers
    <2> QED  BY <1>1, <1>3, <1>4, <1>6, <2>1, <2>2 DEF Good, Core, Count
  <1>18. Saved(w, dropped)'
    BY <1>1, <1>4 DEF Good, Core, Saved
  <1>19. Somewhere(w, dropped, None)'
    BY <1>1, <1>3, <1>4, <1>8 DEF Good, Somewhere
  <1> QED
    BY <1>4, <1>7, <1>9, <1>10, <1>11, <1>12, <1>13, <1>14, <1>15, <1>16, <1>17, <1>18, <1>19
       DEF IInv, Good, Core

(* A start gets to the backend.                                             *)
LEMMA StartStays ==
    ASSUME IInv, w.resuming = None, StartArrives
    PROVE  IInv'
  <1>1. TypeOK /\ w \in Scope /\ w.starting # None /\ w.starting.phase = "sent"
        /\ w.starting \in StartState
    BY Parts DEF IInv, Good, Core, StartArrives
  <1>2. UNCHANGED <<injected, events, stops, refused, dropped, acts>>
    BY DEF StartArrives, history
  <1>3. CASE /\ run = None
             /\ w' = [w EXCEPT !.starting.phase = "ok",
                               !.known = IF w.starting.wanted = New THEN @ + 1 ELSE @]
             /\ run' = [id |-> w.starting.id, session |-> w.starting.session, inbox |-> {},
                        closed |-> FALSE, committed |-> {}, state |-> "live"]
             /\ chat' = [chat EXCEPT ![w.starting.m] = @ + 1]
             /\ NoFailure
    <2> DEFINE st == [w.starting EXCEPT !.phase = "ok"]
    <2>1. st \in StartState
      BY <1>1 DEF StartState
    <2>2. w' = [w EXCEPT !.starting = st,
                         !.known = IF w.starting.wanted = New THEN @ + 1 ELSE @]
      BY <1>1, <1>3 DEF Scope
    <2>3. errors' = errors
      BY <1>3 DEF NoFailure
    <2> QED  BY <1>1, <1>2, <1>3, <2>1, <2>2, <2>3, StartSucceeds
  <1>4. CASE /\ w' = [w EXCEPT !.starting.phase = "rejected"]
             /\ UNCHANGED <<run, chat>>
             /\ MayFail
    <2> DEFINE st == [w.starting EXCEPT !.phase = "rejected"]
    <2>1. st \in StartState
      BY <1>1 DEF StartState
    <2>2. w' = [w EXCEPT !.starting = st]
      BY <1>4
    <2> QED  BY <1>1, <1>2, <1>4, <2>1, <2>2, StartRefused
  <1> QED  BY <1>3, <1>4 DEF StartArrives

-----------------------------------------------------------------------------
(* The specification.                                                      *)

(* The invariant holds of an empty scope.                                   *)
LEMMA AtFirst ==
    ASSUME Init
    PROVE  IInv
  <1>1. /\ w.active = New /\ w.loading = None /\ w.stream = None /\ w.queue = <<>>
        /\ w.input = None /\ w.starting = None /\ w.inserting = None /\ w.reconciling = None
        /\ w.resuming = None /\ w.unverified = {} /\ w.written = 0 /\ w.starts = 0
        /\ w.known = 1
    BY DEF Init
  <1>2. w \in Scope
    BY AiQueueAssumption DEF Init, Scope, Shown
  <1>3. TypeOK
    <2>1. /\ run = None /\ chat \in [Message -> Nat] /\ injected = {} /\ events \in Seq(Event)
          /\ stops = {} /\ refused = {} /\ dropped = {} /\ acts = 0 /\ errors = 0
      BY DEF Init
    <2> QED  BY <1>2, <2>1, AiQueueAssumption DEF TypeOK
  <1>4. /\ run = None /\ injected = {} /\ dropped = {} /\ DOMAIN events = {}
        /\ DOMAIN w.queue = {} /\ \A m \in Message : chat[m] = 0
    BY <1>1 DEF Init
  <1>5. Entries(w, dropped) /\ Draft(w, dropped) /\ Written(w, dropped)
    BY <1>1, <1>4 DEF Entries, Unique, Draft, Written
  <1>6. Undecided(w, dropped) /\ Start(w) /\ Stream(w) /\ Shows(w)
    BY <1>1 DEF Undecided, Pending, Start, Stream, Sess, Shows
  <1>7. Runs(w) /\ Inserting(w) /\ Quiet(w) /\ Hops(w) /\ Found(w) /\ Waiters(w) /\ Cleaned(w)
    BY <1>1, <1>4 DEF Runs, Inserting, OnItsWay, Quiet, Hops, Found, Waiters, Cleaned
  <1>8. Count(w) /\ Saved(w, dropped)
    <2>1. Cardinality(Started) \in Nat /\ errors \in Nat
      BY <1>3, StartedFinite, AiQueueAssumption DEF TypeOK
    <2> QED  BY <1>1, <1>4, <2>1 DEF Count, Saved
  <1>9. Somewhere(w, dropped, None)
    BY <1>1 DEF Somewhere
  <1> QED  BY <1>2, <1>3, <1>5, <1>6, <1>7, <1>8, <1>9 DEF IInv, Good, Core

(* Those that waited go on.                                                 *)
LEMMA GoesOnStays ==
    ASSUME IInv, ResumeNext
    PROVE  IInv'
  <1>1. TypeOK /\ Good(w', dropped)
    BY ResumesNext DEF IInv
  <1>2. UNCHANGED <<run, chat, injected, events, stops, refused, dropped, acts, errors>>
    BY DEF ResumeNext, backend, history
  <1>3. /\ stops \in SUBSET StreamId /\ refused \in SUBSET Message
        /\ dropped \in SUBSET Message /\ acts \in 0..MaxActs
    BY <1>1, Kind
  <1> QED  BY <1>1, <1>2, <1>3, Acted

(* What the user does keeps the invariant.                                  *)
LEMMA UserStays ==
    ASSUME IInv, w.resuming = None, UserActs
    PROVE  IInv'
  <1>1. CASE Write
    BY <1>1, WriteStays
  <1>2. CASE stopAiMessage
    BY <1>2, StopStays
  <1>3. CASE startNewSession
    BY <1>3, NewChatStays
  <1>4. CASE \E immediate \in BOOLEAN : sendMessage(immediate)
    BY <1>4, SendStays
  <1>5. ASSUME NEW m \in Message,
               sendQueuedAiMessageNow(m) \/ DeleteEntry(m) \/ EditEntry(m)
        PROVE  IInv'
    BY <1>5, SendNowStays, DeleteStays, EditStays
  <1>6. CASE \E s \in Session : openSession(s)
    BY <1>6, OpenStays
  <1> QED  BY <1>1, <1>2, <1>3, <1>4, <1>5, <1>6 DEF UserActs

(* So does what the window does when something arrives.                     *)
LEMMA WindowStays ==
    ASSUME IInv, w.resuming = None, WindowGoesOn
    PROVE  IInv'
  BY AckStays, StoppedStays, RejectedStays, InsertionStays, ReconciledStays, EventStays
     DEF WindowGoesOn

(* So does what the backend does.                                           *)
LEMMA BackendStays ==
    ASSUME IInv, w.resuming = None, CommandsArrive \/ RunGoesOn
    PROVE  IInv'
  <1>1. CASE CommandsArrive
    BY <1>1, StartStays, EnqueueStays, ReadStays, StopArrivesStays DEF CommandsArrive
  <1>2. CASE RunGoesOn
    BY <1>2, TakesStays, ClosesStays, EndsStays DEF RunGoesOn
  <1> QED  BY <1>1, <1>2

(* The invariant holds in every state, of any number of messages, sessions,  *)
(* acts and failures.                                                       *)
THEOREM Invariance == Spec => []IInv
  <1>1. Init => IInv
    BY AtFirst
  <1>2. IInv /\ [Next]_vars => IInv'
    <2> SUFFICES ASSUME IInv, [Next]_vars
                 PROVE  IInv'
      OBVIOUS
    <2>1. CASE ResumeNext
      BY <2>1, GoesOnStays
    <2>2. CASE w.resuming = None /\ SessionLoaded
      BY <2>2, LoadedStays
    <2>3. CASE /\ w.resuming = None
               /\ UserActs \/ WindowGoesOn \/ CommandsArrive \/ RunGoesOn
      BY <2>3, UserStays, WindowStays, BackendStays
    <2>4. CASE UNCHANGED vars
      <3>1. TypeOK /\ Good(w', dropped)
        BY <2>4 DEF IInv, vars
      <3>2. UNCHANGED <<run, chat, injected, events, stops, refused, dropped, acts, errors>>
        BY <2>4 DEF vars, backend, history
      <3>3. /\ stops \in SUBSET StreamId /\ refused \in SUBSET Message
            /\ dropped \in SUBSET Message /\ acts \in 0..MaxActs
        BY <3>1, Kind
      <3> QED  BY <3>1, <3>2, <3>3, Acted
    <2> QED  BY <2>1, <2>2, <2>3, <2>4 DEF Next
  <1> QED  BY <1>1, <1>2, PTL DEF Spec

(* The window, the backend and the history have the states that are declared. *)
THEOREM TypeCorrect == Spec => []TypeOK
  <1>1. IInv => TypeOK
    BY DEF IInv
  <1> QED  BY <1>1, Invariance, PTL

(* No message enters the history twice, whichever way and however often it   *)
(* was sent, but one that the queue sends without a look at the insertion.   *)
THEOREM AlwaysSavedOnce == Spec => []SavedOnce
  <1>1. IInv => SavedOnce
    BY DEF IInv, Good, Core, Saved, SavedOnce
  <1> QED  BY <1>1, Invariance, PTL

(* No failure, stop or late answer loses a message.                         *)
THEOREM NothingEverLost == Spec => []NothingLost
  <1>1. IInv => NothingLost
    <2> SUFFICES ASSUME IInv, NEW m \in 1..w.written
                 PROVE  \/ chat[m] > 0 \/ m \in dropped
                        \/ Queued(w, m) \/ w.input = m
                        \/ w.starting # None /\ w.starting.m = m
      BY DEF NothingLost
    <2>1. w \in Scope /\ m \in Message
      BY Numbers DEF IInv, Good, Core, Message
    <2>2. m # None
      BY <2>1, Numbers
    <2> QED  BY <2>2 DEF IInv, Good, Somewhere
  <1> QED  BY <1>1, Invariance, PTL

(* A message that was deleted before it was sent is never sent, but for such *)
(* a one.                                                                   *)
THEOREM DeletedAlwaysOut == Spec => []DeletedStaysOut
  <1>1. IInv => DeletedStaysOut
    BY DEF IInv, Good, Core, Saved, DeletedStaysOut
  <1> QED  BY <1>1, Invariance, PTL

(* The session that a draft is sent to is the one that is shown until the     *)
(* start is answered: none is opened while it is sent, none was being opened.  *)
THEOREM DraftAlwaysShown == Spec => []DraftIsShown
  <1>1. IInv => DraftIsShown
    BY DEF IInv, Good, Core, Shows, DraftIsShown
  <1> QED  BY <1>1, Invariance, PTL
=============================================================================
