------------------------- MODULE FileTransfer_proofs -------------------------
(***************************************************************************)
(* Proofs about FileTransfer: its type invariant and every safety property  *)
(* of the transfer panel, for any number of transfers, limits, sizes of the *)
(* history, acts of the user and progress events.                          *)
(***************************************************************************)
EXTENDS FileTransfer, FiniteSetTheorems, TLAPS

-----------------------------------------------------------------------------
(* The inductive invariant, of a state of the window that may be one in the *)
(* middle of a step.                                                       *)

Settled == Finished \cup {"error"}

(* What a row tells of its task; `but' is a task about to end.              *)
RowsBut(v, but) ==
    \A t \in Transfer :
        /\ v.status[t] = "queued" => t \in v.tasks /\ v.at[t] = "idle" /\ InQueue(v, t)
        /\ t # but /\ v.at[t] # "idle" => v.status[t] \in {"none", "running", "canceled"}
        /\ v.at[t] = "stage" => t \in Staged
        /\ t \notin Download /\ v.status[t] = "running" => v.bar[t] # "full"

Rows(v) == RowsBut(v, None)

(* The queue holds the queued rows, each once.                              *)
Queue(v) ==
    /\ \A i, j \in 1..Len(v.queue) : v.queue[i] = v.queue[j] => i = j
    /\ \A i \in 1..Len(v.queue) : v.status[v.queue[i]] = "queued"

Slots(v) == \A t \in Transfer : t \in v.running <=> v.at[t] # "idle"

Prompted(v) == v.prompt # None => v.at[v.prompt] = "ask"

WindowInv(v) == v \in Window /\ Rows(v) /\ Queue(v) /\ Slots(v) /\ Prompted(v)

(* A cancelled row shows nothing of what was transferred.                   *)
CanceledEmpty == \A t \in Transfer : w.status[t] = "canceled" => w.bar[t] = "zero"

(* Transfers that are not made yet have neither row nor task.               *)
Fresh == \A t \in Transfer : t > made => w.status[t] = "none" /\ w.at[t] = "idle"

(* A command that is done has an answer.                                    *)
HasAnswer == \A t \in Transfer : w.at[t] = "done" => answer[t] # None

(* Nothing waits while a slot is free.                                       *)
SlotsFull == w.queue = <<>> \/ Cardinality(w.running) >= limit

IInv == TypeOK /\ WindowInv(w) /\ CanceledEmpty /\ Fresh /\ HasAnswer /\ SlotsFull

-----------------------------------------------------------------------------
(* The rows.                                                               *)

LEMMA WindowFields ==
    ASSUME NEW v \in Window
    PROVE  /\ v.status \in [Transfer -> Status] /\ v.bar \in [Transfer -> {"zero", "part", "full"}]
           /\ v.retry \in [Transfer -> BOOLEAN] /\ v.queue \in Seq(Transfer)
           /\ v.running \in SUBSET Transfer /\ v.tasks \in SUBSET Transfer
           /\ v.at \in [Transfer -> Steps] /\ v.prompt \in Transfer \cup {None}
  BY DEF Window

(* Trimming the history makes settled rows disappear, and nothing else.     *)
LEMMA Trimmed ==
    ASSUME NEW status \in [Transfer -> Status]
    PROVE  /\ trimTransferHistory(status) \in [Transfer -> Status]
           /\ \A t \in Transfer :
                 \/ trimTransferHistory(status)[t] = status[t]
                 \/ status[t] \in Settled /\ trimTransferHistory(status)[t] = "none"
  BY DEF trimTransferHistory, TooMany, Settled, Status

(* From v to u the window kept all but its rows, and perhaps the retry      *)
(* records and the awaits of tasks.                                         *)
SameQueue(v, u) ==
    /\ u \in Window
    /\ u.queue = v.queue /\ u.running = v.running /\ u.tasks = v.tasks /\ u.prompt = v.prompt

(* Other rows stay or are trimmed.                                          *)
OthersStay(v, u, t) ==
    \A x \in Transfer \ {t} :
        /\ u.bar[x] = v.bar[x]
        /\ u.status[x] = v.status[x] \/ (v.status[x] \in Settled /\ u.status[x] = "none")

(* The row of t, if there is one, has the status s and the bar b, or is      *)
(* trimmed at once.                                                         *)
RowIs(v, u, t, s, b) ==
    /\ v.status[t] = "none" => u.status[t] = "none" /\ u.bar[t] = v.bar[t]
    /\ v.status[t] # "none" =>
          u.bar[t] = b /\ (u.status[t] = s \/ (s \in Settled /\ u.status[t] = "none"))

Renewed(v, u, t, s, b) ==
    SameQueue(v, u) /\ OthersStay(v, u, t) /\ RowIs(v, u, t, s, b) /\ u.at = v.at

(* An update changes the row of its transfer, if there is one, and trims.    *)
LEMMA Updated ==
    ASSUME NEW v \in Window, NEW t \in Transfer, NEW s \in Status \ {"none"},
           NEW b \in {"zero", "part", "full"}
    PROVE  Renewed(v, updateRemoteFileTransfer(v, t, s, b), t, s, b)
  <1> DEFINE u == updateRemoteFileTransfer(v, t, s, b)
  <1>1. CASE v.status[t] = "none"
    <2>1. u = v
      BY <1>1 DEF updateRemoteFileTransfer
    <2> QED  BY <1>1, <2>1 DEF Renewed, SameQueue, OthersStay, RowIs
  <1>2. CASE v.status[t] # "none"
    <2> DEFINE new == [v.status EXCEPT ![t] = s]
               status == trimTransferHistory(new)
               bar == [v.bar EXCEPT ![t] = b]
    <2>1. /\ new \in [Transfer -> Status] /\ new[t] = s
          /\ \A x \in Transfer \ {t} : new[x] = v.status[x]
          /\ bar \in [Transfer -> {"zero", "part", "full"}] /\ bar[t] = b
          /\ \A x \in Transfer \ {t} : bar[x] = v.bar[x]
      BY WindowFields
    <2>2. u = [v EXCEPT !.status = status, !.bar = bar]
      BY <1>2 DEF updateRemoteFileTransfer
    <2>3. /\ status \in [Transfer -> Status]
          /\ \A x \in Transfer :
                status[x] = new[x] \/ (new[x] \in Settled /\ status[x] = "none")
      BY <2>1, Trimmed
    <2> HIDE DEF new, status, bar, u
    <2>4. u \in Window /\ SameQueue(v, u) /\ u.status = status /\ u.bar = bar /\ u.at = v.at
      BY <2>1, <2>2, <2>3 DEF SameQueue, Window
    <2>5. Renewed(v, u, t, s, b)
      BY <1>2, <2>1, <2>3, <2>4 DEF Renewed, OthersStay, RowIs
    <2> QED  BY <2>5 DEF u
  <1> QED  BY <1>1, <1>2

(* A row that is shown as running.                                          *)
LEMMA ShownRunning ==
    ASSUME NEW v \in Window, NEW t \in Transfer
    PROVE  Renewed(v, setTransferProgress(v, t), t, "running", "part")
  <1>1. "running" \in Status \ {"none"}
    BY DEF Status
  <1> QED  BY <1>1, Updated DEF setTransferProgress

(* A task that goes on once its policy is known.                            *)
Resumed(v, u, t) ==
    /\ SameQueue(v, u) /\ OthersStay(v, u, t) /\ RowIs(v, u, t, "running", "part")
    /\ u.at[t] \in {"stage", "sent"} /\ (u.at[t] = "stage" => t \in Staged)
    /\ \A x \in Transfer \ {t} : u.at[x] = v.at[x]

LEMMA Proceeded ==
    ASSUME NEW v \in Window, NEW t \in Transfer
    PROVE  Resumed(v, Proceed(v, t), t)
  <1> DEFINE retry == [v.retry EXCEPT ![t] = v.status[t] # "none"]
             r == [v EXCEPT !.retry = retry]
             p == setTransferProgress(r, t)
             to == IF t \in Staged THEN "stage" ELSE "sent"
             at == [p.at EXCEPT ![t] = to]
             u == [p EXCEPT !.at = at]
  <1>1. Proceed(v, t) = u
    BY DEF Proceed
  <1>2. retry \in [Transfer -> BOOLEAN]
    BY WindowFields
  <1> HIDE DEF retry
  <1>3. r \in Window /\ SameQueue(v, r) /\ r.status = v.status /\ r.bar = v.bar /\ r.at = v.at
    BY <1>2 DEF SameQueue, Window
  <1> HIDE DEF r
  <1>4. Renewed(r, p, t, "running", "part") /\ p \in Window
    BY <1>3, ShownRunning DEF Renewed, SameQueue
  <1> HIDE DEF p
  <1>5. /\ at \in [Transfer -> Steps] /\ at[t] \in {"stage", "sent"}
        /\ at[t] = "stage" => t \in Staged
        /\ \A x \in Transfer \ {t} : at[x] = p.at[x]
    BY <1>4, WindowFields DEF Steps
  <1> HIDE DEF at
  <1>6. SameQueue(p, u) /\ u.status = p.status /\ u.bar = p.bar /\ u.at = at
    BY <1>4, <1>5 DEF SameQueue, Window
  <1> HIDE DEF u
  <1>7. Resumed(v, u, t)
    BY <1>3, <1>4, <1>5, <1>6 DEF Resumed, Renewed, SameQueue, OthersStay, RowIs
  <1> QED  BY <1>1, <1>7

(* A task begins.                                                          *)
LEMMA Begun ==
    ASSUME NEW v \in Window, NEW t \in Transfer, v.status[t] = "queued"
    PROVE  /\ Begin(v, t) \in Window
           /\ Begin(v, t).status[t] = "running" /\ Begin(v, t).bar[t] = "part"
           /\ Begin(v, t).at[t] \in {"check", "stage", "sent"}
           /\ Begin(v, t).at[t] = "stage" => t \in Staged
  <1>0. "running" \notin Settled
    BY DEF Settled, Finished
  <1>1. CASE t \in Asking /\ ~v.retry[t]
    <2> DEFINE p == setTransferProgress(v, t)
               at == [p.at EXCEPT ![t] = "check"]
    <2>1. p \in Window /\ p.status[t] = "running" /\ p.bar[t] = "part"
      BY <1>0, ShownRunning DEF Renewed, SameQueue, RowIs
    <2>2. Begin(v, t) = [p EXCEPT !.at = at]
      BY <1>1 DEF Begin
    <2> HIDE DEF p
    <2>3. at \in [Transfer -> Steps] /\ at[t] = "check"
      BY <2>1, WindowFields DEF Steps
    <2> HIDE DEF at
    <2> QED  BY <2>1, <2>2, <2>3 DEF Window
  <1>2. CASE ~ (t \in Asking /\ ~v.retry[t])
    <2>1. Begin(v, t) = Proceed(v, t)
      BY <1>2 DEF Begin
    <2> QED  BY <1>0, <2>1, Proceeded DEF Resumed, SameQueue, RowIs
  <1> QED  BY <1>1, <1>2

-----------------------------------------------------------------------------
(* The queue.                                                              *)

LEMMA TransfersFinite == /\ IsFiniteSet(Transfer)
                         /\ \A S \in SUBSET Transfer : IsFiniteSet(S) /\ Cardinality(S) \in Nat
  <1>1. IsFiniteSet(Transfer)
    BY TransferAssumption, FS_Interval DEF Transfer
  <1> QED  BY <1>1, FS_Subset, FS_CardinalityType

(* Everything in the queue can run.                                         *)
LEMMA AllRunnable ==
    ASSUME NEW v, WindowInv(v), NEW n \in 0..Len(v.queue)
    PROVE  RunnableUpTo(v, n) = 1..n /\ Cardinality(RunnableUpTo(v, n)) = n
  <1>1. v.queue \in Seq(Transfer) /\ Len(v.queue) \in Nat
    BY WindowFields DEF WindowInv
  <1>2. \A i \in 1..n : i \in 1..Len(v.queue) /\ v.queue[i] \in Transfer
    BY <1>1
  <1>3. \A i \in 1..n : Runnable(v, v.queue[i])
    BY <1>2 DEF WindowInv, Queue, Rows, RowsBut, Runnable
  <1>4. RunnableUpTo(v, n) = 1..n
    BY <1>3 DEF RunnableUpTo
  <1>5. Cardinality(1..n) = n
    BY <1>1, FS_Interval
  <1> QED  BY <1>4, <1>5

(* How much of the queue is taken.                                          *)
LEMMA TakenWithinLimit ==
    ASSUME NEW v, WindowInv(v), NEW lim \in Nat
    PROVE  /\ Taken(v, lim) \in 0..Len(v.queue)
           /\ Taken(v, lim) = Len(v.queue) \/ Cardinality(v.running) + Taken(v, lim) >= lim
           /\ Taken(v, lim) = 0 \/ Cardinality(v.running) + Taken(v, lim) <= lim
  <1> DEFINE c == Cardinality(v.running)
             P(n) == /\ \/ n = Len(v.queue)
                        \/ c + Cardinality(RunnableUpTo(v, n)) >= lim
                     /\ \A k \in 0..(n - 1) : c + Cardinality(RunnableUpTo(v, k)) < lim
             m == IF c >= lim THEN 0
                  ELSE IF c + Len(v.queue) >= lim THEN lim - c ELSE Len(v.queue)
  <1>1. Len(v.queue) \in Nat /\ c \in Nat
    BY WindowFields, TransfersFinite DEF WindowInv
  <1>2. \A k \in 0..Len(v.queue) : Cardinality(RunnableUpTo(v, k)) = k
    BY AllRunnable
  <1> HIDE DEF c
  <1>3. m \in 0..Len(v.queue) /\ \A k \in 0..(m - 1) : k \in 0..Len(v.queue)
    BY <1>1
  <1>4. P(m)
    BY <1>1, <1>2, <1>3
  <1>5. Taken(v, lim) = CHOOSE n \in 0..Len(v.queue) : P(n)
    BY DEF Taken, c
  <1> HIDE DEF P, m
  <1>6. Taken(v, lim) \in 0..Len(v.queue) /\ P(Taken(v, lim))
    BY <1>3, <1>4, <1>5
  <1> DEFINE n == Taken(v, lim)
  <1>7. n \in 0..Len(v.queue) /\ P(n)
    BY <1>6
  <1> HIDE DEF n
  <1>8. n = Len(v.queue) \/ c + n >= lim
    BY <1>2, <1>7 DEF P
  <1>9. n = 0 \/ c + n <= lim
    <2>1. CASE n # 0
      <3>1. n - 1 \in 0..(n - 1) /\ n - 1 \in 0..Len(v.queue)
        BY <1>1, <1>7, <2>1
      <3>2. c + (n - 1) < lim
        BY <1>2, <1>7, <3>1 DEF P
      <3> QED  BY <1>1, <1>7, <3>2
    <2> QED  BY <2>1
  <1> QED  BY <1>7, <1>8, <1>9 DEF n, c

(* The transfers at the head of the queue: as many as positions, and none    *)
(* runs yet.                                                               *)
LEMMA StartedCount ==
    ASSUME NEW v, WindowInv(v), NEW lim \in Nat
    PROVE  /\ Started(v, lim) = {v.queue[i] : i \in 1..Taken(v, lim)}
           /\ Dropped(v, lim) = {}
           /\ Started(v, lim) \in SUBSET Transfer
           /\ Cardinality(v.running \cup Started(v, lim)) = Cardinality(v.running) + Taken(v, lim)
  <1> DEFINE n == Taken(v, lim)
             S == {v.queue[i] : i \in 1..n}
  <1>1. n \in 0..Len(v.queue)
    BY TakenWithinLimit
  <1>2. RunnableUpTo(v, n) = 1..n
    BY <1>1, AllRunnable
  <1>3. Started(v, lim) = S
    BY <1>2 DEF Started
  <1>4. Dropped(v, lim) = {}
    BY <1>3 DEF Dropped
  <1>5. v.queue \in Seq(Transfer) /\ Len(v.queue) \in Nat /\ v.running \in SUBSET Transfer
    BY WindowFields DEF WindowInv
  <1> HIDE DEF n
  <1>6. \A i \in 1..n : i \in 1..Len(v.queue) /\ v.queue[i] \in Transfer
    BY <1>1, <1>5
  <1>7. S \in SUBSET Transfer
    BY <1>6
  <1>8. Cardinality(S) = n
    <2> DEFINE f == [i \in 1..n |-> v.queue[i]]
    <2>1. \A i, j \in 1..n : f[i] = f[j] => i = j
      BY <1>6 DEF WindowInv, Queue
    <2>2. f \in [1..n -> S] /\ \A s \in S : \E i \in 1..n : f[i] = s
      OBVIOUS
    <2>3. ExistsBijection(1..n, S)
      BY <2>1, <2>2 DEF ExistsBijection, Bijection, Injection, Surjection, IsInjective
    <2>4. n \in Nat
      BY <1>1, <1>5
    <2> QED  BY <2>3, <2>4, FS_CountingElements
  <1>9. v.running \cap S = {}
    BY <1>6 DEF WindowInv, Queue, Rows, RowsBut, Slots
  <1> HIDE DEF S
  <1>10. Cardinality(v.running \cup S) = Cardinality(v.running) + n
    <2>1. IsFiniteSet(v.running) /\ IsFiniteSet(S) /\ Cardinality(v.running) \in Nat
      BY <1>5, <1>7, TransfersFinite
    <2>2. Cardinality(v.running \cap S) = 0
      BY <1>9, FS_EmptySet
    <2>3. Cardinality(v.running \cup S)
          = Cardinality(v.running) + Cardinality(S) - Cardinality(v.running \cap S)
      BY <2>1, FS_Union
    <2>4. n \in Nat
      BY <1>1, <1>5
    <2> QED  BY <1>8, <2>1, <2>2, <2>3, <2>4
  <1> QED  BY <1>3, <1>4, <1>7, <1>10 DEF n, S

(* What the start of the transfers ts makes of v.                           *)
StartedFrom(v, d, ts) ==
    /\ d \in Window /\ d.prompt = v.prompt /\ d.queue = v.queue /\ d.tasks = v.tasks
    /\ d.running = v.running \cup ts
    /\ \A t \in Transfer \ ts :
          d.status[t] = v.status[t] /\ d.bar[t] = v.bar[t] /\ d.at[t] = v.at[t]
    /\ \A t \in ts :
          /\ d.status[t] = "running" /\ d.bar[t] = "part"
          /\ d.at[t] \in {"check", "stage", "sent"} /\ (d.at[t] = "stage" => t \in Staged)

LEMMA StartedRows ==
    ASSUME NEW v \in Window, NEW ts \in SUBSET Transfer, \A t \in ts : v.status[t] = "queued"
    PROVE  StartedFrom(v, StartAll(v, ts), ts)
  <1> DEFINE begun == [t \in ts |-> Begin(v, t)]
             status == [t \in Transfer |-> IF t \in ts THEN begun[t].status[t] ELSE v.status[t]]
             bar == [t \in Transfer |-> IF t \in ts THEN begun[t].bar[t] ELSE v.bar[t]]
             retry == [t \in Transfer |-> IF t \in ts THEN begun[t].retry[t] ELSE v.retry[t]]
             at == [t \in Transfer |-> IF t \in ts THEN begun[t].at[t] ELSE v.at[t]]
             d == [v EXCEPT !.status = status, !.bar = bar, !.retry = retry, !.at = at,
                            !.running = v.running \cup ts]
  <1>1. StartAll(v, ts) = d
    BY DEF StartAll
  <1>2. \A t \in ts :
           /\ begun[t] \in Window
           /\ begun[t].status[t] = "running" /\ begun[t].bar[t] = "part"
           /\ begun[t].at[t] \in {"check", "stage", "sent"}
           /\ begun[t].at[t] = "stage" => t \in Staged
    BY Begun
  <1> HIDE DEF begun
  <1>3. /\ status \in [Transfer -> Status] /\ bar \in [Transfer -> {"zero", "part", "full"}]
        /\ at \in [Transfer -> Steps] /\ retry \in [Transfer -> BOOLEAN]
    <2>1. \A t \in Transfer : status[t] \in Status
      BY <1>2, WindowFields
    <2>2. \A t \in Transfer : bar[t] \in {"zero", "part", "full"}
      BY <1>2, WindowFields
    <2>3. \A t \in Transfer : at[t] \in Steps
      BY <1>2, WindowFields
    <2>4. \A t \in Transfer : retry[t] \in BOOLEAN
      BY <1>2, WindowFields
    <2> QED  BY <2>1, <2>2, <2>3, <2>4
  <1>4. /\ \A t \in Transfer \ ts :
              status[t] = v.status[t] /\ bar[t] = v.bar[t] /\ at[t] = v.at[t]
        /\ \A t \in ts :
              /\ status[t] = "running" /\ bar[t] = "part"
              /\ at[t] \in {"check", "stage", "sent"} /\ (at[t] = "stage" => t \in Staged)
    BY <1>2
  <1> HIDE DEF status, bar, retry, at
  <1>5. /\ d \in Window /\ d.prompt = v.prompt /\ d.queue = v.queue /\ d.tasks = v.tasks
        /\ d.running = v.running \cup ts
        /\ d.status = status /\ d.bar = bar /\ d.at = at
    BY <1>3, WindowFields DEF Window
  <1> HIDE DEF d
  <1>6. StartedFrom(v, d, ts)
    BY <1>4, <1>5 DEF StartedFrom
  <1> QED  BY <1>1, <1>6

(* What draining the queue with the limit lim makes of v.                   *)
DrainedTo(v, d, lim) ==
    /\ WindowInv(d)
    /\ d.prompt = v.prompt
    /\ d.queue = <<>> \/ Cardinality(d.running) >= lim
    /\ d.running = v.running \/ Cardinality(d.running) <= lim
    /\ \A t \in Transfer :
          \/ d.status[t] = v.status[t] /\ d.bar[t] = v.bar[t] /\ d.at[t] = v.at[t]
          \/ /\ v.status[t] = "queued" /\ d.status[t] = "running"
             /\ d.at[t] \in {"check", "stage", "sent"}

LEMMA Drained ==
    ASSUME NEW v, WindowInv(v), NEW lim \in Nat
    PROVE  DrainedTo(v, drainTransferQueue(v, lim), lim)
  <1> DEFINE n == Taken(v, lim)
             ts == Started(v, lim)
             s == StartAll(v, ts)
             queue == SubSeq(v.queue, n + 1, Len(v.queue))
             tasks == v.tasks \ Dropped(v, lim)
             d == [s EXCEPT !.queue = queue, !.tasks = tasks]
  <1>1. drainTransferQueue(v, lim) = d
    BY DEF drainTransferQueue
  <1>2. /\ n \in 0..Len(v.queue)
        /\ n = Len(v.queue) \/ Cardinality(v.running) + n >= lim
        /\ n = 0 \/ Cardinality(v.running) + n <= lim
    BY TakenWithinLimit
  <1>3. /\ ts = {v.queue[i] : i \in 1..n} /\ tasks = v.tasks
        /\ ts \in SUBSET Transfer
        /\ Cardinality(v.running \cup ts) = Cardinality(v.running) + n
    BY StartedCount, WindowFields DEF WindowInv
  <1>4. /\ v \in Window /\ v.queue \in Seq(Transfer) /\ Len(v.queue) \in Nat
        /\ v.tasks \in SUBSET Transfer
        /\ \A i \in 1..Len(v.queue) : v.queue[i] \in Transfer /\ v.status[v.queue[i]] = "queued"
    BY WindowFields DEF WindowInv, Queue
  <1> HIDE DEF n, ts, tasks
  <1>5. \A t \in ts : v.status[t] = "queued"
    BY <1>2, <1>3, <1>4
  <1>6. StartedFrom(v, s, ts)
    BY <1>3, <1>4, <1>5, StartedRows
  <1> HIDE DEF s
  <1>7. /\ queue \in Seq(Transfer) /\ Len(queue) = Len(v.queue) - n
        /\ \A i \in 1..Len(queue) : queue[i] = v.queue[i + n] /\ i + n \in 1..Len(v.queue)
    BY <1>2, <1>4
  <1> HIDE DEF queue
  <1>8. /\ d \in Window /\ d.queue = queue /\ d.tasks = v.tasks /\ d.prompt = v.prompt
        /\ d.running = v.running \cup ts /\ d.status = s.status /\ d.bar = s.bar /\ d.at = s.at
    BY <1>3, <1>4, <1>6, <1>7 DEF StartedFrom, Window
  <1> HIDE DEF d
  <1>9. Queue(d)
    <2>1. \A i, j \in 1..Len(queue) : queue[i] = queue[j] => i = j
      <3>1. \A i, j \in 1..Len(v.queue) : v.queue[i] = v.queue[j] => i = j
        BY DEF WindowInv, Queue
      <3>2. ASSUME NEW i \in 1..Len(queue), NEW j \in 1..Len(queue), queue[i] = queue[j]
            PROVE  i = j
        <4>1. i + n = j + n
          BY <3>1, <3>2, <1>7
        <4>2. i \in Int /\ j \in Int /\ n \in Int
          BY <1>2, <1>4, <1>7
        <4> QED  BY <4>1, <4>2
      <3> QED  BY <3>2
    <2>2. ASSUME NEW i \in 1..Len(queue)  PROVE queue[i] \notin ts
      <3>1. SUFFICES ASSUME NEW k \in 1..n, queue[i] = v.queue[k]  PROVE FALSE
        BY <1>3
      <3>2. v.queue[k] = v.queue[i + n] /\ k \in 1..Len(v.queue) /\ i + n \in 1..Len(v.queue)
        BY <1>2, <1>4, <1>7, <3>1
      <3>3. k = i + n
        BY <3>2 DEF WindowInv, Queue
      <3> QED  BY <1>2, <1>4, <1>7, <3>3
    <2>3. ASSUME NEW i \in 1..Len(queue)  PROVE s.status[queue[i]] = "queued"
      BY <1>4, <1>6, <1>7, <2>2 DEF StartedFrom
    <2> QED  BY <1>8, <2>1, <2>3 DEF Queue
  <1>10. Rows(d)
    <2> SUFFICES ASSUME NEW t \in Transfer
                 PROVE  /\ d.status[t] = "queued" =>
                             t \in d.tasks /\ d.at[t] = "idle" /\ InQueue(d, t)
                        /\ d.at[t] # "idle" => d.status[t] \in {"none", "running", "canceled"}
                        /\ d.at[t] = "stage" => t \in Staged
                        /\ t \notin Download /\ d.status[t] = "running" => d.bar[t] # "full"
      BY DEF Rows, RowsBut
    <2>1. CASE t \in ts
      BY <1>6, <1>8, <2>1 DEF StartedFrom
    <2>2. CASE t \notin ts
      <3>1. d.status[t] = v.status[t] /\ d.bar[t] = v.bar[t] /\ d.at[t] = v.at[t]
        BY <1>6, <1>8, <2>2 DEF StartedFrom
      <3>2. ASSUME d.status[t] = "queued"  PROVE InQueue(d, t)
        <4>1. PICK i \in 1..Len(v.queue) : v.queue[i] = t
          BY <3>1, <3>2 DEF WindowInv, Rows, RowsBut, InQueue
        <4>2. i \notin 1..n
          BY <1>3, <2>2, <4>1
        <4>3. i - n \in 1..Len(queue) /\ i = (i - n) + n
          BY <1>2, <1>4, <1>7, <4>2
        <4>4. queue[i - n] = t
          BY <1>7, <4>1, <4>3
        <4> QED  BY <1>8, <4>3, <4>4 DEF InQueue
      <3>3. t # None
        BY TransferAssumption
      <3> QED  BY <1>8, <3>1, <3>2, <3>3 DEF WindowInv, Rows, RowsBut
    <2> QED  BY <2>1, <2>2
  <1>11. Slots(d)
    BY <1>6, <1>8 DEF WindowInv, Slots, StartedFrom
  <1>12. Prompted(d)
    <2>1. d.prompt # None => d.prompt \in Transfer \ ts
      BY <1>5, <1>8, WindowFields DEF WindowInv, Prompted, Rows, RowsBut
    <2> QED  BY <1>6, <1>8, <2>1 DEF WindowInv, Prompted, StartedFrom
  <1>13. d.queue = <<>> \/ Cardinality(d.running) >= lim
    <2>1. n = Len(v.queue) => Len(queue) = 0
      BY <1>4, <1>7
    <2> QED  BY <1>2, <1>3, <1>7, <1>8, <2>1
  <1>14. d.running = v.running \/ Cardinality(d.running) <= lim
    <2>1. n = 0 => ts = {}
      BY <1>3
    <2> QED  BY <1>2, <1>3, <1>8, <2>1
  <1>15. \A t \in Transfer :
           \/ d.status[t] = v.status[t] /\ d.bar[t] = v.bar[t] /\ d.at[t] = v.at[t]
           \/ /\ v.status[t] = "queued" /\ d.status[t] = "running"
              /\ d.at[t] \in {"check", "stage", "sent"}
    BY <1>5, <1>6, <1>8 DEF StartedFrom
  <1>16. DrainedTo(v, d, lim)
    BY <1>8, <1>9, <1>10, <1>11, <1>12, <1>13, <1>14, <1>15 DEF DrainedTo, WindowInv
  <1> QED  BY <1>1, <1>16

-----------------------------------------------------------------------------
(* The steps of the window between two states of the invariant.             *)

(* A new status of the row of a transfer that is not queued.                *)
LEMMA RenewedInv ==
    ASSUME NEW v, WindowInv(v), NEW t \in Transfer, v.status[t] # "queued",
           NEW u, NEW s, NEW b, Renewed(v, u, t, s, b), s # "queued",
           s = "running" => b # "full"
    PROVE  /\ u \in Window /\ RowsBut(u, t) /\ Queue(u) /\ Slots(u) /\ Prompted(u)
           /\ v.at[t] = "idle" \/ s \in {"running", "canceled"} => WindowInv(u)
  <1>1. /\ v \in Window /\ u \in Window /\ u.queue = v.queue /\ u.running = v.running
        /\ u.tasks = v.tasks /\ u.prompt = v.prompt /\ u.at = v.at
    BY DEF WindowInv, Renewed, SameQueue
  <1>2. \A x \in Transfer : u.status[x] = "queued" <=> v.status[x] = "queued"
    BY DEF Renewed, OthersStay, RowIs, Settled, Finished
  <1>3. Queue(u)
    <2>1. v.queue \in Seq(Transfer) /\ \A i \in 1..Len(v.queue) : v.queue[i] \in Transfer
      BY <1>1, WindowFields
    <2> QED  BY <1>1, <1>2, <2>1 DEF WindowInv, Queue
  <1>4. Slots(u) /\ Prompted(u)
    BY <1>1 DEF WindowInv, Slots, Prompted
  <1>5. ASSUME NEW x \in Transfer
        PROVE  /\ u.status[x] = "queued" => x \in u.tasks /\ u.at[x] = "idle" /\ InQueue(u, x)
               /\ u.at[x] # "idle" /\ (x # t \/ s \in {"running", "canceled"}) =>
                     u.status[x] \in {"none", "running", "canceled"}
               /\ u.at[x] = "stage" => x \in Staged
               /\ x \notin Download /\ u.status[x] = "running" => u.bar[x] # "full"
    <2>0. /\ v.status[x] = "queued" => x \in v.tasks /\ v.at[x] = "idle" /\ InQueue(v, x)
          /\ v.at[x] # "idle" => v.status[x] \in {"none", "running", "canceled"}
          /\ v.at[x] = "stage" => x \in Staged
          /\ x \notin Download /\ v.status[x] = "running" => v.bar[x] # "full"
      BY TransferAssumption DEF WindowInv, Rows, RowsBut
    <2>1. u.status[x] = "queued" => x \in u.tasks /\ u.at[x] = "idle" /\ InQueue(u, x)
      BY <1>1, <1>2, <2>0 DEF InQueue
    <2>2. CASE x = t
      BY <1>1, <2>0, <2>1, <2>2 DEF Renewed, RowIs
    <2>3. CASE x # t
      BY <1>1, <2>0, <2>1, <2>3 DEF Renewed, OthersStay
    <2> QED  BY <2>2, <2>3
  <1>6. RowsBut(u, t)
    BY <1>5 DEF RowsBut
  <1>7. ASSUME v.at[t] = "idle" \/ s \in {"running", "canceled"}  PROVE Rows(u)
    BY <1>1, <1>5, <1>7 DEF Rows, RowsBut
  <1> QED  BY <1>1, <1>3, <1>4, <1>6, <1>7 DEF WindowInv

(* A transfer enters the queue.                                             *)
LEMMA Enqueued ==
    ASSUME NEW v, WindowInv(v), NEW t \in Transfer, v.at[t] = "idle", v.status[t] # "queued",
           NEW u, SameQueue(v, u), OthersStay(v, u, t), u.at = v.at, u.status[t] = "queued",
           NEW lim \in Nat
    PROVE  DrainedTo(u, enqueueRemoteFileTransfer(u, t, lim), lim)
  <1> DEFINE tasks == u.tasks \cup {t}
             queue == Append(u.queue, t)
             q == [u EXCEPT !.tasks = tasks, !.queue = queue]
  <1>1. /\ v \in Window /\ u \in Window /\ u.queue = v.queue /\ u.running = v.running
        /\ u.tasks = v.tasks /\ u.prompt = v.prompt /\ u.at = v.at
        /\ u.queue \in Seq(Transfer) /\ Len(u.queue) \in Nat /\ u.tasks \in SUBSET Transfer
        /\ \A i \in 1..Len(u.queue) : u.queue[i] \in Transfer
    BY WindowFields DEF WindowInv, SameQueue
  <1>2. ~InQueue(u, t) /\ t \notin u.running
    BY <1>1 DEF InQueue, WindowInv, Queue, Slots
  <1>3. enqueueRemoteFileTransfer(u, t, lim) = drainTransferQueue(q, lim)
    BY <1>2 DEF enqueueRemoteFileTransfer
  <1>4. /\ queue \in Seq(Transfer) /\ Len(queue) = Len(u.queue) + 1
        /\ \A i \in 1..Len(u.queue) : queue[i] = u.queue[i]
        /\ queue[Len(u.queue) + 1] = t
        /\ tasks \in SUBSET Transfer
    BY <1>1
  <1>5. /\ q \in Window /\ q.tasks = tasks /\ q.queue = queue /\ q.running = u.running
        /\ q.prompt = u.prompt /\ q.at = u.at /\ q.status = u.status /\ q.bar = u.bar
    <2> HIDE DEF tasks, queue
    <2> QED  BY <1>1, <1>4 DEF Window
  <1> HIDE DEF q, queue
  <1>6. \A x \in Transfer \ {t} : u.status[x] = "queued" <=> v.status[x] = "queued"
    BY DEF OthersStay, Settled, Finished
  <1>7. Queue(q)
    <2>1. ASSUME NEW i \in 1..Len(queue), NEW j \in 1..Len(queue), queue[i] = queue[j]
          PROVE  i = j
      <3>1. i \in 1..Len(u.queue) \/ i = Len(u.queue) + 1
        BY <1>1, <1>4
      <3>2. j \in 1..Len(u.queue) \/ j = Len(u.queue) + 1
        BY <1>1, <1>4
      <3>3. \A k \in 1..Len(u.queue) : u.queue[k] # t
        BY <1>2 DEF InQueue
      <3>4. \A k, l \in 1..Len(u.queue) : u.queue[k] = u.queue[l] => k = l
        BY <1>1 DEF WindowInv, Queue
      <3> QED  BY <2>1, <3>1, <3>2, <3>3, <3>4, <1>4
    <2>2. ASSUME NEW i \in 1..Len(queue)  PROVE u.status[queue[i]] = "queued"
      <3>1. CASE i \in 1..Len(u.queue)
        <4>1. v.status[u.queue[i]] = "queued" /\ u.queue[i] \in Transfer /\ u.queue[i] # t
          BY <1>1, <1>2, <3>1 DEF WindowInv, Queue, InQueue
        <4> QED  BY <1>4, <1>6, <3>1, <4>1
      <3>2. CASE i = Len(u.queue) + 1
        BY <1>4, <3>2
      <3> QED  BY <1>1, <1>4, <3>1, <3>2
    <2> QED  BY <1>5, <2>1, <2>2 DEF Queue
  <1>8. Rows(q)
    <2> SUFFICES ASSUME NEW x \in Transfer
                 PROVE  /\ q.status[x] = "queued" =>
                             x \in q.tasks /\ q.at[x] = "idle" /\ InQueue(q, x)
                        /\ q.at[x] # "idle" => q.status[x] \in {"none", "running", "canceled"}
                        /\ q.at[x] = "stage" => x \in Staged
                        /\ x \notin Download /\ q.status[x] = "running" => q.bar[x] # "full"
      BY DEF Rows, RowsBut
    <2>1. CASE x = t
      <3>1. InQueue(q, x)
        BY <1>1, <1>4, <1>5, <2>1 DEF InQueue
      <3> QED  BY <1>1, <1>5, <2>1, <3>1
    <2>2. CASE x # t
      <3>0. /\ v.status[x] = "queued" => x \in v.tasks /\ v.at[x] = "idle" /\ InQueue(v, x)
            /\ v.at[x] # "idle" => v.status[x] \in {"none", "running", "canceled"}
            /\ v.at[x] = "stage" => x \in Staged
            /\ x \notin Download /\ v.status[x] = "running" => v.bar[x] # "full"
        BY TransferAssumption DEF WindowInv, Rows, RowsBut
      <3>1. InQueue(v, x) => InQueue(q, x)
        BY <1>1, <1>4, <1>5 DEF InQueue
      <3> QED  BY <1>1, <1>5, <1>6, <2>2, <3>0, <3>1 DEF OthersStay
    <2> QED  BY <2>1, <2>2
  <1>9. Slots(q) /\ Prompted(q)
    BY <1>1, <1>5 DEF WindowInv, Slots, Prompted
  <1>10. WindowInv(q)
    BY <1>5, <1>7, <1>8, <1>9 DEF WindowInv
  <1>11. DrainedTo(q, drainTransferQueue(q, lim), lim)
    BY <1>10, Drained
  <1> QED  BY <1>3, <1>5, <1>11 DEF DrainedTo

(* What the end of the task t makes of v.                                   *)
EndedTo(v, d, t, lim) ==
    /\ WindowInv(d)
    /\ d.prompt = v.prompt
    /\ d.queue = <<>> \/ Cardinality(d.running) >= lim
    /\ d.running \subseteq v.running \/ Cardinality(d.running) <= lim
    /\ d.status[t] = v.status[t] /\ d.bar[t] = v.bar[t] /\ d.at[t] = "idle"
    /\ \A x \in Transfer \ {t} :
          \/ d.status[x] = v.status[x] /\ d.bar[x] = v.bar[x] /\ d.at[x] = v.at[x]
          \/ /\ v.status[x] = "queued" /\ d.status[x] = "running"
             /\ d.at[x] \in {"check", "stage", "sent"}

LEMMA Ended ==
    ASSUME NEW v \in Window, NEW t \in Transfer, v.at[t] # "idle", v.prompt # t,
           RowsBut(v, t), Queue(v), Slots(v), Prompted(v), NEW lim \in Nat
    PROVE  EndedTo(v, TaskEnds(v, t, lim), t, lim)
  <1> DEFINE at == [v.at EXCEPT ![t] = "idle"]
             running == v.running \ {t}
             tasks == v.tasks \ {t}
             u == [v EXCEPT !.at = at, !.running = running, !.tasks = tasks]
             d == drainTransferQueue(u, lim)
  <1>1. TaskEnds(v, t, lim) = d
    BY DEF TaskEnds
  <1>2. /\ at \in [Transfer -> Steps] /\ at[t] = "idle"
        /\ \A x \in Transfer \ {t} : at[x] = v.at[x]
        /\ running \in SUBSET Transfer /\ tasks \in SUBSET Transfer
    BY WindowFields DEF Steps
  <1>3. /\ v.queue \in Seq(Transfer) /\ \A i \in 1..Len(v.queue) : v.queue[i] \in Transfer
        /\ v.prompt \in Transfer \cup {None} /\ v.running \in SUBSET Transfer
    BY WindowFields
  <1>4. /\ u \in Window /\ u.at = at /\ u.running = running /\ u.tasks = tasks
        /\ u.status = v.status /\ u.bar = v.bar /\ u.queue = v.queue /\ u.prompt = v.prompt
    <2> HIDE DEF at, running, tasks
    <2> QED  BY <1>2 DEF Window
  <1> HIDE DEF u, at
  <1>5. v.status[t] # "queued"
    BY DEF RowsBut
  <1>6. Queue(u)
    BY <1>4 DEF Queue
  <1>7. Rows(u)
    BY <1>2, <1>4, <1>5 DEF Rows, RowsBut, InQueue
  <1>8. Slots(u)
    BY <1>2, <1>4 DEF Slots
  <1>9. Prompted(u)
    BY <1>2, <1>3, <1>4 DEF Prompted
  <1>10. WindowInv(u)
    BY <1>4, <1>6, <1>7, <1>8, <1>9 DEF WindowInv
  <1>11. DrainedTo(u, d, lim)
    BY <1>10, Drained
  <1> HIDE DEF d
  <1>12. d.running = running => d.running \subseteq v.running
    OBVIOUS
  <1>13. EndedTo(v, d, t, lim)
    BY <1>2, <1>4, <1>5, <1>11, <1>12 DEF DrainedTo, EndedTo
  <1> QED  BY <1>1, <1>13

-----------------------------------------------------------------------------
(* What every step does to the window, with the limit lim: it keeps the      *)
(* invariant and what the properties say.                                   *)

SettledStay(v, d) ==
    \A t \in Transfer \ Staged : v.status[t] \in Settled =>
        d.status[t] = "none" \/ (d.status[t] = v.status[t] /\ d.bar[t] = v.bar[t])

CanceledStay(v, d) ==
    \A t \in Transfer : d.status[t] = "canceled" =>
        d.bar[t] = "zero" \/ (v.status[t] = "canceled" /\ d.bar[t] = v.bar[t])

Goes(v, d, lim) ==
    /\ WindowInv(d)
    /\ d.queue = <<>> \/ Cardinality(d.running) >= lim
    /\ d.running \subseteq v.running \/ Cardinality(d.running) <= lim
    /\ \A t \in Transfer :
          v.status[t] = "none" /\ v.at[t] = "idle" => d.status[t] = "none" /\ d.at[t] = "idle"
    /\ \A t \in Transfer : d.at[t] = "done" => v.at[t] = "done"
    /\ SettledStay(v, d) /\ CanceledStay(v, d)

LEMMA SettledAt ==
    ASSUME NEW v, WindowInv(v), NEW t \in Transfer, v.at[t] # "idle"
    PROVE  v.status[t] \in {"none", "running", "canceled"}
  BY TransferAssumption DEF WindowInv, Rows, RowsBut

(* A task ends, after it settled its row or left it as it was.              *)
LEMMA EndGoes ==
    ASSUME NEW v, WindowInv(v), NEW t \in Transfer, v.at[t] # "idle", v.prompt # t,
           NEW lim \in Nat, NEW u,
           \/ u = v
           \/ \E s \in Settled, b \in {"zero", "part", "full"} :
                 /\ Renewed(v, u, t, s, b) /\ (s = "canceled" => b = "zero")
                 /\ v.status[t] \in Settled => v.status[t] = s /\ v.bar[t] = b
    PROVE  Goes(v, TaskEnds(u, t, lim), lim) /\ TaskEnds(u, t, lim).at[t] = "idle"
  <1>0. v.status[t] \in {"none", "running", "canceled"}
    BY SettledAt
  <1>1. /\ u \in Window /\ RowsBut(u, t) /\ Queue(u) /\ Slots(u) /\ Prompted(u)
        /\ u.at = v.at /\ u.prompt = v.prompt /\ u.running = v.running
    <2>1. CASE u = v
      <3>1. RowsBut(v, t)
        BY TransferAssumption DEF WindowInv, Rows, RowsBut
      <3> QED  BY <2>1, <3>1 DEF WindowInv
    <2>2. CASE u # v
      <3>1. PICK s \in Settled, b \in {"zero", "part", "full"} : Renewed(v, u, t, s, b)
        BY <2>2
      <3>2. s # "queued" /\ s # "running"
        BY DEF Settled, Finished
      <3>3. u \in Window /\ RowsBut(u, t) /\ Queue(u) /\ Slots(u) /\ Prompted(u)
        BY <1>0, <3>1, <3>2, RenewedInv
      <3> QED  BY <3>1, <3>3 DEF Renewed, SameQueue
    <2> QED  BY <2>1, <2>2
  <1>2. EndedTo(u, TaskEnds(u, t, lim), t, lim)
    BY <1>1, Ended
  <1>3. /\ \A x \in Transfer \ {t} :
              \/ u.status[x] = v.status[x] /\ u.bar[x] = v.bar[x]
              \/ v.status[x] \in Settled /\ u.status[x] = "none"
        /\ v.status[t] \in Settled =>
              u.bar[t] = v.bar[t] /\ (u.status[t] = v.status[t] \/ u.status[t] = "none")
    BY DEF Renewed, OthersStay, RowIs, Settled, Finished
  <1> DEFINE d == TaskEnds(u, t, lim)
  <1>4. EndedTo(u, d, t, lim)
    BY <1>2
  <1> HIDE DEF d
  <1>5. \A x \in Transfer : d.at[x] = "done" => v.at[x] = "done"
    BY <1>1, <1>4 DEF EndedTo
  <1>6. \A x \in Transfer :
          v.status[x] = "none" /\ v.at[x] = "idle" => d.status[x] = "none" /\ d.at[x] = "idle"
    BY <1>1, <1>3, <1>4 DEF EndedTo, Settled, Finished
  <1>7. SettledStay(v, d) /\ CanceledStay(v, d)
    <2>1. SettledStay(v, d)
      BY <1>3, <1>4 DEF EndedTo, SettledStay, Settled, Finished
    <2>2. CanceledStay(v, u)
      <3>1. u.status[t] = "canceled" =>
              u.bar[t] = "zero" \/ (v.status[t] = "canceled" /\ u.bar[t] = v.bar[t])
        BY DEF Renewed, RowIs
      <3> QED  BY <1>3, <3>1 DEF CanceledStay
    <2>3. CanceledStay(v, d)
      BY <1>4, <2>2 DEF EndedTo, CanceledStay
    <2> QED  BY <2>1, <2>3
  <1>8. d.running \subseteq v.running \/ Cardinality(d.running) <= lim
    BY <1>1, <1>4 DEF EndedTo
  <1>9. Goes(v, d, lim) /\ d.at[t] = "idle"
    BY <1>4, <1>5, <1>6, <1>7, <1>8 DEF Goes, EndedTo
  <1> QED  BY <1>9 DEF d

(* A row is renewed while its task, if it has one, goes on.                 *)
LEMMA RenewedGoes ==
    ASSUME NEW v, WindowInv(v), NEW t \in Transfer, v.status[t] # "queued",
           NEW lim, v.queue = <<>> \/ Cardinality(v.running) >= lim,
           NEW u, NEW s \in {"running", "canceled"}, NEW b \in {"zero", "part"},
           Renewed(v, u, t, s, b), s = "canceled" => b = "zero", v.status[t] \in Settled => t \in Staged
    PROVE  Goes(v, u, lim)
  <1>1. WindowInv(u)
    BY RenewedInv
  <1>2. u.at = v.at /\ u.running = v.running /\ u.queue = v.queue
    BY DEF Renewed, SameQueue
  <1>3. \A x \in Transfer : v.status[x] = "none" => u.status[x] = "none"
    BY DEF Renewed, OthersStay, RowIs, Settled, Finished
  <1>4. SettledStay(v, u) /\ CanceledStay(v, u)
    <2>1. SettledStay(v, u)
      BY DEF SettledStay, Renewed, OthersStay
    <2>2. CanceledStay(v, u)
      BY DEF CanceledStay, Renewed, OthersStay, RowIs
    <2> QED  BY <2>1, <2>2
  <1> QED  BY <1>1, <1>2, <1>3, <1>4 DEF Goes

(* A task goes on, and its row shows it as running.                         *)
LEMMA ResumedGoes ==
    ASSUME NEW v, WindowInv(v), NEW t \in Transfer, v.at[t] # "idle", v.prompt # t,
           NEW u, Resumed(v, u, t), v.status[t] = "canceled" => t \in Staged,
           NEW lim, v.queue = <<>> \/ Cardinality(v.running) >= lim
    PROVE  Goes(v, u, lim)
  <1>1. Resumed(v, u, t)
    OBVIOUS
  <1>2. v.status[t] \in {"none", "running", "canceled"}
    BY SettledAt
  <1>3. /\ u \in Window /\ u.queue = v.queue /\ u.running = v.running
        /\ u.tasks = v.tasks /\ u.prompt = v.prompt
    BY <1>1 DEF Resumed, SameQueue
  <1>4. u.status[t] = v.status[t] \/ u.status[t] = "running"
    BY <1>1, <1>2 DEF Resumed, RowIs, Settled, Finished
  <1>5. \A x \in Transfer : u.status[x] = "queued" <=> v.status[x] = "queued"
    BY <1>1, <1>2, <1>4 DEF Resumed, OthersStay, Settled, Finished
  <1>6. Queue(u)
    <2>1. v.queue \in Seq(Transfer) /\ \A i \in 1..Len(v.queue) : v.queue[i] \in Transfer
      BY WindowFields DEF WindowInv
    <2> QED  BY <1>3, <1>5, <2>1 DEF WindowInv, Queue
  <1>7. ASSUME NEW x \in Transfer
        PROVE  /\ u.status[x] = "queued" => x \in u.tasks /\ u.at[x] = "idle" /\ InQueue(u, x)
               /\ u.at[x] # "idle" => u.status[x] \in {"none", "running", "canceled"}
               /\ u.at[x] = "stage" => x \in Staged
               /\ x \notin Download /\ u.status[x] = "running" => u.bar[x] # "full"
    <2>0. /\ v.status[x] = "queued" => x \in v.tasks /\ v.at[x] = "idle" /\ InQueue(v, x)
          /\ v.at[x] # "idle" => v.status[x] \in {"none", "running", "canceled"}
          /\ v.at[x] = "stage" => x \in Staged
          /\ x \notin Download /\ v.status[x] = "running" => v.bar[x] # "full"
      BY TransferAssumption DEF WindowInv, Rows, RowsBut
    <2>1. CASE x = t
      BY <1>1, <1>2, <1>4, <2>0, <2>1 DEF Resumed, RowIs
    <2>2. CASE x # t
      BY <1>1, <1>3, <1>5, <2>0, <2>2 DEF Resumed, OthersStay, InQueue
    <2> QED  BY <2>1, <2>2
  <1>8. Rows(u)
    BY <1>7 DEF Rows, RowsBut
  <1>9. Slots(u)
    BY <1>1, <1>3 DEF WindowInv, Slots, Resumed
  <1>10. Prompted(u)
    <2>1. u.prompt # None => u.prompt \in Transfer \ {t}
      BY <1>3, WindowFields DEF WindowInv
    <2> QED  BY <1>1, <1>3, <2>1 DEF WindowInv, Prompted, Resumed
  <1>11. WindowInv(u)
    BY <1>3, <1>6, <1>8, <1>9, <1>10 DEF WindowInv
  <1>12. /\ \A x \in Transfer :
              v.status[x] = "none" /\ v.at[x] = "idle" => u.status[x] = "none" /\ u.at[x] = "idle"
         /\ \A x \in Transfer : u.at[x] = "done" => v.at[x] = "done"
    BY <1>1 DEF Resumed, OthersStay, Settled, Finished
  <1>13. SettledStay(v, u) /\ CanceledStay(v, u)
    <2>1. SettledStay(v, u)
      BY <1>1, <1>2 DEF SettledStay, Resumed, OthersStay, Settled, Finished
    <2>2. CanceledStay(v, u)
      <3>1. u.status[t] # "canceled"
        BY <1>1 DEF Resumed, RowIs, Settled, Finished
      <3> QED  BY <1>1, <3>1 DEF CanceledStay, Resumed, OthersStay
    <2> QED  BY <2>1, <2>2
  <1> QED  BY <1>3, <1>11, <1>12, <1>13 DEF Goes

(* A task goes on with its policy.                                          *)
LEMMA ProceedGoes ==
    ASSUME NEW v, WindowInv(v), NEW t \in Transfer, v.at[t] # "idle", v.prompt # t,
           ~isTransferNoLongerActive(v, t),
           NEW lim, v.queue = <<>> \/ Cardinality(v.running) >= lim
    PROVE  Goes(v, Proceed(v, t), lim)
  <1>1. Resumed(v, Proceed(v, t), t)
    BY Proceeded DEF WindowInv
  <1>2. v.status[t] # "canceled"
    BY DEF isTransferNoLongerActive
  <1> QED  BY <1>1, <1>2, ResumedGoes

-----------------------------------------------------------------------------
(* The steps.                                                              *)

LimitStep == w'.running \subseteq w.running \/ Cardinality(w'.running) <= limit'

SettledStep ==
    \A t \in Transfer \ Staged :
        w.status[t] \in Settled =>
            \/ w'.status[t] = "none"
            \/ w'.status[t] = w.status[t] /\ w'.bar[t] = w.bar[t]
            \/ w.status[t] = "error" /\ w'.status[t] \in {"queued", "running"}
                  /\ acts' = acts + 1

(* The types of all but the window.                                         *)
RestOK ==
    /\ limit \in Limits
    /\ token \in [Transfer -> {"none", "live", "canceled"}]
    /\ answer \in [Transfer -> Answers \cup {None}]
    /\ cancels \subseteq Transfer
    /\ events \in [Transfer -> {"part", "full", None}]
    /\ made \in 0..MaxTransfers /\ acts \in 0..MaxActs /\ sent \in 0..MaxProgress

LEMMA Types == TypeOK <=> w \in Window /\ RestOK
  BY DEF TypeOK, RestOK

LEMMA LimitIsNat == RestOK => limit \in Nat
  BY TransferAssumption DEF RestOK

(* A step that the window takes as above keeps everything.                  *)
LEMMA GoesKeeps ==
    ASSUME IInv, RestOK', Goes(w, w', limit'), made' = made,
           \A t \in Transfer : w'.at[t] = "done" => answer'[t] # None
    PROVE  IInv' /\ LimitStep /\ SettledStep
  <1>1. WindowInv(w') /\ SlotsFull'
    BY DEF Goes, SlotsFull
  <1>2. Fresh'
    BY DEF Goes, IInv, Fresh
  <1>3. TypeOK'
    BY <1>1, Types DEF WindowInv, TypeOK, RestOK
  <1>4. HasAnswer'
    BY DEF HasAnswer
  <1>5. LimitStep
    BY DEF Goes, LimitStep
  <1>6. SettledStep
    BY DEF Goes, SettledStep, SettledStay
  <1>7. CanceledEmpty'
    BY DEF Goes, IInv, CanceledEmpty, CanceledStay
  <1> QED  BY <1>1, <1>2, <1>3, <1>4, <1>5, <1>6, <1>7 DEF IInv

(* The window stays as it is.                                               *)
LEMMA StaysGoes ==
    ASSUME IInv, UNCHANGED <<w, limit>>
    PROVE  Goes(w, w', limit')
  BY DEF IInv, Goes, SettledStay, CanceledStay, SlotsFull

-----------------------------------------------------------------------------
(* New transfers.                                                          *)

LEMMA MakeKeeps ==
    ASSUME IInv, NEW t \in Transfer, Make(t)
    PROVE  IInv' /\ LimitStep /\ SettledStep
  <1> DEFINE new == [w.status EXCEPT ![t] = "queued"]
             status == trimTransferHistory(new)
             u == [w EXCEPT !.status = status]
  <1>1. /\ t = made + 1 /\ made' = t
        /\ w' = enqueueRemoteFileTransfer(u, t, limit)
        /\ UNCHANGED <<limit, remote, acts, sent>>
    BY DEF Make
  <1>2. made \in Nat /\ WindowInv(w) /\ w \in Window /\ limit \in Nat
    BY Types, LimitIsNat DEF IInv, WindowInv, RestOK
  <1>3. w.status[t] = "none" /\ w.at[t] = "idle"
    BY <1>1, <1>2 DEF IInv, Fresh
  <1>4. /\ new \in [Transfer -> Status] /\ new[t] = "queued"
        /\ \A x \in Transfer \ {t} : new[x] = w.status[x]
    BY <1>2, WindowFields DEF Status
  <1> HIDE DEF new
  <1>5. /\ status \in [Transfer -> Status]
        /\ \A x \in Transfer :
              status[x] = new[x] \/ (new[x] \in Settled /\ status[x] = "none")
    BY <1>4, Trimmed
  <1> HIDE DEF status
  <1>6. SameQueue(w, u) /\ u.at = w.at /\ u.status = status /\ u.bar = w.bar
    BY <1>2, <1>5 DEF SameQueue, Window
  <1> HIDE DEF u
  <1>7. OthersStay(w, u, t) /\ u.status[t] = "queued"
    BY <1>4, <1>5, <1>6 DEF OthersStay, Settled, Finished
  <1>8. DrainedTo(u, w', limit)
    BY <1>1, <1>2, <1>3, <1>6, <1>7, Enqueued
  <1>9. WindowInv(w') /\ SlotsFull'
    BY <1>1, <1>8 DEF DrainedTo, SlotsFull
  <1>10. RestOK'
    <2>1. made' \in 0..MaxTransfers
      BY <1>1, TransferAssumption DEF Transfer
    <2> QED  BY <1>1, <2>1, Types DEF IInv, RestOK, remote
  <1>11. Fresh'
    <2> SUFFICES ASSUME NEW x \in Transfer, x > made'
                 PROVE  w'.status[x] = "none" /\ w'.at[x] = "idle"
      BY DEF Fresh
    <2>1. x > made /\ x # t
      BY <1>1, <1>2 DEF Transfer
    <2>2. w.status[x] = "none" /\ w.at[x] = "idle"
      BY <2>1 DEF IInv, Fresh
    <2> QED  BY <1>6, <1>7, <1>8, <2>1, <2>2 DEF DrainedTo, OthersStay, Settled, Finished
  <1>12. HasAnswer'
    BY <1>1, <1>6, <1>8 DEF DrainedTo, IInv, HasAnswer, remote
  <1>13. LimitStep
    BY <1>1, <1>6, <1>8 DEF DrainedTo, SameQueue, LimitStep
  <1>14. SettledStep
    BY <1>3, <1>6, <1>7, <1>8 DEF DrainedTo, OthersStay, SettledStep, Settled, Finished
  <1>15. TypeOK'
    BY <1>9, <1>10 DEF WindowInv, TypeOK, RestOK
  <1>16. CanceledEmpty'
    BY <1>6, <1>7, <1>8 DEF DrainedTo, OthersStay, IInv, CanceledEmpty
  <1> QED  BY <1>9, <1>11, <1>12, <1>13, <1>14, <1>15, <1>16 DEF IInv

LEMMA PickerErrorKeeps ==
    ASSUME IInv, NEW t \in Transfer, showTransferPickerError(t)
    PROVE  IInv' /\ LimitStep /\ SettledStep
  <1> DEFINE new == [w.status EXCEPT ![t] = "error"]
             status == trimTransferHistory(new)
             bar == [w.bar EXCEPT ![t] = "full"]
             u == [w EXCEPT !.status = status, !.bar = bar]
  <1>1. /\ t = made + 1 /\ made' = t
        /\ w' = u
        /\ acts < MaxActs /\ acts' = acts + 1
        /\ UNCHANGED <<limit, remote, sent>>
    BY DEF showTransferPickerError
  <1>2. made \in Nat /\ WindowInv(w) /\ w \in Window
    BY Types DEF IInv, WindowInv, RestOK
  <1>3. w.status[t] = "none" /\ w.at[t] = "idle"
    BY <1>1, <1>2 DEF IInv, Fresh
  <1>4. /\ new \in [Transfer -> Status] /\ new[t] = "error"
        /\ \A x \in Transfer \ {t} : new[x] = w.status[x]
        /\ bar \in [Transfer -> {"zero", "part", "full"}]
        /\ \A x \in Transfer \ {t} : bar[x] = w.bar[x]
    BY <1>2, WindowFields DEF Status
  <1> HIDE DEF new, bar
  <1>5. /\ status \in [Transfer -> Status]
        /\ \A x \in Transfer :
              status[x] = new[x] \/ (new[x] \in Settled /\ status[x] = "none")
    BY <1>4, Trimmed
  <1> HIDE DEF status
  <1>6. SameQueue(w, u) /\ u.at = w.at /\ u.status = status /\ u.bar = bar /\ u \in Window
    BY <1>2, <1>4, <1>5 DEF SameQueue, Window
  <1> HIDE DEF u
  <1>7. \A x \in Transfer :
           /\ u.status[x] = "queued" <=> w.status[x] = "queued"
           /\ x # t => \/ u.status[x] = w.status[x] /\ u.bar[x] = w.bar[x]
                       \/ w.status[x] \in Settled /\ u.status[x] = "none"
           /\ x = t => u.status[x] \in {"none", "error"}
    BY <1>3, <1>4, <1>5, <1>6 DEF Settled, Finished
  <1>8. Rows(u)
    <2> SUFFICES ASSUME NEW x \in Transfer
                 PROVE  /\ u.status[x] = "queued" =>
                             x \in u.tasks /\ u.at[x] = "idle" /\ InQueue(u, x)
                        /\ u.at[x] # "idle" => u.status[x] \in {"none", "running", "canceled"}
                        /\ u.at[x] = "stage" => x \in Staged
                        /\ x \notin Download /\ u.status[x] = "running" => u.bar[x] # "full"
      BY DEF Rows, RowsBut
    <2>0. /\ w.status[x] = "queued" => x \in w.tasks /\ w.at[x] = "idle" /\ InQueue(w, x)
          /\ w.at[x] # "idle" => w.status[x] \in {"none", "running", "canceled"}
          /\ w.at[x] = "stage" => x \in Staged
          /\ x \notin Download /\ w.status[x] = "running" => w.bar[x] # "full"
      BY <1>2, TransferAssumption DEF WindowInv, Rows, RowsBut
    <2> QED  BY <1>3, <1>6, <1>7, <2>0 DEF SameQueue, InQueue
  <1>9. Queue(u)
    <2>1. w.queue \in Seq(Transfer) /\ \A i \in 1..Len(w.queue) : w.queue[i] \in Transfer
      BY <1>2, WindowFields
    <2> QED  BY <1>2, <1>6, <1>7, <2>1 DEF WindowInv, Queue, SameQueue
  <1>10. Slots(u) /\ Prompted(u)
    BY <1>2, <1>6 DEF WindowInv, Slots, Prompted, SameQueue
  <1>11. WindowInv(w') /\ SlotsFull' /\ LimitStep
    BY <1>1, <1>6, <1>8, <1>9, <1>10 DEF WindowInv, IInv, SlotsFull, SameQueue, LimitStep
  <1>12. RestOK'
    <2>1. made' \in 0..MaxTransfers
      BY <1>1, TransferAssumption DEF Transfer
    <2> QED  BY <1>1, <2>1, Types, TransferAssumption DEF IInv, RestOK, remote
  <1>13. Fresh'
    <2> SUFFICES ASSUME NEW x \in Transfer, x > made'
                 PROVE  w'.status[x] = "none" /\ w'.at[x] = "idle"
      BY DEF Fresh
    <2>1. x > made /\ x # t
      BY <1>1, <1>2 DEF Transfer
    <2>2. w.status[x] = "none" /\ w.at[x] = "idle"
      BY <2>1 DEF IInv, Fresh
    <2> QED  BY <1>1, <1>6, <1>7, <2>1, <2>2
  <1>14. HasAnswer'
    BY <1>1, <1>6 DEF IInv, HasAnswer, remote
  <1>15. SettledStep
    BY <1>1, <1>3, <1>6, <1>7 DEF SettledStep, Settled, Finished
  <1>16. TypeOK'
    BY <1>11, <1>12 DEF WindowInv, TypeOK, RestOK
  <1>17. CanceledEmpty'
    BY <1>1, <1>7 DEF IInv, CanceledEmpty
  <1> QED  BY <1>11, <1>13, <1>14, <1>15, <1>16, <1>17 DEF IInv

-----------------------------------------------------------------------------
(* What the user does to the rows.                                         *)

LEMMA RetryKeeps ==
    ASSUME IInv, NEW t \in Transfer, retryRemoteFileTransfer(t)
    PROVE  IInv' /\ LimitStep /\ SettledStep
  <1> DEFINE u == updateRemoteFileTransfer(w, t, "queued", "zero")
  <1>1. /\ w.status[t] = "error" /\ acts < MaxActs /\ acts' = acts + 1
        /\ w' = enqueueRemoteFileTransfer(u, t, limit)
        /\ UNCHANGED <<limit, remote, made, sent>>
    BY DEF retryRemoteFileTransfer, Act
  <1>2. made \in Nat /\ WindowInv(w) /\ w \in Window /\ limit \in Nat
    BY Types, LimitIsNat DEF IInv, WindowInv, RestOK
  <1>3. w.at[t] = "idle"
    BY <1>1, <1>2, SettledAt
  <1>4. "queued" \in Status \ {"none"} /\ "queued" \notin Settled
    BY DEF Status, Settled, Finished
  <1>5. Renewed(w, u, t, "queued", "zero")
    BY <1>2, <1>4, Updated
  <1> HIDE DEF u
  <1>6. /\ SameQueue(w, u) /\ OthersStay(w, u, t) /\ u.at = w.at
        /\ u.status[t] = "queued"
    BY <1>1, <1>4, <1>5 DEF Renewed, RowIs
  <1>7. DrainedTo(u, w', limit)
    BY <1>1, <1>2, <1>3, <1>6, Enqueued
  <1>8. WindowInv(w') /\ SlotsFull'
    BY <1>1, <1>7 DEF DrainedTo, SlotsFull
  <1>9. TypeOK'
    BY <1>1, <1>8, TransferAssumption DEF IInv, TypeOK, WindowInv, remote
  <1>10. Fresh'
    <2>1. ASSUME NEW x \in Transfer, w.status[x] = "none", w.at[x] = "idle"
          PROVE  w'.status[x] = "none" /\ w'.at[x] = "idle"
      BY <1>1, <1>6, <1>7, <2>1 DEF DrainedTo, OthersStay, Settled, Finished
    <2> QED  BY <1>1, <2>1 DEF IInv, Fresh
  <1>11. HasAnswer'
    BY <1>1, <1>6, <1>7 DEF DrainedTo, IInv, HasAnswer, remote
  <1>12. LimitStep
    BY <1>1, <1>6, <1>7 DEF DrainedTo, SameQueue, LimitStep
  <1>13. SettledStep
    BY <1>1, <1>6, <1>7 DEF DrainedTo, OthersStay, SettledStep, Settled, Finished
  <1>14. CanceledEmpty'
    BY <1>6, <1>7 DEF DrainedTo, OthersStay, IInv, CanceledEmpty
  <1> QED  BY <1>8, <1>9, <1>10, <1>11, <1>12, <1>13, <1>14 DEF IInv

(* The queue without one of its transfers.                                  *)
LEMMA WithoutOne ==
    ASSUME NEW v, WindowInv(v), NEW t \in Transfer, InQueue(v, t)
    PROVE  /\ QueueWithout(v, t) \in Seq(Transfer)
           /\ v.queue # <<>>
           /\ \A i, j \in 1..Len(QueueWithout(v, t)) :
                 QueueWithout(v, t)[i] = QueueWithout(v, t)[j] => i = j
           /\ \A i \in 1..Len(QueueWithout(v, t)) :
                 QueueWithout(v, t)[i] # t /\ InQueue(v, QueueWithout(v, t)[i])
           /\ \A x \in Transfer \ {t} : InQueue(v, x) =>
                 \E i \in 1..Len(QueueWithout(v, t)) : QueueWithout(v, t)[i] = x
  <1> DEFINE k == CHOOSE j \in 1..Len(v.queue) : v.queue[j] = t
             q == SubSeq(v.queue, 1, k - 1) \o SubSeq(v.queue, k + 1, Len(v.queue))
  <1>1. QueueWithout(v, t) = q
    BY DEF QueueWithout
  <1>2. k \in 1..Len(v.queue) /\ v.queue[k] = t
    BY DEF InQueue
  <1>3. v.queue \in Seq(Transfer) /\ Len(v.queue) \in Nat
    BY WindowFields DEF WindowInv
  <1>4. \A i, j \in 1..Len(v.queue) : v.queue[i] = v.queue[j] => i = j
    BY DEF WindowInv, Queue
  <1> HIDE DEF k
  <1> DEFINE a == SubSeq(v.queue, 1, k - 1)
             b == SubSeq(v.queue, k + 1, Len(v.queue))
  <1>5. /\ a \in Seq(Transfer) /\ Len(a) = k - 1
        /\ \A i \in 1..(k - 1) : a[i] = v.queue[i]
    BY <1>2, <1>3
  <1>6. /\ b \in Seq(Transfer) /\ Len(b) = Len(v.queue) - k
        /\ \A i \in 1..(Len(v.queue) - k) : b[i] = v.queue[i + k]
    BY <1>2, <1>3
  <1>7. q = a \o b
    OBVIOUS
  <1> HIDE DEF a, b, q
  <1>8. /\ q \in Seq(Transfer) /\ Len(q) = Len(v.queue) - 1
        /\ \A i \in 1..(Len(v.queue) - 1) :
              q[i] = IF i < k THEN v.queue[i] ELSE v.queue[i + 1]
    BY <1>2, <1>3, <1>5, <1>6, <1>7
  <1> DEFINE at(i) == IF i < k THEN i ELSE i + 1
  <1>9. \A i \in 1..Len(q) : at(i) \in 1..Len(v.queue) /\ at(i) # k /\ q[i] = v.queue[at(i)]
    BY <1>2, <1>3, <1>8
  <1>10. \A i, j \in 1..Len(q) : q[i] = q[j] => i = j
    <2> SUFFICES ASSUME NEW i \in 1..Len(q), NEW j \in 1..Len(q), q[i] = q[j]  PROVE i = j
      OBVIOUS
    <2>1. at(i) = at(j)
      BY <1>4, <1>9
    <2> QED  BY <1>2, <1>3, <1>8, <2>1
  <1>11. \A i \in 1..Len(q) : q[i] # t /\ InQueue(v, q[i])
    BY <1>2, <1>4, <1>9 DEF InQueue
  <1>12. ASSUME NEW x \in Transfer \ {t}, InQueue(v, x)  PROVE \E i \in 1..Len(q) : q[i] = x
    <2>1. PICK j \in 1..Len(v.queue) : v.queue[j] = x
      BY <1>12 DEF InQueue
    <2>2. j # k
      BY <1>2, <2>1
    <2>3. CASE j < k
      <3>1. j \in 1..Len(q) /\ q[j] = x
        BY <1>2, <1>3, <1>8, <2>1, <2>3
      <3> QED  BY <3>1
    <2>4. CASE j > k
      <3>1. j - 1 \in 1..Len(q) /\ (j - 1) + 1 = j /\ ~(j - 1 < k)
        BY <1>2, <1>3, <1>8, <2>4
      <3>2. q[j - 1] = x
        BY <1>8, <2>1, <3>1
      <3> QED  BY <3>1, <3>2
    <2> QED  BY <1>2, <1>3, <2>2, <2>3, <2>4
  <1>13. v.queue # <<>>
    BY <1>2, <1>3
  <1> QED  BY <1>1, <1>8, <1>10, <1>11, <1>12, <1>13

LEMMA CancelGoes ==
    ASSUME IInv, NEW t \in Transfer, requestCancelTransfer(t)
    PROVE  Goes(w, w', limit')
  <1>0. /\ WindowInv(w) /\ w \in Window /\ limit' = limit /\ limit \in Nat
        /\ w.queue = <<>> \/ Cardinality(w.running) >= limit
    BY Types, LimitIsNat DEF IInv, WindowInv, SlotsFull, requestCancelTransfer
  <1>00. "canceled" \in Status \ {"none"}
    BY DEF Status, Finished
  <1>1. CASE w.status[t] = "running"
    <2>1. w' = updateRemoteFileTransfer(w, t, "canceled", "zero")
      BY <1>1 DEF requestCancelTransfer, markTransferCanceled
    <2>2. Renewed(w, w', t, "canceled", "zero")
      BY <1>0, <1>00, <2>1, Updated
    <2>3. w.status[t] \notin Settled
      BY <1>1 DEF Settled, Finished
    <2> QED  BY <1>0, <1>1, <2>2, <2>3, RenewedGoes
  <1>2. CASE w.status[t] = "queued"
    <2> DEFINE queue == QueueWithout(w, t)
               tasks == w.tasks \ {t}
               d == [w EXCEPT !.queue = queue, !.tasks = tasks]
    <2>1. w' = updateRemoteFileTransfer(d, t, "canceled", "zero")
      BY <1>2 DEF requestCancelTransfer, markTransferCanceled, dropQueuedTransfer
    <2>2. InQueue(w, t) /\ w.at[t] = "idle" /\ t \in Transfer
      BY <1>0, <1>2 DEF WindowInv, Rows, RowsBut
    <2>3. /\ queue \in Seq(Transfer) /\ w.queue # <<>>
          /\ \A i, j \in 1..Len(queue) : queue[i] = queue[j] => i = j
          /\ \A i \in 1..Len(queue) : queue[i] # t /\ InQueue(w, queue[i])
          /\ \A x \in Transfer \ {t} : InQueue(w, x) => \E i \in 1..Len(queue) : queue[i] = x
      BY <1>0, <2>2, WithoutOne
    <2>4. tasks \in SUBSET Transfer
      BY <1>0, WindowFields
    <2> HIDE DEF queue, tasks
    <2>5. /\ d \in Window /\ d.queue = queue /\ d.tasks = tasks /\ d.running = w.running
          /\ d.prompt = w.prompt /\ d.status = w.status /\ d.bar = w.bar /\ d.at = w.at
      BY <1>0, <2>3, <2>4 DEF Window
    <2> HIDE DEF d
    <2>6. Renewed(d, w', t, "canceled", "zero")
      BY <1>00, <2>1, <2>5, Updated
    <2>7. /\ w' \in Window /\ w'.queue = queue /\ w'.tasks = tasks /\ w'.running = w.running
          /\ w'.prompt = w.prompt /\ w'.at = w.at
          /\ \A x \in Transfer \ {t} :
                /\ w'.bar[x] = w.bar[x]
                /\ w'.status[x] = w.status[x] \/ (w.status[x] \in Settled /\ w'.status[x] = "none")
          /\ w'.status[t] \in {"canceled", "none"} /\ w'.bar[t] = "zero"
      BY <1>2, <2>5, <2>6 DEF Renewed, SameQueue, OthersStay, RowIs
    <2>8. \A x \in Transfer \ {t} : w'.status[x] = "queued" <=> w.status[x] = "queued"
      BY <2>7 DEF Settled, Finished
    <2>9. \A i \in 1..Len(queue) : queue[i] \in Transfer \ {t} /\ w.status[queue[i]] = "queued"
      BY <1>0, <2>3 DEF InQueue, WindowInv, Queue
    <2>10. Queue(w')
      BY <2>3, <2>7, <2>8, <2>9 DEF Queue
    <2>11. Rows(w')
      <3> SUFFICES ASSUME NEW x \in Transfer
                   PROVE  /\ w'.status[x] = "queued" =>
                               x \in w'.tasks /\ w'.at[x] = "idle" /\ InQueue(w', x)
                          /\ w'.at[x] # "idle" => w'.status[x] \in {"none", "running", "canceled"}
                          /\ w'.at[x] = "stage" => x \in Staged
                          /\ x \notin Download /\ w'.status[x] = "running" => w'.bar[x] # "full"
        BY DEF Rows, RowsBut
      <3>0. /\ w.status[x] = "queued" => x \in w.tasks /\ w.at[x] = "idle" /\ InQueue(w, x)
            /\ w.at[x] # "idle" => w.status[x] \in {"none", "running", "canceled"}
            /\ w.at[x] = "stage" => x \in Staged
            /\ x \notin Download /\ w.status[x] = "running" => w.bar[x] # "full"
        BY <1>0, TransferAssumption DEF WindowInv, Rows, RowsBut
      <3>1. CASE x = t
        BY <2>2, <2>7, <3>1
      <3>2. CASE x # t
        BY <2>3, <2>7, <2>8, <3>0, <3>2 DEF InQueue, tasks
      <3> QED  BY <3>1, <3>2
    <2>12. Slots(w') /\ Prompted(w')
      BY <1>0, <2>7 DEF WindowInv, Slots, Prompted
    <2>13. WindowInv(w')
      BY <2>7, <2>10, <2>11, <2>12 DEF WindowInv
    <2>14. \A x \in Transfer : w.status[x] = "none" => w'.status[x] = "none"
      BY <1>2, <2>7 DEF Settled, Finished
    <2>15. SettledStay(w, w') /\ CanceledStay(w, w')
      BY <1>2, <2>7 DEF SettledStay, CanceledStay, Settled, Finished
    <2> QED  BY <1>0, <2>3, <2>7, <2>13, <2>14, <2>15 DEF Goes
  <1> QED  BY <1>1, <1>2 DEF requestCancelTransfer

(* Settled rows are cleared away: those of R.                               *)
LEMMA ClearedGoes ==
    ASSUME IInv, NEW R \in SUBSET Transfer, \A t \in R : w.status[t] \in Settled,
           NEW T \in SUBSET Transfer, \A t \in Transfer \ T : w.status[t] # "queued",
           NEW u \in Window, UNCHANGED limit,
           u.queue = w.queue, u.tasks = w.tasks \cap T, u.running = w.running,
           u.prompt = w.prompt, u.at = w.at, u.bar = w.bar,
           u.status = [t \in Transfer |-> IF t \in R THEN "none" ELSE w.status[t]]
    PROVE  Goes(w, u, limit')
  <1>1. WindowInv(w) /\ w \in Window
    BY DEF IInv, WindowInv
  <1>2. \A x \in Transfer : u.status[x] = "queued" <=> w.status[x] = "queued"
    BY DEF Settled, Finished
  <1>3. Queue(u)
    <2>1. w.queue \in Seq(Transfer) /\ \A i \in 1..Len(w.queue) : w.queue[i] \in Transfer
      BY <1>1, WindowFields
    <2> QED  BY <1>1, <1>2, <2>1 DEF WindowInv, Queue
  <1>4. Rows(u)
    <2> SUFFICES ASSUME NEW x \in Transfer
                 PROVE  /\ u.status[x] = "queued" =>
                             x \in u.tasks /\ u.at[x] = "idle" /\ InQueue(u, x)
                        /\ u.at[x] # "idle" => u.status[x] \in {"none", "running", "canceled"}
                        /\ u.at[x] = "stage" => x \in Staged
                        /\ x \notin Download /\ u.status[x] = "running" => u.bar[x] # "full"
      BY DEF Rows, RowsBut
    <2>0. /\ w.status[x] = "queued" => x \in w.tasks /\ w.at[x] = "idle" /\ InQueue(w, x)
          /\ w.at[x] # "idle" => w.status[x] \in {"none", "running", "canceled"}
          /\ w.at[x] = "stage" => x \in Staged
          /\ x \notin Download /\ w.status[x] = "running" => w.bar[x] # "full"
      BY <1>1, TransferAssumption DEF WindowInv, Rows, RowsBut
    <2> QED  BY <1>2, <2>0 DEF InQueue
  <1>5. Slots(u) /\ Prompted(u)
    BY <1>1 DEF WindowInv, Slots, Prompted
  <1>6. WindowInv(u)
    BY <1>3, <1>4, <1>5 DEF WindowInv
  <1>7. SettledStay(w, u) /\ CanceledStay(w, u)
    BY DEF SettledStay, CanceledStay
  <1> QED  BY <1>6, <1>7 DEF Goes, IInv, SlotsFull

LEMMA RemoveGoes ==
    ASSUME IInv, NEW t \in Transfer, removeTransfer(t)
    PROVE  Goes(w, w', limit')
  <1> DEFINE queue == QueueWithout(w, t)
             tasks == w.tasks \cap (Transfer \ {t})
             status == [x \in Transfer |-> IF x \in {t} THEN "none" ELSE w.status[x]]
             u == [w EXCEPT !.queue = queue, !.tasks = tasks, !.status = status]
  <1>1. /\ WindowInv(w) /\ w \in Window
        /\ w.status \in [Transfer -> Status] /\ w.tasks \in SUBSET Transfer
        /\ w.queue \in Seq(Transfer)
    BY WindowFields DEF IInv, WindowInv
  <1>2. /\ w.status[t] \in Settled /\ limit' = limit
        /\ w' = [dropQueuedTransfer(w, t) EXCEPT !.status[t] = "none"]
    BY DEF removeTransfer, Settled
  <1>3. ~InQueue(w, t)
    BY <1>1, <1>2 DEF InQueue, WindowInv, Queue, Settled, Finished
  <1>4. queue = w.queue
    BY <1>3 DEF QueueWithout
  <1>5. dropQueuedTransfer(w, t) = [w EXCEPT !.queue = queue, !.tasks = tasks]
    BY <1>1 DEF dropQueuedTransfer
  <1>6. /\ status \in [Transfer -> Status] /\ tasks \in SUBSET Transfer
        /\ status = [w.status EXCEPT ![t] = "none"]
    BY <1>1 DEF Status
  <1> HIDE DEF queue, tasks
  <1>7. w' = u
    BY <1>1, <1>2, <1>5, <1>6 DEF Window
  <1> HIDE DEF status
  <1>8. /\ u \in Window /\ u.queue = w.queue /\ u.tasks = tasks /\ u.status = status
        /\ u.running = w.running /\ u.prompt = w.prompt /\ u.at = w.at /\ u.bar = w.bar
    BY <1>1, <1>4, <1>6 DEF Window
  <1> HIDE DEF u
  <1>9. {t} \in SUBSET Transfer /\ \A x \in {t} : w.status[x] \in Settled
    BY <1>2
  <1>10. \A x \in Transfer \ (Transfer \ {t}) : w.status[x] # "queued"
    BY <1>2 DEF Settled, Finished
  <1>11. Goes(w, u, limit')
    BY <1>2, <1>8, <1>9, <1>10, ClearedGoes DEF tasks, status
  <1> QED  BY <1>7, <1>11

LEMMA ClearGoes ==
    ASSUME IInv, clearFinishedTransfers
    PROVE  Goes(w, w', limit')
  <1> DEFINE R == {t \in Transfer : w.status[t] \in Finished}
             status == [t \in Transfer |-> IF t \in R THEN "none" ELSE w.status[t]]
             u == [w EXCEPT !.status = status]
  <1>1. /\ WindowInv(w) /\ w \in Window /\ limit' = limit
        /\ w.status \in [Transfer -> Status] /\ w.tasks \in SUBSET Transfer
    BY WindowFields DEF IInv, WindowInv, clearFinishedTransfers
  <1>2. status = [t \in Transfer |-> IF w.status[t] \in Finished THEN "none" ELSE w.status[t]]
    OBVIOUS
  <1>3. w' = u
    BY <1>2 DEF clearFinishedTransfers
  <1>4. R \in SUBSET Transfer /\ \A t \in R : w.status[t] \in Settled
    BY DEF Settled
  <1> HIDE DEF R
  <1>5. status \in [Transfer -> Status]
    BY <1>1 DEF Status
  <1> HIDE DEF status
  <1>6. /\ u \in Window /\ u.queue = w.queue /\ u.tasks = w.tasks \cap Transfer
        /\ u.status = status
        /\ u.running = w.running /\ u.prompt = w.prompt /\ u.at = w.at /\ u.bar = w.bar
    BY <1>1, <1>5 DEF Window
  <1> HIDE DEF u
  <1>7. Goes(w, u, limit')
    BY <1>1, <1>4, <1>6, ClearedGoes DEF status
  <1> QED  BY <1>3, <1>7

(* Draining alone.                                                         *)
LEMMA DrainGoes ==
    ASSUME NEW v, WindowInv(v), NEW lim \in Nat
    PROVE  Goes(v, drainTransferQueue(v, lim), lim)
  <1> DEFINE d == drainTransferQueue(v, lim)
  <1>1. DrainedTo(v, d, lim)
    BY Drained
  <1> HIDE DEF d
  <1>2. SettledStay(v, d) /\ CanceledStay(v, d)
    BY <1>1 DEF DrainedTo, SettledStay, CanceledStay, Settled, Finished
  <1>3. Goes(v, d, lim)
    BY <1>1, <1>2 DEF DrainedTo, Goes
  <1> QED  BY <1>3 DEF d

LEMMA LimitGoes ==
    ASSUME IInv, NEW n \in Limits, ChangeLimit(n)
    PROVE  Goes(w, w', limit')
  BY DrainGoes, TransferAssumption DEF IInv, ChangeLimit

(* The question is answered.                                               *)
LEMMA AnswerGoes ==
    ASSUME IInv, NEW choice, settleTransferConflictPrompt(choice)
    PROVE  Goes(w, w', limit')
  <1> DEFINE t == w.prompt
             v == [w EXCEPT !.prompt = None]
  <1>1. /\ WindowInv(w) /\ w \in Window /\ limit' = limit /\ limit \in Nat
        /\ t \in Transfer /\ w.at[t] = "ask"
        /\ w.queue = <<>> \/ Cardinality(w.running) >= limit
    BY Types, LimitIsNat, WindowFields
       DEF IInv, WindowInv, settleTransferConflictPrompt, Prompted, SlotsFull
  <1>2. w' = IF choice = "cancel" THEN TaskEnds(markTransferCanceled(v, t), t, limit)
             ELSE IF isTransferNoLongerActive(v, t) THEN TaskEnds(v, t, limit)
             ELSE Proceed(v, t)
    BY DEF settleTransferConflictPrompt
  <1> HIDE DEF t
  <1>3. /\ v \in Window /\ v.prompt = None /\ v.queue = w.queue /\ v.tasks = w.tasks
        /\ v.running = w.running /\ v.at = w.at /\ v.status = w.status /\ v.bar = w.bar
    BY <1>1 DEF Window
  <1> HIDE DEF v
  <1>4. WindowInv(v)
    <2>1. Rows(v)
      BY <1>1, <1>3 DEF WindowInv, Rows, RowsBut, InQueue
    <2>2. Queue(v) /\ Slots(v) /\ Prompted(v)
      BY <1>1, <1>3 DEF WindowInv, Queue, Slots, Prompted
    <2> QED  BY <1>3, <2>1, <2>2 DEF WindowInv
  <1>5. v.at[t] # "idle" /\ v.prompt # t
    BY <1>1, <1>3, TransferAssumption
  <1>6. Goes(v, w', limit)
    <2>1. CASE choice = "cancel"
      <3> DEFINE u == markTransferCanceled(v, t)
      <3>0. "canceled" \in Status \ {"none"} /\ "canceled" \in Settled
        BY DEF Status, Settled, Finished
      <3>1. Renewed(v, u, t, "canceled", "zero")
        BY <1>1, <1>3, <3>0, Updated DEF markTransferCanceled
      <3>2. v.status[t] \in Settled => v.status[t] = "canceled" /\ v.bar[t] = "zero"
        <4>1. v.status[t] \in {"none", "running", "canceled"}
          BY <1>1, <1>4, <1>5, SettledAt
        <4>2. v.status[t] = "canceled" => v.bar[t] = "zero"
          BY <1>1, <1>3 DEF IInv, CanceledEmpty
        <4> QED  BY <4>1, <4>2 DEF Settled, Finished
      <3>3. \E s \in Settled, b \in {"zero", "part", "full"} :
              /\ Renewed(v, u, t, s, b) /\ (s = "canceled" => b = "zero")
              /\ v.status[t] \in Settled => v.status[t] = s /\ v.bar[t] = b
        BY <3>0, <3>1, <3>2
      <3> HIDE DEF u
      <3>4. Goes(v, TaskEnds(u, t, limit), limit)
        BY <1>1, <1>4, <1>5, <3>3, EndGoes
      <3> QED  BY <1>2, <2>1, <3>4 DEF u
    <2>2. CASE choice # "cancel" /\ isTransferNoLongerActive(v, t)
      <3>1. Goes(v, TaskEnds(v, t, limit), limit)
        BY <1>1, <1>4, <1>5, EndGoes
      <3> QED  BY <1>2, <2>2, <3>1
    <2>3. CASE choice # "cancel" /\ ~isTransferNoLongerActive(v, t)
      <3>1. Goes(v, Proceed(v, t), limit)
        BY <1>1, <1>3, <1>4, <1>5, <2>3, ProceedGoes
      <3> QED  BY <1>2, <2>3, <3>1
    <2> QED  BY <2>1, <2>2, <2>3
  <1> QED  BY <1>1, <1>3, <1>6 DEF Goes, SettledStay, CanceledStay

-----------------------------------------------------------------------------
(* The tasks after an await.                                               *)

LEMMA FreeGoes ==
    ASSUME IInv, NEW t \in Transfer, TargetIsFree(t)
    PROVE  Goes(w, w', limit')
  <1>1. /\ WindowInv(w) /\ limit' = limit /\ limit \in Nat /\ w.at[t] # "idle" /\ w.prompt # t
        /\ w.queue = <<>> \/ Cardinality(w.running) >= limit
    BY Types, LimitIsNat, TransferAssumption
       DEF IInv, WindowInv, SlotsFull, Prompted, TargetIsFree, task
  <1>2. CASE isTransferNoLongerActive(w, t)
    <2>1. Goes(w, TaskEnds(w, t, limit), limit)
      BY <1>1, EndGoes
    <2> QED  BY <1>1, <1>2, <2>1 DEF TargetIsFree
  <1>3. CASE ~isTransferNoLongerActive(w, t)
    <2>1. Goes(w, Proceed(w, t), limit)
      BY <1>1, <1>3, ProceedGoes
    <2> QED  BY <1>1, <1>3, <2>1 DEF TargetIsFree
  <1> QED  BY <1>2, <1>3

(* An update that settles the row of a task, unless it is settled.           *)
LEMMA FailedGoes ==
    ASSUME NEW v, WindowInv(v), NEW t \in Transfer, v.at[t] # "idle", v.prompt # t,
           NEW lim \in Nat
    PROVE  Goes(v, TaskEnds(failTransfer(v, t), t, lim), lim)
           /\ TaskEnds(failTransfer(v, t), t, lim).at[t] = "idle"
  <1> DEFINE u == failTransfer(v, t)
  <1>1. CASE v.status[t] = "canceled"
    <2>1. u = v
      BY <1>1 DEF failTransfer
    <2> QED  BY <2>1, EndGoes
  <1>2. CASE v.status[t] # "canceled"
    <2>1. u = updateRemoteFileTransfer(v, t, "error", v.bar[t])
      BY <1>2 DEF failTransfer
    <2>2. v \in Window /\ v.bar[t] \in {"zero", "part", "full"}
      BY WindowFields DEF WindowInv
    <2>3. "error" \in Status \ {"none"} /\ "error" \in Settled
      BY DEF Status, Settled
    <2>4. Renewed(v, u, t, "error", v.bar[t])
      BY <2>1, <2>2, <2>3, Updated
    <2> HIDE DEF u
    <2>5. v.status[t] \in {"none", "running"}
      BY <1>2, SettledAt
    <2>6. v.status[t] \notin Settled
      BY <2>5 DEF Settled, Finished
    <2>7. Goes(v, TaskEnds(u, t, lim), lim) /\ TaskEnds(u, t, lim).at[t] = "idle"
      BY <2>2, <2>3, <2>4, <2>6, EndGoes
    <2> QED  BY <2>7 DEF u
  <1> QED  BY <1>1, <1>2

LEMMA FinishedGoes ==
    ASSUME NEW v, WindowInv(v), NEW t \in Transfer, v.at[t] # "idle", v.prompt # t,
           NEW lim \in Nat, NEW result \in {"success", "skipped"}
    PROVE  Goes(v, TaskEnds(finishTransfer(v, t, result), t, lim), lim)
           /\ TaskEnds(finishTransfer(v, t, result), t, lim).at[t] = "idle"
  <1> DEFINE u == finishTransfer(v, t, result)
  <1>1. CASE isTransferNoLongerActive(v, t)
    <2>1. u = v
      BY <1>1 DEF finishTransfer
    <2> QED  BY <2>1, EndGoes
  <1>2. CASE ~isTransferNoLongerActive(v, t)
    <2>1. u = updateRemoteFileTransfer(v, t, result, "full")
      BY <1>2 DEF finishTransfer
    <2>2. result \in Status \ {"none"} /\ result \in Settled
      BY DEF Status, Settled, Finished
    <2>3. Renewed(v, u, t, result, "full")
      BY <2>1, <2>2, Updated DEF WindowInv
    <2> HIDE DEF u
    <2>4. v.status[t] \in {"none", "running"}
      BY <1>2, SettledAt DEF isTransferNoLongerActive
    <2>5. v.status[t] \notin Settled
      BY <2>4 DEF Settled, Finished
    <2>6. Goes(v, TaskEnds(u, t, lim), lim) /\ TaskEnds(u, t, lim).at[t] = "idle"
      BY <2>2, <2>3, <2>5, EndGoes
    <2> QED  BY <2>6 DEF u
  <1> QED  BY <1>1, <1>2

LEMMA CanceledGoes ==
    ASSUME NEW v, WindowInv(v), NEW t \in Transfer, v.at[t] # "idle", v.prompt # t,
           v.status[t] # "canceled", NEW lim \in Nat
    PROVE  Goes(v, TaskEnds(markTransferCanceled(v, t), t, lim), lim)
           /\ TaskEnds(markTransferCanceled(v, t), t, lim).at[t] = "idle"
  <1> DEFINE u == markTransferCanceled(v, t)
  <1>1. "canceled" \in Status \ {"none"} /\ "canceled" \in Settled
    BY DEF Status, Settled, Finished
  <1>2. Renewed(v, u, t, "canceled", "zero")
    BY <1>1, Updated DEF WindowInv, markTransferCanceled
  <1> HIDE DEF u
  <1>3. v.status[t] \in {"none", "running"}
    BY SettledAt
  <1>4. v.status[t] \notin Settled
    BY <1>3 DEF Settled, Finished
  <1>5. Goes(v, TaskEnds(u, t, lim), lim) /\ TaskEnds(u, t, lim).at[t] = "idle"
    BY <1>1, <1>2, <1>4, EndGoes
  <1> QED  BY <1>5 DEF u

LEMMA LocalGoes ==
    ASSUME IInv, NEW t \in Transfer, LocalFails(t)
    PROVE  Goes(w, w', limit')
  <1>1. /\ WindowInv(w) /\ limit' = limit /\ limit \in Nat /\ w.at[t] # "idle" /\ w.prompt # t
    BY Types, LimitIsNat, TransferAssumption DEF IInv, WindowInv, Prompted, LocalFails, task
  <1>2. Goes(w, TaskEnds(failTransfer(w, t), t, limit), limit)
    BY <1>1, FailedGoes
  <1> QED  BY <1>1, <1>2 DEF LocalFails

LEMMA StageProgressGoes ==
    ASSUME IInv, NEW t \in Transfer, StageProgress(t)
    PROVE  Goes(w, w', limit')
  <1>1. /\ WindowInv(w) /\ w \in Window /\ limit' = limit /\ w.at[t] # "idle"
        /\ w.queue = <<>> \/ Cardinality(w.running) >= limit
        /\ w' = setTransferProgress(w, t)
    BY DEF IInv, WindowInv, SlotsFull, StageProgress, InBackend, task
  <1>2. t \in Staged
    BY TransferAssumption DEF IInv, WindowInv, Rows, RowsBut, StageProgress
  <1>3. w.status[t] # "queued"
    BY <1>1, SettledAt
  <1>4. Renewed(w, w', t, "running", "part")
    BY <1>1, ShownRunning
  <1> QED  BY <1>1, <1>2, <1>3, <1>4, RenewedGoes

LEMMA StageDoneGoes ==
    ASSUME IInv, NEW t \in Transfer, StageDone(t)
    PROVE  Goes(w, w', limit')
  <1> DEFINE p == setTransferProgress(w, t)
             at == [p.at EXCEPT ![t] = "sent"]
             u == [p EXCEPT !.at = at]
  <1>1. /\ WindowInv(w) /\ w \in Window /\ limit' = limit
        /\ w.at[t] # "idle" /\ w.prompt # t
        /\ w.queue = <<>> \/ Cardinality(w.running) >= limit
    BY TransferAssumption DEF IInv, WindowInv, SlotsFull, Prompted, StageDone, task
  <1>2. t \in Staged
    BY TransferAssumption DEF IInv, WindowInv, Rows, RowsBut, StageDone
  <1>3. w' = u
    BY DEF StageDone
  <1>4. Renewed(w, p, t, "running", "part")
    BY <1>1, ShownRunning
  <1> HIDE DEF p
  <1>5. p \in Window /\ p.at = w.at
    BY <1>4 DEF Renewed, SameQueue
  <1>6. /\ at \in [Transfer -> Steps] /\ at[t] = "sent"
        /\ \A x \in Transfer \ {t} : at[x] = w.at[x]
    BY <1>5, WindowFields DEF Steps
  <1> HIDE DEF at
  <1>7. SameQueue(p, u) /\ u.status = p.status /\ u.bar = p.bar /\ u.at = at
    BY <1>5, <1>6 DEF SameQueue, Window
  <1> HIDE DEF u
  <1>8. Resumed(w, u, t)
    BY <1>4, <1>6, <1>7 DEF Resumed, Renewed, SameQueue, OthersStay, RowIs
  <1>9. Goes(w, u, limit)
    BY <1>1, <1>2, <1>8, ResumedGoes
  <1> QED  BY <1>1, <1>3, <1>9

(* The answer of the command.                                               *)
LEMMA CommandGoes ==
    ASSUME IInv, NEW t \in Transfer, Answer(t)
    PROVE  Goes(w, w', limit') /\ w'.at[t] = "idle"
  <1>1. /\ WindowInv(w) /\ limit' = limit /\ limit \in Nat /\ w.at[t] # "idle" /\ w.prompt # t
    BY Types, LimitIsNat, TransferAssumption DEF IInv, WindowInv, Prompted, Answer, task
  <1>2. answer[t] \in Answers
    BY DEF IInv, HasAnswer, TypeOK, Answer
  <1>3. CASE answer[t] \in {"success", "skipped"}
    <2>1. w' = TaskEnds(finishTransfer(w, t, answer[t]), t, limit)
      BY <1>3 DEF Answer
    <2> QED  BY <1>1, <1>3, <2>1, FinishedGoes
  <1>4. CASE answer[t] = "failed"
    <2>1. w' = TaskEnds(failTransfer(w, t), t, limit)
      BY <1>4 DEF Answer
    <2> QED  BY <1>1, <2>1, FailedGoes
  <1>5. CASE answer[t] = "canceled" /\ w.status[t] = "canceled"
    <2>1. w' = TaskEnds(w, t, limit)
      BY <1>5 DEF Answer
    <2> QED  BY <1>1, <2>1, EndGoes
  <1>6. CASE answer[t] = "canceled" /\ w.status[t] # "canceled"
    <2>1. w' = TaskEnds(markTransferCanceled(w, t), t, limit)
      BY <1>6 DEF Answer
    <2> QED  BY <1>1, <1>6, <2>1, CanceledGoes
  <1> QED  BY <1>2, <1>3, <1>4, <1>5, <1>6 DEF Answers


-----------------------------------------------------------------------------
(* Progress events and the backend.                                        *)

LEMMA EventsGo ==
    ASSUME IInv, applyRemoteTransferProgressEvents
    PROVE  Goes(w, w', limit')
  <1> DEFINE bar == [t \in Transfer |->
                        IF events[t] = None THEN w.bar[t] ELSE progressOfEvent(w, t, events[t])]
             u == [w EXCEPT !.bar = bar]
  <1>1. w' = u /\ limit' = limit
    BY DEF applyRemoteTransferProgressEvents
  <1>2. WindowInv(w) /\ w \in Window /\ events \in [Transfer -> {"part", "full", None}]
    BY DEF IInv, WindowInv, TypeOK
  <1>3. ASSUME NEW t \in Transfer
        PROVE  /\ bar[t] \in {"zero", "part", "full"}
               /\ w.status[t] # "running" => bar[t] = w.bar[t]
               /\ t \notin Download /\ w.status[t] = "running" => bar[t] # "full"
    <2>1. w.bar[t] \in {"zero", "part", "full"}
      BY <1>2, WindowFields
    <2>2. t \notin Download /\ w.status[t] = "running" => w.bar[t] # "full"
      BY <1>2 DEF WindowInv, Rows, RowsBut
    <2>3. events[t] = None => bar[t] = w.bar[t]
      OBVIOUS
    <2>4. events[t] # None => bar[t] = progressOfEvent(w, t, events[t])
      OBVIOUS
    <2>5. events[t] # None => events[t] \in {"part", "full"}
      BY <1>2
    <2> HIDE DEF bar
    <2> QED  BY <2>1, <2>2, <2>3, <2>4, <2>5 DEF progressOfEvent
  <1>4. bar \in [Transfer -> {"zero", "part", "full"}]
    BY <1>3
  <1> HIDE DEF bar
  <1>5. /\ u \in Window /\ u.bar = bar /\ u.status = w.status /\ u.at = w.at
        /\ u.queue = w.queue /\ u.tasks = w.tasks /\ u.running = w.running /\ u.prompt = w.prompt
    BY <1>2, <1>4 DEF Window
  <1> HIDE DEF u
  <1>6. Rows(u)
    BY <1>2, <1>3, <1>5 DEF WindowInv, Rows, RowsBut, InQueue
  <1>7. Queue(u) /\ Slots(u) /\ Prompted(u)
    BY <1>2, <1>5 DEF WindowInv, Queue, Slots, Prompted
  <1>8. WindowInv(u)
    BY <1>5, <1>6, <1>7 DEF WindowInv
  <1>9. SettledStay(w, u) /\ CanceledStay(w, u)
    BY <1>3, <1>5 DEF SettledStay, CanceledStay, Settled, Finished
  <1> QED  BY <1>1, <1>5, <1>8, <1>9 DEF Goes, IInv, SlotsFull

(* A task reaches another await, and its row stays as it is.                *)
LEMMA MovedKeeps ==
    ASSUME IInv, NEW t \in Transfer, w.at[t] # "idle", NEW step \in {"ask", "remote", "done"},
           NEW u, u = [w EXCEPT !.prompt = IF step = "ask" THEN t ELSE @, !.at[t] = step],
           w' = u, w.prompt # t, UNCHANGED <<limit, made>>, RestOK',
           \A x \in Transfer \ {t} : answer'[x] = answer[x],
           step = "done" => answer'[t] # None
    PROVE  IInv' /\ LimitStep /\ SettledStep
  <1> DEFINE at == [w.at EXCEPT ![t] = step]
             prompt == IF step = "ask" THEN t ELSE w.prompt
  <1>1. WindowInv(w) /\ w \in Window /\ w.prompt \in Transfer \cup {None}
    BY WindowFields DEF IInv, WindowInv
  <1>2. /\ at \in [Transfer -> Steps] /\ at[t] = step
        /\ \A x \in Transfer \ {t} : at[x] = w.at[x]
        /\ prompt \in Transfer \cup {None}
    BY <1>1, WindowFields DEF Steps
  <1>3. u = [w EXCEPT !.prompt = prompt, !.at = at]
    OBVIOUS
  <1>4. prompt = w.prompt \/ (prompt = t /\ step = "ask")
    OBVIOUS
  <1> HIDE DEF at, prompt
  <1>5. /\ u \in Window /\ u.at = at /\ u.prompt = prompt
        /\ u.status = w.status /\ u.bar = w.bar /\ u.queue = w.queue
        /\ u.tasks = w.tasks /\ u.running = w.running
    BY <1>1, <1>2, <1>3 DEF Window
  <1>6. Rows(u)
    <2>1. w.status[t] \in {"none", "running", "canceled"}
      BY <1>1, SettledAt
    <2> QED  BY <1>1, <1>2, <1>5, <2>1 DEF WindowInv, Rows, RowsBut, InQueue
  <1>7. Queue(u)
    BY <1>1, <1>5 DEF WindowInv, Queue
  <1>8. Slots(u)
    BY <1>1, <1>2, <1>5 DEF WindowInv, Slots
  <1>9. Prompted(u)
    BY <1>1, <1>2, <1>4, <1>5 DEF WindowInv, Prompted
  <1>10. WindowInv(w') /\ TypeOK'
    BY <1>5, <1>6, <1>7, <1>8, <1>9 DEF WindowInv, TypeOK, RestOK
  <1>11. Fresh'
    BY <1>2, <1>5 DEF IInv, Fresh
  <1>12. HasAnswer'
    BY <1>2, <1>5 DEF IInv, HasAnswer
  <1>13. SlotsFull' /\ CanceledEmpty'
    BY <1>5 DEF IInv, SlotsFull, CanceledEmpty
  <1>14. LimitStep /\ SettledStep
    BY <1>5 DEF LimitStep, SettledStep
  <1> QED  BY <1>10, <1>11, <1>12, <1>13, <1>14 DEF IInv

LEMMA ExistsKeeps ==
    ASSUME IInv, NEW t \in Transfer, TargetExists(t)
    PROVE  IInv' /\ LimitStep /\ SettledStep
  <1>1. /\ w.at[t] # "idle" /\ w.prompt # t
        /\ w' = [w EXCEPT !.prompt = t, !.at[t] = "ask"]
        /\ UNCHANGED <<limit, token, answer, cancels, events, made, acts, sent>>
    BY TransferAssumption DEF IInv, WindowInv, Prompted, TargetExists, task, counters
  <1>2. RestOK'
    BY <1>1, Types DEF IInv, RestOK
  <1> QED  BY <1>1, <1>2, MovedKeeps

LEMMA RegisterKeeps ==
    ASSUME IInv, NEW t \in Transfer, Register(t)
    PROVE  IInv' /\ LimitStep /\ SettledStep
  <1>1. /\ w.at[t] # "idle" /\ w.prompt # t /\ w \in Window
        /\ w' = [w EXCEPT !.at[t] = "remote"]
        /\ token' = [token EXCEPT ![t] = IF t \in Archived THEN "none" ELSE "live"]
        /\ UNCHANGED <<limit, answer, cancels, events, made, acts, sent>>
    BY TransferAssumption DEF IInv, WindowInv, Prompted, Register, counters
  <1>2. w' = [w EXCEPT !.prompt = @, !.at[t] = "remote"]
    BY <1>1 DEF Window
  <1>3. RestOK'
    BY <1>1, Types DEF IInv, RestOK
  <1> QED  BY <1>1, <1>2, <1>3, MovedKeeps

LEMMA RemoteEndsKeeps ==
    ASSUME IInv, NEW t \in Transfer, NEW result \in Answers, RemoteEnds(t, result)
    PROVE  IInv' /\ LimitStep /\ SettledStep
  <1>1. /\ w.at[t] # "idle" /\ w.prompt # t /\ w \in Window
        /\ w' = [w EXCEPT !.at[t] = "done"]
        /\ token' = [token EXCEPT ![t] = "none"]
        /\ answer' = [answer EXCEPT ![t] = result]
        /\ UNCHANGED <<limit, cancels, events, made, acts, sent>>
    BY TransferAssumption DEF IInv, WindowInv, Prompted, RemoteEnds, counters
  <1>2. w' = [w EXCEPT !.prompt = @, !.at[t] = "done"]
    BY <1>1 DEF Window
  <1>3. RestOK'
    BY <1>1, Types DEF IInv, RestOK
  <1>4. answer'[t] # None /\ \A x \in Transfer \ {t} : answer'[x] = answer[x]
    BY <1>1, TransferAssumption DEF IInv, TypeOK
  <1> QED  BY <1>1, <1>2, <1>3, <1>4, MovedKeeps


-----------------------------------------------------------------------------
(* Every step.                                                             *)

LEMMA UserKeeps ==
    ASSUME IInv, UserActs
    PROVE  IInv' /\ LimitStep /\ SettledStep
  <1> USE DEF IInv
  <1>1. ASSUME NEW t \in Transfer, Make(t)  PROVE IInv' /\ LimitStep /\ SettledStep
    BY <1>1, MakeKeeps
  <1>2. ASSUME NEW t \in Transfer, showTransferPickerError(t)
        PROVE  IInv' /\ LimitStep /\ SettledStep
    BY <1>2, PickerErrorKeeps
  <1>3. ASSUME NEW t \in Transfer, retryRemoteFileTransfer(t)
        PROVE  IInv' /\ LimitStep /\ SettledStep
    BY <1>3, RetryKeeps
  <1>4. ASSUME NEW t \in Transfer, requestCancelTransfer(t)
        PROVE  IInv' /\ LimitStep /\ SettledStep
    <2>1. Goes(w, w', limit')
      BY <1>4, CancelGoes
    <2>2. RestOK' /\ UNCHANGED <<made, answer>>
      BY <1>4, Types, TransferAssumption DEF requestCancelTransfer, Act, RestOK
    <2> QED  BY <2>1, <2>2, GoesKeeps DEF Goes, HasAnswer
  <1>5. ASSUME NEW t \in Transfer, removeTransfer(t)
        PROVE  IInv' /\ LimitStep /\ SettledStep
    <2>1. Goes(w, w', limit')
      BY <1>5, RemoveGoes
    <2>2. RestOK' /\ UNCHANGED <<made, answer>>
      BY <1>5, Types, TransferAssumption DEF removeTransfer, Act, RestOK, remote
    <2> QED  BY <2>1, <2>2, GoesKeeps DEF Goes, HasAnswer
  <1>6. CASE clearFinishedTransfers
    <2>1. Goes(w, w', limit')
      BY <1>6, ClearGoes
    <2>2. RestOK' /\ UNCHANGED <<made, answer>>
      BY <1>6, Types, TransferAssumption DEF clearFinishedTransfers, Act, RestOK, remote
    <2> QED  BY <2>1, <2>2, GoesKeeps DEF Goes, HasAnswer
  <1>7. ASSUME NEW n \in Limits, ChangeLimit(n)  PROVE IInv' /\ LimitStep /\ SettledStep
    <2>1. Goes(w, w', limit')
      BY <1>7, LimitGoes
    <2>2. RestOK' /\ UNCHANGED <<made, answer>>
      BY <1>7, Types, TransferAssumption DEF ChangeLimit, Act, RestOK, remote
    <2> QED  BY <2>1, <2>2, GoesKeeps DEF Goes, HasAnswer
  <1> QED  BY <1>1, <1>2, <1>3, <1>4, <1>5, <1>6, <1>7 DEF UserActs

LEMMA TaskKeeps ==
    ASSUME IInv, NEW t \in Transfer, TaskGoesOn(t) \/ StageProgress(t)
    PROVE  IInv' /\ LimitStep /\ SettledStep
  <1>1. CASE TargetExists(t)
    BY <1>1, ExistsKeeps
  <1>2. CASE Answer(t)
    <2>1. Goes(w, w', limit') /\ w'.at[t] = "idle"
      BY <1>2, CommandGoes
    <2>2. /\ RestOK' /\ UNCHANGED made
          /\ \A x \in Transfer \ {t} : answer'[x] = answer[x]
      BY <1>2, Types DEF Answer, task, counters, RestOK, IInv
    <2> QED  BY <2>1, <2>2, GoesKeeps DEF Goes, HasAnswer, IInv
  <1>3. CASE TargetIsFree(t) \/ LocalFails(t) \/ StageDone(t) \/ StageProgress(t)
    <2>1. Goes(w, w', limit')
      BY <1>3, FreeGoes, LocalGoes, StageDoneGoes, StageProgressGoes
    <2>2. RestOK' /\ UNCHANGED <<made, answer>>
      BY <1>3, Types
         DEF TargetIsFree, LocalFails, StageDone, StageProgress, task, counters, RestOK, IInv
    <2> QED  BY <2>1, <2>2, GoesKeeps DEF Goes, HasAnswer, IInv
  <1> QED  BY <1>1, <1>2, <1>3 DEF TaskGoesOn

(* The steps outside the window leave it as it is.                          *)
LEMMA OutsideKeeps ==
    ASSUME IInv,
           \/ \E t \in Transfer : \/ CancelArrives(t)
                                  \/ \E loaded \in {"part", "full"} : RemoteProgress(t, loaded)
           \/ UNCHANGED vars
    PROVE  IInv' /\ LimitStep /\ SettledStep
  <1>1. /\ RestOK' /\ UNCHANGED <<w, limit, made, answer>>
    <2>1. ASSUME NEW t \in Transfer, CancelArrives(t)
          PROVE  RestOK' /\ UNCHANGED <<w, limit, made, answer>>
      BY <2>1, Types DEF CancelArrives, window, counters, RestOK, IInv
    <2>2. ASSUME NEW t \in Transfer, NEW loaded \in {"part", "full"}, RemoteProgress(t, loaded)
          PROVE  RestOK' /\ UNCHANGED <<w, limit, made, answer>>
      BY <2>2, Types, TransferAssumption DEF RemoteProgress, RestOK, IInv
    <2>3. CASE UNCHANGED vars
      BY <2>3, Types DEF vars, counters, RestOK, IInv
    <2> QED  BY <2>1, <2>2, <2>3
  <1>2. Goes(w, w', limit')
    BY <1>1, StaysGoes
  <1> QED  BY <1>1, <1>2, GoesKeeps DEF HasAnswer, IInv

LEMMA StepKeeps ==
    ASSUME IInv, [Next]_vars
    PROVE  IInv' /\ LimitStep /\ SettledStep
  <1>1. CASE UserActs
    BY <1>1, UserKeeps
  <1>2. CASE UserAnswers
    <2>1. PICK c \in {"policy", "cancel"} : settleTransferConflictPrompt(c)
      BY <1>2 DEF UserAnswers
    <2>2. Goes(w, w', limit')
      BY <2>1, AnswerGoes
    <2>3. RestOK' /\ UNCHANGED <<made, answer>>
      BY <2>1, Types DEF settleTransferConflictPrompt, remote, counters, RestOK, IInv
    <2> QED  BY <2>2, <2>3, GoesKeeps DEF Goes, HasAnswer, IInv
  <1>3. CASE applyRemoteTransferProgressEvents
    <2>1. Goes(w, w', limit')
      BY <1>3, EventsGo
    <2>2. RestOK' /\ UNCHANGED <<made, answer>>
      BY <1>3, Types DEF applyRemoteTransferProgressEvents, counters, RestOK, IInv
    <2> QED  BY <2>1, <2>2, GoesKeeps DEF Goes, HasAnswer, IInv
  <1>4. ASSUME NEW t \in Transfer, TaskGoesOn(t) \/ StageProgress(t)
        PROVE  IInv' /\ LimitStep /\ SettledStep
    BY <1>4, TaskKeeps
  <1>5. ASSUME NEW t \in Transfer, BackendGoesOn(t)
        PROVE  IInv' /\ LimitStep /\ SettledStep
    BY <1>5, RegisterKeeps, RemoteEndsKeeps DEF BackendGoesOn
  <1>6. CASE \/ \E t \in Transfer : \/ CancelArrives(t)
                                    \/ \E loaded \in {"part", "full"} : RemoteProgress(t, loaded)
             \/ UNCHANGED vars
    BY <1>6, OutsideKeeps
  <1> QED  BY <1>1, <1>2, <1>3, <1>4, <1>5, <1>6 DEF Next

LEMMA Starts == Init => IInv
  <1> SUFFICES ASSUME Init  PROVE IInv
    OBVIOUS
  <1> DEFINE status == [t \in Transfer |-> "none"]
             bar == [t \in Transfer |-> "zero"]
             retry == [t \in Transfer |-> FALSE]
             at == [t \in Transfer |-> "idle"]
  <1>1. w = [status |-> status, bar |-> bar, retry |-> retry, queue |-> <<>>,
             running |-> {}, tasks |-> {}, at |-> at, prompt |-> None]
    BY DEF Init
  <1>2. /\ status \in [Transfer -> Status] /\ bar \in [Transfer -> {"zero", "part", "full"}]
        /\ retry \in [Transfer -> BOOLEAN] /\ at \in [Transfer -> Steps]
        /\ <<>> \in Seq(Transfer) /\ Len(<<>>) = 0
    BY DEF Status, Steps
  <1>3. \A t \in Transfer : status[t] = "none" /\ at[t] = "idle"
    OBVIOUS
  <1> HIDE DEF status, bar, retry, at
  <1>4. /\ w \in Window /\ w.status = status /\ w.at = at /\ w.queue = <<>>
        /\ w.running = {} /\ w.prompt = None
    BY <1>1, <1>2 DEF Window
  <1>5. WindowInv(w)
    BY <1>2, <1>3, <1>4 DEF WindowInv, Rows, RowsBut, Queue, Slots, Prompted
  <1>6. RestOK
    BY TransferAssumption DEF Init, RestOK
  <1>7. TypeOK
    BY <1>4, <1>6, Types
  <1>8. Fresh /\ HasAnswer /\ SlotsFull /\ CanceledEmpty
    BY <1>3, <1>4 DEF Fresh, HasAnswer, SlotsFull, CanceledEmpty
  <1> QED  BY <1>5, <1>7, <1>8 DEF IInv

-----------------------------------------------------------------------------
(* The theorems.                                                           *)

(* Whatever the user, the backend and the events do, the state of the       *)
(* window is one of the inductive invariant.                                *)
THEOREM Invariance == Spec => []IInv
  <1>1. IInv /\ [Next]_vars => IInv'
    BY StepKeeps
  <1> QED  BY Starts, <1>1, PTL DEF Spec

(* Every variable of the window and of the backend keeps its type.          *)
THEOREM TypeCorrect == Spec => []TypeOK
  <1>1. IInv => TypeOK
    BY DEF IInv
  <1> QED  BY Invariance, <1>1, PTL

(* A row says "queued" exactly while the controller's queue has it, once,    *)
(* with its task and no older one under way: no row waits for ever because   *)
(* its entry was dropped.                                                  *)
THEOREM QueueAlwaysMatchesRows == Spec => []QueueMatchesRows
  <1>1. ASSUME IInv, NEW t \in Transfer
        PROVE  /\ Occurrences(t) = IF w.status[t] = "queued" THEN 1 ELSE 0
               /\ w.status[t] = "queued" => t \in w.tasks /\ w.at[t] = "idle"
    <2> DEFINE P == {i \in 1..Len(w.queue) : w.queue[i] = t}
    <2>1. WindowInv(w)
      BY <1>1 DEF IInv
    <2>2. w.status[t] = "queued" => t \in w.tasks /\ w.at[t] = "idle" /\ InQueue(w, t)
      BY <2>1 DEF WindowInv, Rows, RowsBut
    <2>3. CASE w.status[t] = "queued"
      <3>1. PICK i \in 1..Len(w.queue) : w.queue[i] = t
        BY <2>2, <2>3 DEF InQueue
      <3>2. P = {i}
        BY <2>1, <3>1 DEF WindowInv, Queue
      <3>3. Cardinality(P) = 1
        BY <3>2, FS_Singleton
      <3> QED  BY <2>2, <2>3, <3>3 DEF Occurrences
    <2>4. CASE w.status[t] # "queued"
      <3>1. P = {}
        BY <2>1, <2>4 DEF WindowInv, Queue
      <3>2. Cardinality(P) = 0
        BY <3>1, FS_EmptySet
      <3> QED  BY <2>4, <3>2 DEF Occurrences
    <2> QED  BY <2>3, <2>4
  <1>2. IInv => QueueMatchesRows
    BY <1>1 DEF QueueMatchesRows
  <1> QED  BY Invariance, <1>2, PTL

(* A slot is held exactly as long as its task is under way.                 *)
LEMMA RunningIsUnderWay == IInv => w.running = UnderWay
  BY WindowFields DEF IInv, WindowInv, Slots, UnderWay

(* Nothing waits in the queue while fewer tasks than the limit are under way. *)
THEOREM NoSlotIdle == Spec => []NoIdleSlot
  <1>1. IInv => NoIdleSlot
    BY RunningIsUnderWay DEF IInv, SlotsFull, NoIdleSlot
  <1> QED  BY Invariance, <1>1, PTL

(* A running upload is never shown as complete before the remote end says    *)
(* so.                                                                     *)
THEOREM CompleteAlwaysConfirmed == Spec => []CompleteMeansConfirmed
  <1>1. IInv => CompleteMeansConfirmed
    BY TransferAssumption DEF IInv, WindowInv, Rows, RowsBut, CompleteMeansConfirmed
  <1> QED  BY Invariance, <1>1, PTL

(* A task starts only within the limit of that moment.                      *)
THEOREM StartsAlwaysWithinLimit == Spec => StartsWithinLimit
  <1>1. IInv /\ [Next]_vars =>
          [UnderWay' \subseteq UnderWay \/ Cardinality(UnderWay') <= limit']_vars
    <2> SUFFICES ASSUME IInv, [Next]_vars
                 PROVE  [UnderWay' \subseteq UnderWay \/ Cardinality(UnderWay') <= limit']_vars
      OBVIOUS
    <2>1. w.running = UnderWay
      BY RunningIsUnderWay
    <2>2. IInv' /\ LimitStep
      BY StepKeeps
    <2>3. w'.running = UnderWay'
      BY <2>2, WindowFields DEF IInv, WindowInv, Slots, UnderWay
    <2> QED  BY <2>1, <2>2, <2>3 DEF LimitStep
  <1> QED  BY Invariance, <1>1, PTL DEF Spec, StartsWithinLimit

(* Late answers and late events leave a settled row alone, unless its upload *)
(* is staged.                                                              *)
THEOREM SettledRowsAlwaysStay == Spec => SettledRowsStay
  <1>1. IInv /\ [Next]_vars =>
          [\A t \in Transfer \ Staged :
              w.status[t] \in Finished \cup {"error"} =>
                 \/ w'.status[t] = "none"
                 \/ w'.status[t] = w.status[t] /\ w'.bar[t] = w.bar[t]
                 \/ w.status[t] = "error" /\ w'.status[t] \in {"queued", "running"}
                       /\ acts' = acts + 1]_vars
    BY StepKeeps DEF SettledStep, Settled
  <1> QED  BY Invariance, <1>1, PTL DEF Spec, SettledRowsStay

=============================================================================
