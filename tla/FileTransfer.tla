---------------------------- MODULE FileTransfer ----------------------------
(***************************************************************************)
(* The transfers of the window: the rows of the transfer panel             *)
(* (remoteFileTransferStore.ts), the queue with its limit of concurrent     *)
(* transfers (useRemoteFileTransferController.ts), the upload and download  *)
(* tasks and the question about an existing target (WorkspaceShell.tsx),    *)
(* and the backend's register of cancel tokens (remote_files.rs).           *)
(*                                                                         *)
(* JavaScript runs to the next await without interruption: a step of the    *)
(* model is such a stretch, written as a composition of the functions of    *)
(* the code, each from a state of the window `w' to the next.  Events,      *)
(* answers of the backend and cancel requests travel on their own.          *)
(***************************************************************************)
EXTENDS Naturals, Sequences, FiniteSets

CONSTANTS
    MaxTransfers,   \* bound on the transfers of a behaviour
    MaxActs,        \* bound on what the user does to them: retry, cancel, remove, clear,
                    \* change of the setting
    MaxProgress,    \* bound on the progress events
    Limits,         \* the values of the setting concurrentTransfers
    DefaultLimit,   \* the one it has at first
    MaxHistory,     \* maxFinishedTransferHistory and maxErrorTransferHistory
    Download,       \* transfers that are downloads; the others are uploads
    Staged,         \* uploads of files the webview holds: written to a copy first
    Archived,       \* directories sent as an archive: their commands register no token
    Asking,         \* transfers made while conflictPolicyDefault is "ask"
    Conflicting,    \* transfers whose target exists
    None

Transfer == 1..MaxTransfers     \* in the order in which they are made

Answers == {"success", "skipped", "failed", "canceled"}     \* of a command

ASSUME TransferAssumption ==
    /\ MaxTransfers \in Nat /\ MaxActs \in Nat /\ MaxProgress \in Nat /\ MaxHistory \in Nat
    /\ Limits \subseteq Nat \ {0} /\ DefaultLimit \in Limits
    /\ Download \subseteq Transfer /\ Archived \subseteq Transfer
    /\ Staged \subseteq Transfer \ Download
    /\ Asking \subseteq Transfer /\ Conflicting \subseteq Transfer
    /\ None \notin Transfer /\ None \notin Answers

VARIABLES
    w,          \* the state of the window, see Window
    limit,      \* the setting concurrentTransfers
    token,      \* the backend's register: what is known of a transfer's token
    answer,     \* the answer of a command, on its way to the window
    cancels,    \* cancel requests on their way to the backend
    events,     \* the last progress event of a transfer that no flush has applied
    made, acts, sent    \* bookkeeping: transfers, acts of the user, progress events so far

counters == <<made, acts, sent>>
vars == <<w, limit, token, answer, cancels, events, counters>>

Finished == {"success", "skipped", "canceled"}
Status == {"none", "queued", "running", "error"} \cup Finished

(* Where a task is: not running, at the check of its target, at the        *)
(* question, writing the copy, its command sent, its command in work, its   *)
(* command done.                                                            *)
Steps == {"idle", "check", "ask", "stage", "sent", "remote", "done"}
InBackend == {"sent", "remote", "done"}

Window ==
    [status : [Transfer -> Status],             \* of the rows; "none" is no row
     bar : [Transfer -> {"zero", "part", "full"}],  \* progress
     retry : [Transfer -> BOOLEAN],             \* the row has a retry record
     queue : Seq(Transfer),                     \* transferQueueRef
     running : SUBSET Transfer,                 \* runningTransferIdsRef
     tasks : SUBSET Transfer,                   \* domain of transferTasksRef
     at : [Transfer -> Steps],
     prompt : Transfer \cup {None}]             \* transferConflictPrompt

TypeOK ==
    /\ w \in Window
    /\ limit \in Limits
    /\ token \in [Transfer -> {"none", "live", "canceled"}]
    /\ answer \in [Transfer -> Answers \cup {None}]
    /\ cancels \subseteq Transfer
    /\ events \in [Transfer -> {"part", "full", None}]
    /\ made \in 0..MaxTransfers /\ acts \in 0..MaxActs /\ sent \in 0..MaxProgress

Init ==
    /\ w = [status |-> [t \in Transfer |-> "none"],
            bar |-> [t \in Transfer |-> "zero"],
            retry |-> [t \in Transfer |-> FALSE],
            queue |-> <<>>, running |-> {}, tasks |-> {},
            at |-> [t \in Transfer |-> "idle"], prompt |-> None]
    /\ limit = DefaultLimit
    /\ token = [t \in Transfer |-> "none"]
    /\ answer = [t \in Transfer |-> None]
    /\ cancels = {}
    /\ events = [t \in Transfer |-> None]
    /\ made = 0 /\ acts = 0 /\ sent = 0

-----------------------------------------------------------------------------
(* The rows.                                                               *)

(* Only the newest finished rows and the newest failed ones are kept. *)
TooMany(status, t, kind) ==
    /\ status[t] \in kind
    /\ Cardinality({u \in Transfer : u > t /\ status[u] \in kind}) >= MaxHistory

trimTransferHistory(status) ==
    [t \in Transfer |->
        IF TooMany(status, t, Finished) \/ TooMany(status, t, {"error"})
        THEN "none" ELSE status[t]]

(* An update of a row that is gone changes nothing. *)
updateRemoteFileTransfer(v, t, status, bar) ==
    IF v.status[t] = "none" THEN v
    ELSE [v EXCEPT !.status = trimTransferHistory([v.status EXCEPT ![t] = status]),
                   !.bar[t] = bar]

setTransferProgress(v, t) == updateRemoteFileTransfer(v, t, "running", "part")

markTransferCanceled(v, t) == updateRemoteFileTransfer(v, t, "canceled", "zero")

(* A wrong variant: the error of a cancelled transfer is shown. *)
FailAlways(v, t) == updateRemoteFileTransfer(v, t, "error", v.bar[t])

failTransfer(v, t) ==
    IF v.status[t] = "canceled" THEN v
    ELSE updateRemoteFileTransfer(v, t, "error", v.bar[t])

isTransferNoLongerActive(v, t) == v.status[t] \in {"canceled", "error"}

(* finishUploadTransfer, finishArchiveUploadTransfer, finishDownloadTransfer *)
finishTransfer(v, t, result) ==
    IF isTransferNoLongerActive(v, t) THEN v
    ELSE updateRemoteFileTransfer(v, t, result, "full")

-----------------------------------------------------------------------------
(* The tasks.                                                              *)

(* The task goes on when the policy is known: it remembers the policy for a *)
(* retry and sends its command, or writes the copy first.                   *)
Proceed(v, t) ==
    LET u == setTransferProgress([v EXCEPT !.retry[t] = v.status[t] # "none"], t)
    IN  [u EXCEPT !.at[t] = IF t \in Staged THEN "stage" ELSE "sent"]

(* A task up to its first await. *)
Begin(v, t) ==
    IF t \in Asking /\ ~v.retry[t]
    THEN [setTransferProgress(v, t) EXCEPT !.at[t] = "check"]
    ELSE Proceed(v, t)

-----------------------------------------------------------------------------
(* The queue.                                                              *)

Runnable(v, t) == t \in v.tasks /\ v.status[t] \in {"queued", "none"}

(* Positions of the queue up to n whose transfers can run. *)
RunnableUpTo(v, n) == {i \in 1..n : Runnable(v, v.queue[i])}

(* A wrong variant: one more than the limit. *)
TakenOver(v, lim) ==
    CHOOSE n \in 0..Len(v.queue) :
        /\ \/ n = Len(v.queue)
           \/ Cardinality(v.running) + Cardinality(RunnableUpTo(v, n)) > lim
        /\ \A k \in 0..(n - 1) :
              Cardinality(v.running) + Cardinality(RunnableUpTo(v, k)) =< lim

(* How much of the queue the loop takes: until the limit or the end. *)
Taken(v, lim) ==
    CHOOSE n \in 0..Len(v.queue) :
        /\ \/ n = Len(v.queue)
           \/ Cardinality(v.running) + Cardinality(RunnableUpTo(v, n)) >= lim
        /\ \A k \in 0..(n - 1) :
              Cardinality(v.running) + Cardinality(RunnableUpTo(v, k)) < lim

Started(v, lim) == {v.queue[i] : i \in RunnableUpTo(v, Taken(v, lim))}
Dropped(v, lim) ==
    {v.queue[i] : i \in 1..Taken(v, lim)} \ Started(v, lim)

(* What became of each transfer that the loop started. *)
StartAll(v, ts) ==
    LET begun == [t \in ts |-> Begin(v, t)]
    IN  [v EXCEPT
            !.status = [t \in Transfer |-> IF t \in ts THEN begun[t].status[t] ELSE v.status[t]],
            !.bar = [t \in Transfer |-> IF t \in ts THEN begun[t].bar[t] ELSE v.bar[t]],
            !.retry = [t \in Transfer |-> IF t \in ts THEN begun[t].retry[t] ELSE v.retry[t]],
            !.at = [t \in Transfer |-> IF t \in ts THEN begun[t].at[t] ELSE v.at[t]],
            !.running = v.running \cup ts]

drainTransferQueue(v, lim) ==
    [StartAll(v, Started(v, lim)) EXCEPT
        !.queue = SubSeq(v.queue, Taken(v, lim) + 1, Len(v.queue)),
        !.tasks = v.tasks \ Dropped(v, lim)]

InQueue(v, t) == \E i \in 1..Len(v.queue) : v.queue[i] = t

enqueueRemoteFileTransfer(v, t, lim) ==
    drainTransferQueue(
        [v EXCEPT !.tasks = v.tasks \cup {t},
                  !.queue = IF InQueue(v, t) \/ t \in v.running
                            THEN v.queue ELSE Append(v.queue, t)], lim)

(* A wrong variant: only the task is forgotten. *)
DropTask(v, t) == [v EXCEPT !.tasks = v.tasks \ {t}]

(* A transfer is in the queue once at most. *)
QueueWithout(v, t) ==
    IF ~InQueue(v, t) THEN v.queue
    ELSE LET i == CHOOSE j \in 1..Len(v.queue) : v.queue[j] = t
         IN  SubSeq(v.queue, 1, i - 1) \o SubSeq(v.queue, i + 1, Len(v.queue))

dropQueuedTransfer(v, t) ==
    [v EXCEPT !.queue = QueueWithout(v, t), !.tasks = v.tasks \ {t}]

(* A wrong variant: a task that is over keeps its slot. *)
TaskLeaksSlot(v, t, lim) ==
    drainTransferQueue([v EXCEPT !.at[t] = "idle", !.tasks = v.tasks \ {t}], lim)

(* The `finally' of a task. *)
TaskEnds(v, t, lim) ==
    drainTransferQueue(
        [v EXCEPT !.at[t] = "idle", !.running = v.running \ {t}, !.tasks = v.tasks \ {t}], lim)

-----------------------------------------------------------------------------
(* The user.                                                               *)

remote == <<token, answer, cancels, events>>

Act == acts < MaxActs /\ acts' = acts + 1 /\ UNCHANGED <<made, sent>>

(* uploadRemoteFile and the other entries, runLocalFileUpload and the other  *)
(* runs: a row, and its task in the queue.                                   *)
Make(t) ==
    /\ t = made + 1
    /\ made' = t
    /\ LET v == [w EXCEPT !.status = trimTransferHistory([w.status EXCEPT ![t] = "queued"])]
       IN  w' = enqueueRemoteFileTransfer(v, t, limit)
    /\ UNCHANGED <<limit, remote, acts, sent>>

(* The dialog that picks files failed: a row that says so. *)
showTransferPickerError(t) ==
    /\ t = made + 1 /\ t \notin Download
    /\ made' = t
    /\ w' = [w EXCEPT !.status = trimTransferHistory([w.status EXCEPT ![t] = "error"]),
                      !.bar[t] = "full"]
    /\ acts < MaxActs /\ acts' = acts + 1
    /\ UNCHANGED <<limit, remote, sent>>

(* The retry of a row that failed after its policy was known. *)
retryRemoteFileTransfer(t) ==
    /\ w.status[t] = "error" /\ w.retry[t]
    /\ Act
    /\ w' = enqueueRemoteFileTransfer(updateRemoteFileTransfer(w, t, "queued", "zero"), t, limit)
    /\ UNCHANGED <<limit, remote>>

requestCancelTransfer(t) ==
    /\ \/ /\ w.status[t] = "queued"
          /\ w' = markTransferCanceled(dropQueuedTransfer(w, t), t)
          /\ UNCHANGED cancels
       \/ /\ w.status[t] = "running"
          /\ w' = markTransferCanceled(w, t)
          /\ cancels' = cancels \cup {t}
    /\ Act
    /\ UNCHANGED <<limit, token, answer, events>>

removeTransfer(t) ==
    /\ w.status[t] \in Finished \cup {"error"}
    /\ Act
    /\ w' = [dropQueuedTransfer(w, t) EXCEPT !.status[t] = "none"]
    /\ UNCHANGED <<limit, remote>>

clearFinishedTransfers ==
    /\ \E t \in Transfer : w.status[t] \in Finished
    /\ Act
    /\ w' = [w EXCEPT !.status =
                [t \in Transfer |-> IF w.status[t] \in Finished THEN "none" ELSE w.status[t]]]
    /\ UNCHANGED <<limit, remote>>

(* A wrong variant: the question goes away and the task still waits. *)
SettleForgets(choice) ==
    /\ w.prompt # None
    /\ LET t == w.prompt
           v == [w EXCEPT !.prompt = None]
       IN  w' = IF choice = "cancel" THEN markTransferCanceled(v, t)
                ELSE IF isTransferNoLongerActive(v, t) THEN TaskEnds(v, t, limit)
                ELSE Proceed(v, t)
    /\ UNCHANGED <<limit, remote, counters>>

(* The user answers the question: a policy, or cancel. *)
settleTransferConflictPrompt(choice) ==
    /\ w.prompt # None
    /\ LET t == w.prompt
           v == [w EXCEPT !.prompt = None]
       IN  w' = IF choice = "cancel"
                THEN TaskEnds(markTransferCanceled(v, t), t, limit)
                ELSE IF isTransferNoLongerActive(v, t) THEN TaskEnds(v, t, limit)
                ELSE Proceed(v, t)
    /\ UNCHANGED <<limit, remote, counters>>

(* A wrong variant: the limit counts from zero. *)
ChangeLimitOff(n) ==
    /\ n # limit
    /\ limit' = n - 1
    /\ w' = drainTransferQueue(w, n)
    /\ Act
    /\ UNCHANGED remote

(* The setting changes; the queue is drained with the new limit. *)
ChangeLimit(n) ==
    /\ n # limit
    /\ limit' = n
    /\ w' = drainTransferQueue(w, n)
    /\ Act
    /\ UNCHANGED remote

-----------------------------------------------------------------------------
(* The tasks after an await.                                               *)

task == <<limit, token, cancels, events, counters>>

(* resolveUploadConflictPolicy, resolveDownloadConflictPolicy: nothing there *)
TargetIsFree(t) ==
    /\ w.at[t] = "check" /\ t \notin Conflicting
    /\ w' = IF isTransferNoLongerActive(w, t) THEN TaskEnds(w, t, limit) ELSE Proceed(w, t)
    /\ UNCHANGED <<task, answer>>

(* promptTransferConflictPolicy: the new question takes the place of the one *)
(* that is shown.                                                            *)
TargetExists(t) ==
    /\ w.at[t] = "check" /\ t \in Conflicting
    /\ w' = [w EXCEPT !.prompt = t, !.at[t] = "ask"]
    /\ UNCHANGED <<task, answer>>

(* The check of the target, or the copy of the file, failed. *)
LocalFails(t) ==
    /\ w.at[t] \in {"check", "stage"}
    /\ w' = TaskEnds(failTransfer(w, t), t, limit)
    /\ UNCHANGED <<task, answer>>

(* The progress of the copy of a staged upload, and the pulse that goes with *)
(* an archive of staged files: both show the transfer as running.            *)
StageProgress(t) ==
    /\ w.at[t] = "stage" \/ (t \in Staged \cap Archived /\ w.at[t] \in InBackend)
    /\ w' = setTransferProgress(w, t)
    /\ UNCHANGED <<task, answer>>

StageDone(t) ==
    /\ w.at[t] = "stage"
    /\ w' = [setTransferProgress(w, t) EXCEPT !.at[t] = "sent"]
    /\ UNCHANGED <<task, answer>>

(* The command's answer arrives. *)
Answer(t) ==
    /\ w.at[t] = "done"
    /\ answer' = [answer EXCEPT ![t] = None]
    /\ w' = TaskEnds(
                CASE answer[t] \in {"success", "skipped"} -> finishTransfer(w, t, answer[t])
                  [] answer[t] = "failed" -> failTransfer(w, t)
                  [] answer[t] = "canceled" ->
                        IF w.status[t] = "canceled" THEN w ELSE markTransferCanceled(w, t),
                t, limit)
    /\ UNCHANGED task

-----------------------------------------------------------------------------
(* Progress events.                                                        *)

(* A wrong variant: an upload is complete when all its bytes are sent. *)
BarOfEvent(v, t, loaded) == IF v.status[t] = "running" THEN loaded ELSE v.bar[t]

(* What an event makes of the bar: rows that do not run are left alone, and  *)
(* an upload waits at 99% for the remote end.                                *)
progressOfEvent(v, t, loaded) ==
    IF v.status[t] # "running" THEN v.bar[t]
    ELSE IF t \notin Download /\ loaded = "full" THEN "part" ELSE loaded

(* The timer of queueRemoteTransferProgress. *)
applyRemoteTransferProgressEvents ==
    /\ \E t \in Transfer : events[t] # None
    /\ w' = [w EXCEPT !.bar = [t \in Transfer |->
                IF events[t] = None THEN w.bar[t] ELSE progressOfEvent(w, t, events[t])]]
    /\ events' = [t \in Transfer |-> None]
    /\ UNCHANGED <<limit, token, answer, cancels, counters>>

-----------------------------------------------------------------------------
(* The backend.                                                            *)

window == <<w, limit, counters>>

(* register_transfer *)
Register(t) ==
    /\ w.at[t] = "sent"
    /\ w' = [w EXCEPT !.at[t] = "remote"]
    /\ token' = [token EXCEPT ![t] = IF t \in Archived THEN "none" ELSE "live"]
    /\ UNCHANGED <<limit, answer, cancels, events, counters>>

(* cancel_transfer: a transfer that is not registered is not cancelled. *)
CancelArrives(t) ==
    /\ t \in cancels
    /\ cancels' = cancels \ {t}
    /\ token' = [token EXCEPT ![t] = IF @ = "live" THEN "canceled" ELSE @]
    /\ UNCHANGED <<window, answer, events>>

RemoteProgress(t, loaded) ==
    /\ w.at[t] = "remote"
    /\ sent < MaxProgress
    /\ sent' = sent + 1
    /\ events' = [events EXCEPT ![t] = loaded]
    /\ UNCHANGED <<w, limit, token, answer, cancels, made, acts>>

(* The command ends; a cancelled transfer is noticed at the next chunk, or   *)
(* not if it was the last.  A failure may come before the registration.      *)
RemoteEnds(t, result) ==
    /\ \/ w.at[t] = "remote" /\ (result = "canceled" => token[t] = "canceled")
       \/ w.at[t] = "sent" /\ result = "failed"
    /\ w' = [w EXCEPT !.at[t] = "done"]
    /\ answer' = [answer EXCEPT ![t] = result]
    /\ token' = [token EXCEPT ![t] = "none"]
    /\ UNCHANGED <<limit, cancels, events, counters>>

-----------------------------------------------------------------------------

UserActs ==
    \/ \E t \in Transfer :
         \/ Make(t) \/ showTransferPickerError(t)
         \/ retryRemoteFileTransfer(t) \/ requestCancelTransfer(t) \/ removeTransfer(t)
    \/ clearFinishedTransfers
    \/ \E n \in Limits : ChangeLimit(n)

UserAnswers == \E c \in {"policy", "cancel"} : settleTransferConflictPrompt(c)

TaskGoesOn(t) ==
    \/ TargetIsFree(t) \/ TargetExists(t) \/ LocalFails(t)
    \/ StageDone(t) \/ Answer(t)

BackendGoesOn(t) == Register(t) \/ \E r \in Answers : RemoteEnds(t, r)

Next ==
    \/ UserActs \/ UserAnswers \/ applyRemoteTransferProgressEvents
    \/ \E t \in Transfer :
         \/ TaskGoesOn(t) \/ StageProgress(t) \/ BackendGoesOn(t) \/ CancelArrives(t)
         \/ \E loaded \in {"part", "full"} : RemoteProgress(t, loaded)

Spec == Init /\ [][Next]_vars

(* Commands and reads end, and the user answers the question on the screen,  *)
(* which is modal.  No user has to start, cancel or retry anything.          *)
FairSpec ==
    /\ Spec
    /\ WF_vars(UserAnswers)
    /\ WF_vars(\E t \in Transfer : TaskGoesOn(t) \/ BackendGoesOn(t))

-----------------------------------------------------------------------------
(* Properties.                                                             *)

Occurrences(t) == Cardinality({i \in 1..Len(w.queue) : w.queue[i] = t})

(* A row that says "queued" is in the queue of the controller, once and with *)
(* its task, and no other transfer is: a row whose entry was dropped, or     *)
(* whose task was overwritten while an older one ran, would wait for ever.   *)
QueueMatchesRows ==
    \A t \in Transfer :
        /\ Occurrences(t) = IF w.status[t] = "queued" THEN 1 ELSE 0
        /\ w.status[t] = "queued" => t \in w.tasks /\ w.at[t] = "idle"

UnderWay == {t \in Transfer : w.at[t] # "idle"}

(* Nothing waits while fewer tasks than the limit are under way: each end of *)
(* a task, each change of the setting and each new transfer starts all that  *)
(* can start, and a task that is over keeps no slot, whatever happened to    *)
(* its row meanwhile: cancelled, cleared away, failed.                       *)
NoIdleSlot == w.queue = <<>> \/ Cardinality(UnderWay) >= limit

(* The setting bounds what is started: a task starts only within the limit   *)
(* of that moment, counting those whose rows are settled but that still run,  *)
(* also when the limit has just been lowered.                                *)
StartsWithinLimit ==
    [][UnderWay' \subseteq UnderWay \/ Cardinality(UnderWay') <= limit']_vars

(* An upload that still runs is never shown as complete: the remote end      *)
(* confirms it by renaming its part file after the last byte.                *)
CompleteMeansConfirmed ==
    \A t \in Transfer \ Download : w.status[t] = "running" => w.bar[t] # "full"

(* Late events and late answers do not touch a row that is settled: one that *)
(* was cancelled stays so although its command may succeed, a finished one   *)
(* shows what it showed, a failed one changes by a retry only.  Uploads of   *)
(* staged files are not promised this: their progress callbacks show the row *)
(* as running again.                                                         *)
SettledRowsStay ==
    [][\A t \in Transfer \ Staged :
          w.status[t] \in Finished \cup {"error"} =>
             \/ w'.status[t] = "none"
             \/ w'.status[t] = w.status[t] /\ w'.bar[t] = w.bar[t]
             \/ w.status[t] = "error" /\ w'.status[t] \in {"queued", "running"}
                   /\ acts' = acts + 1]_vars

Waiting(t) == w.status[t] = "queued" \/ w.at[t] # "idle"

(* The queue comes to rest: when commands end and the user answers what is   *)
(* asked, every transfer ends and gives its slot back.                       *)
TransfersEnd == (\E t \in Transfer : Waiting(t)) ~> (\A t \in Transfer : ~Waiting(t))

(* A transfer that waits for the user's choice gets it: the contract of the  *)
(* window promises the question for every target that exists.                *)
ConflictsAreAsked == \A t \in Transfer : w.at[t] = "ask" ~> w.at[t] # "ask"
=============================================================================
