------------------------- MODULE ConnectionTransfer -------------------------
(***************************************************************************)
(* The import of a connection bundle (connection_transfer.rs), the journal *)
(* that makes it atomic over two stores (connection_transfer_recovery.rs)  *)
(* and the vault it writes (storage_vault.rs).                             *)
(*                                                                         *)
(* The rows of an import go into one SQLite transaction, which also writes *)
(* the import's transaction id under connection_transfer_last_commit.  The *)
(* secrets go into the vault, one encrypted file rewritten by every write, *)
(* BEFORE the transaction commits.  A journal and a copy of the vault are  *)
(* on disk meanwhile: the next unlock puts the copy back unless the id in  *)
(* the journal is the one in the database.                                 *)
(*                                                                         *)
(* Every file operation is a step, so that a crash or another thread may   *)
(* come between any two.  A file replaced by rename (the vault, the        *)
(* journal) changes in one step; a file written by fs::copy may be left    *)
(* Torn.  SQLite's transaction is atomic and its rows are invisible until  *)
(* the commit: `db' is the id the database holds.                          *)
(***************************************************************************)
EXTENDS Naturals

CONSTANTS
    ProfileSlots,       \* slots of connections and credentials: what a bundle holds
    AppSlots,           \* slots of the AI providers and of WebDAV: never in a bundle
    Tx,                 \* transaction ids, one for each import
    PriorTx,            \* the import that was committed last, None if there was none
    UserVal,            \* secrets users save
    Unlockers,          \* processes that unlock the vault
    App,                \* the one of them that is the application
    StoreId,            \* the vault stores in memory (Arc<VaultSecretStore>)
    None,               \* no file, no journal, no store, no import, no secret
    Torn,               \* a file whose copy was cut short
    Overlapping,        \* the unlockers that wait for nobody, as nothing in the code
                        \* does; that the others wait for a locked vault is what the
                        \* window does, for the end of the import an assumption
    MaxFaults,          \* bound on the I/O and SQLite errors of a behaviour
    MaxCrashes          \* bound on the crashes of the application

Slots == ProfileSlots \cup AppSlots
Val == Tx \cup UserVal \cup {None}
Secrets == [Slots -> Val]
Journal == [tx : Tx, existed : BOOLEAN]

ASSUME ConstantsAssumption ==
    /\ ProfileSlots \cap AppSlots = {}
    /\ None \notin Tx \cup UserVal \cup StoreId
    /\ Tx \cap UserVal = {}
    /\ PriorTx \in Tx \cup {None}
    /\ None \notin Secrets \cup Journal /\ Torn \notin Secrets
    /\ Torn # None
    /\ App \in Unlockers
    /\ Overlapping \subseteq Unlockers
    /\ MaxFaults \in Nat /\ MaxCrashes \in Nat

VARIABLES
    (* files *)
    vault,      \* secrets.enc
    backup,     \* .connection-transfer-secrets.enc.bak
    journal,    \* .connection-transfer-pending.json
    db,         \* app_settings[connection_transfer_last_commit], with the rows it came with
    (* the application's memory *)
    stores,     \* the plaintext of each store
    cur,        \* the store VaultState holds, None when locked
    (* the running import *)
    pc,         \* the step it is at
    tx,         \* its transaction id
    ist,        \* the store its repository was opened with
    active,     \* the slots of the profiles it does not skip
    done,       \* the slots it wrote: the keys of secret_backups
    prev,       \* their values before, secret_backups
    (* the running unlocks *)
    upc,        \* the step each is at
    uj,         \* the journal each has read
    (* bookkeeping of the model *)
    used,       \* transaction ids handed out
    loose,      \* values of a save that failed or was made during an undecided import
    faults, crashes

disk == <<vault, backup, journal, db>>
memory == <<stores, cur>>
import == <<pc, tx, ist, active, done, prev>>
unlocks == <<upc, uj>>
counters == <<faults, crashes>>
vars == <<disk, memory, import, unlocks, used, loose, counters>>

ImportSteps ==
    {"idle", "begin", "journal", "rows", "secrets", "compensate", "rmJournal", "rmBackup"}
UnlockSteps ==
    {"idle", "readJournal", "readKey", "restore", "rmJournal", "rmBackup", "open"}

Empty == [s \in Slots |-> None]
Settled == [s \in Slots |-> {}]

TypeOK ==
    /\ vault \in Secrets \cup {None, Torn}
    /\ backup \in Secrets \cup {None, Torn}
    /\ journal \in Journal \cup {None}
    /\ db \in Tx \cup {None}
    /\ stores \in [StoreId -> Secrets]
    /\ cur \in StoreId \cup {None}
    /\ pc \in ImportSteps
    /\ tx \in Tx \cup {None}
    /\ ist \in StoreId \cup {None}
    /\ active \in SUBSET ProfileSlots
    /\ done \in SUBSET ProfileSlots
    /\ prev \in Secrets
    /\ upc \in [Unlockers -> UnlockSteps]
    /\ uj \in [Unlockers -> Journal \cup {None}]
    /\ used \in SUBSET Tx
    /\ loose \in [Slots -> SUBSET Val]
    /\ faults \in 0..MaxFaults
    /\ crashes \in 0..MaxCrashes

Init ==
    /\ vault = None /\ backup = None /\ journal = None /\ db = PriorTx
    /\ stores = [i \in StoreId |-> Empty] /\ cur = None
    /\ pc = "idle" /\ tx = None /\ ist = None
    /\ active = {} /\ done = {} /\ prev = Empty
    /\ upc = [u \in Unlockers |-> "idle"] /\ uj = [u \in Unlockers |-> None]
    /\ used = {PriorTx} \ {None} /\ loose = Settled
    /\ faults = 0 /\ crashes = 0

-----------------------------------------------------------------------------
(* What the files say. *)

(* A journal whose import the database does not know: recovery restores. *)
Uncommitted == journal # None /\ db # journal.tx

(* The vault was copied: what is saved now is not in the copy. *)
Undecided == Uncommitted \/ pc = "journal"

(* The vault that recovery would leave if the application stopped here. *)
Durable ==
    LET file == IF Uncommitted /\ journal.existed THEN backup
                ELSE IF Uncommitted THEN None
                ELSE vault
    IN  IF file = None THEN Empty ELSE file

Fault ==
    /\ faults < MaxFaults
    /\ faults' = faults + 1
    /\ UNCHANGED crashes

ImportEnds ==
    /\ pc' = "idle" /\ tx' = None /\ ist' = None
    /\ active' = {} /\ done' = {} /\ prev' = Empty

ImportGoesTo(step) ==
    /\ pc' = step
    /\ UNCHANGED <<tx, ist, active, done, prev>>

(* restore_vault_backup_with_state, when the copy goes through. *)
CanRestore(j) == j.existed => backup # None
RestoredVault(j) == IF j.existed THEN backup ELSE None
-----------------------------------------------------------------------------
(* Saves: connection_upsert, credential_upsert and the settings of the AI  *)
(* providers and of WebDAV end in set_secret or delete_secret, which change *)
(* the plaintext, then rewrite the file, under the store's mutex.  The      *)
(* import holds the connection and credential store locks.                  *)

LeftOpen(s, v) == [loose EXCEPT ![s] = @ \cup {v, Durable[s]}]

MaySave(s) ==
    /\ cur # None
    /\ s \in ProfileSlots => pc = "idle"

SaveSecret(s, v) ==
    /\ MaySave(s)
    /\ stores' = [stores EXCEPT ![cur][s] = v]
    /\ vault' = stores'[cur]
    /\ loose' = IF Undecided THEN LeftOpen(s, v) ELSE Settled
    /\ UNCHANGED <<backup, journal, db, cur, import, unlocks, used, counters>>

SaveFails(s, v) ==
    /\ MaySave(s)
    /\ Fault
    /\ stores' = [stores EXCEPT ![cur][s] = v]
    /\ loose' = LeftOpen(s, v)
    /\ UNCHANGED <<disk, cur, import, unlocks, used>>

-----------------------------------------------------------------------------
(* The import.  What precedes its first write (the file, the fingerprint,  *)
(* the decryption, the validation, the copy of the database under          *)
(* backups/) changes nothing here; an import that fails there is no step.  *)

ImportStart(A) ==
    /\ pc = "idle" /\ cur # None
    /\ journal = None => used # Tx      \* Tx bounds the imports that go on
    /\ pc' = "begin" /\ ist' = cur /\ active' = A
    /\ UNCHANGED <<tx, done, prev, disk, memory, unlocks, used, loose, counters>>

BeginRefused ==
    /\ pc = "begin" /\ journal # None
    /\ ImportEnds
    /\ UNCHANGED <<disk, memory, unlocks, used, loose, counters>>

BeginCopiesVault ==
    /\ pc = "begin" /\ journal = None
    /\ backup' = IF vault = None THEN backup ELSE vault
    /\ ImportGoesTo("journal")
    /\ UNCHANGED <<vault, journal, db, memory, unlocks, used, loose, counters>>

BeginCopyFails ==
    /\ pc = "begin" /\ journal = None /\ vault # None
    /\ Fault
    /\ backup' \in {backup, Torn}
    /\ ImportEnds
    /\ UNCHANGED <<vault, journal, db, memory, unlocks, used, loose>>

(* A wrong variant: the journal is written before the id is drawn. *)
JournalBeforeId(t) ==
    /\ pc = "journal"
    /\ t \notin used /\ used' = used \cup {t}
    /\ journal' = [tx |-> tx, existed |-> vault # None]
    /\ pc' = "rows" /\ tx' = t
    /\ UNCHANGED <<ist, active, done, prev, vault, backup, db, memory, unlocks, loose, counters>>

BeginWritesJournal(t) ==
    /\ pc = "journal"
    /\ t \notin used /\ used' = used \cup {t}
    /\ journal' = [tx |-> t, existed |-> vault # None]
    /\ pc' = "rows" /\ tx' = t
    /\ UNCHANGED <<ist, active, done, prev, vault, backup, db, memory, unlocks, loose, counters>>

BeginJournalFails ==
    /\ pc = "journal"
    /\ Fault
    /\ backup' = None
    /\ ImportEnds
    /\ UNCHANGED <<vault, journal, db, memory, unlocks, used, loose>>

(* A query of the existing rows or BEGIN IMMEDIATE fails: `?' returns and  *)
(* leaves the journal behind.                                              *)
PrepareFails ==
    /\ pc = "rows"
    /\ Fault
    /\ ImportEnds
    /\ UNCHANGED <<disk, memory, unlocks, used, loose>>

WriteRows ==
    /\ pc = "rows"
    /\ ImportGoesTo("secrets")
    /\ UNCHANGED <<disk, memory, unlocks, used, loose, counters>>

WriteRowsFails ==
    /\ pc = "rows"
    /\ Fault
    /\ ImportGoesTo("compensate")
    /\ UNCHANGED <<disk, memory, unlocks, used, loose>>

(* secret_get, the push onto secret_backups and the change of the plaintext *)
(* come before the write that may fail.                                     *)
PutSecret(s) ==
    /\ pc = "secrets" /\ s \in active \ done
    /\ done' = done \cup {s}
    /\ prev' = [prev EXCEPT ![s] = stores[ist][s]]
    /\ stores' = [stores EXCEPT ![ist][s] = tx]
    /\ UNCHANGED <<tx, ist, active, backup, journal, db, cur, unlocks, used, loose>>

WriteSecret(s) ==
    /\ PutSecret(s)
    /\ vault' = stores'[ist]
    /\ UNCHANGED <<pc, counters>>

WriteSecretFails(s) ==
    /\ PutSecret(s)
    /\ Fault
    /\ pc' = "compensate"
    /\ UNCHANGED vault

(* A wrong variant: the rows are committed before the secrets are written. *)
CommitBeforeSecrets ==
    /\ pc = "secrets"
    /\ db' = tx
    /\ loose' = [s \in Slots |-> IF s \in active THEN {} ELSE loose[s]]
    /\ ImportGoesTo("rmJournal")
    /\ UNCHANGED <<vault, backup, journal, memory, unlocks, used, counters>>

Commit ==
    /\ pc = "secrets" /\ done = active
    /\ db' = tx
    /\ loose' = [s \in Slots |-> IF s \in active THEN {} ELSE loose[s]]
    /\ ImportGoesTo("rmJournal")
    /\ UNCHANGED <<vault, backup, journal, memory, unlocks, used, counters>>

CommitFails ==
    /\ pc = "secrets" /\ done = active
    /\ Fault
    /\ ImportGoesTo("compensate")
    /\ UNCHANGED <<disk, memory, unlocks, used, loose>>

(* restore_secret_backups, after the ROLLBACK. *)
UndoSecret(s) ==
    /\ pc = "compensate" /\ s \in done
    /\ stores' = [stores EXCEPT ![ist][s] = prev[s]]
    /\ UNCHANGED <<backup, journal, db, cur, unlocks, used, loose>>

(* A wrong variant: the copy will do, the plaintext keeps the import's. *)
LeaveToTheCopy(s) ==
    /\ pc = "compensate" /\ s \in done
    /\ done' = done \ {s}
    /\ UNCHANGED <<pc, tx, ist, active, prev, disk, memory, unlocks, used, loose, counters>>

Compensate(s) ==
    /\ UndoSecret(s)
    /\ vault' = stores'[ist]
    /\ done' = done \ {s}
    /\ UNCHANGED <<pc, tx, ist, active, prev, counters>>

CompensateFails(s) ==
    /\ UndoSecret(s)
    /\ Fault
    /\ ImportEnds
    /\ UNCHANGED vault

(* ConnectionTransferRecovery::abort, when every secret is back. *)
AbortRestores ==
    /\ pc = "compensate" /\ done = {}
    /\ journal # None /\ CanRestore(journal)
    /\ vault' = RestoredVault(journal)
    /\ ImportGoesTo("rmJournal")
    /\ UNCHANGED <<backup, journal, db, memory, unlocks, used, loose, counters>>

(* The copy fails, or an unlock has taken the journal or the backup away. *)
AbortRestoreFails ==
    /\ pc = "compensate" /\ done = {}
    /\ IF journal # None /\ CanRestore(journal)
       THEN Fault /\ vault' \in {vault, Torn}
       ELSE UNCHANGED <<vault, counters>>
    /\ ImportEnds
    /\ UNCHANGED <<backup, journal, db, memory, unlocks, used, loose>>

(* cleanup_recovery_files, the end of commit and of abort. *)
(* A wrong variant: the copy is removed before the journal. *)
BackupBeforeJournal ==
    /\ pc = "rmJournal"
    /\ backup' = None
    /\ ImportGoesTo("rmBackup")
    /\ UNCHANGED <<vault, journal, db, memory, unlocks, used, loose, counters>>

RemoveJournal ==
    /\ pc = "rmJournal"
    /\ journal' = None
    /\ ImportGoesTo("rmBackup")
    /\ UNCHANGED <<vault, backup, db, memory, unlocks, used, loose, counters>>

RemoveBackup ==
    /\ pc = "rmBackup"
    /\ backup' = None
    /\ ImportEnds
    /\ UNCHANGED <<vault, journal, db, memory, unlocks, used, loose, counters>>

RemoveFails ==
    /\ pc \in {"rmJournal", "rmBackup"}
    /\ Fault
    /\ ImportEnds
    /\ UNCHANGED <<disk, memory, unlocks, used, loose>>

Import ==
    \/ BeginRefused \/ BeginCopiesVault \/ BeginCopyFails
    \/ (\E t \in Tx : BeginWritesJournal(t)) \/ BeginJournalFails
    \/ PrepareFails \/ WriteRows \/ WriteRowsFails
    \/ \E s \in ProfileSlots :
          WriteSecret(s) \/ WriteSecretFails(s) \/ Compensate(s) \/ CompensateFails(s)
    \/ Commit \/ CommitFails
    \/ AbortRestores \/ AbortRestoreFails
    \/ RemoveJournal \/ RemoveBackup \/ RemoveFails

-----------------------------------------------------------------------------
(* VaultState::unlock: recover_pending_connection_transfer, then open.      *)
(* The window unlocks only a locked vault, and a locked vault has no saves. *)
(* Nothing, in the window or the backend, waits for an import: an unlock may *)
(* overlap one (auto-lock, then the password; the MCP sidecar's own unlock).  *)
(* That one does not is an assumption about the unlockers not in Overlapping.  *)

UnlockGoesTo(u, step) ==
    /\ upc' = [upc EXCEPT ![u] = step]
    /\ uj' = [uj EXCEPT ![u] = IF step \in {"open", "idle"} THEN None ELSE @]

MayUnlock(u) ==
    u \in Overlapping \/ (u = App /\ cur = None /\ pc = "idle")

UnlockStart(u) ==
    /\ upc[u] = "idle" /\ MayUnlock(u)
    /\ UnlockGoesTo(u, "readJournal")
    /\ UNCHANGED <<disk, memory, import, used, loose, counters>>

ReadJournal(u) ==
    /\ upc[u] = "readJournal"
    /\ uj' = [uj EXCEPT ![u] = journal]
    /\ upc' = [upc EXCEPT ![u] = IF journal = None THEN "open" ELSE "readKey"]
    /\ UNCHANGED <<disk, memory, import, used, loose, counters>>

ReadCommittedTransaction(u) ==
    /\ upc[u] = "readKey"
    /\ UnlockGoesTo(u, IF db = uj[u].tx THEN "rmJournal" ELSE "restore")
    /\ UNCHANGED <<disk, memory, import, used, loose, counters>>

(* A wrong variant: the copy is moved, and gone if the journal then stays. *)
MoveBackup(u) ==
    /\ upc[u] = "restore" /\ CanRestore(uj[u])
    /\ vault' = RestoredVault(uj[u])
    /\ backup' = None
    /\ UnlockGoesTo(u, "rmJournal")
    /\ UNCHANGED <<journal, db, memory, import, used, loose, counters>>

RecoverRestores(u) ==
    /\ upc[u] = "restore" /\ CanRestore(uj[u])
    /\ vault' = RestoredVault(uj[u])
    /\ UnlockGoesTo(u, "rmJournal")
    /\ UNCHANGED <<backup, journal, db, memory, import, used, loose, counters>>

RecoverRemovesJournal(u) ==
    /\ upc[u] = "rmJournal"
    /\ journal' = None
    /\ UnlockGoesTo(u, "rmBackup")
    /\ UNCHANGED <<vault, backup, db, memory, import, used, loose, counters>>

RecoverRemovesBackup(u) ==
    /\ upc[u] = "rmBackup"
    /\ backup' = None
    /\ UnlockGoesTo(u, "open")
    /\ UNCHANGED <<vault, journal, db, memory, import, used, loose, counters>>

(* VaultSecretStore::open reads the file or creates an empty one.  Only the *)
(* application's store is written to: the sidecar reads its own.            *)
OpenVault(u) ==
    /\ upc[u] = "open" /\ vault # Torn
    /\ vault' = IF vault = None THEN Empty ELSE vault
    /\ IF u = App
       THEN \E i \in StoreId \ {cur, ist} :
               /\ stores' = [stores EXCEPT ![i] = vault']
               /\ cur' = i
               /\ loose' = Settled
       ELSE UNCHANGED <<memory, loose>>
    /\ UnlockGoesTo(u, "idle")
    /\ UNCHANGED <<backup, journal, db, import, used, counters>>

(* A read, a copy, a removal or the decryption fails, the backup is missing *)
(* or the vault unreadable.                                                 *)
UnlockFails(u) ==
    /\ upc[u] # "idle"
    /\ IF \/ upc[u] = "restore" /\ ~ CanRestore(uj[u])
          \/ upc[u] = "open" /\ vault = Torn
       THEN UNCHANGED counters
       ELSE Fault
    /\ vault' \in IF upc[u] = "restore" THEN {vault, Torn} ELSE {vault}
    /\ UnlockGoesTo(u, "idle")
    /\ UNCHANGED <<backup, journal, db, memory, import, used, loose>>

Unlock(u) ==
    \/ ReadJournal(u) \/ ReadCommittedTransaction(u)
    \/ RecoverRestores(u) \/ RecoverRemovesJournal(u) \/ RecoverRemovesBackup(u)
    \/ OpenVault(u) \/ UnlockFails(u)

(* VaultState::lock forgets the store; a running import keeps its own. *)
Lock ==
    /\ cur # None
    /\ cur' = None
    /\ UNCHANGED <<disk, stores, import, unlocks, used, loose, counters>>

(* The application stops: its transaction rolls back, its memory is gone,   *)
(* a copy it was making is cut short.                                       *)
Crash ==
    /\ crashes < MaxCrashes
    /\ crashes' = crashes + 1
    /\ backup' \in IF pc = "begin" /\ journal = None THEN {backup, Torn} ELSE {backup}
    /\ vault' \in IF (pc = "compensate" /\ done = {}) \/ upc[App] = "restore"
                  THEN {vault, Torn} ELSE {vault}
    /\ stores' = [i \in StoreId |-> Empty] /\ cur' = None
    /\ ImportEnds
    /\ upc' = [upc EXCEPT ![App] = "idle"] /\ uj' = [uj EXCEPT ![App] = None]
    /\ UNCHANGED <<journal, db, used, loose, faults>>

Next ==
    \/ \E s \in Slots, v \in UserVal \cup {None} : SaveSecret(s, v) \/ SaveFails(s, v)
    \/ \E A \in SUBSET ProfileSlots : ImportStart(A)
    \/ Import
    \/ \E u \in Unlockers : UnlockStart(u) \/ Unlock(u)
    \/ Lock
    \/ Crash

(* Threads run; the window unlocks a locked vault at start-up and keeps the *)
(* user behind the unlock dialog until it is open.                          *)
Fairness ==
    /\ WF_vars(Import)
    /\ WF_vars(UnlockStart(App))
    /\ WF_vars(Unlock(App))

Spec == Init /\ [][Next]_vars
FairSpec == Spec /\ Fairness

-----------------------------------------------------------------------------
(* Properties. *)

(* Between any two file operations the files hold a whole vault: the copy   *)
(* while an import is undecided, the vault itself otherwise, and a vault    *)
(* that was opened is never missing again.  A crash of                      *)
(* ConnectionTransferRecovery's begin, commit, abort or recovery at any     *)
(* point leaves something to recover from.                                  *)
Recoverable ==
    /\ Uncommitted => journal.existed /\ backup \in Secrets
    /\ vault = Torn => Uncommitted
    /\ cur # None => Durable \in Secrets

(* Once no import is undecided, the store in memory (VaultState) and the    *)
(* file agree on every slot, but for saves that were reported as failed or  *)
(* made during an import: a failed import leaves none of its secrets behind *)
(* in the plaintext, where the next save would write them.                  *)
MemoryAgrees ==
    cur # None /\ ~ Uncommitted /\ pc = "idle" =>
        \A s \in Slots : stores[cur][s] = vault[s] \/ stores[cur][s] \in loose[s]

(* The import with its journal does what AtomicStore promises: see there.   *)
Promise == INSTANCE AtomicStore WITH secrets <- Durable
ImplementsAtomicStore == Promise!Spec

(* A locked application with a journal on disk gets rid of it: recovery     *)
(* never runs into a state it cannot leave.                                 *)
JournalIsSettled ==
    (cur = None /\ journal # None) ~> journal = None

(* The commit finds every secret of the import in the vault file.           *)
(* docs/spec/backend/tauri-command-contracts.md: "a committed ID keeps the  *)
(* new vault".                                                              *)
CommitFindsSecrets ==
    [][db' # db => vault \in Secrets /\ \A s \in active : vault[s] = db']_vars

(* Nothing but a save or the store it was saved in changes a secret that no *)
(* bundle holds: undoing an import undoes the import's writes.              *)
(* docs/spec/backend/tauri-command-contracts.md: "compensates every vault   *)
(* write on ordinary failure".                                              *)
UnrelatedSecretsKept ==
    [][\A s \in AppSlots :
         vault \in Secrets /\ vault' \in Secrets /\ vault'[s] # vault[s] =>
            \E i \in StoreId : stores'[i] = vault']_vars
=============================================================================
