----------------------- MODULE ConnectionTransfer_proofs -----------------------
(***************************************************************************)
(* Proofs about ConnectionTransfer when every unlock waits for a locked    *)
(* vault and for the end of the import (Alone): its type invariant, that   *)
(* every crash leaves something to recover from, that memory and file      *)
(* agree, and that it implements AtomicStore.                              *)
(***************************************************************************)
EXTENDS ConnectionTransfer, TLAPS

Alone == Overlapping = {}

-----------------------------------------------------------------------------
(* The inductive invariant. *)

(* f and g hold the same secret, or both hold one that a save left open.    *)
(* For a given `loose' this is an equivalence, and it survives its growth.  *)
Agree(f, g, s) == f[s] = g[s] \/ (f[s] \in loose[s] /\ g[s] \in loose[s])

(* Who runs when, and what its local state says of the files. *)
Sequencing ==
    /\ \A u \in Unlockers \ {App} : upc[u] = "idle"
    /\ upc[App] # "idle" => cur = None /\ pc = "idle"
    /\ pc = "idle" => ist = None /\ done = {} /\ active = {}
    /\ pc # "idle" => ist # None /\ cur \in {ist, None} /\ vault # None
    /\ pc \in {"begin", "journal", "rows"} => done = {}
    /\ done \subseteq active

Files ==
    /\ db \in used \cup {None}
    /\ journal # None => journal.tx \in used /\ journal.existed /\ vault # None
    /\ cur # None => vault # None
    /\ Uncommitted => backup \in Secrets
    /\ vault = Torn => Uncommitted /\ pc \in {"idle", "begin"}
    /\ pc \in {"rows", "secrets", "compensate"} => Uncommitted
    /\ pc \in {"rows", "secrets", "compensate", "rmJournal"} =>
          journal # None /\ journal.tx = tx
    /\ pc = "journal" => journal = None /\ backup \in Secrets
    /\ pc = "rmBackup" => journal = None

Recovering ==
    /\ upc[App] \in {"readKey", "restore", "rmJournal"} =>
          journal # None /\ uj[App] = journal
    /\ upc[App] = "restore" => Uncommitted
    /\ upc[App] = "rmJournal" /\ Uncommitted => vault = backup
    /\ upc[App] \in {"rmBackup", "open"} => journal = None

(* Memory, vault and copy agree but for what the import has written. *)
Contents ==
    \A s \in Slots :
        /\ ~ Uncommitted /\ cur # None => Agree(stores[cur], vault, s)
        /\ ~ Uncommitted /\ pc # "idle" => Agree(stores[ist], vault, s)
        /\ pc = "journal" => Agree(backup, vault, s)
        /\ pc = "rows" \/ (pc = "rmJournal" /\ Uncommitted) =>
              Agree(vault, backup, s) /\ Agree(stores[ist], backup, s)
        /\ pc = "secrets" =>
              IF s \in done
              THEN vault[s] = tx /\ stores[ist][s] = tx /\ Agree(prev, backup, s)
              ELSE Agree(vault, backup, s) /\ Agree(stores[ist], backup, s)
        /\ pc = "compensate" =>
              IF s \in done
              THEN Agree(prev, backup, s)
              ELSE Agree(stores[ist], backup, s)

IInv == TypeOK /\ Sequencing /\ Files /\ Recovering /\ Contents

(* set_secret and delete_secret change one slot of one store. *)
LEMMA PutInStore ==
    ASSUME TypeOK, NEW i \in StoreId, NEW s \in Slots, NEW v \in Val,
           stores' = [stores EXCEPT ![i][s] = v]
    PROVE  /\ stores' \in [StoreId -> Secrets]
           /\ stores'[i] \in Secrets /\ stores'[i][s] = v
           /\ \A r \in Slots \ {s} : stores'[i][r] = stores[i][r]
  BY DEF TypeOK, Secrets

(* The vault that a first unlock creates. *)
LEMMA EmptyIsSecrets == Empty \in Secrets
  BY DEF Empty, Secrets, Val

(* A failing step stays within its bound, any other leaves the count. *)
LEMMA FaultCounts ==
    ASSUME TypeOK, Fault \/ UNCHANGED counters
    PROVE  faults' \in 0..MaxFaults /\ crashes' \in 0..MaxCrashes
  BY ConstantsAssumption DEF TypeOK, Fault, counters

(* There is always a whole vault, possibly empty, to go on from. *)
LEMMA DurableIsWhole ==
    ASSUME IInv
    PROVE  Durable \in Secrets
  BY ConstantsAssumption
  DEF IInv, TypeOK, Files, Durable, Uncommitted, Secrets, Val, Empty

(* What a failed or an undecided save leaves open is a set of values. *)
LEMMA LeftOpenType ==
    ASSUME IInv, NEW s \in Slots, NEW v \in Val
    PROVE  LeftOpen(s, v) \in [Slots -> SUBSET Val]
  BY DurableIsWhole DEF IInv, TypeOK, LeftOpen, Secrets

(* A save rewrites the file from its store: both agree afterwards, or the  *)
(* slot is left open.                                                      *)
LEMMA SaveSecretKeeps ==
    ASSUME IInv, Alone, NEW s \in Slots, NEW v \in UserVal \cup {None}, SaveSecret(s, v)
    PROVE  IInv'
  <1>t. TypeOK
    BY DEF IInv
  <1>a. cur \in StoreId /\ s \in Slots /\ v \in Val
    BY ConstantsAssumption DEF IInv, TypeOK, Sequencing, SaveSecret, MaySave, LeftOpen, Undecided, import, unlocks, counters,
           Slots, Val, Secrets
  <1>b. stores' = [stores EXCEPT ![cur][s] = v]
    BY DEF SaveSecret, MaySave, LeftOpen, Undecided, import, unlocks, counters
  <1>c. /\ stores' \in [StoreId -> Secrets]
        /\ stores'[cur] \in Secrets /\ stores'[cur][s] = v
        /\ \A r \in Slots \ {s} : stores'[cur][r] = stores[cur][r]
    BY <1>t, <1>a, <1>b, PutInStore
  <1> USE ConstantsAssumption DEF IInv, TypeOK, Sequencing, Files, Recovering
  <1>d. loose' \in [Slots -> SUBSET Val]
    BY <1>a, LeftOpenType DEF SaveSecret, Settled
  <1>1. TypeOK'
    BY <1>c, <1>d DEF SaveSecret, import, unlocks, counters
  <1>2. Sequencing'
    BY <1>a, <1>c DEF SaveSecret, MaySave, LeftOpen, Undecided, import,
                      unlocks, counters, Uncommitted
  <1>3. Files'
    BY <1>a, <1>c DEF SaveSecret, MaySave, LeftOpen, Undecided, import,
                      unlocks, counters, Uncommitted, Journal
  <1>4. Recovering'
    BY <1>a, <1>c DEF SaveSecret, MaySave, LeftOpen, Undecided, import,
                      unlocks, counters, Uncommitted, Journal
  <1>5. Contents'
    BY <1>a, <1>c DEF SaveSecret, MaySave, LeftOpen, Undecided, import,
                      unlocks, counters, Agree, Uncommitted, Journal, Slots,
                      Secrets, Settled, Empty, Durable, Contents
  <1> QED  BY <1>1, <1>2, <1>3, <1>4, <1>5

(* A save that cannot write leaves its value in the plaintext (set_secret  *)
(* changes the map before persist_locked) and the slot open.               *)
LEMMA SaveFailsKeeps ==
    ASSUME IInv, Alone, NEW s \in Slots, NEW v \in UserVal \cup {None}, SaveFails(s, v)
    PROVE  IInv'
  <1>t. TypeOK
    BY DEF IInv
  <1>a. cur \in StoreId /\ s \in Slots /\ v \in Val
    BY ConstantsAssumption DEF IInv, TypeOK, Sequencing, SaveFails, MaySave, LeftOpen, Fault, disk, import, unlocks, Slots,
           Val, Secrets
  <1>b. stores' = [stores EXCEPT ![cur][s] = v]
    BY DEF SaveFails, MaySave, LeftOpen, Fault, disk, import, unlocks
  <1>c. /\ stores' \in [StoreId -> Secrets]
        /\ stores'[cur] \in Secrets /\ stores'[cur][s] = v
        /\ \A r \in Slots \ {s} : stores'[cur][r] = stores[cur][r]
    BY <1>t, <1>a, <1>b, PutInStore
  <1> USE ConstantsAssumption DEF IInv, TypeOK, Sequencing, Files, Recovering
  <1>f. faults' \in 0..MaxFaults /\ crashes' \in 0..MaxCrashes
    BY FaultCounts DEF SaveFails, MaySave, LeftOpen, disk, import, unlocks
  <1>d. loose' \in [Slots -> SUBSET Val]
    BY <1>a, LeftOpenType DEF SaveFails
  <1>1. TypeOK'
    BY <1>c, <1>d, <1>f DEF SaveFails, disk, import, unlocks
  <1>2. Sequencing'
    BY <1>a, <1>c DEF SaveFails, MaySave, LeftOpen, Fault, disk, import,
                      unlocks, Uncommitted
  <1>3. Files'
    BY <1>a, <1>c DEF SaveFails, MaySave, LeftOpen, Fault, disk, import,
                      unlocks, Uncommitted, Journal
  <1>4. Recovering'
    BY <1>a, <1>c DEF SaveFails, MaySave, LeftOpen, Fault, disk, import,
                      unlocks, Uncommitted, Journal
  <1>5. Contents'
    BY <1>a, <1>c DEF SaveFails, MaySave, LeftOpen, Fault, disk, import,
                      unlocks, Agree, Uncommitted, Journal, Slots, Secrets,
                      Empty, Durable, Contents
  <1> QED  BY <1>1, <1>2, <1>3, <1>4, <1>5

(* An import starts on an open vault, with its store. *)
LEMMA ImportStartKeeps ==
    ASSUME IInv, Alone, NEW A \in SUBSET ProfileSlots, ImportStart(A)
    PROVE  IInv'
  <1> USE ConstantsAssumption DEF IInv, TypeOK, Sequencing, Files, Recovering
  <1>1. TypeOK'
    BY DEF ImportStart, disk, memory, unlocks, counters, Journal, ImportSteps,
           UnlockSteps, Val, Slots, Uncommitted, Secrets
  <1>2. Sequencing'
    BY DEF ImportStart, disk, memory, unlocks, counters, Uncommitted
  <1>3. Files'
    BY DEF ImportStart, disk, memory, unlocks, counters, Uncommitted, Journal
  <1>4. Recovering'
    BY DEF ImportStart, disk, memory, unlocks, counters, Uncommitted, Journal
  <1>5. Contents'
    BY DEF ImportStart, disk, memory, unlocks, counters, Agree, Uncommitted,
           Journal, Slots, Secrets, Contents
  <1> QED  BY <1>1, <1>2, <1>3, <1>4, <1>5

(* ConnectionTransferRecovery::begin refuses to start over a journal. *)
LEMMA BeginRefusedKeeps ==
    ASSUME IInv, Alone, BeginRefused
    PROVE  IInv'
  <1> USE ConstantsAssumption DEF IInv, TypeOK, Sequencing, Files, Recovering
  <1>1. TypeOK'
    BY DEF BeginRefused, ImportEnds, disk, memory, unlocks, counters, Journal,
           ImportSteps, UnlockSteps, Val, Slots, Empty, Uncommitted, Secrets
  <1>2. Sequencing'
    BY DEF BeginRefused, ImportEnds, disk, memory, unlocks, counters,
           Uncommitted
  <1>3. Files'
    BY DEF BeginRefused, ImportEnds, disk, memory, unlocks, counters,
           Uncommitted, Journal
  <1>4. Recovering'
    BY DEF BeginRefused, ImportEnds, disk, memory, unlocks, counters,
           Uncommitted, Journal
  <1>5. Contents'
    BY DEF BeginRefused, ImportEnds, disk, memory, unlocks, counters, Agree,
           Uncommitted, Journal, Slots, Secrets, Empty, Contents
  <1> QED  BY <1>1, <1>2, <1>3, <1>4, <1>5

(* begin copies the vault: the copy agrees with the file and memory. *)
LEMMA BeginCopiesVaultKeeps ==
    ASSUME IInv, Alone, BeginCopiesVault
    PROVE  IInv'
  <1> USE ConstantsAssumption DEF IInv, TypeOK, Sequencing, Files, Recovering
  <1>1. TypeOK'
    BY DEF BeginCopiesVault, ImportGoesTo, memory, unlocks, counters, Journal,
           ImportSteps, UnlockSteps, Val, Slots, Uncommitted, Secrets
  <1>2. Sequencing'
    BY DEF BeginCopiesVault, ImportGoesTo, memory, unlocks, counters,
           Uncommitted
  <1>3. Files'
    BY DEF BeginCopiesVault, ImportGoesTo, memory, unlocks, counters,
           Uncommitted, Journal
  <1>4. Recovering'
    BY DEF BeginCopiesVault, ImportGoesTo, memory, unlocks, counters,
           Uncommitted, Journal
  <1>5. Contents'
    BY DEF BeginCopiesVault, ImportGoesTo, memory, unlocks, counters, Agree,
           Uncommitted, Journal, Slots, Secrets, Contents
  <1> QED  BY <1>1, <1>2, <1>3, <1>4, <1>5

(* A torn copy is harmless, there is no journal yet. *)
LEMMA BeginCopyFailsKeeps ==
    ASSUME IInv, Alone, BeginCopyFails
    PROVE  IInv'
  <1> USE ConstantsAssumption DEF IInv, TypeOK, Sequencing, Files, Recovering
  <1>f. faults' \in 0..MaxFaults /\ crashes' \in 0..MaxCrashes
    BY FaultCounts DEF BeginCopyFails, ImportEnds, memory, unlocks
  <1>1. TypeOK'
    BY <1>f DEF BeginCopyFails, ImportEnds, memory, unlocks, Journal,
                ImportSteps, UnlockSteps, Val, Slots, Empty, Uncommitted,
                Secrets
  <1>2. Sequencing'
    BY DEF BeginCopyFails, ImportEnds, Fault, memory, unlocks, Uncommitted
  <1>3. Files'
    BY DEF BeginCopyFails, ImportEnds, Fault, memory, unlocks, Uncommitted,
           Journal
  <1>4. Recovering'
    BY DEF BeginCopyFails, ImportEnds, Fault, memory, unlocks, Uncommitted,
           Journal
  <1>5. Contents'
    BY DEF BeginCopyFails, ImportEnds, Fault, memory, unlocks, Agree,
           Uncommitted, Journal, Slots, Secrets, Empty, Contents
  <1> QED  BY <1>1, <1>2, <1>3, <1>4, <1>5

(* The journal names a transaction id the database has never seen, so the  *)
(* import is undecided from here.                                          *)
LEMMA BeginWritesJournalKeeps ==
    ASSUME IInv, Alone, NEW t \in Tx, BeginWritesJournal(t)
    PROVE  IInv'
  <1> USE ConstantsAssumption DEF IInv, TypeOK, Sequencing, Files, Recovering
  <1>1. TypeOK'
    BY DEF BeginWritesJournal, memory, unlocks, counters, Journal, ImportSteps,
           UnlockSteps, Val, Slots, Uncommitted, Secrets
  <1>2. Sequencing'
    BY DEF BeginWritesJournal, memory, unlocks, counters, Uncommitted
  <1>d. journal' \in Journal /\ journal'.tx = t /\ journal'.existed
    BY DEF BeginWritesJournal, Journal
  <1>e. journal' # None /\ db' # journal'.tx
    BY <1>d DEF BeginWritesJournal
  <1>3. Files'
    BY <1>d, <1>e DEF BeginWritesJournal, Uncommitted, memory
  <1>4. Recovering'
    BY DEF BeginWritesJournal, memory, unlocks, counters, Uncommitted, Journal
  <1>5. Contents'
    BY DEF BeginWritesJournal, memory, unlocks, counters, Agree, Uncommitted,
           Journal, Slots, Secrets, Contents
  <1> QED  BY <1>1, <1>2, <1>3, <1>4, <1>5

(* begin removes its copy when the journal cannot be written. *)
LEMMA BeginJournalFailsKeeps ==
    ASSUME IInv, Alone, BeginJournalFails
    PROVE  IInv'
  <1> USE ConstantsAssumption DEF IInv, TypeOK, Sequencing, Files, Recovering
  <1>f. faults' \in 0..MaxFaults /\ crashes' \in 0..MaxCrashes
    BY FaultCounts DEF BeginJournalFails, ImportEnds, memory, unlocks
  <1>1. TypeOK'
    BY <1>f DEF BeginJournalFails, ImportEnds, memory, unlocks, Journal,
                ImportSteps, UnlockSteps, Val, Slots, Empty, Uncommitted,
                Secrets
  <1>2. Sequencing'
    BY DEF BeginJournalFails, ImportEnds, Fault, memory, unlocks, Uncommitted
  <1>3. Files'
    BY DEF BeginJournalFails, ImportEnds, Fault, memory, unlocks, Uncommitted,
           Journal
  <1>4. Recovering'
    BY DEF BeginJournalFails, ImportEnds, Fault, memory, unlocks, Uncommitted,
           Journal
  <1>5. Contents'
    BY DEF BeginJournalFails, ImportEnds, Fault, memory, unlocks, Agree,
           Uncommitted, Journal, Slots, Secrets, Empty, Contents
  <1> QED  BY <1>1, <1>2, <1>3, <1>4, <1>5

(* The early returns of apply_transfer_data leave an undecided journal     *)
(* whose copy is whole.                                                    *)
LEMMA PrepareFailsKeeps ==
    ASSUME IInv, Alone, PrepareFails
    PROVE  IInv'
  <1> USE ConstantsAssumption DEF IInv, TypeOK, Sequencing, Files, Recovering
  <1>f. faults' \in 0..MaxFaults /\ crashes' \in 0..MaxCrashes
    BY FaultCounts DEF PrepareFails, ImportEnds, disk, memory, unlocks
  <1>1. TypeOK'
    BY <1>f DEF PrepareFails, ImportEnds, disk, memory, unlocks, Journal,
                ImportSteps, UnlockSteps, Val, Slots, Empty, Uncommitted,
                Secrets
  <1>2. Sequencing'
    BY DEF PrepareFails, ImportEnds, Fault, disk, memory, unlocks, Uncommitted
  <1>3. Files'
    BY DEF PrepareFails, ImportEnds, Fault, disk, memory, unlocks, Uncommitted,
           Journal
  <1>4. Recovering'
    BY DEF PrepareFails, ImportEnds, Fault, disk, memory, unlocks, Uncommitted,
           Journal
  <1>5. Contents'
    BY DEF PrepareFails, ImportEnds, Fault, disk, memory, unlocks, Agree,
           Uncommitted, Journal, Slots, Secrets, Empty, Contents
  <1> QED  BY <1>1, <1>2, <1>3, <1>4, <1>5

(* Rows of the open transaction are in no file of the model. *)
LEMMA WriteRowsKeeps ==
    ASSUME IInv, Alone, WriteRows
    PROVE  IInv'
  <1> USE ConstantsAssumption DEF IInv, TypeOK, Sequencing, Files, Recovering
  <1>1. TypeOK'
    BY DEF WriteRows, ImportGoesTo, disk, memory, unlocks, counters, Journal,
           ImportSteps, UnlockSteps, Val, Slots, Uncommitted, Secrets
  <1>2. Sequencing'
    BY DEF WriteRows, ImportGoesTo, disk, memory, unlocks, counters, Uncommitted
  <1>3. Files'
    BY DEF WriteRows, ImportGoesTo, disk, memory, unlocks, counters,
           Uncommitted, Journal
  <1>4. Recovering'
    BY DEF WriteRows, ImportGoesTo, disk, memory, unlocks, counters,
           Uncommitted, Journal
  <1>5. Contents'
    BY DEF WriteRows, ImportGoesTo, disk, memory, unlocks, counters, Agree,
           Uncommitted, Journal, Slots, Secrets, Contents
  <1> QED  BY <1>1, <1>2, <1>3, <1>4, <1>5

(* A failing row sends the import to its compensation. *)
LEMMA WriteRowsFailsKeeps ==
    ASSUME IInv, Alone, WriteRowsFails
    PROVE  IInv'
  <1> USE ConstantsAssumption DEF IInv, TypeOK, Sequencing, Files, Recovering
  <1>f. faults' \in 0..MaxFaults /\ crashes' \in 0..MaxCrashes
    BY FaultCounts DEF WriteRowsFails, ImportGoesTo, disk, memory, unlocks
  <1>1. TypeOK'
    BY <1>f DEF WriteRowsFails, ImportGoesTo, disk, memory, unlocks, Journal,
                ImportSteps, UnlockSteps, Val, Slots, Uncommitted, Secrets
  <1>2. Sequencing'
    BY DEF WriteRowsFails, ImportGoesTo, Fault, disk, memory, unlocks,
           Uncommitted
  <1>3. Files'
    BY DEF WriteRowsFails, ImportGoesTo, Fault, disk, memory, unlocks,
           Uncommitted, Journal
  <1>4. Recovering'
    BY DEF WriteRowsFails, ImportGoesTo, Fault, disk, memory, unlocks,
           Uncommitted, Journal
  <1>5. Contents'
    BY DEF WriteRowsFails, ImportGoesTo, Fault, disk, memory, unlocks, Agree,
           Uncommitted, Journal, Slots, Secrets, Contents
  <1> QED  BY <1>1, <1>2, <1>3, <1>4, <1>5

(* A written secret is in the plaintext and in the file, its old value in  *)
(* secret_backups.                                                         *)
LEMMA WriteSecretKeeps ==
    ASSUME IInv, Alone, NEW s \in ProfileSlots, WriteSecret(s)
    PROVE  IInv'
  <1> USE ConstantsAssumption DEF IInv, TypeOK, Sequencing, Files, Recovering
  <1>a. ist \in StoreId /\ s \in Slots /\ tx \in Val
    BY DEF WriteSecret, PutSecret, unlocks, counters, Slots, Val, Secrets
  <1>b. stores' = [stores EXCEPT ![ist][s] = tx]
    BY DEF WriteSecret, PutSecret, unlocks, counters
  <1>c. /\ stores' \in [StoreId -> Secrets]
        /\ stores'[ist] \in Secrets /\ stores'[ist][s] = tx
        /\ \A r \in Slots \ {s} : stores'[ist][r] = stores[ist][r]
    BY <1>a, <1>b, PutInStore
  <1>d. prev' \in Secrets
    BY <1>a DEF WriteSecret, PutSecret, Secrets
  <1>1. TypeOK'
    BY <1>c, <1>d DEF WriteSecret, PutSecret, counters, unlocks, ImportSteps
  <1>2. Sequencing'
    BY <1>a, <1>c DEF WriteSecret, PutSecret, unlocks, counters, Uncommitted
  <1>3. Files'
    BY <1>a, <1>c DEF WriteSecret, PutSecret, unlocks, counters, Uncommitted,
                      Journal
  <1>4. Recovering'
    BY <1>a, <1>c DEF WriteSecret, PutSecret, unlocks, counters, Uncommitted,
                      Journal
  <1>5. Contents'
    BY <1>a, <1>c DEF WriteSecret, PutSecret, unlocks, counters, Agree,
                      Uncommitted, Journal, Slots, Secrets, Contents
  <1> QED  BY <1>1, <1>2, <1>3, <1>4, <1>5

(* A secret that failed to write is in the plaintext only, and its old     *)
(* value still in secret_backups.                                          *)
LEMMA WriteSecretFailsKeeps ==
    ASSUME IInv, Alone, NEW s \in ProfileSlots, WriteSecretFails(s)
    PROVE  IInv'
  <1> USE ConstantsAssumption DEF IInv, TypeOK, Sequencing, Files, Recovering
  <1>a. ist \in StoreId /\ s \in Slots /\ tx \in Val
    BY DEF WriteSecretFails, PutSecret, Fault, unlocks, Slots, Val, Secrets
  <1>b. stores' = [stores EXCEPT ![ist][s] = tx]
    BY DEF WriteSecretFails, PutSecret, Fault, unlocks
  <1>c. /\ stores' \in [StoreId -> Secrets]
        /\ stores'[ist] \in Secrets /\ stores'[ist][s] = tx
        /\ \A r \in Slots \ {s} : stores'[ist][r] = stores[ist][r]
    BY <1>a, <1>b, PutInStore
  <1>f. faults' \in 0..MaxFaults /\ crashes' \in 0..MaxCrashes
    BY FaultCounts DEF WriteSecretFails, PutSecret, unlocks
  <1>d. prev' \in Secrets
    BY <1>a DEF WriteSecretFails, PutSecret, Secrets
  <1>1. TypeOK'
    BY <1>c, <1>d, <1>f DEF WriteSecretFails, PutSecret, unlocks, ImportSteps
  <1>2. Sequencing'
    BY <1>a, <1>c DEF WriteSecretFails, PutSecret, Fault, unlocks, Uncommitted
  <1>3. Files'
    BY <1>a, <1>c DEF WriteSecretFails, PutSecret, Fault, unlocks, Uncommitted,
                      Journal
  <1>4. Recovering'
    BY <1>a, <1>c DEF WriteSecretFails, PutSecret, Fault, unlocks, Uncommitted,
                      Journal
  <1>5. Contents'
    BY <1>a, <1>c DEF WriteSecretFails, PutSecret, Fault, unlocks, Agree,
                      Uncommitted, Journal, Slots, Secrets, Contents
  <1> QED  BY <1>1, <1>2, <1>3, <1>4, <1>5

(* COMMIT settles the import: the vault file counts from here. *)
LEMMA CommitKeeps ==
    ASSUME IInv, Alone, Commit
    PROVE  IInv'
  <1> USE ConstantsAssumption DEF IInv, TypeOK, Sequencing, Files, Recovering
  <1>1. TypeOK'
    BY DEF Commit, ImportGoesTo, memory, unlocks, counters, Journal,
           ImportSteps, UnlockSteps, Val, Slots, Uncommitted, Secrets
  <1>2. Sequencing'
    BY DEF Commit, ImportGoesTo, memory, unlocks, counters, Uncommitted
  <1>3. Files'
    BY DEF Commit, ImportGoesTo, memory, unlocks, counters, Uncommitted, Journal
  <1>4. Recovering'
    BY DEF Commit, ImportGoesTo, memory, unlocks, counters, Uncommitted, Journal
  <1>5. Contents'
    BY DEF Commit, ImportGoesTo, memory, unlocks, counters, Agree, Uncommitted,
           Journal, Slots, Secrets, Contents
  <1> QED  BY <1>1, <1>2, <1>3, <1>4, <1>5

(* A failing COMMIT leaves the database with the earlier id. *)
LEMMA CommitFailsKeeps ==
    ASSUME IInv, Alone, CommitFails
    PROVE  IInv'
  <1> USE ConstantsAssumption DEF IInv, TypeOK, Sequencing, Files, Recovering
  <1>f. faults' \in 0..MaxFaults /\ crashes' \in 0..MaxCrashes
    BY FaultCounts DEF CommitFails, ImportGoesTo, disk, memory, unlocks
  <1>1. TypeOK'
    BY <1>f DEF CommitFails, ImportGoesTo, disk, memory, unlocks, Journal,
                ImportSteps, UnlockSteps, Val, Slots, Uncommitted, Secrets
  <1>2. Sequencing'
    BY DEF CommitFails, ImportGoesTo, Fault, disk, memory, unlocks, Uncommitted
  <1>3. Files'
    BY DEF CommitFails, ImportGoesTo, Fault, disk, memory, unlocks,
           Uncommitted, Journal
  <1>4. Recovering'
    BY DEF CommitFails, ImportGoesTo, Fault, disk, memory, unlocks,
           Uncommitted, Journal
  <1>5. Contents'
    BY DEF CommitFails, ImportGoesTo, Fault, disk, memory, unlocks, Agree,
           Uncommitted, Journal, Slots, Secrets, Contents
  <1> QED  BY <1>1, <1>2, <1>3, <1>4, <1>5

(* restore_secret_backups puts one old value back. *)
LEMMA CompensateKeeps ==
    ASSUME IInv, Alone, NEW s \in ProfileSlots, Compensate(s)
    PROVE  IInv'
  <1>t. TypeOK
    BY DEF IInv
  <1>a. ist \in StoreId /\ s \in Slots /\ prev[s] \in Val
    BY ConstantsAssumption DEF IInv, TypeOK, Sequencing, Compensate, UndoSecret, unlocks, counters, Slots, Val, Secrets
  <1>b. stores' = [stores EXCEPT ![ist][s] = prev[s]]
    BY DEF Compensate, UndoSecret, unlocks, counters
  <1>c. /\ stores' \in [StoreId -> Secrets]
        /\ stores'[ist] \in Secrets /\ stores'[ist][s] = prev[s]
        /\ \A r \in Slots \ {s} : stores'[ist][r] = stores[ist][r]
    BY <1>t, <1>a, <1>b, PutInStore
  <1> USE ConstantsAssumption DEF IInv, TypeOK, Sequencing, Files, Recovering
  <1>1. TypeOK'
    BY <1>a, <1>c DEF Compensate, UndoSecret, unlocks, counters, ImportSteps,
                      Val, Slots, Uncommitted
  <1>2. Sequencing'
    BY <1>a, <1>c DEF Compensate, UndoSecret, unlocks, counters, Uncommitted
  <1>3. Files'
    BY <1>a, <1>c DEF Compensate, UndoSecret, unlocks, counters, Uncommitted,
                      Journal
  <1>4. Recovering'
    BY <1>a, <1>c DEF Compensate, UndoSecret, unlocks, counters, Uncommitted,
                      Journal
  <1>5. Contents'
    BY <1>a, <1>c DEF Compensate, UndoSecret, unlocks, counters, Agree,
                      Uncommitted, Journal, Slots, Secrets, Contents
  <1> QED  BY <1>1, <1>2, <1>3, <1>4, <1>5

(* When restoring a secret fails the journal stays, undecided. *)
LEMMA CompensateFailsKeeps ==
    ASSUME IInv, Alone, NEW s \in ProfileSlots, CompensateFails(s)
    PROVE  IInv'
  <1>t. TypeOK
    BY DEF IInv
  <1>a. ist \in StoreId /\ s \in Slots /\ prev[s] \in Val
    BY ConstantsAssumption DEF IInv, TypeOK, Sequencing, CompensateFails, UndoSecret, ImportEnds, Fault, unlocks, Slots, Val,
           Secrets
  <1>b. stores' = [stores EXCEPT ![ist][s] = prev[s]]
    BY DEF CompensateFails, UndoSecret, ImportEnds, Fault, unlocks
  <1>c. /\ stores' \in [StoreId -> Secrets]
        /\ stores'[ist] \in Secrets /\ stores'[ist][s] = prev[s]
        /\ \A r \in Slots \ {s} : stores'[ist][r] = stores[ist][r]
    BY <1>t, <1>a, <1>b, PutInStore
  <1> USE ConstantsAssumption DEF IInv, TypeOK, Sequencing, Files, Recovering
  <1>f. faults' \in 0..MaxFaults /\ crashes' \in 0..MaxCrashes
    BY FaultCounts DEF CompensateFails, UndoSecret, ImportEnds, unlocks
  <1>1. TypeOK'
    BY <1>c, <1>f
    DEF CompensateFails, UndoSecret, ImportEnds, unlocks, ImportSteps, Empty,
        Secrets, Val
  <1>2. Sequencing'
    BY <1>a, <1>c DEF CompensateFails, UndoSecret, ImportEnds, Fault, unlocks,
                      Uncommitted
  <1>3. Files'
    BY <1>a, <1>c DEF CompensateFails, UndoSecret, ImportEnds, Fault, unlocks,
                      Uncommitted, Journal
  <1>4. Recovering'
    BY <1>a, <1>c DEF CompensateFails, UndoSecret, ImportEnds, Fault, unlocks,
                      Uncommitted, Journal
  <1>5. Contents'
    BY <1>a, <1>c DEF CompensateFails, UndoSecret, ImportEnds, Fault, unlocks,
                      Agree, Uncommitted, Journal, Slots, Secrets, Empty,
                      Contents
  <1> QED  BY <1>1, <1>2, <1>3, <1>4, <1>5

(* abort puts the whole copy back before the journal goes. *)
LEMMA AbortRestoresKeeps ==
    ASSUME IInv, Alone, AbortRestores
    PROVE  IInv'
  <1> USE ConstantsAssumption DEF IInv, TypeOK, Sequencing, Files, Recovering
  <1>1. TypeOK'
    BY DEF AbortRestores, ImportGoesTo, CanRestore, RestoredVault, memory,
           unlocks, counters, Journal, ImportSteps, UnlockSteps, Val, Slots,
           Uncommitted, Secrets
  <1>2. Sequencing'
    BY DEF AbortRestores, ImportGoesTo, CanRestore, RestoredVault, memory,
           unlocks, counters, Uncommitted
  <1>3. Files'
    BY DEF AbortRestores, ImportGoesTo, CanRestore, RestoredVault, memory,
           unlocks, counters, Uncommitted, Journal
  <1>4. Recovering'
    BY DEF AbortRestores, ImportGoesTo, CanRestore, RestoredVault, memory,
           unlocks, counters, Uncommitted, Journal
  <1>5. Contents'
    BY DEF AbortRestores, ImportGoesTo, CanRestore, RestoredVault, memory,
           unlocks, counters, Agree, Uncommitted, Journal, Slots, Secrets,
           Contents
  <1> QED  BY <1>1, <1>2, <1>3, <1>4, <1>5

(* A torn restore stays undecided and restorable. *)
LEMMA AbortRestoreFailsKeeps ==
    ASSUME IInv, Alone, AbortRestoreFails
    PROVE  IInv'
  <1> USE ConstantsAssumption DEF IInv, TypeOK, Sequencing, Files, Recovering
  <1>f. faults' \in 0..MaxFaults /\ crashes' \in 0..MaxCrashes
    BY FaultCounts DEF AbortRestoreFails, ImportEnds, CanRestore, memory,
                       unlocks, counters
  <1>v. vault' \in Secrets \cup {None, Torn}
    BY DEF AbortRestoreFails
  <1>i. /\ pc' \in ImportSteps /\ tx' \in Tx \cup {None} /\ ist' \in StoreId \cup {None}
        /\ active' \in SUBSET ProfileSlots /\ done' \in SUBSET ProfileSlots
        /\ prev' \in Secrets
    BY EmptyIsSecrets DEF AbortRestoreFails, ImportEnds, ImportSteps
  <1>1. TypeOK'
    BY <1>f, <1>v, <1>i DEF AbortRestoreFails, memory, unlocks
  <1>2. Sequencing'
    BY DEF AbortRestoreFails, ImportEnds, Fault, CanRestore, memory, unlocks,
           counters, Uncommitted
  <1>3. Files'
    BY DEF AbortRestoreFails, ImportEnds, Fault, CanRestore, memory, unlocks,
           counters, Uncommitted, Journal
  <1>4. Recovering'
    BY DEF AbortRestoreFails, ImportEnds, Fault, CanRestore, memory, unlocks,
           counters, Uncommitted, Journal
  <1>5. Contents'
    BY DEF AbortRestoreFails, ImportEnds, Fault, CanRestore, memory, unlocks,
           counters, Agree, Uncommitted, Journal, Slots, Secrets, Empty,
           Contents
  <1> QED  BY <1>1, <1>2, <1>3, <1>4, <1>5

(* cleanup_recovery_files removes the journal first: the vault counts, and *)
(* is whole by then.                                                       *)
LEMMA RemoveJournalKeeps ==
    ASSUME IInv, Alone, RemoveJournal
    PROVE  IInv'
  <1> USE ConstantsAssumption DEF IInv, TypeOK, Sequencing, Files, Recovering
  <1>1. TypeOK'
    BY DEF RemoveJournal, ImportGoesTo, memory, unlocks, counters, Journal,
           ImportSteps, UnlockSteps, Val, Slots, Uncommitted, Secrets
  <1>2. Sequencing'
    BY DEF RemoveJournal, ImportGoesTo, memory, unlocks, counters, Uncommitted
  <1>3. Files'
    BY DEF RemoveJournal, ImportGoesTo, memory, unlocks, counters, Uncommitted,
           Journal
  <1>4. Recovering'
    BY DEF RemoveJournal, ImportGoesTo, memory, unlocks, counters, Uncommitted,
           Journal
  <1>5. Contents'
    BY DEF RemoveJournal, ImportGoesTo, memory, unlocks, counters, Agree,
           Uncommitted, Journal, Slots, Secrets, Contents
  <1> QED  BY <1>1, <1>2, <1>3, <1>4, <1>5

(* Without a journal the copy is not needed. *)
LEMMA RemoveBackupKeeps ==
    ASSUME IInv, Alone, RemoveBackup
    PROVE  IInv'
  <1> USE ConstantsAssumption DEF IInv, TypeOK, Sequencing, Files, Recovering
  <1>1. TypeOK'
    BY DEF RemoveBackup, ImportEnds, memory, unlocks, counters, Journal,
           ImportSteps, UnlockSteps, Val, Slots, Empty, Uncommitted, Secrets
  <1>2. Sequencing'
    BY DEF RemoveBackup, ImportEnds, memory, unlocks, counters, Uncommitted
  <1>3. Files'
    BY DEF RemoveBackup, ImportEnds, memory, unlocks, counters, Uncommitted,
           Journal
  <1>4. Recovering'
    BY DEF RemoveBackup, ImportEnds, memory, unlocks, counters, Uncommitted,
           Journal
  <1>5. Contents'
    BY DEF RemoveBackup, ImportEnds, memory, unlocks, counters, Agree,
           Uncommitted, Journal, Slots, Secrets, Empty, Contents
  <1> QED  BY <1>1, <1>2, <1>3, <1>4, <1>5

(* A journal that cannot be removed stays for the next unlock. *)
LEMMA RemoveFailsKeeps ==
    ASSUME IInv, Alone, RemoveFails
    PROVE  IInv'
  <1> USE ConstantsAssumption DEF IInv, TypeOK, Sequencing, Files, Recovering
  <1>f. faults' \in 0..MaxFaults /\ crashes' \in 0..MaxCrashes
    BY FaultCounts DEF RemoveFails, ImportEnds, disk, memory, unlocks
  <1>1. TypeOK'
    BY <1>f DEF RemoveFails, ImportEnds, disk, memory, unlocks, Journal,
                ImportSteps, UnlockSteps, Val, Slots, Empty, Uncommitted,
                Secrets
  <1>2. Sequencing'
    BY DEF RemoveFails, ImportEnds, Fault, disk, memory, unlocks, Uncommitted
  <1>3. Files'
    BY DEF RemoveFails, ImportEnds, Fault, disk, memory, unlocks, Uncommitted,
           Journal
  <1>4. Recovering'
    BY DEF RemoveFails, ImportEnds, Fault, disk, memory, unlocks, Uncommitted,
           Journal
  <1>5. Contents'
    BY DEF RemoveFails, ImportEnds, Fault, disk, memory, unlocks, Agree,
           Uncommitted, Journal, Slots, Secrets, Empty, Contents
  <1> QED  BY <1>1, <1>2, <1>3, <1>4, <1>5

(* An unlock starts when no store is open and no import runs. *)
LEMMA UnlockStartKeeps ==
    ASSUME IInv, Alone, NEW u \in Unlockers, UnlockStart(u)
    PROVE  IInv'
  <1> USE ConstantsAssumption DEF IInv, TypeOK, Sequencing, Files, Recovering
  <1>1. TypeOK'
    BY DEF UnlockStart, UnlockGoesTo, MayUnlock, disk, memory, import,
           counters, Journal, ImportSteps, UnlockSteps, Val, Slots,
           Uncommitted, Secrets
  <1>2. Sequencing'
    BY DEF UnlockStart, UnlockGoesTo, MayUnlock, disk, memory, import,
           counters, Alone
  <1>3. Files'
    BY DEF UnlockStart, UnlockGoesTo, MayUnlock, disk, memory, import,
           counters, Uncommitted, Journal
  <1>4. Recovering'
    BY DEF UnlockStart, UnlockGoesTo, MayUnlock, disk, memory, import,
           counters, Uncommitted, Journal
  <1>5. Contents'
    BY DEF UnlockStart, UnlockGoesTo, MayUnlock, disk, memory, import,
           counters, Agree, Uncommitted, Journal, Slots, Secrets, Contents
  <1> QED  BY <1>1, <1>2, <1>3, <1>4, <1>5

(* Recovery works on the journal it read, nobody else writes it. *)
LEMMA ReadJournalKeeps ==
    ASSUME IInv, Alone, NEW u \in Unlockers, ReadJournal(u)
    PROVE  IInv'
  <1> USE ConstantsAssumption DEF IInv, TypeOK, Sequencing, Files, Recovering
  <1>1. TypeOK'
    BY DEF ReadJournal, disk, memory, import, counters, Journal, ImportSteps,
           UnlockSteps, Val, Slots, Uncommitted, Secrets
  <1>2. Sequencing'
    BY DEF ReadJournal, disk, memory, import, counters, Uncommitted
  <1>3. Files'
    BY DEF ReadJournal, disk, memory, import, counters, Uncommitted, Journal
  <1>4. Recovering'
    BY DEF ReadJournal, disk, memory, import, counters, Uncommitted, Journal
  <1>5. Contents'
    BY DEF ReadJournal, disk, memory, import, counters, Agree, Uncommitted,
           Journal, Slots, Secrets, Contents
  <1> QED  BY <1>1, <1>2, <1>3, <1>4, <1>5

(* Recovery compares the journal's id with the database's. *)
LEMMA ReadCommittedTransactionKeeps ==
    ASSUME IInv, Alone, NEW u \in Unlockers, ReadCommittedTransaction(u)
    PROVE  IInv'
  <1> USE ConstantsAssumption DEF IInv, TypeOK, Sequencing, Files, Recovering
  <1>1. TypeOK'
    BY DEF ReadCommittedTransaction, UnlockGoesTo, disk, memory, import,
           counters, Journal, ImportSteps, UnlockSteps, Val, Slots,
           Uncommitted, Secrets
  <1>2. Sequencing'
    BY DEF ReadCommittedTransaction, UnlockGoesTo, disk, memory, import,
           counters, Uncommitted
  <1>3. Files'
    BY DEF ReadCommittedTransaction, UnlockGoesTo, disk, memory, import,
           counters, Uncommitted, Journal
  <1>4. Recovering'
    BY DEF ReadCommittedTransaction, UnlockGoesTo, disk, memory, import,
           counters, Uncommitted, Journal
  <1>5. Contents'
    BY DEF ReadCommittedTransaction, UnlockGoesTo, disk, memory, import,
           counters, Agree, Uncommitted, Journal, Slots, Secrets, Contents
  <1> QED  BY <1>1, <1>2, <1>3, <1>4, <1>5

(* restore_vault_backup_with_state makes the vault the copy. *)
LEMMA RecoverRestoresKeeps ==
    ASSUME IInv, Alone, NEW u \in Unlockers, RecoverRestores(u)
    PROVE  IInv'
  <1> USE ConstantsAssumption DEF IInv, TypeOK, Sequencing, Files, Recovering
  <1>1. TypeOK'
    BY DEF RecoverRestores, UnlockGoesTo, CanRestore, RestoredVault, memory,
           import, counters, Journal, ImportSteps, UnlockSteps, Val, Slots,
           Uncommitted, Secrets
  <1>2. Sequencing'
    BY DEF RecoverRestores, UnlockGoesTo, CanRestore, RestoredVault, memory,
           import, counters, Uncommitted
  <1>3. Files'
    BY DEF RecoverRestores, UnlockGoesTo, CanRestore, RestoredVault, memory,
           import, counters, Uncommitted, Journal
  <1>4. Recovering'
    BY DEF RecoverRestores, UnlockGoesTo, CanRestore, RestoredVault, memory,
           import, counters, Uncommitted, Journal
  <1>5. Contents'
    BY DEF RecoverRestores, UnlockGoesTo, CanRestore, RestoredVault, memory,
           import, counters, Agree, Uncommitted, Journal, Slots, Secrets,
           Contents
  <1> QED  BY <1>1, <1>2, <1>3, <1>4, <1>5

(* Recovery removes the journal when the vault is what counts. *)
LEMMA RecoverRemovesJournalKeeps ==
    ASSUME IInv, Alone, NEW u \in Unlockers, RecoverRemovesJournal(u)
    PROVE  IInv'
  <1> USE ConstantsAssumption DEF IInv, TypeOK, Sequencing, Files, Recovering
  <1>1. TypeOK'
    BY DEF RecoverRemovesJournal, UnlockGoesTo, memory, import, counters,
           Journal, ImportSteps, UnlockSteps, Val, Slots, Uncommitted, Secrets
  <1>2. Sequencing'
    BY DEF RecoverRemovesJournal, UnlockGoesTo, memory, import, counters,
           Uncommitted
  <1>3. Files'
    BY DEF RecoverRemovesJournal, UnlockGoesTo, memory, import, counters,
           Uncommitted, Journal
  <1>4. Recovering'
    BY DEF RecoverRemovesJournal, UnlockGoesTo, memory, import, counters,
           Uncommitted, Journal
  <1>5. Contents'
    BY DEF RecoverRemovesJournal, UnlockGoesTo, memory, import, counters,
           Agree, Uncommitted, Journal, Slots, Secrets, Contents
  <1> QED  BY <1>1, <1>2, <1>3, <1>4, <1>5

(* Recovery removes the copy after its journal. *)
LEMMA RecoverRemovesBackupKeeps ==
    ASSUME IInv, Alone, NEW u \in Unlockers, RecoverRemovesBackup(u)
    PROVE  IInv'
  <1> USE ConstantsAssumption DEF IInv, TypeOK, Sequencing, Files, Recovering
  <1>1. TypeOK'
    BY DEF RecoverRemovesBackup, UnlockGoesTo, memory, import, counters,
           Journal, ImportSteps, UnlockSteps, Val, Slots, Uncommitted, Secrets
  <1>2. Sequencing'
    BY DEF RecoverRemovesBackup, UnlockGoesTo, memory, import, counters,
           Uncommitted
  <1>3. Files'
    BY DEF RecoverRemovesBackup, UnlockGoesTo, memory, import, counters,
           Uncommitted, Journal
  <1>4. Recovering'
    BY DEF RecoverRemovesBackup, UnlockGoesTo, memory, import, counters,
           Uncommitted, Journal
  <1>5. Contents'
    BY DEF RecoverRemovesBackup, UnlockGoesTo, memory, import, counters, Agree,
           Uncommitted, Journal, Slots, Secrets, Contents
  <1> QED  BY <1>1, <1>2, <1>3, <1>4, <1>5

(* Opening makes the plaintext and the file agree on every slot. *)
LEMMA OpenVaultKeeps ==
    ASSUME IInv, Alone, NEW u \in Unlockers, OpenVault(u)
    PROVE  IInv'
  <1> USE ConstantsAssumption DEF IInv, TypeOK, Sequencing, Files, Recovering
  <1>a. vault' \in Secrets
    BY DEF OpenVault, Empty, Secrets, Val
  <1>b. memory' = memory \/ (stores' \in [StoreId -> Secrets] /\ cur' \in StoreId)
    BY <1>a DEF OpenVault, memory
  <1>c. loose' \in [Slots -> SUBSET Val]
    BY DEF OpenVault, Settled
  <1>d. upc' \in [Unlockers -> UnlockSteps] /\ uj' \in [Unlockers -> Journal \cup {None}]
    BY DEF OpenVault, UnlockGoesTo, UnlockSteps
  <1>1. TypeOK'
    BY <1>a, <1>b, <1>c, <1>d DEF OpenVault, import, counters, memory
  <1>2. Sequencing'
    BY DEF OpenVault, UnlockGoesTo, memory, import, counters, Uncommitted
  <1>3. Files'
    BY <1>a DEF OpenVault, UnlockGoesTo, memory, import, counters, Uncommitted,
                Journal
  <1>4. Recovering'
    BY DEF OpenVault, UnlockGoesTo, memory, import, counters, Uncommitted,
           Journal
  <1>5. Contents'
    BY DEF OpenVault, UnlockGoesTo, memory, import, counters, Agree,
           Uncommitted, Journal, Slots, Secrets, Settled, Empty, Contents
  <1> QED  BY <1>1, <1>2, <1>3, <1>4, <1>5

(* An unlock that fails leaves what the next one needs. *)
LEMMA UnlockFailsKeeps ==
    ASSUME IInv, Alone, NEW u \in Unlockers, UnlockFails(u)
    PROVE  IInv'
  <1> USE ConstantsAssumption DEF IInv, TypeOK, Sequencing, Files, Recovering
  <1>f. faults' \in 0..MaxFaults /\ crashes' \in 0..MaxCrashes
    BY FaultCounts DEF UnlockFails, UnlockGoesTo, CanRestore, memory, import,
                       counters
  <1>v. vault' \in Secrets \cup {None, Torn}
    BY DEF UnlockFails
  <1>d. upc' \in [Unlockers -> UnlockSteps] /\ uj' \in [Unlockers -> Journal \cup {None}]
    BY DEF UnlockFails, UnlockGoesTo, UnlockSteps
  <1>1. TypeOK'
    BY <1>f, <1>v, <1>d DEF UnlockFails, memory, import
  <1>2. Sequencing'
    BY DEF UnlockFails, UnlockGoesTo, Fault, CanRestore, memory, import,
           counters, Uncommitted
  <1>3. Files'
    BY DEF UnlockFails, UnlockGoesTo, Fault, CanRestore, memory, import,
           counters, Uncommitted, Journal
  <1>4. Recovering'
    BY DEF UnlockFails, UnlockGoesTo, Fault, CanRestore, memory, import,
           counters, Uncommitted, Journal
  <1>5. Contents'
    BY DEF UnlockFails, UnlockGoesTo, Fault, CanRestore, memory, import,
           counters, Agree, Uncommitted, Journal, Slots, Secrets, Contents
  <1> QED  BY <1>1, <1>2, <1>3, <1>4, <1>5

(* VaultState::lock only forgets the store. *)
LEMMA LockKeeps ==
    ASSUME IInv, Alone, Lock
    PROVE  IInv'
  <1> USE ConstantsAssumption DEF IInv, TypeOK, Sequencing, Files, Recovering
  <1>1. TypeOK'
    BY DEF Lock, disk, import, unlocks, counters, Journal, ImportSteps,
           UnlockSteps, Val, Slots, Uncommitted, Secrets
  <1>2. Sequencing'
    BY DEF Lock, disk, import, unlocks, counters, Uncommitted
  <1>3. Files'
    BY DEF Lock, disk, import, unlocks, counters, Uncommitted, Journal
  <1>4. Recovering'
    BY DEF Lock, disk, import, unlocks, counters, Uncommitted, Journal
  <1>5. Contents'
    BY DEF Lock, disk, import, unlocks, counters, Agree, Uncommitted, Journal,
           Slots, Secrets, Contents
  <1> QED  BY <1>1, <1>2, <1>3, <1>4, <1>5

(* A crash between any two file operations, or in the middle of a copy,    *)
(* keeps the invariant.                                                    *)
LEMMA CrashKeeps ==
    ASSUME IInv, Alone, Crash
    PROVE  IInv'
  <1> USE ConstantsAssumption DEF IInv, TypeOK, Sequencing, Files, Recovering
  <1>1. TypeOK'
    BY DEF Crash, ImportEnds, Journal, ImportSteps, UnlockSteps, Val, Slots,
           Empty, Uncommitted, Secrets
  <1>2. Sequencing'
    BY DEF Crash, ImportEnds, Uncommitted
  <1>3. Files'
    BY DEF Crash, ImportEnds, Uncommitted, Journal
  <1>4. Recovering'
    BY DEF Crash, ImportEnds, Uncommitted, Journal
  <1>5. Contents'
    BY DEF Crash, ImportEnds, Agree, Uncommitted, Journal, Slots, Secrets,
           Empty, Contents
  <1> QED  BY <1>1, <1>2, <1>3, <1>4, <1>5

-----------------------------------------------------------------------------
(* The invariant holds. *)

(* A first start satisfies the invariant. *)
LEMMA InitIInv ==
    ASSUME Init
    PROVE  IInv
  BY ConstantsAssumption
  DEF Init, IInv, TypeOK, Sequencing, Files, Recovering, Contents, Uncommitted,
      Slots, Val, Secrets, Empty, Settled, ImportSteps, UnlockSteps

(* Every step of an import keeps the invariant. *)
LEMMA ImportKeeps ==
    ASSUME IInv, Alone, Import
    PROVE  IInv'
  <1>1. ASSUME NEW s \in ProfileSlots,
               \/ WriteSecret(s) \/ WriteSecretFails(s)
               \/ Compensate(s) \/ CompensateFails(s)
        PROVE  IInv'
    BY <1>1, WriteSecretKeeps, WriteSecretFailsKeeps, CompensateKeeps, CompensateFailsKeeps
  <1>2. ASSUME \/ BeginRefused \/ BeginCopiesVault \/ BeginCopyFails
               \/ \E t \in Tx : BeginWritesJournal(t)
               \/ BeginJournalFails \/ PrepareFails \/ WriteRows \/ WriteRowsFails
        PROVE  IInv'
    BY <1>2, BeginRefusedKeeps, BeginCopiesVaultKeeps, BeginCopyFailsKeeps,
       BeginWritesJournalKeeps, BeginJournalFailsKeeps, PrepareFailsKeeps,
       WriteRowsKeeps, WriteRowsFailsKeeps
  <1>3. ASSUME \/ Commit \/ CommitFails \/ AbortRestores \/ AbortRestoreFails
               \/ RemoveJournal \/ RemoveBackup \/ RemoveFails
        PROVE  IInv'
    BY <1>3, CommitKeeps, CommitFailsKeeps, AbortRestoresKeeps, AbortRestoreFailsKeeps,
       RemoveJournalKeeps, RemoveBackupKeeps, RemoveFailsKeeps
  <1> QED  BY <1>1, <1>2, <1>3 DEF Import

(* Every step of an unlock keeps the invariant. *)
LEMMA UnlockKeeps ==
    ASSUME IInv, Alone, NEW u \in Unlockers, UnlockStart(u) \/ Unlock(u)
    PROVE  IInv'
  BY UnlockStartKeeps, ReadJournalKeeps, ReadCommittedTransactionKeeps,
     RecoverRestoresKeeps, RecoverRemovesJournalKeeps, RecoverRemovesBackupKeeps,
     OpenVaultKeeps, UnlockFailsKeeps
  DEF Unlock

(* The invariant is inductive: one case for each disjunct of Next. *)
LEMMA StepIInv ==
    ASSUME IInv, Alone, [Next]_vars
    PROVE  IInv'
  <1>1. CASE \E s \in Slots, v \in UserVal \cup {None} : SaveSecret(s, v) \/ SaveFails(s, v)
    BY <1>1, SaveSecretKeeps, SaveFailsKeeps
  <1>2. CASE \E A \in SUBSET ProfileSlots : ImportStart(A)
    BY <1>2, ImportStartKeeps
  <1>3. CASE Import
    BY <1>3, ImportKeeps
  <1>4. CASE \E u \in Unlockers : UnlockStart(u) \/ Unlock(u)
    BY <1>4, UnlockKeeps
  <1>5. CASE Lock \/ Crash
    BY <1>5, LockKeeps, CrashKeeps
  <1>6. CASE UNCHANGED vars
    BY <1>6 DEF vars, disk, memory, import, unlocks, counters, IInv, TypeOK,
                Sequencing,
                Files, Recovering, Contents, Uncommitted, Agree
  <1> QED  BY <1>1, <1>2, <1>3, <1>4, <1>5, <1>6 DEF Next

THEOREM Invariance ==
    ASSUME Alone
    PROVE  Spec => []IInv
  <1>1. Init => IInv
    BY InitIInv
  <1>2. IInv /\ [Next]_vars => IInv'
    BY StepIInv
  <1> QED  BY <1>1, <1>2, PTL DEF Spec

(* Every file and every variable keeps its type: in particular the vault is *)
(* never anything but a vault, missing, or a copy that was cut short.       *)
THEOREM TypeCorrect ==
    ASSUME Alone
    PROVE  Spec => []TypeOK
  <1>1. IInv => TypeOK
    BY DEF IInv
  <1> QED  BY <1>1, Invariance, PTL

(* Whatever instant ConnectionTransferRecovery is stopped at, the files     *)
(* still hold a whole vault and say which one it is.                        *)
THEOREM AlwaysRecoverable ==
    ASSUME Alone
    PROVE  Spec => []Recoverable
  <1>1. IInv => Recoverable
    BY DurableIsWhole DEF IInv, Files, Recoverable, Uncommitted
  <1> QED  BY <1>1, Invariance, PTL

(* A failed import leaves no secret of its own in the plaintext that        *)
(* VaultState holds once its journal is gone.                               *)
THEOREM MemoryAlwaysAgrees ==
    ASSUME Alone
    PROVE  Spec => []MemoryAgrees
  <1>1. IInv => MemoryAgrees
    BY DEF IInv, Contents, MemoryAgrees, Agree
  <1> QED  BY <1>1, Invariance, PTL

-----------------------------------------------------------------------------
(* The refinement.  Durable moves only at a save, at the commit and where   *)
(* an open slot settles.                                                    *)

(* The files of a first start are the initial state of AtomicStore. *)
LEMMA InitMaps ==
    ASSUME Init
    PROVE  Promise!Init
  BY ConstantsAssumption
  DEF Init, Promise!Init, Durable, Uncommitted, Empty, Settled, Promise!Settled

(* While an import is undecided the promise sees only the copy. *)
LEMMA UndecidedStays ==
    ASSUME IInv, IInv', Uncommitted, Uncommitted', backup' = backup
    PROVE  Durable' = Durable
  BY ConstantsAssumption DEF IInv, Files, Durable, Uncommitted

(* While no import is undecided the promise sees only the vault. *)
LEMMA DecidedStays ==
    ASSUME IInv, ~ Uncommitted, ~ Uncommitted', vault' = vault
    PROVE  Durable' = Durable
  BY DEF Durable, Uncommitted, Empty

(* No undecided import: the vault is what a crash leaves. *)
LEMMA DurableIsVault ==
    ASSUME IInv, ~ Uncommitted, vault # None
    PROVE  Durable = vault
  BY DEF Durable, Uncommitted

(* An undecided import: the copy is what a crash leaves. *)
LEMMA DurableIsBackup ==
    ASSUME IInv, Uncommitted
    PROVE  Durable = backup
  BY ConstantsAssumption DEF IInv, Files, Durable, Uncommitted

(* The next-state forms of the last two and of DurableIsWhole. *)
LEMMA DurableNext ==
    ASSUME IInv'
    PROVE  /\ Durable' \in Secrets
           /\ ~ Uncommitted' /\ vault' # None => Durable' = vault'
           /\ Uncommitted' => Durable' = backup'
  BY ConstantsAssumption
  DEF IInv, TypeOK, Files, Durable, Uncommitted, Secrets, Val, Empty

Stutter == UNCHANGED <<db, Durable, loose>>

(* A save is a Save, or an OpenSave while an import is undecided. *)
LEMMA SaveMaps ==
    ASSUME IInv, IInv', NEW s \in Slots, NEW v \in UserVal \cup {None}, SaveSecret(s, v)
    PROVE  Promise!Save(s, v) \/ Promise!OpenSave(s, v)
  <1> USE DEF disk, memory, import, unlocks, counters
  <1>1. /\ cur \in StoreId /\ v \in Val
        /\ stores' = [stores EXCEPT ![cur][s] = v] /\ vault' = stores'[cur]
    BY DEF SaveSecret, MaySave, IInv, TypeOK, Val
  <1>t. TypeOK
    BY DEF IInv
  <1>w. /\ stores'[cur] \in Secrets /\ stores'[cur][s] = v
        /\ \A r \in Slots \ {s} : stores'[cur][r] = stores[cur][r]
    BY <1>t, <1>1, PutInStore
  <1>2. /\ vault' \in Secrets /\ vault'[s] = v
        /\ \A r \in Slots \ {s} : vault'[r] = stores[cur][r]
    BY <1>1, <1>w
  <1>3. CASE Uncommitted
    <2>1. Durable' = Durable /\ db' = db /\ loose' = LeftOpen(s, v)
      BY <1>3, UndecidedStays DEF SaveSecret, Uncommitted, Undecided
    <2> QED  BY <2>1, DurableIsWhole DEF Promise!OpenSave, Promise!OthersKept,
                                         LeftOpen, Secrets
  <1>4. CASE ~ Uncommitted
    <2>1. /\ Durable = vault /\ Durable' = vault' /\ db' = db
      BY <1>2, <1>4, DurableIsVault, DurableNext, ConstantsAssumption
      DEF SaveSecret, MaySave, IInv, Files, Uncommitted
    <2>2. \A r \in Slots \ {s} : vault'[r] \in {vault[r]} \cup loose[r]
      BY <1>1, <1>2, <1>4 DEF IInv, Contents, Agree, SaveSecret, MaySave
    <2>3. CASE pc = "journal"
      <3>1. loose' = LeftOpen(s, v)
        BY <2>3 DEF SaveSecret, Undecided
      <3> QED  BY <1>2, <2>1, <2>2, <3>1
               DEF Promise!OpenSave, Promise!OthersKept, LeftOpen, Secrets
    <2>4. CASE pc # "journal"
      <3>1. loose' = Settled
        BY <1>4, <2>4 DEF SaveSecret, Undecided
      <3> QED  BY <1>2, <2>1, <2>2, <3>1
               DEF Promise!Save, Promise!OthersKept, Promise!Settled, Settled,
                   Secrets
    <2> QED  BY <2>3, <2>4
  <1> QED  BY <1>3, <1>4

(* A failed save leaves its slot open and the file as it was. *)
LEMMA SaveFailsMaps ==
    ASSUME IInv, NEW s \in Slots, NEW v \in UserVal \cup {None}, SaveFails(s, v)
    PROVE  Promise!OpenSave(s, v)
  <1>1. Durable' = Durable /\ db' = db /\ loose' = LeftOpen(s, v)
    BY DEF SaveFails, disk, Durable, Uncommitted, Empty
  <1> QED  BY <1>1, DurableIsWhole DEF Promise!OpenSave, Promise!OthersKept,
                                       LeftOpen, Secrets

(* The journal takes back what was saved since the copy was made. *)
LEMMA JournalMaps ==
    ASSUME IInv, IInv', NEW t \in Tx, BeginWritesJournal(t)
    PROVE  Promise!Settle
  <1>1. ~ Uncommitted /\ Uncommitted' /\ backup' = backup /\ vault # None
        /\ UNCHANGED <<db, loose>>
    BY DEF BeginWritesJournal, IInv, Files, Sequencing, Uncommitted
  <1>2. Durable = vault /\ Durable' = backup /\ Durable' \in Secrets
    BY <1>1, DurableIsVault, DurableNext
  <1>3. \A r \in Slots : backup[r] \in {vault[r]} \cup loose[r]
    BY DEF BeginWritesJournal, IInv, Contents, Agree
  <1> QED  BY <1>1, <1>2, <1>3 DEF Promise!Settle, Promise!OthersKept, Secrets

(* COMMIT is the one step at which an import happens                       *)
(* (connection_transfer.rs, line 537): its secrets are already in the      *)
(* vault.                                                                  *)
LEMMA CommitMaps ==
    ASSUME IInv, IInv', Commit
    PROVE  Promise!Import(tx, active)
  <1>1. /\ Uncommitted /\ ~ Uncommitted' /\ vault # None /\ vault' = vault
        /\ db # tx /\ db' = tx /\ tx \in Tx
    BY DEF Commit, ImportGoesTo, IInv, TypeOK, Files, Sequencing, Uncommitted,
           Journal
  <1>2. Durable = backup /\ Durable' = vault /\ Durable' \in Secrets
    BY <1>1, DurableIsBackup, DurableNext
  <1>3. \A r \in Slots : IF r \in active THEN vault[r] = tx
                         ELSE vault[r] \in {backup[r]} \cup loose[r]
    <2> TAKE r \in Slots
    <2>1. pc = "secrets" /\ done = active
      BY DEF Commit
    <2>2. IF r \in done THEN vault[r] = tx ELSE Agree(vault, backup, r)
      BY <2>1 DEF IInv, Contents
    <2>3. CASE r \in active
      BY <2>1, <2>2, <2>3
    <2>4. CASE r \notin active
      BY <2>1, <2>2, <2>4 DEF Agree
    <2> QED  BY <2>3, <2>4
  <1>4. active \subseteq Slots
    BY DEF IInv, TypeOK, Slots
  <1> QED  BY <1>1, <1>2, <1>3, <1>4 DEF Commit, Promise!Import,
                                         Promise!OthersKept, Secrets

(* The end of commit changes nothing, the end of abort settles open slots.  *)
LEMMA RemoveJournalMaps ==
    ASSUME IInv, IInv', RemoveJournal
    PROVE  Promise!Settle \/ Stutter
  <1>1. /\ ~ Uncommitted' /\ vault # None /\ UNCHANGED <<vault, db, loose>>
    BY DEF RemoveJournal, Uncommitted, IInv, Sequencing
  <1>2. CASE ~ Uncommitted
    BY <1>1, <1>2, DecidedStays DEF Stutter
  <1>3. CASE Uncommitted
    <2>1. Durable = backup /\ Durable' = vault /\ Durable' \in Secrets
      BY <1>1, <1>3, DurableIsBackup, DurableNext
    <2>2. \A r \in Slots : vault[r] \in {backup[r]} \cup loose[r]
      BY <1>3 DEF RemoveJournal, IInv, Contents, Agree
    <2> QED  BY <1>1, <2>1, <2>2 DEF Promise!Settle, Promise!OthersKept, Secrets
  <1> QED  BY <1>2, <1>3

(* Everything else an import does happens behind the journal. *)
LEMMA ImportStutters ==
    ASSUME IInv, IInv', Import,
           \A t \in Tx : ~ BeginWritesJournal(t),
           ~ Commit, ~ RemoveJournal
    PROVE  Stutter
  <1> USE DEF disk, memory, import, unlocks, counters
  <1>1. CASE \/ BeginRefused \/ BeginCopiesVault \/ BeginCopyFails
             \/ BeginJournalFails \/ RemoveBackup
    <2>1. journal' = journal /\ db' = db /\ vault' = vault /\ loose' = loose
      BY <1>1 DEF BeginRefused, BeginCopiesVault, BeginCopyFails,
                  BeginJournalFails,
                  RemoveBackup
    <2>2. CASE journal = None
      BY <2>1, <2>2, DecidedStays DEF Stutter, Uncommitted
    <2>3. CASE journal # None
      <3>1. backup' = backup
        BY <1>1, <2>3
        DEF BeginRefused, BeginCopiesVault, BeginCopyFails, BeginJournalFails,
            RemoveBackup, IInv, Files
      <3> QED  BY <2>1, <3>1 DEF Stutter, Durable, Uncommitted, Empty
    <2> QED  BY <2>2, <2>3
  <1>2. CASE PrepareFails \/ WriteRows \/ WriteRowsFails \/ CommitFails \/ RemoveFails
    BY <1>2 DEF PrepareFails, WriteRows, WriteRowsFails, CommitFails,
                RemoveFails,
                Stutter, Durable, Uncommitted, Empty
  <1>3. ASSUME \/ \E s \in ProfileSlots :
                     \/ WriteSecret(s) \/ WriteSecretFails(s)
                     \/ Compensate(s) \/ CompensateFails(s)
               \/ AbortRestores \/ AbortRestoreFails
        PROVE  Stutter
    <2>1. /\ UNCHANGED <<backup, journal, db, loose>>
          /\ pc \in {"secrets", "compensate"}
      BY <1>3 DEF WriteSecret, WriteSecretFails, PutSecret, Compensate,
                  CompensateFails,
                  UndoSecret, AbortRestores, AbortRestoreFails
    <2>2. Uncommitted /\ Uncommitted'
      BY <2>1 DEF IInv, Files, Uncommitted
    <2> QED  BY <2>1, <2>2, UndecidedStays DEF Stutter
  <1> QED  BY <1>1, <1>2, <1>3 DEF Import

(* Recovery restores what Durable already is, and opens what it left. *)
LEMMA UnlockMaps ==
    ASSUME IInv, IInv', Alone, NEW u \in Unlockers, UnlockStart(u) \/ Unlock(u)
    PROVE  Promise!Reopen \/ Stutter
  <1> USE DEF disk, memory, import, unlocks, counters
  <1>1. CASE UnlockStart(u) \/ ReadJournal(u) \/ ReadCommittedTransaction(u)
    BY <1>1 DEF UnlockStart, ReadJournal, ReadCommittedTransaction,
                Stutter, Durable, Uncommitted, Empty
  <1>a. CASE upc[u] # "idle"
    <2>1. u = App /\ pc = "idle" /\ cur = None
      BY <1>a DEF IInv, Sequencing
    <2>2. CASE RecoverRestores(u)
      <3>1. UNCHANGED <<backup, journal, db, loose>> /\ Uncommitted /\ Uncommitted'
        BY <2>1, <2>2 DEF RecoverRestores, IInv, Recovering, Uncommitted
      <3> QED  BY <3>1, UndecidedStays DEF Stutter
    <2>3. CASE RecoverRemovesJournal(u)
      <3>1. UNCHANGED <<vault, backup, db, loose>> /\ ~ Uncommitted' /\ vault # None
        BY <2>1, <2>3 DEF RecoverRemovesJournal, IInv, Recovering, Files,
                          Uncommitted
      <3>2. CASE ~ Uncommitted
        BY <3>1, <3>2, DecidedStays DEF Stutter
      <3>3. CASE Uncommitted
        <4>1. vault = backup
          BY <2>1, <2>3, <3>3 DEF RecoverRemovesJournal, IInv, Recovering
        <4> QED  BY <3>1, <3>3, <4>1, DurableIsBackup, DurableNext DEF Stutter
      <3> QED  BY <3>2, <3>3
    <2>4. CASE RecoverRemovesBackup(u)
      <3>1. journal = None /\ UNCHANGED <<vault, journal, db, loose>>
        BY <2>1, <2>4 DEF RecoverRemovesBackup, IInv, Recovering
      <3> QED  BY <3>1, DecidedStays DEF Stutter, Uncommitted
    <2>5. CASE OpenVault(u)
      <3>1. /\ journal = None /\ UNCHANGED <<journal, db>> /\ loose' = Settled
            /\ vault' = IF vault = None THEN Empty ELSE vault
        BY <2>1, <2>5 DEF OpenVault, IInv, Recovering
      <3>2. Durable' = Durable
        BY <3>1, ConstantsAssumption DEF Durable, Uncommitted, Empty
      <3> QED  BY <3>1, <3>2 DEF Promise!Reopen, Promise!Settled, Settled
    <2>6. CASE UnlockFails(u)
      <3>1. UNCHANGED <<backup, journal, db, loose>>
        BY <2>6 DEF UnlockFails
      <3>2. CASE upc[u] = "restore"
        <4>1. Uncommitted /\ Uncommitted'
          BY <2>1, <3>1, <3>2 DEF IInv, Recovering, Uncommitted
        <4> QED  BY <3>1, <4>1, UndecidedStays DEF Stutter
      <3>3. CASE upc[u] # "restore"
        BY <2>6, <3>3 DEF UnlockFails, Stutter, Durable, Uncommitted, Empty
      <3> QED  BY <3>2, <3>3
    <2> QED  BY <1>1, <2>2, <2>3, <2>4, <2>5, <2>6, <1>a DEF Unlock, UnlockStart
  <1>b. CASE upc[u] = "idle"
    BY <1>1, <1>b
    DEF Unlock, RecoverRestores, RecoverRemovesJournal, RecoverRemovesBackup,
        OpenVault, UnlockFails
  <1> QED  BY <1>a, <1>b

(* A crash changes nothing that the promise sees. *)
LEMMA CrashMaps ==
    ASSUME IInv, IInv', Crash
    PROVE  Stutter
  <1>1. UNCHANGED <<journal, db, loose>>
    BY DEF Crash
  <1>2. CASE Uncommitted
    <2>1. Uncommitted' /\ backup' = backup
      BY <1>1, <1>2 DEF Crash, Uncommitted
    <2> QED  BY <1>1, <1>2, <2>1, UndecidedStays DEF Stutter
  <1>3. CASE ~ Uncommitted
    <2>1. ~ Uncommitted' /\ vault' = vault
      BY <1>1, <1>3 DEF Crash, Uncommitted, IInv, Files, Recovering
    <2> QED  BY <1>1, <1>3, <2>1, DecidedStays DEF Stutter
  <1> QED  BY <1>2, <1>3

(* Every step of the code is a step of AtomicStore or changes nothing of   *)
(* it.                                                                     *)
LEMMA StepMaps ==
    ASSUME IInv, IInv', Alone, [Next]_vars
    PROVE  [Promise!Next]_(Promise!vars)
  <1>1. ASSUME NEW s \in Slots, NEW v \in UserVal \cup {None},
               SaveSecret(s, v) \/ SaveFails(s, v)
        PROVE  Promise!Next
    BY <1>1, SaveMaps, SaveFailsMaps DEF Promise!Next, Val
  <1>2. ASSUME NEW A \in SUBSET ProfileSlots, ImportStart(A)
        PROVE  Stutter
    BY <1>2 DEF ImportStart, disk, Stutter, Durable, Uncommitted, Empty
  <1>3. ASSUME Import
        PROVE  Promise!Next \/ Stutter
    <2>1. ASSUME NEW t \in Tx, BeginWritesJournal(t)
          PROVE  Promise!Next
      BY <2>1, JournalMaps DEF Promise!Next
    <2>2. ASSUME Commit
          PROVE  Promise!Next
      <3>1. tx \in Tx /\ active \in SUBSET Slots
        BY <2>2 DEF Commit, IInv, TypeOK, Files, Journal, Slots
      <3> QED  BY <2>2, <3>1, CommitMaps DEF Promise!Next
    <2>3. ASSUME RemoveJournal
          PROVE  Promise!Next \/ Stutter
      BY <2>3, RemoveJournalMaps DEF Promise!Next
    <2> QED  BY <1>3, <2>1, <2>2, <2>3, ImportStutters
  <1>4. ASSUME NEW u \in Unlockers, UnlockStart(u) \/ Unlock(u)
        PROVE  Promise!Next \/ Stutter
    BY <1>4, UnlockMaps DEF Promise!Next
  <1>5. ASSUME Lock \/ Crash
        PROVE  Stutter
    <2>1. CASE Lock
      BY <2>1 DEF Lock, disk, Stutter, Durable, Uncommitted, Empty
    <2> QED  BY <1>5, <2>1, CrashMaps
  <1>6. ASSUME UNCHANGED vars
        PROVE  Stutter
    BY <1>6 DEF vars, disk, Stutter, Durable, Uncommitted, Empty
  <1> QED  BY <1>1, <1>2, <1>3, <1>4, <1>5, <1>6 DEF Next, Stutter, Promise!vars

(* An import with its journal, over every crash, error and interleaving     *)
(* that Alone allows, is one atomic step of the vault and the database      *)
(* together (apply_transfer_data and recover_pending_connection_transfer).  *)
THEOREM Refinement ==
    ASSUME Alone
    PROVE  Spec => ImplementsAtomicStore
  <1>1. Init => Promise!Init
    BY InitMaps
  <1>2. IInv /\ IInv' /\ [Next]_vars => [Promise!Next]_(Promise!vars)
    BY StepMaps
  <1> QED  BY <1>1, <1>2, Invariance, PTL
  DEF Spec, ImplementsAtomicStore, Promise!Spec

====
