---------------------------- MODULE AtomicStore ----------------------------
(***************************************************************************)
(* What the secret vault and the database promise together, whatever files *)
(* hold them: an import replaces the secrets of the profiles it brings and *)
(* becomes the last committed import in one step or not at all, a save     *)
(* that was acknowledged holds, and nothing else moves a secret.           *)
(*                                                                         *)
(* `loose' is what the promise leaves open.  A save whose write failed, or *)
(* that was made while an import was still undecided, may or may not turn  *)
(* up in the vault later: its value stays in `loose' until the next write  *)
(* settles it.                                                             *)
(***************************************************************************)
CONSTANTS
    Slots,          \* secret slots of the vault
    Val,            \* what a slot may hold
    Tx,             \* transaction ids of imports; each is also a value
    PriorTx,        \* the import committed before the behaviour starts
    None            \* no import; also an empty slot

VARIABLES
    db,             \* the last committed import
    secrets,        \* the secrets a crash at this instant would leave
    loose           \* per slot, values that may still turn up

vars == <<db, secrets, loose>>

Settled == [s \in Slots |-> {}]

(* Slots outside A keep their value or take one that was left open. *)
OthersKept(A) ==
    \A s \in Slots \ A : secrets'[s] \in {secrets[s]} \cup loose[s]

Init ==
    /\ db = PriorTx
    /\ secrets = [s \in Slots |-> None]
    /\ loose = Settled

Save(s, v) ==
    /\ secrets' \in [Slots -> Val]
    /\ secrets'[s] = v
    /\ OthersKept({s})
    /\ loose' = Settled
    /\ UNCHANGED db

(* The save failed or came while an import was undecided. *)
OpenSave(s, v) ==
    /\ secrets' \in [Slots -> Val]
    /\ secrets'[s] \in {secrets[s], v}
    /\ OthersKept({s})
    /\ loose' = [loose EXCEPT ![s] = @ \cup {v, secrets[s]}]
    /\ UNCHANGED db

(* The fate of an open slot shows. *)
Settle ==
    /\ secrets' \in [Slots -> Val]
    /\ OthersKept({})
    /\ UNCHANGED <<db, loose>>

Import(t, A) ==
    /\ db # t
    /\ db' = t
    /\ secrets' \in [Slots -> Val]
    /\ \A s \in A : secrets'[s] = t
    /\ OthersKept(A)
    /\ loose' = [s \in Slots |-> IF s \in A THEN {} ELSE loose[s]]

(* The vault is read again from its file: nothing in memory is pending. *)
Reopen ==
    /\ loose' = Settled
    /\ UNCHANGED <<db, secrets>>

Next ==
    \/ \E s \in Slots, v \in Val : Save(s, v) \/ OpenSave(s, v)
    \/ \E t \in Tx, A \in SUBSET Slots : Import(t, A)
    \/ Settle \/ Reopen

Spec == Init /\ [][Next]_vars
=============================================================================
