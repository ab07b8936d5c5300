------------------------------ MODULE ChainClient ------------------------------
(***************************************************************************)
(* The relayer's access to the chain (packages/relayer/src/chain.rs): the  *)
(* check of a DKIM key and the transaction that registers one, sent from   *)
(* one account by callers that run concurrently on several replicas.       *)
(*                                                                         *)
(* Each await is a step.  SHARED_MUTEX (statics.rs) is a tokio mutex, a    *)
(* first-in first-out queue per process: the caller at the head holds it.  *)
(* The node, its mempool and the registry are external and modelled from   *)
(* how chain.rs uses them: the signer asks the node for the next nonce     *)
(* when it fills in a transaction, the node refuses a nonce that is used   *)
(* or pending, and a registry call that would revert fails when its gas is *)
(* estimated.                                                              *)
(***************************************************************************)
EXTENDS SequencesExt

CONSTANTS
    Callers,      \* the tasks that may send a transaction
    Replicas,     \* the relayer processes, each with its own SHARED_MUTEX
    ReplicaOf,    \* ReplicaOf[c]: the process that runs caller c
    Keys, NoKey,  \* public key hashes (of one domain), and none
    Faults        \* what may go wrong: a subset of FaultKinds

FaultKinds == {"rpc", "confirmation", "disconnect", "crash", "db", "smtp", "commandTemplate",
               "answerTemplate", "email", "config", "oracle", "malformed", "rotation", "prover"}

ASSUME ReplicaAssumption == ReplicaOf \in [Callers -> Replicas]
ASSUME FaultAssumption == Faults \subseteq FaultKinds
ASSUME KeyAssumption == NoKey \notin Keys

VARIABLES
    chainPc,     \* where each caller is in set_dkim_public_key_hash
    mutexQueue,  \* mutexQueue[p]: the callers at SHARED_MUTEX of process p, holder first
    txKey,       \* txKey[c]: the key that caller c was asked to register
    txNonce,     \* txNonce[c]: the nonce filled into caller c's transaction
    mempool,     \* the callers whose transaction was accepted and not yet mined
    nextNonce,   \* the nonce of the account's next transaction, on the chain
    onChain      \* the keys the registry holds

chainVars == <<chainPc, mutexQueue, txKey, txNonce, mempool, nextNonce, onChain>>

ChainPcs == {"idle", "lock", "filled", "pending", "done", "alreadySet", "nonceConflict",
             "failed", "abandoned"}

ChainInit ==
    /\ chainPc = [c \in Callers |-> "idle"]
    /\ mutexQueue = [p \in Replicas |-> <<>>]
    /\ txKey = [c \in Callers |-> NoKey]
    /\ txNonce = [c \in Callers |-> 0]
    /\ mempool = {}
    /\ nextNonce = 0
    /\ onChain = {}

\* check_if_dkim_public_key_hash_valid, when the node answers.
KeyRegistered(key) == key \in onChain

\* Mutation: the mutex stays locked.
KeepLocked(c) == UNCHANGED mutexQueue

\* The mutex guard is dropped: at the end of the function, at every `?` that
\* returns an error, and when the task is cancelled.
Unlock(c) ==
    mutexQueue' = [mutexQueue EXCEPT ![ReplicaOf[c]] = RemoveFirst(@, c)]

\* Mutation: the guard is dropped as soon as it is taken (`let _ = lock`).
GuardDroppedAtOnce(c) == TRUE

HoldsMutex(c) ==
    /\ mutexQueue[ReplicaOf[c]] # <<>>
    /\ Head(mutexQueue[ReplicaOf[c]]) = c

Return(c, pc) ==
    /\ chainPc' = [chainPc EXCEPT ![c] = pc]
    /\ Unlock(c)

-------------------------------------------------------------------------------
\* set_dkim_public_key_hash(key), as called by c

Lock(c, key) ==
    /\ chainPc[c] = "idle"
    /\ chainPc' = [chainPc EXCEPT ![c] = "lock"]
    /\ mutexQueue' = [mutexQueue EXCEPT ![ReplicaOf[c]] = Append(@, c)]
    /\ txKey' = [txKey EXCEPT ![c] = key]
    /\ UNCHANGED <<txNonce, mempool, nextNonce, onChain>>

\* main_authorizer().call(), then the first half of call.send(): the gas estimate,
\* which fails if the key is registered by now, and the nonce.
FillTransaction(c) ==
    /\ chainPc[c] = "lock"
    /\ HoldsMutex(c)
    /\ IF txKey[c] \in onChain
       THEN Return(c, "alreadySet") /\ UNCHANGED txNonce
       ELSE /\ chainPc' = [chainPc EXCEPT ![c] = "filled"]
            /\ txNonce' = [txNonce EXCEPT ![c] = nextNonce]
            /\ UNCHANGED mutexQueue
    /\ UNCHANGED <<txKey, mempool, nextNonce, onChain>>

NonceTaken(nonce) == nonce < nextNonce \/ \E c \in mempool : txNonce[c] = nonce

\* The second half of call.send(): the node takes the signed transaction.
SendTransaction(c) ==
    /\ chainPc[c] = "filled"
    /\ IF NonceTaken(txNonce[c])
       THEN Return(c, "nonceConflict") /\ UNCHANGED mempool
       ELSE /\ chainPc' = [chainPc EXCEPT ![c] = "pending"]
            /\ mempool' = mempool \union {c}
            /\ UNCHANGED mutexQueue
    /\ UNCHANGED <<txKey, txNonce, nextNonce, onChain>>

\* The chain includes c's transaction; if the key is registered already it reverts.
Mine(c) ==
    /\ c \in mempool
    /\ txNonce[c] = nextNonce
    /\ mempool' = mempool \ {c}
    /\ nextNonce' = nextNonce + 1
    /\ onChain' = onChain \union {txKey[c]}
    /\ UNCHANGED <<chainPc, mutexQueue, txKey, txNonce>>

\* confirmations(1) returns a receipt; its status is not looked at.
Confirm(c) ==
    /\ chainPc[c] = "pending"
    /\ c \notin mempool
    /\ Return(c, "done")
    /\ UNCHANGED <<txKey, txNonce, mempool, nextNonce, onChain>>

\* The node fails before it has taken the transaction.
RpcFails(c) ==
    /\ "rpc" \in Faults
    /\ (chainPc[c] = "lock" /\ HoldsMutex(c)) \/ chainPc[c] = "filled"
    /\ Return(c, "failed")
    /\ UNCHANGED <<txKey, txNonce, mempool, nextNonce, onChain>>

\* Waiting for the confirmation ends with an error or "No receipt".
ConfirmationFails(c) ==
    /\ "confirmation" \in Faults
    /\ chainPc[c] = "pending"
    /\ Return(c, "abandoned")
    /\ UNCHANGED <<txKey, txNonce, mempool, nextNonce, onChain>>

\* The tasks in `gone` are dropped where they wait, their transactions are not.
GiveUp(gone) ==
    /\ chainPc' = [c \in Callers |->
           IF c \in gone /\ chainPc[c] \in {"lock", "filled"} THEN "failed"
           ELSE IF c \in gone /\ chainPc[c] = "pending" THEN "abandoned"
           ELSE chainPc[c]]
    /\ UNCHANGED <<txKey, txNonce, mempool, nextNonce, onChain>>

\* Only c's task ends, or the whole process p with the mutex and all who wait for it.
DropCaller(c) == GiveUp({c}) /\ Unlock(c)

DropProcess(p) ==
    /\ GiveUp({c \in Callers : ReplicaOf[c] = p})
    /\ mutexQueue' = [mutexQueue EXCEPT ![p] = <<>>]

-------------------------------------------------------------------------------

\* A step of c once it asked for the lock.
ChainStep(c) ==
    \/ FillTransaction(c)
    \/ SendTransaction(c)
    \/ Confirm(c)
    \/ RpcFails(c)
    \/ ConfirmationFails(c)

ChainNext ==
    \/ \E c \in Callers : ChainStep(c) \/ Mine(c) \/ \E key \in Keys : Lock(c, key)
    \/ "disconnect" \in Faults /\ \E c \in Callers : DropCaller(c)
    \/ "crash" \in Faults /\ \E p \in Replicas : DropProcess(p)

ChainSpec == ChainInit /\ [][ChainNext]_chainVars

-------------------------------------------------------------------------------

ChainTypeOK ==
    /\ chainPc \in [Callers -> ChainPcs]
    /\ mutexQueue \in [Replicas -> Seq(Callers)]
    /\ txKey \in [Callers -> Keys \union {NoKey}]
    /\ txNonce \in [Callers -> Nat]
    /\ mempool \subseteq Callers
    /\ nextNonce \in Nat
    /\ onChain \subseteq Keys

\* chain.rs:66, "Mutex is used to prevent nonce conflicts": no caller's transaction
\* is refused because its nonce is used or pending.
NoNonceConflict == \A c \in Callers : chainPc[c] # "nonceConflict"

\* What SHARED_MUTEX does prevent: with one process, a transaction is refused for its
\* nonce only when an earlier caller gave up on a transaction it had already sent, and
\* that transaction took the nonce.
AbandonedWithNonceOf(c) ==
    \E d \in Callers \ {c} : chainPc[d] = "abandoned" /\ txNonce[d] = txNonce[c]

ConflictNeedsAbandonedTransaction ==
    \A c \in Callers : chainPc[c] = "nonceConflict" => AbandonedWithNonceOf(c)
===============================================================================
