--------------------------- MODULE ChainClientProofs ---------------------------
(***************************************************************************)
(* SHARED_MUTEX and the nonces, for all callers, processes and keys.       *)
(*                                                                         *)
(* The lock is the queue: whoever is between taking and releasing it is in *)
(* the queue of its process once, and works on its transaction only at the *)
(* head.  So, with one process, nobody else sends between the moment a     *)
(* caller reads the next nonce and the moment its transaction is taken,    *)
(* and only a transaction that is still under way can move the nonce in    *)
(* between: its sender gave up on it.                                      *)
(*                                                                         *)
(* The lemmas on steps are about ChainMove, which leaves the faults open,  *)
(* so that they hold as well for the steps of Relayer.                     *)
(***************************************************************************)
EXTENDS ChainClient, SequenceTheorems, TLAPS

\* A queue holds nobody twice.
Queue(q) == q \in Seq(Callers) /\ IsInjective(q)

\* Removing the first occurrence, where there is only one.
LEMMA RemoveFirstAt ==
    ASSUME NEW q, Queue(q), NEW c, NEW i \in 1..Len(q), q[i] = c
    PROVE  RemoveFirst(q, c) = SubSeq(q, 1, i - 1) \o SubSeq(q, i + 1, Len(q))
  <1>1. {j \in 1..Len(q) : q[j] = c} = {i}
    BY DEF Queue, IsInjective
  <1>2. Min({i}) = i
    BY DEF Min
  <1>3. SelectInSeq(q, LAMBDA v : v = c) = i
    BY <1>1, <1>2 DEF SelectInSeq
  <1> QED
    BY <1>3 DEF RemoveFirst, RemoveAt

\* What is left when somebody leaves a queue: everybody else, and the same head, unless
\* it was the head who left.
LEMMA RemoveFirstQueue ==
    ASSUME NEW q, Queue(q), NEW c
    PROVE  /\ Queue(RemoveFirst(q, c))
           /\ \A d : d \in Range(RemoveFirst(q, c)) <=> d \in Range(q) /\ d # c
           /\ q # <<>> /\ Head(q) # c =>
                  RemoveFirst(q, c) # <<>> /\ Head(RemoveFirst(q, c)) = Head(q)
  <1>1. CASE \E i \in 1..Len(q) : q[i] = c
    <2>1. PICK i \in 1..Len(q) : q[i] = c
      BY <1>1
    <2> DEFINE r == [j \in 1..(Len(q) - 1) |-> IF j < i THEN q[j] ELSE q[j + 1]]
    <2> DEFINE before == SubSeq(q, 1, i - 1)
               after == SubSeq(q, i + 1, Len(q))
    <2>2. /\ q \in Seq(Callers)
          /\ Len(q) \in Nat
          /\ \A j \in 1..Len(q) : q[j] \in Callers
      BY DEF Queue
    <2>3. r \in Seq(Callers) /\ Len(r) = Len(q) - 1 /\ DOMAIN r = 1..(Len(q) - 1)
      BY <2>2
    <2>4. RemoveFirst(q, c) = r
      <3>1. /\ before \in Seq(Callers)
            /\ Len(before) = i - 1
            /\ \A j \in 1..(i - 1) : before[j] = q[j]
        BY <2>2
      <3>2. /\ after \in Seq(Callers)
            /\ Len(after) = Len(q) - i
            /\ \A j \in 1..(Len(q) - i) : after[j] = q[i + j]
        BY <2>2
      <3> HIDE DEF before, after
      <3>3. /\ before \o after \in Seq(Callers)
            /\ Len(before \o after) = Len(q) - 1
            /\ \A j \in 1..(Len(q) - 1) :
                   (before \o after)[j] = IF j <= i - 1 THEN before[j] ELSE after[j - (i - 1)]
        <4>1. /\ before \o after \in Seq(Callers)
              /\ Len(before \o after) = Len(before) + Len(after)
              /\ \A j \in 1..(Len(before) + Len(after)) :
                     (before \o after)[j] = IF j <= Len(before) THEN before[j] ELSE after[j - Len(before)]
          BY <3>1, <3>2, ConcatProperties
        <4>2. Len(before) + Len(after) = Len(q) - 1
          BY <2>2, <3>1, <3>2
        <4> QED
          BY <3>1, <4>1, <4>2
      <3>4. \A j \in 1..(Len(q) - 1) : (before \o after)[j] = r[j]
        BY <2>2, <3>1, <3>2, <3>3
      <3>5. before \o after = r
        <4> HIDE DEF r
        <4> QED
          BY <2>3, <3>3, <3>4, SeqEqual
      <3> QED
        BY <2>1, <3>5, RemoveFirstAt DEF before, after
    <2>5. IsInjective(r)
      BY DEF Queue, IsInjective
    <2>6. ASSUME NEW d PROVE d \in Range(r) <=> d \in Range(q) /\ d # c
      <3>1. ASSUME d \in Range(r) PROVE d \in Range(q) /\ d # c
        BY <2>1, <3>1 DEF Queue, IsInjective, Range
      <3>2. ASSUME d \in Range(q), d # c PROVE d \in Range(r)
        <4>1. PICK j \in 1..Len(q) : q[j] = d
          BY <3>2 DEF Queue, Range
        <4>2. CASE j < i
          <5>1. j \in DOMAIN r /\ r[j] = d
            BY <2>2, <2>3, <4>1, <4>2
          <5> QED
            BY <5>1 DEF Range
        <4>3. CASE j > i
          <5>1. j - 1 \in DOMAIN r /\ r[j - 1] = d
            BY <2>2, <2>3, <4>1, <4>3
          <5> QED
            BY <5>1 DEF Range
        <4> QED
          BY <4>1, <4>2, <4>3, <3>2, <2>1
      <3> QED
        BY <3>1, <3>2
    <2>7. ASSUME q # <<>>, Head(q) # c PROVE r # <<>> /\ Head(r) = Head(q)
      <3>1. i # 1 /\ Len(q) >= 2
        BY <2>1, <2>2, <2>7
      <3>2. r[1] = q[1]
        BY <2>2, <3>1
      <3> HIDE DEF r
      <3> QED
        BY <2>2, <2>3, <2>7, <3>1, <3>2
    <2> QED
      BY <2>3, <2>4, <2>5, <2>6, <2>7 DEF Queue
  <1>2. CASE ~\E i \in 1..Len(q) : q[i] = c
    BY <1>2 DEF RemoveFirst, Queue, Range
  <1> QED
    BY <1>1, <1>2

\* Somebody new joins at the end.
LEMMA AppendQueue ==
    ASSUME NEW q, Queue(q), NEW c \in Callers, c \notin Range(q)
    PROVE  /\ Queue(Append(q, c))
           /\ \A d : d \in Range(Append(q, c)) <=> d \in Range(q) \/ d = c
           /\ q # <<>> => Append(q, c) # <<>> /\ Head(Append(q, c)) = Head(q)
  <1>1. Append(q, c) \in Seq(Callers) /\ Len(Append(q, c)) = Len(q) + 1
    BY DEF Queue
  <1>2. IsInjective(Append(q, c))
    BY <1>1 DEF Queue, IsInjective, Range
  <1>3. ASSUME NEW d PROVE d \in Range(Append(q, c)) <=> d \in Range(q) \/ d = c
    BY <1>1 DEF Queue, Range
  <1>4. q # <<>> => Append(q, c) # <<>> /\ Head(Append(q, c)) = Head(q)
    BY <1>1 DEF Queue
  <1> QED
    BY <1>1, <1>2, <1>3, <1>4 DEF Queue

-------------------------------------------------------------------------------

\* c has asked for the lock and set_dkim_public_key_hash has not returned.
InCall(c) == chainPc[c] \in {"lock", "filled", "pending"}

\* Whoever is in the call is in the queue of its process, once, and sends and waits
\* for its transaction only at the head.
MutexInv ==
    /\ \A p \in Replicas :
        /\ Queue(mutexQueue[p])
        /\ \A c \in Callers : c \in Range(mutexQueue[p]) <=> ReplicaOf[c] = p /\ InCall(c)
    /\ \A c \in Callers : chainPc[c] \in {"filled", "pending"} => HoldsMutex(c)

\* Transactions are sent by callers that wait or gave up, for a key.  A caller that
\* returned "done", or waits for a transaction that left the mempool, has its key in the
\* registry.
KeyInv ==
    \A c \in Callers :
        /\ chainPc[c] = "idle" => txKey[c] = NoKey
        /\ chainPc[c] # "idle" => txKey[c] \in Keys
        /\ c \in mempool => chainPc[c] \in {"pending", "abandoned"}
        /\ chainPc[c] = "pending" => c \in mempool \/ txKey[c] \in onChain
        /\ chainPc[c] = "done" => txKey[c] \in onChain

\* The nonce of the transaction that is about to be sent is taken only by one whose
\* sender gave up waiting.
NonceInv ==
    /\ \A c \in Callers : chainPc[c] = "filled" =>
        txNonce[c] = nextNonce \/ AbandonedWithNonceOf(c)
    /\ ConflictNeedsAbandonedTransaction

ChainInv == ChainTypeOK /\ MutexInv /\ KeyInv

\* The steps of ChainNext, whatever the faults.
ChainMove ==
    \/ \E c \in Callers : ChainStep(c) \/ Mine(c) \/ (\E key \in Keys : Lock(c, key)) \/ DropCaller(c)
    \/ \E p \in Replicas : DropProcess(p)
    \/ UNCHANGED chainVars

\* c leaves the queue; whoever was at the head and stays, stays at the head.
LEMMA UnlockMutex ==
    ASSUME ChainTypeOK, MutexInv, NEW c \in Callers, Unlock(c), ~InCall(c)',
           \A d \in Callers \ {c} : chainPc'[d] = chainPc[d]
    PROVE  MutexInv' /\ mutexQueue' \in [Replicas -> Seq(Callers)]
  <1> DEFINE r == ReplicaOf[c]
  <1>1. r \in Replicas /\ Queue(mutexQueue[r])
    BY ReplicaAssumption DEF MutexInv
  <1>2. /\ mutexQueue'[r] = RemoveFirst(mutexQueue[r], c)
        /\ \A p \in Replicas \ {r} : mutexQueue'[p] = mutexQueue[p]
        /\ DOMAIN mutexQueue' = Replicas
    BY <1>1 DEF ChainTypeOK, Unlock
  <1>3. /\ Queue(mutexQueue'[r])
        /\ \A d : d \in Range(mutexQueue'[r]) <=> d \in Range(mutexQueue[r]) /\ d # c
        /\ mutexQueue[r] # <<>> /\ Head(mutexQueue[r]) # c =>
               mutexQueue'[r] # <<>> /\ Head(mutexQueue'[r]) = Head(mutexQueue[r])
    BY <1>1, <1>2, RemoveFirstQueue
  <1>4. mutexQueue' \in [Replicas -> Seq(Callers)]
    <2>1. \A p \in Replicas : mutexQueue'[p] \in Seq(Callers)
      BY <1>2, <1>3 DEF Queue, ChainTypeOK
    <2>2. mutexQueue' = [p \in Replicas |-> mutexQueue'[p]]
      BY <1>2 DEF Unlock, ChainTypeOK
    <2> QED
      BY <2>1, <2>2
  <1>5. ASSUME NEW p \in Replicas
        PROVE  /\ Queue(mutexQueue'[p])
               /\ \A d \in Callers : d \in Range(mutexQueue'[p]) <=> ReplicaOf[d] = p /\ InCall(d)'
    <2>1. CASE p = r
      BY <1>2, <1>3, <2>1 DEF MutexInv, InCall
    <2>2. CASE p # r
      BY <1>2, <2>2 DEF MutexInv, InCall
    <2> QED
      BY <2>1, <2>2
  <1>6. ASSUME NEW d \in Callers, chainPc'[d] \in {"filled", "pending"} PROVE HoldsMutex(d)'
    <2>1. d # c
      BY <1>6 DEF InCall
    <2>2. HoldsMutex(d) /\ ReplicaOf[d] \in Replicas
      BY <1>6, <2>1, ReplicaAssumption DEF MutexInv
    <2>3. CASE ReplicaOf[d] = r
      BY <1>3, <2>1, <2>2, <2>3 DEF HoldsMutex
    <2>4. CASE ReplicaOf[d] # r
      BY <1>2, <2>2, <2>4 DEF HoldsMutex
    <2> QED
      BY <2>3, <2>4
  <1> QED
    BY <1>4, <1>5, <1>6 DEF MutexInv

\* c joins the queue at its end.
LEMMA LockMutex ==
    ASSUME ChainTypeOK, MutexInv, NEW c \in Callers, NEW key \in Keys, Lock(c, key)
    PROVE  MutexInv' /\ mutexQueue' \in [Replicas -> Seq(Callers)]
  <1> DEFINE r == ReplicaOf[c]
  <1>1. r \in Replicas /\ Queue(mutexQueue[r]) /\ c \notin Range(mutexQueue[r])
    BY ReplicaAssumption DEF MutexInv, InCall, Lock
  <1>2. /\ mutexQueue'[r] = Append(mutexQueue[r], c)
        /\ \A p \in Replicas \ {r} : mutexQueue'[p] = mutexQueue[p]
        /\ mutexQueue' = [p \in Replicas |-> mutexQueue'[p]]
    BY <1>1 DEF ChainTypeOK, Lock
  <1>3. /\ Queue(mutexQueue'[r])
        /\ \A d : d \in Range(mutexQueue'[r]) <=> d \in Range(mutexQueue[r]) \/ d = c
        /\ mutexQueue[r] # <<>> =>
               mutexQueue'[r] # <<>> /\ Head(mutexQueue'[r]) = Head(mutexQueue[r])
    BY <1>1, <1>2, AppendQueue
  <1>4. chainPc'[c] = "lock" /\ \A d \in Callers \ {c} : chainPc'[d] = chainPc[d]
    BY DEF Lock, ChainTypeOK
  <1>5. mutexQueue' \in [Replicas -> Seq(Callers)]
    <2>1. \A p \in Replicas : mutexQueue'[p] \in Seq(Callers)
      BY <1>2, <1>3 DEF Queue, ChainTypeOK
    <2> QED
      BY <1>2, <2>1
  <1>6. ASSUME NEW p \in Replicas
        PROVE  /\ Queue(mutexQueue'[p])
               /\ \A d \in Callers : d \in Range(mutexQueue'[p]) <=> ReplicaOf[d] = p /\ InCall(d)'
    <2>1. CASE p = r
      BY <1>3, <1>4, <2>1 DEF MutexInv, InCall
    <2>2. CASE p # r
      BY <1>2, <1>4, <2>2 DEF MutexInv, InCall
    <2> QED
      BY <2>1, <2>2
  <1>7. ASSUME NEW d \in Callers, chainPc'[d] \in {"filled", "pending"} PROVE HoldsMutex(d)'
    <2>1. d # c /\ HoldsMutex(d) /\ ReplicaOf[d] \in Replicas
      BY <1>4, <1>7, ReplicaAssumption DEF MutexInv
    <2> QED
      BY <1>2, <1>3, <2>1 DEF HoldsMutex
  <1> QED
    BY <1>5, <1>6, <1>7 DEF MutexInv

\* A process ends, and its queue with it.
LEMMA DropProcessMutex ==
    ASSUME ChainTypeOK, MutexInv, NEW p \in Replicas, DropProcess(p)
    PROVE  MutexInv' /\ mutexQueue' \in [Replicas -> Seq(Callers)]
  <1>1. /\ mutexQueue'[p] = <<>>
        /\ \A q \in Replicas \ {p} : mutexQueue'[q] = mutexQueue[q]
        /\ mutexQueue' \in [Replicas -> Seq(Callers)]
    BY DEF ChainTypeOK, DropProcess
  <1>2. /\ \A c \in Callers : ReplicaOf[c] = p => ~InCall(c)'
        /\ \A c \in Callers : ReplicaOf[c] # p => chainPc'[c] = chainPc[c]
    BY DEF ChainTypeOK, ChainPcs, DropProcess, GiveUp, InCall
  <1>3. Queue(<<>>) /\ \A c : c \notin Range(<<>>)
    BY DEF Queue, IsInjective, Range
  <1>4. ASSUME NEW q \in Replicas
        PROVE  /\ Queue(mutexQueue'[q])
               /\ \A d \in Callers : d \in Range(mutexQueue'[q]) <=> ReplicaOf[d] = q /\ InCall(d)'
    BY <1>1, <1>2, <1>3 DEF MutexInv, InCall
  <1>5. ASSUME NEW d \in Callers, chainPc'[d] \in {"filled", "pending"} PROVE HoldsMutex(d)'
    <2>1. ReplicaOf[d] \in Replicas \ {p} /\ HoldsMutex(d)
      BY <1>2, <1>5, ReplicaAssumption DEF MutexInv, InCall
    <2> QED
      BY <1>1, <2>1 DEF HoldsMutex
  <1> QED
    BY <1>1, <1>4, <1>5 DEF MutexInv

-------------------------------------------------------------------------------

\* The invariants hold at the start.
LEMMA ChainInitInv == ChainInit => ChainInv /\ NonceInv
  <1> SUFFICES ASSUME ChainInit PROVE ChainInv /\ NonceInv
    OBVIOUS
  <1>1. ChainTypeOK
    BY DEF ChainInit, ChainTypeOK, ChainPcs
  <1>2. Queue(<<>>) /\ \A c : c \notin Range(<<>>)
    BY DEF Queue, IsInjective, Range
  <1>3. MutexInv
    BY <1>2 DEF ChainInit, MutexInv, InCall
  <1>4. KeyInv
    BY DEF ChainInit, KeyInv
  <1>5. NonceInv
    BY DEF ChainInit, NonceInv, ConflictNeedsAbandonedTransaction
  <1> QED
    BY <1>1, <1>3, <1>4, <1>5 DEF ChainInv

\* set_dkim_public_key_hash returns to c, for whatever reason.
LEMMA ReturnMutex ==
    ASSUME ChainTypeOK, MutexInv, NEW c \in Callers, NEW pc \in ChainPcs, Return(c, pc),
           pc \notin {"lock", "filled", "pending"}
    PROVE  /\ MutexInv' /\ mutexQueue' \in [Replicas -> Seq(Callers)]
           /\ chainPc' = [chainPc EXCEPT ![c] = pc]
           /\ chainPc' \in [Callers -> ChainPcs]
  <1>1. /\ chainPc' = [chainPc EXCEPT ![c] = pc] /\ Unlock(c)
        /\ chainPc' \in [Callers -> ChainPcs]
    BY DEF Return, ChainTypeOK
  <1>2. ~InCall(c)' /\ \A d \in Callers \ {c} : chainPc'[d] = chainPc[d]
    BY <1>1 DEF InCall, ChainTypeOK
  <1> QED
    BY <1>1, <1>2, UnlockMutex

\* c goes on while it holds the mutex.
LEMMA HolderMutex ==
    ASSUME ChainTypeOK, MutexInv, NEW c \in Callers, HoldsMutex(c), InCall(c), UNCHANGED mutexQueue,
           NEW pc \in {"filled", "pending"}, chainPc' = [chainPc EXCEPT ![c] = pc]
    PROVE  MutexInv' /\ chainPc' \in [Callers -> ChainPcs]
  <1>1. /\ chainPc'[c] = pc
        /\ \A d \in Callers \ {c} : chainPc'[d] = chainPc[d]
        /\ chainPc' \in [Callers -> ChainPcs]
    BY DEF ChainTypeOK, ChainPcs
  <1>2. \A d \in Callers : InCall(d) <=> InCall(d)'
    BY <1>1 DEF InCall
  <1>3. \A d \in Callers : HoldsMutex(d) <=> HoldsMutex(d)'
    BY DEF HoldsMutex
  <1> QED
    BY <1>1, <1>2, <1>3 DEF MutexInv

\* The mutex, the types and what is known of the keys survive every step.
LEMMA ChainMoveInv == ChainInv /\ ChainMove => ChainInv'
  <1> SUFFICES ASSUME ChainInv, ChainMove PROVE ChainInv'
    OBVIOUS
  <1> USE DEF ChainInv
  <1>1. ASSUME NEW c \in Callers, FillTransaction(c) PROVE ChainInv'
    <2>1. CASE txKey[c] \in onChain
      <3>1. Return(c, "alreadySet") /\ UNCHANGED <<txKey, txNonce, mempool, nextNonce, onChain>>
        BY <1>1, <2>1 DEF FillTransaction
      <3>2. MutexInv' /\ ChainTypeOK'
        BY <3>1, ReturnMutex DEF ChainPcs, ChainTypeOK
      <3> QED
        BY <1>1, <3>1, <3>2 DEF FillTransaction, Return, KeyInv, ChainTypeOK
    <2>2. CASE txKey[c] \notin onChain
      <3>1. /\ chainPc' = [chainPc EXCEPT ![c] = "filled"]
            /\ UNCHANGED <<mutexQueue, txKey, mempool, nextNonce, onChain>>
            /\ txNonce' = [txNonce EXCEPT ![c] = nextNonce]
            /\ chainPc[c] = "lock" /\ HoldsMutex(c)
        BY <1>1, <2>2 DEF FillTransaction
      <3>2. MutexInv' /\ chainPc' \in [Callers -> ChainPcs]
        BY <3>1, HolderMutex DEF InCall
      <3>3. ChainTypeOK'
        BY <3>1, <3>2 DEF ChainTypeOK
      <3> QED
        BY <3>1, <3>2, <3>3 DEF KeyInv, ChainTypeOK
    <2> QED
      BY <2>1, <2>2
  <1>2. ASSUME NEW c \in Callers, SendTransaction(c) PROVE ChainInv'
    <2>1. CASE NonceTaken(txNonce[c])
      <3>1. Return(c, "nonceConflict") /\ UNCHANGED <<txKey, txNonce, mempool, nextNonce, onChain>>
        BY <1>2, <2>1 DEF SendTransaction
      <3>2. MutexInv' /\ ChainTypeOK'
        BY <3>1, ReturnMutex DEF ChainPcs, ChainTypeOK
      <3> QED
        BY <1>2, <3>1, <3>2 DEF SendTransaction, Return, KeyInv, ChainTypeOK
    <2>2. CASE ~NonceTaken(txNonce[c])
      <3>1. /\ chainPc' = [chainPc EXCEPT ![c] = "pending"]
            /\ UNCHANGED <<mutexQueue, txKey, txNonce, nextNonce, onChain>>
            /\ mempool' = mempool \union {c}
            /\ chainPc[c] = "filled"
        BY <1>2, <2>2 DEF SendTransaction
      <3>2. MutexInv' /\ chainPc' \in [Callers -> ChainPcs]
        BY <3>1, HolderMutex DEF InCall, MutexInv
      <3>3. ChainTypeOK'
        BY <3>1, <3>2 DEF ChainTypeOK
      <3> QED
        BY <3>1, <3>2, <3>3 DEF KeyInv, ChainTypeOK
    <2> QED
      BY <2>1, <2>2
  <1>3. ASSUME NEW c \in Callers, Confirm(c) PROVE ChainInv'
    <2>1. Return(c, "done") /\ UNCHANGED <<txKey, txNonce, mempool, nextNonce, onChain>>
      BY <1>3 DEF Confirm
    <2>2. MutexInv' /\ ChainTypeOK'
      BY <2>1, ReturnMutex DEF ChainPcs, ChainTypeOK
    <2> QED
      BY <1>3, <2>1, <2>2 DEF Confirm, Return, KeyInv, ChainTypeOK
  <1>4. ASSUME NEW c \in Callers, RpcFails(c) PROVE ChainInv'
    <2>1. Return(c, "failed") /\ UNCHANGED <<txKey, txNonce, mempool, nextNonce, onChain>>
      BY <1>4 DEF RpcFails
    <2>2. MutexInv' /\ ChainTypeOK'
      BY <2>1, ReturnMutex DEF ChainPcs, ChainTypeOK
    <2> QED
      BY <1>4, <2>1, <2>2 DEF RpcFails, Return, KeyInv, ChainTypeOK
  <1>5. ASSUME NEW c \in Callers, ConfirmationFails(c) PROVE ChainInv'
    <2>1. Return(c, "abandoned") /\ UNCHANGED <<txKey, txNonce, mempool, nextNonce, onChain>>
      BY <1>5 DEF ConfirmationFails
    <2>2. MutexInv' /\ ChainTypeOK'
      BY <2>1, ReturnMutex DEF ChainPcs, ChainTypeOK
    <2> QED
      BY <1>5, <2>1, <2>2 DEF ConfirmationFails, Return, KeyInv, ChainTypeOK
  <1>6. ASSUME NEW c \in Callers, Mine(c) PROVE ChainInv'
    <2>1. ChainTypeOK'
      <3>1. txKey[c] \in Keys
        BY <1>6 DEF KeyInv, Mine, ChainTypeOK
      <3> QED
        BY <1>6, <3>1 DEF ChainTypeOK, Mine
    <2>2. MutexInv'
      BY <1>6 DEF Mine, MutexInv, InCall, HoldsMutex
    <2>3. KeyInv'
      BY <1>6 DEF Mine, KeyInv
    <2> QED
      BY <2>1, <2>2, <2>3
  <1>7. ASSUME NEW c \in Callers, NEW key \in Keys, Lock(c, key) PROVE ChainInv'
    <2>1. MutexInv' /\ mutexQueue' \in [Replicas -> Seq(Callers)]
      BY <1>7, LockMutex
    <2> QED
      BY <1>7, <2>1 DEF Lock, ChainTypeOK, ChainPcs, KeyInv
  <1>8. ASSUME NEW gone, GiveUp(gone)
        PROVE  /\ chainPc' \in [Callers -> ChainPcs]
               /\ KeyInv'
    BY <1>8 DEF GiveUp, ChainTypeOK, ChainPcs, KeyInv
  <1>9. ASSUME NEW c \in Callers, DropCaller(c) PROVE ChainInv'
    <2>1. /\ GiveUp({c}) /\ Unlock(c) /\ ~InCall(c)'
          /\ \A d \in Callers \ {c} : chainPc'[d] = chainPc[d]
      BY <1>9 DEF DropCaller, GiveUp, InCall
    <2>2. MutexInv' /\ mutexQueue' \in [Replicas -> Seq(Callers)]
      BY <2>1, UnlockMutex
    <2> QED
      BY <1>8, <2>1, <2>2 DEF GiveUp, ChainTypeOK
  <1>10. ASSUME NEW p \in Replicas, DropProcess(p) PROVE ChainInv'
    <2>1. MutexInv' /\ mutexQueue' \in [Replicas -> Seq(Callers)]
      BY <1>10, DropProcessMutex
    <2>2. PICK gone : GiveUp(gone)
      BY <1>10 DEF DropProcess
    <2> QED
      BY <1>8, <2>1, <2>2 DEF GiveUp, ChainTypeOK
  <1>11. ASSUME UNCHANGED chainVars PROVE ChainInv'
    BY <1>11 DEF chainVars, ChainTypeOK, MutexInv, KeyInv, InCall, HoldsMutex
  <1> QED
    BY <1>1, <1>2, <1>3, <1>4, <1>5, <1>6, <1>7, <1>9, <1>10, <1>11 DEF ChainMove, ChainStep

-------------------------------------------------------------------------------

\* All callers run on one process.
OneProcess == \A c, d \in Callers : ReplicaOf[c] = ReplicaOf[d]

\* Only one caller holds the mutex of a process.
LEMMA MutualExclusion ==
    ASSUME MutexInv, OneProcess, NEW c \in Callers, NEW d \in Callers,
           chainPc[c] \in {"filled", "pending"}, chainPc[d] \in {"filled", "pending"}
    PROVE  c = d
  BY DEF MutexInv, OneProcess, HoldsMutex

\* Who gave up stays so, and nobody else's nonce changes.
LEMMA AbandonedStays ==
    ASSUME NEW c \in Callers, AbandonedWithNonceOf(c), txNonce'[c] = txNonce[c],
           \A d \in Callers : chainPc[d] = "abandoned" =>
               chainPc'[d] = "abandoned" /\ txNonce'[d] = txNonce[d]
    PROVE  AbandonedWithNonceOf(c)'
  BY DEF AbandonedWithNonceOf

\* With one process, the nonce of whoever is about to send stays the next one, unless a
\* transaction that was given up on takes it.
LEMMA NonceMoveInv == ChainInv /\ NonceInv /\ OneProcess /\ ChainMove => NonceInv'
  <1> SUFFICES ASSUME ChainInv, NonceInv, OneProcess, ChainMove PROVE NonceInv'
    OBVIOUS
  <1> USE DEF ChainInv
  <1> DEFINE Fine(c) ==
        /\ chainPc[c] = "filled" => txNonce[c] = nextNonce \/ AbandonedWithNonceOf(c)
        /\ chainPc[c] = "nonceConflict" => AbandonedWithNonceOf(c)
  <1>1. \A c \in Callers : Fine(c)
    BY DEF NonceInv, ConflictNeedsAbandonedTransaction
  <1>2. SUFFICES ASSUME NEW c \in Callers PROVE Fine(c)'
    BY DEF NonceInv, ConflictNeedsAbandonedTransaction
  <1>3. \A d \in Callers : chainPc[d] = "abandoned" =>
            chainPc'[d] = "abandoned" /\ txNonce'[d] = txNonce[d]
    BY DEF ChainMove, ChainStep, FillTransaction, SendTransaction, Confirm, RpcFails,
           ConfirmationFails, Return, Mine, Lock, DropCaller, DropProcess, GiveUp, chainVars,
           ChainTypeOK
  <1>4. ASSUME chainPc'[c] = chainPc[c], txNonce'[c] = txNonce[c], UNCHANGED nextNonce
        PROVE  Fine(c)'
    BY <1>1, <1>3, <1>4, AbandonedStays
  <1>5. ASSUME chainPc'[c] \notin {"filled", "nonceConflict"} PROVE Fine(c)'
    BY <1>5
  <1>6. ASSUME NEW d \in Callers, FillTransaction(d) PROVE Fine(c)'
    <2>1. CASE d = c
      <3>1. chainPc'[c] = "alreadySet" \/ (chainPc'[c] = "filled" /\ txNonce'[c] = nextNonce')
        BY <1>6, <2>1 DEF FillTransaction, Return, ChainTypeOK
      <3> QED
        BY <3>1
    <2>2. CASE d # c
      BY <1>4, <1>6, <2>2 DEF FillTransaction, Return, ChainTypeOK
    <2> QED
      BY <2>1, <2>2
  <1>7. ASSUME NEW d \in Callers, SendTransaction(d) PROVE Fine(c)'
    <2>1. CASE d # c
      BY <1>4, <1>7, <2>1 DEF SendTransaction, Return, ChainTypeOK
    <2>2. CASE d = c /\ ~NonceTaken(txNonce[c])
      BY <1>5, <1>7, <2>2 DEF SendTransaction, ChainTypeOK
    <2>3. CASE d = c /\ NonceTaken(txNonce[c])
      <3>1. AbandonedWithNonceOf(c)
        <4>1. chainPc[c] = "filled"
          BY <1>7, <2>3 DEF SendTransaction
        <4>2. CASE txNonce[c] < nextNonce
          BY <1>1, <4>1, <4>2 DEF ChainTypeOK
        <4>3. CASE \E e \in mempool : txNonce[e] = txNonce[c]
          <5>1. PICK e \in mempool : txNonce[e] = txNonce[c]
            BY <4>3
          <5>2. e \in Callers /\ chainPc[e] \in {"pending", "abandoned"}
            BY DEF ChainTypeOK, KeyInv
          <5>3. chainPc[e] # "pending" /\ e # c
            BY <4>1, <5>2, MutualExclusion
          <5> QED
            BY <5>1, <5>2, <5>3 DEF AbandonedWithNonceOf
        <4> QED
          BY <2>3, <4>2, <4>3 DEF NonceTaken
      <3>2. UNCHANGED txNonce /\ chainPc'[c] = "nonceConflict"
        BY <1>7, <2>3 DEF SendTransaction, Return, ChainTypeOK
      <3> QED
        BY <1>3, <3>1, <3>2, AbandonedStays
    <2> QED
      BY <2>1, <2>2, <2>3
  <1>8. ASSUME NEW d \in Callers, Mine(d) PROVE Fine(c)'
    <2>1. UNCHANGED <<chainPc, txNonce>> /\ txNonce[d] = nextNonce /\ chainPc[d] \in {"pending", "abandoned"}
      BY <1>8 DEF Mine, KeyInv
    <2>2. ASSUME chainPc[c] = "filled", txNonce[c] = nextNonce PROVE AbandonedWithNonceOf(c)
      <3>1. chainPc[d] = "abandoned" /\ d # c
        BY <2>1, <2>2, MutualExclusion
      <3> QED
        BY <2>1, <2>2, <3>1 DEF AbandonedWithNonceOf
    <2> QED
      BY <1>1, <2>1, <2>2 DEF AbandonedWithNonceOf
  <1>9. ASSUME NEW d \in Callers, Confirm(d) \/ RpcFails(d) \/ ConfirmationFails(d) PROVE Fine(c)'
    BY <1>4, <1>5, <1>9 DEF Confirm, RpcFails, ConfirmationFails, Return, ChainTypeOK
  <1>10. ASSUME NEW d \in Callers, NEW key \in Keys, Lock(d, key) PROVE Fine(c)'
    BY <1>4, <1>5, <1>10 DEF Lock, ChainTypeOK
  <1>11. ASSUME NEW gone, GiveUp(gone) PROVE Fine(c)'
    BY <1>4, <1>5, <1>11 DEF GiveUp
  <1>12. CASE UNCHANGED chainVars
    BY <1>4, <1>12 DEF chainVars
  <1> HIDE DEF Fine
  <1> QED
    BY <1>6, <1>7, <1>8, <1>9, <1>10, <1>11, <1>12 DEF ChainMove, ChainStep, DropCaller, DropProcess

\* On each process one caller at a time fills in, sends and awaits a transaction, and
\* nobody who returned, was cancelled or crashed is left in the queue (chain.rs:67-68).
THEOREM ChainInvariance == ChainSpec => []ChainInv
  <1>1. [ChainNext]_chainVars => ChainMove
    BY DEF ChainNext, ChainMove
  <1> QED
    BY <1>1, ChainInitInv, ChainMoveInv, PTL DEF ChainSpec

\* With one process, SHARED_MUTEX leaves only one way to a nonce conflict
\* (chain.rs:66): a transaction that its own sender gave up on.
THEOREM ChainConflicts ==
    ASSUME OneProcess PROVE ChainSpec => []ConflictNeedsAbandonedTransaction
  <1>1. [ChainNext]_chainVars => ChainMove
    BY DEF ChainNext, ChainMove
  <1>2. NonceInv => ConflictNeedsAbandonedTransaction
    BY DEF NonceInv
  <1> QED
    BY <1>1, <1>2, ChainInitInv, ChainMoveInv, NonceMoveInv, PTL DEF ChainSpec
===============================================================================
