-------------------------- MODULE MutexQueueProofs --------------------------
(***************************************************************************)
(* MutexQueue is a lock granted in the order of the calls, for every set   *)
(* of goroutines and every number of calls.  HolderInFront is not          *)
(* inductive: MQInv adds that the list holds the mutex of every goroutine  *)
(* inside Lock or before Unlock, once each (Listed), and that everyone but *)
(* the first waits for the mutex before its own, which is locked (Chain).  *)
(***************************************************************************)
EXTENDS MutexQueue, SequenceTheorems, TLAPS

Owner(i) == muList[i][1]

(* The list holds the mutex of the latest call of every goroutine that is  *)
(* not idle, and no other.                                                 *)
Listed ==
    /\ \A i \in 1..Len(muList) : muList[i] = Mine(Owner(i)) /\ pc[Owner(i)] # "idle"
    /\ \A i, j \in 1..Len(muList) : Owner(i) = Owner(j) => i = j
    /\ \A t \in Threads : pc[t] # "idle" => \E i \in 1..Len(muList) : Owner(i) = t

(* Everyone but the first waits for the mutex before its own; the mutexes  *)
(* of the list are locked, and the first does not wait for any of them.    *)
Chain ==
    /\ \A i \in 2..Len(muList) :
          pc[Owner(i)] = "wait" /\ tailMutex[Owner(i)] = muList[i - 1]
    /\ \A i \in 1..Len(muList) :
          muList[i] \in locked /\ tailMutex[Owner(1)] # muList[i]

(* Mutexes are not used again: the one awaited is of an earlier call or of *)
(* the latest one.                                                         *)
Past ==
    \A t \in Threads : \A s \in Threads : \A c \in 1..MaxCalls :
        tailMutex[t] = <<s, c>> => c <= calls[s]

MQInv == MutexQueueTypeOK /\ Listed /\ Chain /\ Past

-----------------------------------------------------------------------------
(* MQInv holds of the empty list.                                          *)
LEMMA MQInitInv == MutexQueueInit => MQInv
<1> SUFFICES ASSUME MutexQueueInit PROVE MQInv
    OBVIOUS
<1> USE DEF MutexQueueInit
<1>1. MutexQueueTypeOK
  <2>1. muList \in Seq(Mutexes)
      BY EmptySeq
  <2> QED BY <2>1, MaxCallsAssumption DEF MutexQueueTypeOK
<1>2. Listed /\ Chain
    BY DEF Listed, Chain
<1>3. Past
    BY DEF Past, none
<1> QED BY <1>1, <1>2, <1>3 DEF MQInv

(* A goroutine that waits for a mutex is told from one that does not.      *)
LEMMA MutexNotNone == \A m \in Mutexes : m # none
<1> SUFFICES ASSUME NEW t, NEW c PROVE <<t, c>> # <<>>
    BY DEF Mutexes, none
<1> QED OBVIOUS

(* The facts about the list that every case uses.                          *)
LEMMA ListFacts ==
    ASSUME MutexQueueTypeOK
    PROVE  /\ Len(muList) \in Nat
           /\ muList = <<>> <=> Len(muList) = 0
           /\ \A i \in 1..Len(muList) : muList[i] \in Mutexes /\ Owner(i) \in Threads
           /\ muList # <<>> => Head(muList) = muList[1]
<1>1. Len(muList) \in Nat /\ (muList = <<>> <=> Len(muList) = 0)
    BY EmptySeq, LenProperties DEF MutexQueueTypeOK
<1>2. \A i \in 1..Len(muList) : muList[i] \in Mutexes
    BY ElementOfSeq DEF MutexQueueTypeOK
<1>3. \A i \in 1..Len(muList) : Owner(i) \in Threads
    BY <1>2 DEF Owner, Mutexes
<1> QED BY <1>1, <1>2, <1>3

(* Lock appends a new mutex behind the one it will wait for.               *)
LEMMA LockInv ==
    ASSUME MQInv, NEW t \in Threads, Lock(t) PROVE MQInv'
<1> DEFINE m == <<t, calls[t] + 1>>
<1> USE DEF MQInv
<1>n. PICK n \in Nat : n = Len(muList)
    BY ListFacts
<1>1. m \in Mutexes /\ calls[t] + 1 \in 1..MaxCalls
    BY MaxCallsAssumption DEF Lock, MutexQueueTypeOK, Mutexes
<1>2. /\ muList' \in Seq(Mutexes) /\ Len(muList') = n + 1
      /\ \A i \in 1..n : muList'[i] = muList[i]
      /\ muList'[n + 1] = m /\ n \in Nat
    BY <1>n, <1>1, AppendProperties DEF Lock, MutexQueueTypeOK
<1>3. \A i \in 1..n : Owner(i) \in Threads /\ Owner(i) # t /\ muList[i] \in Mutexes
    BY <1>n, ListFacts DEF Lock, Listed
<1>4. \A i \in 1..n : Owner(i)' = Owner(i)
    BY <1>2 DEF Owner
<1>5. Owner(n + 1)' = t
    BY <1>2 DEF Owner
<1>6. MutexQueueTypeOK'
  <2>1. tailMutex' \in [Threads -> Mutexes \union {none}]
    <3>1. n # 0 => muList[n] \in Mutexes
        BY <1>2, <1>3
    <3> QED BY <3>1, <1>n, ListFacts DEF Lock, MutexQueueTypeOK
  <2>2. pc' \in [Threads -> {"idle", "wait", "unlock", "held"}] /\ locked' \subseteq Mutexes
      BY <1>1 DEF Lock, MutexQueueTypeOK
  <2>3. calls' \in [Threads -> 0..MaxCalls]
      BY <1>1, MaxCallsAssumption DEF Lock, MutexQueueTypeOK
  <2>4. \A s \in Threads : tailMutex'[s] # none <=> pc'[s] \in {"wait", "unlock"}
    <3>1. muList # <<>> => muList[n] # none
        BY <1>n, <1>2, <1>3, ListFacts, MutexNotNone
    <3> QED BY <1>n, <3>1 DEF Lock, MutexQueueTypeOK
  <2> QED BY <1>2, <2>1, <2>2, <2>3, <2>4 DEF MutexQueueTypeOK
<1>7. Listed'
  <2>1. \A i \in 1..(n + 1) : muList'[i] = Mine(Owner(i))' /\ pc'[Owner(i)'] # "idle"
    <3>1. ASSUME NEW i \in 1..n PROVE muList'[i] = Mine(Owner(i))' /\ pc'[Owner(i)'] # "idle"
        BY <1>n, <1>2, <1>3, <1>4 DEF Lock, Listed, Mine, MutexQueueTypeOK
    <3>2. muList'[n + 1] = Mine(Owner(n + 1))' /\ pc'[Owner(n + 1)'] # "idle"
        BY <1>2, <1>5 DEF Lock, Mine, MutexQueueTypeOK
    <3> QED BY <1>2, <3>1, <3>2
  <2>2. \A i, j \in 1..(n + 1) : Owner(i)' = Owner(j)' => i = j
      BY <1>n, <1>2, <1>3, <1>4, <1>5 DEF Listed
  <2>3. \A s \in Threads : pc'[s] # "idle" => \E i \in 1..(n + 1) : Owner(i)' = s
      BY <1>n, <1>2, <1>4, <1>5 DEF Listed, Lock, MutexQueueTypeOK
  <2> QED BY <1>2, <2>1, <2>2, <2>3 DEF Listed
<1>8. Chain'
  <2>1. ASSUME NEW i \in 2..(n + 1)
        PROVE  pc'[Owner(i)'] = "wait" /\ tailMutex'[Owner(i)'] = muList'[i - 1]
    <3>1. CASE i \in 2..n
      <4>1. i - 1 \in 1..n /\ i \in 1..n
          BY <1>2, <3>1
      <4> QED BY <1>2, <1>3, <1>4, <1>n, <3>1, <4>1 DEF Chain, Lock, MutexQueueTypeOK
    <3>2. CASE i = n + 1
      <4>1. muList # <<>> /\ n \in 1..n /\ i - 1 = n
          BY <1>n, <1>2, <3>2, ListFacts
      <4> QED BY <1>n, <1>2, <1>5, <3>2, <4>1 DEF Lock, MutexQueueTypeOK
    <3> QED BY <1>2, <3>1, <3>2
  <2>2. ASSUME NEW i \in 1..(n + 1)
        PROVE  muList'[i] \in locked' /\ tailMutex'[Owner(1)'] # muList'[i]
    <3>1. muList'[i] \in locked'
        BY <1>n, <1>2 DEF Lock, Chain
    <3>2. CASE n = 0
      <4>1. pc'[t] = "held" /\ tailMutex' = tailMutex /\ tailMutex[t] = none
          BY <1>n, <3>2, ListFacts DEF Lock, MutexQueueTypeOK
      <4>2. i = 1 /\ Owner(1)' = t /\ muList'[i] = m
          BY <1>2, <1>5, <3>2
      <4> QED BY <1>1, <3>1, <4>1, <4>2, MutexNotNone
    <3>3. CASE n # 0 /\ i \in 1..n
        BY <1>2, <1>3, <1>4, <1>n, <3>1, <3>3 DEF Lock, MutexQueueTypeOK, Chain
    <3>4. CASE n # 0 /\ i = n + 1
      <4>1. tailMutex'[Owner(1)'] = tailMutex[Owner(1)] /\ Owner(1) \in Threads
          BY <1>2, <1>3, <1>4, <3>4 DEF Lock, MutexQueueTypeOK
      <4>2. tailMutex[Owner(1)] # m
          BY <1>1, <4>1 DEF Past, MutexQueueTypeOK
      <4> QED BY <1>2, <3>1, <3>4, <4>1, <4>2
    <3> QED BY <1>2, <3>1, <3>2, <3>3, <3>4
  <2> QED BY <1>2, <2>1, <2>2 DEF Chain
<1>9. Past'
  <2> SUFFICES ASSUME NEW r \in Threads, NEW s \in Threads, NEW c \in 1..MaxCalls,
                      tailMutex'[r] = <<s, c>>
               PROVE  c <= calls'[s]
      BY DEF Past
  <2>1. calls[s] <= calls'[s] /\ calls[s] \in Nat /\ calls'[s] \in Nat /\ c \in Nat
      BY MaxCallsAssumption DEF Lock, MutexQueueTypeOK
  <2>2. CASE tailMutex'[r] = tailMutex[r]
      BY <2>1, <2>2 DEF Past
  <2>3. CASE tailMutex'[r] # tailMutex[r]
    <3>1. muList # <<>> /\ tailMutex'[r] = muList[n]
        BY <1>n, <2>3 DEF Lock, MutexQueueTypeOK
    <3>2. n \in 1..n
        BY <1>2, <1>n, <3>1, ListFacts
    <3>3. muList[n] = <<Owner(n), calls[Owner(n)]>>
        BY <1>n, <3>2 DEF Listed, Mine
    <3> QED BY <2>1, <3>1, <3>3
  <2> QED BY <2>2, <2>3
<1> QED BY <1>6, <1>7, <1>8, <1>9

(* tailMutex.Lock() succeeds for the first of the list only: the others   *)
(* wait for mutexes that are locked.                                       *)
LEMMA LockTailInv ==
    ASSUME MQInv, NEW t \in Threads, LockTail(t) PROVE MQInv'
<1> USE DEF MQInv
<1>1. MutexQueueTypeOK'
  <2>1. tailMutex[t] \in Mutexes
      BY DEF LockTail, MutexQueueTypeOK
  <2> QED BY <2>1 DEF LockTail, MutexQueueTypeOK
<1>2. PICK k \in 1..Len(muList) : Owner(k) = t
    BY DEF LockTail, Listed
<1>3. k = 1
  <2>1. k \in 2..Len(muList) => k - 1 \in 1..Len(muList)
      BY <1>2, ListFacts
  <2>2. k \in 2..Len(muList) => FALSE
      BY <1>2, <2>1 DEF LockTail, Chain
  <2> QED BY <1>2, <2>2, ListFacts
<1>4. \A i \in 2..Len(muList) : Owner(i) # t
    BY <1>2, <1>3, ListFacts DEF Listed
<1>5. Listed'
    BY ListFacts DEF LockTail, Listed, Owner, Mine, MutexQueueTypeOK
<1>6. Chain'
  <2>1. \A i \in 2..Len(muList) : Owner(i) \in Threads
      BY ListFacts
  <2> QED BY <1>4, <2>1 DEF LockTail, Chain, Owner, MutexQueueTypeOK
<1>7. Past'
    BY DEF LockTail, Past
<1> QED BY <1>1, <1>5, <1>6, <1>7

(* tailMutex.Unlock() gives back a mutex that is no longer in the list.    *)
LEMMA UnlockTailInv ==
    ASSUME MQInv, NEW t \in Threads, UnlockTail(t) PROVE MQInv'
<1> USE DEF MQInv
<1>1. MutexQueueTypeOK'
    BY DEF UnlockTail, MutexQueueTypeOK
<1>2. PICK k \in 1..Len(muList) : Owner(k) = t
    BY DEF UnlockTail, Listed
<1>3. k = 1
    BY <1>2, ListFacts DEF UnlockTail, Chain
<1>4. \A i \in 2..Len(muList) : Owner(i) # t
    BY <1>2, <1>3, ListFacts DEF Listed
<1>5. Listed'
    BY ListFacts DEF UnlockTail, Listed, Owner, Mine, MutexQueueTypeOK
<1>6. Chain'
  <2>1. \A i \in 2..Len(muList) : Owner(i) \in Threads
      BY ListFacts
  <2>2. \A i \in 2..Len(muList) :
           pc'[Owner(i)'] = "wait" /\ tailMutex'[Owner(i)'] = muList'[i - 1]
      BY <1>4, <2>1 DEF UnlockTail, Chain, Owner, MutexQueueTypeOK
  <2>3. \A i \in 1..Len(muList) : muList'[i] \in locked'
      BY <1>2, <1>3 DEF UnlockTail, Chain
  <2>4. \A i \in 1..Len(muList) : tailMutex'[Owner(1)'] # muList'[i]
    <3>1. tailMutex'[Owner(1)'] = none
        BY <1>2, <1>3 DEF UnlockTail, Owner, MutexQueueTypeOK
    <3>2. \A i \in 1..Len(muList) : muList[i] # none
        BY ListFacts, MutexNotNone
    <3> QED BY <3>1, <3>2 DEF UnlockTail
  <2> QED BY <2>2, <2>3, <2>4 DEF Chain, UnlockTail
<1>7. Past'
    BY DEF UnlockTail, Past, none, MutexQueueTypeOK
<1> QED BY <1>1, <1>5, <1>6, <1>7

(* A goroutine that holds the lock is the first of the list.               *)
LEMMA HeldIsFirst ==
    ASSUME MQInv, NEW t \in Threads, pc[t] \in {"unlock", "held"}
    PROVE  muList # <<>> /\ Owner(1) = t
<1>1. PICK k \in 1..Len(muList) : Owner(k) = t
    BY DEF MQInv, Listed
<1>2. k = 1
    BY <1>1, ListFacts DEF MQInv, Chain
<1> QED BY <1>1, <1>2, ListFacts DEF MQInv

(* Unlock makes the second of the list the first one.                      *)
LEMMA UnlockInv ==
    ASSUME MQInv, NEW t \in Threads, Unlock(t) PROVE MQInv'
<1> DEFINE n == Len(muList)
<1> USE DEF MQInv
<1>1. muList # <<>> /\ Owner(1) = t /\ n \in Nat /\ 1 \in 1..n /\ Head(muList) = muList[1]
    BY HeldIsFirst, ListFacts DEF Unlock
<1>2. /\ muList' \in Seq(Mutexes) /\ Len(muList') = n - 1
      /\ \A i \in 1..(n - 1) : muList'[i] = muList[i + 1]
    BY <1>1, HeadTailProperties DEF Unlock, MutexQueueTypeOK
<1>3. \A i \in 1..(n - 1) : /\ i + 1 \in 1..n /\ i + 1 # 1
                            /\ Owner(i + 1) \in Threads /\ Owner(i + 1) # t
    BY <1>1, ListFacts DEF Listed
<1>4. \A i \in 1..(n - 1) : Owner(i)' = Owner(i + 1)
    BY <1>2 DEF Owner
<1>5. MutexQueueTypeOK'
    BY <1>2 DEF Unlock, MutexQueueTypeOK
<1>6. Listed'
  <2>1. \A i \in 1..(n - 1) : muList'[i] = Mine(Owner(i))' /\ pc'[Owner(i)'] # "idle"
      BY <1>2, <1>3, <1>4 DEF Unlock, Listed, Mine, MutexQueueTypeOK
  <2>2. \A i, j \in 1..(n - 1) : Owner(i)' = Owner(j)' => i = j
    <3> SUFFICES ASSUME NEW i \in 1..(n - 1), NEW j \in 1..(n - 1), Owner(i)' = Owner(j)'
                 PROVE  i = j
        OBVIOUS
    <3>1. i + 1 = j + 1
        BY <1>3, <1>4 DEF Listed
    <3> QED BY <1>1, <3>1
  <2>3. ASSUME NEW s \in Threads, pc'[s] # "idle"
        PROVE  \E i \in 1..(n - 1) : Owner(i)' = s
    <3>1. pc[s] # "idle" /\ s # t
        BY <2>3 DEF Unlock, MutexQueueTypeOK
    <3>2. PICK k \in 1..n : Owner(k) = s
        BY <3>1 DEF Listed
    <3>3. k - 1 \in 1..(n - 1) /\ k = (k - 1) + 1
        BY <1>1, <3>1, <3>2
    <3> QED BY <1>4, <3>2, <3>3
  <2> QED BY <1>2, <2>1, <2>2, <2>3 DEF Listed
<1>7. Chain'
  <2>1. ASSUME NEW i \in 2..(n - 1)
        PROVE  pc'[Owner(i)'] = "wait" /\ tailMutex'[Owner(i)'] = muList'[i - 1]
    <3>1. i \in 1..(n - 1) /\ i + 1 \in 2..n /\ i - 1 \in 1..(n - 1) /\ (i - 1) + 1 = (i + 1) - 1
        BY <1>1
    <3> QED BY <1>2, <1>3, <1>4, <3>1 DEF Unlock, Chain, MutexQueueTypeOK
  <2>2. ASSUME NEW i \in 1..(n - 1)
        PROVE  muList'[i] \in locked' /\ tailMutex'[Owner(1)'] # muList'[i]
    <3>1. muList[i + 1] # muList[1]
        BY <1>1, <1>3 DEF Owner
    <3>2. muList'[i] \in locked'
        BY <1>1, <1>2, <1>3, <3>1 DEF Unlock, Chain
    <3>3. 2 \in 2..n /\ 1 \in 1..(n - 1) /\ 1 + 1 = 2 /\ 2 - 1 = 1
        BY <1>1
    <3>4. tailMutex'[Owner(1)'] = muList[1]
        BY <1>3, <1>4, <3>3 DEF Unlock, Chain
    <3> QED BY <1>2, <3>1, <3>2, <3>4
  <2> QED BY <1>2, <2>1, <2>2 DEF Chain
<1>8. Past'
    BY DEF Unlock, Past
<1> QED BY <1>5, <1>6, <1>7, <1>8

(* MQInv is an inductive invariant of MutexQueue.                          *)
LEMMA MQInvariance == MutexQueueSpec => []MQInv
<1>1. MQInv /\ [MutexQueueNext]_vars => MQInv'
  <2> SUFFICES ASSUME MQInv, [MutexQueueNext]_vars PROVE MQInv'
      OBVIOUS
  <2>1. CASE MutexQueueNext
      BY <2>1, LockInv, LockTailInv, UnlockTailInv, UnlockInv DEF MutexQueueNext
  <2>2. CASE UNCHANGED vars
      BY <2>2 DEF vars, MQInv, MutexQueueTypeOK, Listed, Chain, Past, Owner, Mine
  <2> QED BY <2>1, <2>2
<1> QED BY <1>1, MQInitInv, PTL DEF MutexQueueSpec

-----------------------------------------------------------------------------
(* The variables of MutexQueue keep their types, and a goroutine has a     *)
(* mutex to wait for exactly while it waits.                               *)
THEOREM MutexQueueTypes == MutexQueueSpec => []MutexQueueTypeOK
<1>1. MQInv => MutexQueueTypeOK
    BY DEF MQInv
<1> QED BY <1>1, MQInvariance, PTL

(* Mutual exclusion: whoever holds the lock is first in the list, so Unlock*)
(* removes its mutex and never finds the list empty, and no two goroutines *)
(* wait for the same mutex.                                                *)
THEOREM MutualExclusion == MutexQueueSpec => []HolderInFront
<1>1. ASSUME MQInv PROVE HolderInFront
  <2>1. ASSUME NEW t \in Threads, pc[t] = "held"
        PROVE  muList # <<>> /\ Head(muList) = Mine(t)
    <3>1. muList # <<>> /\ Owner(1) = t
        BY <1>1, <2>1, HeldIsFirst
    <3>2. Head(muList) = muList[1] /\ 1 \in 1..Len(muList)
        BY <1>1, <3>1, ListFacts DEF MQInv
    <3> QED BY <1>1, <3>1, <3>2 DEF MQInv, Listed
  <2>2. ASSUME NEW s \in Threads, NEW t \in Threads, s # t, pc[t] \in {"wait", "unlock"},
               tailMutex[s] = tailMutex[t]
        PROVE  FALSE
    <3>1. pc[s] \in {"wait", "unlock"}
        BY <1>1, <2>2 DEF MQInv, MutexQueueTypeOK
    <3>2. PICK i \in 1..Len(muList) : Owner(i) = s
        BY <1>1, <3>1 DEF MQInv, Listed
    <3>3. PICK j \in 1..Len(muList) : Owner(j) = t
        BY <1>1, <2>2 DEF MQInv, Listed
    <3>4. i # j /\ Len(muList) \in Nat
        BY <1>1, <2>2, <3>2, <3>3, ListFacts DEF MQInv
    <3>5. CASE i = 1
      <4>1. j \in 2..Len(muList) /\ j - 1 \in 1..Len(muList)
          BY <3>4, <3>5
      <4> QED BY <1>1, <2>2, <3>2, <3>3, <3>5, <4>1 DEF MQInv, Chain
    <3>6. CASE j = 1
      <4>1. i \in 2..Len(muList) /\ i - 1 \in 1..Len(muList)
          BY <3>4, <3>6
      <4> QED BY <1>1, <2>2, <3>2, <3>3, <3>6, <4>1 DEF MQInv, Chain
    <3>7. CASE i # 1 /\ j # 1
      <4>1. i \in 2..Len(muList) /\ j \in 2..Len(muList)
          BY <3>4, <3>7
      <4>2. muList[i - 1] = muList[j - 1] /\ i - 1 \in 1..Len(muList) /\ j - 1 \in 1..Len(muList)
          BY <1>1, <2>2, <3>2, <3>3, <3>4, <4>1 DEF MQInv, Chain
      <4>3. i - 1 = j - 1
          BY <1>1, <4>2 DEF MQInv, Listed, Owner
      <4> QED BY <3>4, <4>3
    <3> QED BY <3>5, <3>6, <3>7
  <2> QED BY <2>1, <2>2 DEF HolderInFront
<1> QED BY <1>1, MQInvariance, PTL

-----------------------------------------------------------------------------
(* What the abstract lock sees of the list.                                *)
queueOf == [i \in 1..Len(muList) |-> muList[i][1]]
stateOf == [t \in Threads |-> IF pc[t] = "idle" THEN "idle"
                              ELSE IF pc[t] = "held" THEN "holding" ELSE "waiting"]

(* The queue of the abstract lock has the owners of the mutexes in order.  *)
LEMMA QueueOf ==
    ASSUME MutexQueueTypeOK
    PROVE  /\ queueOf \in Seq(Threads) /\ Len(queueOf) = Len(muList)
           /\ \A i \in 1..Len(muList) : queueOf[i] = Owner(i)
           /\ queueOf = <<>> <=> muList = <<>>
<1>1. /\ Len(muList) \in Nat /\ \A i \in 1..Len(muList) : Owner(i) \in Threads
      /\ muList = <<>> <=> Len(muList) = 0
    BY ListFacts
<1>2. queueOf \in Seq(Threads)
    BY <1>1 DEF queueOf, Owner
<1>3. Len(queueOf) = Len(muList) /\ \A i \in 1..Len(muList) : queueOf[i] = Owner(i)
    BY <1>1 DEF queueOf, Owner
<1>4. queueOf = <<>> <=> Len(queueOf) = 0
    BY <1>2, EmptySeq
<1> QED BY <1>1, <1>2, <1>3, <1>4

(* MutexQueue implements the FIFO lock: goroutines get it one at a time    *)
(* and in the order in which their calls of Lock appended to the list.     *)
THEOREM MutexQueueIsFIFO == MutexQueueSpec => L!FIFOSpec
<1>1. MutexQueueInit => L!FIFOInit
  <2> SUFFICES ASSUME MutexQueueInit PROVE L!FIFOInit
      OBVIOUS
  <2>1. queueOf = <<>>
      BY MQInitInv, QueueOf DEF MQInv, MutexQueueInit
  <2> QED BY <2>1 DEF L!FIFOInit, queueOf, MutexQueueInit
<1>2. ASSUME MQInv, MQInv', [MutexQueueNext]_vars PROVE [L!FIFONext]_(L!fvars)
  <2> USE DEF MQInv
  <2>0. /\ queueOf' \in Seq(Threads) /\ Len(queueOf') = Len(muList')
        /\ \A i \in 1..Len(muList') : queueOf'[i] = muList'[i][1]
    <3>1. Len(muList') \in Nat /\ \A i \in 1..Len(muList') : muList'[i] \in Mutexes
        BY <1>2, ElementOfSeq, LenProperties DEF MutexQueueTypeOK
    <3> QED BY <3>1 DEF queueOf, Mutexes
  <2>1. ASSUME NEW t \in Threads, Lock(t) PROVE L!Join(t)
    <3>1. stateOf[t] = "idle"
        BY <2>1 DEF stateOf, Lock
    <3>2. queueOf' = Append(queueOf, t)
      <4>1. /\ Append(queueOf, t) \in Seq(Threads)
            /\ Len(Append(queueOf, t)) = Len(muList) + 1
            /\ \A i \in 1..Len(muList) : Append(queueOf, t)[i] = Owner(i)
            /\ Append(queueOf, t)[Len(muList) + 1] = t
          BY <1>2, QueueOf, AppendProperties
      <4>3. <<t, calls[t] + 1>> \in Mutexes
          BY <1>2, <2>1, MaxCallsAssumption DEF Lock, MutexQueueTypeOK, Mutexes
      <4>4. /\ Len(muList') = Len(muList) + 1 /\ Len(muList) \in Nat
            /\ \A i \in 1..Len(muList) : muList'[i] = muList[i]
            /\ muList'[Len(muList) + 1] = <<t, calls[t] + 1>>
          BY <1>2, <2>1, <4>3, AppendProperties, ListFacts DEF Lock, MutexQueueTypeOK
      <4>5. \A i \in 1..Len(queueOf') : queueOf'[i] = Append(queueOf, t)[i]
          BY <4>1, <2>0, <4>4 DEF Owner
      <4> QED BY <4>1, <2>0, <4>4, <4>5, SeqEqual
    <3>3. stateOf' = [stateOf EXCEPT ![t] = IF queueOf = <<>> THEN "holding" ELSE "waiting"]
        BY <1>2, <2>1, QueueOf DEF Lock, stateOf, MutexQueueTypeOK
    <3> QED BY <3>1, <3>2, <3>3 DEF L!Join, queueOf, stateOf
  <2>2. ASSUME NEW t \in Threads, LockTail(t) PROVE UNCHANGED L!fvars
    <3>1. queueOf' = queueOf
        BY <2>2 DEF LockTail, queueOf
    <3>2. stateOf' = stateOf
        BY <1>2, <2>2 DEF LockTail, stateOf, MutexQueueTypeOK
    <3> QED BY <3>1, <3>2 DEF L!fvars, queueOf, stateOf
  <2>3. ASSUME NEW t \in Threads, UnlockTail(t) PROVE L!Acquire(t)
    <3>1. queueOf # <<>> /\ Head(queueOf) = t
      <4>1. muList # <<>> /\ Owner(1) = t
          BY <1>2, <2>3, HeldIsFirst DEF UnlockTail
      <4>2. 1 \in 1..Len(muList)
          BY <1>2, <4>1, ListFacts
      <4> QED BY <1>2, <4>1, <4>2, QueueOf
    <3>2. queueOf' = queueOf
        BY <2>3 DEF UnlockTail, queueOf
    <3>3. stateOf[t] = "waiting" /\ stateOf' = [stateOf EXCEPT ![t] = "holding"]
        BY <1>2, <2>3 DEF UnlockTail, stateOf, MutexQueueTypeOK
    <3> QED BY <3>1, <3>2, <3>3 DEF L!Acquire, queueOf, stateOf
  <2>4. ASSUME NEW t \in Threads, Unlock(t) PROVE L!Release(t)
    <3>1. queueOf # <<>> /\ Head(queueOf) = t /\ muList # <<>>
      <4>1. muList # <<>> /\ Owner(1) = t
          BY <1>2, <2>4, HeldIsFirst DEF Unlock
      <4>2. 1 \in 1..Len(muList)
          BY <1>2, <4>1, ListFacts
      <4> QED BY <1>2, <4>1, <4>2, QueueOf
    <3>2. queueOf' = Tail(queueOf)
      <4>1. /\ Tail(queueOf) \in Seq(Threads)
            /\ Len(Tail(queueOf)) = Len(muList) - 1
            /\ \A i \in 1..(Len(muList) - 1) : Tail(queueOf)[i] = queueOf[i + 1]
          BY <1>2, <3>1, QueueOf, HeadTailProperties
      <4>3. /\ Len(muList') = Len(muList) - 1 /\ Len(muList) \in Nat
            /\ \A i \in 1..(Len(muList) - 1) : muList'[i] = muList[i + 1]
          BY <1>2, <2>4, <3>1, HeadTailProperties, ListFacts DEF Unlock, MutexQueueTypeOK
      <4>4. \A i \in 1..(Len(muList) - 1) :
               i + 1 \in 1..Len(muList) /\ queueOf[i + 1] = muList[i + 1][1]
          BY <1>2, <4>3, QueueOf DEF Owner
      <4>5. \A i \in 1..Len(queueOf') : queueOf'[i] = Tail(queueOf)[i]
          BY <4>1, <2>0, <4>3, <4>4
      <4> QED BY <4>1, <2>0, <4>3, <4>5, SeqEqual
    <3>3. stateOf[t] = "holding" /\ stateOf' = [stateOf EXCEPT ![t] = "idle"]
        BY <1>2, <2>4 DEF Unlock, stateOf, MutexQueueTypeOK
    <3> QED BY <3>1, <3>2, <3>3 DEF L!Release, queueOf, stateOf
  <2>5. CASE UNCHANGED vars
      BY <2>5 DEF vars, L!fvars
  <2> QED BY <1>2, <2>1, <2>2, <2>3, <2>4, <2>5 DEF MutexQueueNext, L!FIFONext
<1> QED BY <1>1, <1>2, MQInvariance, PTL DEF MutexQueueSpec, L!FIFOSpec
=============================================================================
