----------------------------- MODULE MutexQueue -----------------------------
(***************************************************************************)
(* MutexQueue of pkg/transport/handler.go: a lock that is granted in the   *)
(* order of the calls, built from a list of ordinary mutexes.  Every call  *)
(* of Lock adds a mutex of its own, locked, to the end of muList and waits *)
(* until it could lock the one before it; Unlock removes the first mutex   *)
(* of the list and unlocks it.                                             *)
(*                                                                         *)
(* What Lock and Unlock do while they hold mq.mu is one step: a new mutex  *)
(* is locked without waiting.  A mutex is identified by the goroutine that *)
(* creates it and the number of that goroutine's call.                     *)
(***************************************************************************)
EXTENDS Naturals, Sequences, FiniteSets

CONSTANTS
    Threads,    \* the goroutines that use the lock
    MaxCalls    \* bound: calls of Lock by one goroutine

ASSUME MaxCallsAssumption == MaxCalls \in Nat

VARIABLES
    muList,     \* the list of mutexes
    locked,     \* the mutexes that are locked
    calls,      \* calls of Lock made by each goroutine
    tailMutex,  \* the mutex each goroutine waits for, or none
    pc          \* "idle"; "wait" at tailMutex.Lock(); "unlock" at
                \* tailMutex.Unlock(); "held" between Lock and Unlock

vars == <<muList, locked, calls, tailMutex, pc>>

Mutexes == Threads \X (1..MaxCalls)
none == <<>>

(* The mutex of t's latest call.                                           *)
Mine(t) == <<t, calls[t]>>

MutexQueueInit ==
    /\ muList = <<>> /\ locked = {}
    /\ calls = [t \in Threads |-> 0]
    /\ tailMutex = [t \in Threads |-> none]
    /\ pc = [t \in Threads |-> "idle"]

(* Mutant: the call waits for the front of the list, not for its tail.     *)
LockBehindFront(t) ==
    /\ pc[t] = "idle" /\ calls[t] < MaxCalls
    /\ calls' = [calls EXCEPT ![t] = @ + 1]
    /\ muList' = Append(muList, <<t, calls[t] + 1>>)
    /\ locked' = locked \union {<<t, calls[t] + 1>>}
    /\ IF muList = <<>>
       THEN pc' = [pc EXCEPT ![t] = "held"] /\ UNCHANGED tailMutex
       ELSE /\ pc' = [pc EXCEPT ![t] = "wait"]
            /\ tailMutex' = [tailMutex EXCEPT ![t] = Head(muList)]

(* Mutant: the empty list is not looked for.                               *)
LockUnchecked(t) ==
    /\ pc[t] = "idle" /\ calls[t] < MaxCalls
    /\ calls' = [calls EXCEPT ![t] = @ + 1]
    /\ muList' = Append(muList, <<t, calls[t] + 1>>)
    /\ locked' = locked \union {<<t, calls[t] + 1>>}
    /\ pc' = [pc EXCEPT ![t] = "wait"]
    /\ tailMutex' = [tailMutex EXCEPT ![t] = IF muList = <<>> THEN none
                                            ELSE muList[Len(muList)]]

(* Lock, up to mq.mu.Unlock().                                             *)
Lock(t) ==
    /\ pc[t] = "idle" /\ calls[t] < MaxCalls
    /\ calls' = [calls EXCEPT ![t] = @ + 1]
    /\ muList' = Append(muList, <<t, calls[t] + 1>>)
    /\ locked' = locked \union {<<t, calls[t] + 1>>}
    /\ IF muList = <<>>
       THEN pc' = [pc EXCEPT ![t] = "held"] /\ UNCHANGED tailMutex
       ELSE /\ pc' = [pc EXCEPT ![t] = "wait"]
            /\ tailMutex' = [tailMutex EXCEPT ![t] = muList[Len(muList)]]

(* tailMutex.Lock()                                                        *)
LockTail(t) ==
    /\ pc[t] = "wait" /\ tailMutex[t] \notin locked
    /\ locked' = locked \union {tailMutex[t]}
    /\ pc' = [pc EXCEPT ![t] = "unlock"]
    /\ UNCHANGED <<muList, calls, tailMutex>>

(* tailMutex.Unlock(): Lock returns.                                       *)
UnlockTail(t) ==
    /\ pc[t] = "unlock"
    /\ locked' = locked \ {tailMutex[t]}
    /\ tailMutex' = [tailMutex EXCEPT ![t] = none]
    /\ pc' = [pc EXCEPT ![t] = "held"]
    /\ UNCHANGED <<muList, calls>>

(* Mutant: the removed mutex stays locked.                                 *)
UnlockOnlyRemoves(t) ==
    /\ pc[t] = "held" /\ muList # <<>>
    /\ muList' = Tail(muList)
    /\ pc' = [pc EXCEPT ![t] = "idle"]
    /\ UNCHANGED <<locked, calls, tailMutex>>

(* Unlock.  With an empty list it would dereference nil.                   *)
Unlock(t) ==
    /\ pc[t] = "held" /\ muList # <<>>
    /\ muList' = Tail(muList)
    /\ locked' = locked \ {Head(muList)}
    /\ pc' = [pc EXCEPT ![t] = "idle"]
    /\ UNCHANGED <<calls, tailMutex>>

MutexQueueNext ==
    \E t \in Threads : Lock(t) \/ LockTail(t) \/ UnlockTail(t) \/ Unlock(t)

MutexQueueSpec == MutexQueueInit /\ [][MutexQueueNext]_vars

(* A goroutine inside Lock runs, and a holder calls Unlock in the end.     *)
MutexQueueFairSpec ==
    /\ MutexQueueSpec
    /\ \A t \in Threads :
          WF_vars(LockTail(t)) /\ WF_vars(UnlockTail(t)) /\ WF_vars(Unlock(t))
-----------------------------------------------------------------------------
MutexQueueTypeOK ==
    /\ muList \in Seq(Mutexes)
    /\ locked \subseteq Mutexes
    /\ calls \in [Threads -> 0..MaxCalls]
    /\ tailMutex \in [Threads -> Mutexes \union {none}]
    /\ pc \in [Threads -> {"idle", "wait", "unlock", "held"}]
    /\ \A t \in Threads : tailMutex[t] # none <=> pc[t] \in {"wait", "unlock"}

(* The goroutine between Lock and Unlock is the one whose mutex Unlock     *)
(* will remove, so there is at most one of them; the list is never empty   *)
(* when Unlock is called; and a mutex is awaited by one goroutine only, so *)
(* nobody can take the lock in passing between the steps of another.       *)
HolderInFront ==
    /\ \A t \in Threads : pc[t] = "held" =>
          muList # <<>> /\ Head(muList) = Mine(t)
    /\ \A s, t \in Threads : s # t /\ pc[t] \in {"wait", "unlock"}
          => tailMutex[s] # tailMutex[t]

(* The promise of MutexQueue: the mutexes in the list stand for the queue  *)
(* of their creators.                                                      *)
L == INSTANCE FIFOLock WITH
        queue <- [i \in 1..Len(muList) |-> muList[i][1]],
        state <- [t \in Threads |->
                    IF pc[t] = "idle" THEN "idle"
                    ELSE IF pc[t] = "held" THEN "holding" ELSE "waiting"]

(* MutexQueue implements the FIFO lock ("mutex queue with FIFO support",   *)
(* handler.go:237), including that the lock is handed on.                  *)
ImplementsFIFOLock == L!FIFOFairSpec

(* No call of Lock waits for ever if every holder unlocks.                 *)
EveryLockReturns == \A t \in Threads : pc[t] = "wait" ~> pc[t] = "held"
=============================================================================
