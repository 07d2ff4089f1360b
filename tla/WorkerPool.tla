----------------------------- MODULE WorkerPool -----------------------------
(***************************************************************************)
(* process_items of util.py: the one place where the program runs a        *)
(* function over a list of items, in the main process, on a pool of        *)
(* threads (downloads) or on a pool of processes (everything that calls a  *)
(* shared library).                                                        *)
(*                                                                         *)
(* The actions whose names begin with Pool belong to concurrent.futures:   *)
(* they are modelled from how process_items uses the executor.             *)
(***************************************************************************)
EXTENDS Naturals, Sequences

CONSTANT Calls          \* the argument lists process_items may be called with

ASSUME CallsAssumption ==
    Calls \subseteq [items : Nat, num_processes : Nat,
                     debug_mode : BOOLEAN, use_processes : BOOLEAN]

VARIABLES
    call,       \* the arguments of this call
    phase,      \* where the calling thread is
    failure,    \* what future.result() or submit raised, "none" so far
    submitted,  \* how many items were handed to the executor, in list order
    fut,        \* status of the future (serially: of the call) of each item
    worker,     \* status of each worker of the executor
    job,        \* the item each worker is running, 0 when none
    broken,     \* the process pool has declared itself broken
    results     \* the list process_items returns

vars == <<call, phase, failure, submitted, fut, worker, job, broken, results>>

Items == 1..call.items

(***************************************************************************)
(* util.py:130-136.  debug_mode forces one worker and the serial branch;   *)
(* an empty list asks for one worker.                                      *)
(***************************************************************************)
Requested == IF call.debug_mode THEN 1 ELSE call.num_processes

Width ==
    IF call.items = 0 THEN 1
    ELSE IF Requested < call.items THEN Requested ELSE call.items

Mode ==
    IF call.debug_mode \/ ~(Width > 1 \/ call.use_processes) THEN "serial"
    ELSE IF call.use_processes THEN "process" ELSE "thread"

Workers == IF Mode = "serial" THEN {} ELSE 1..Width

Unsettled == {"unsent", "pending", "running"}
Failed == {"raised", "lost", "cancelled"}
FutureStatus == Unsettled \cup Failed \cup {"ok"}

\* The items whose result is in the list.
Collected == {results[k] : k \in DOMAIN results}

Finished == phase \in {"returned", "raised"}

Init ==
    /\ call \in Calls
    /\ phase = "entry"
    /\ failure = "none"
    /\ submitted = 0
    /\ fut = [i \in Items |-> "unsent"]
    /\ worker = [w \in Workers |-> "unborn"]
    /\ job = [w \in Workers |-> 0]
    /\ broken = FALSE
    /\ results = << >>

-----------------------------------------------------------------------------
(***************************************************************************)
(* Faulty variants.  No action uses an operator whose name begins with     *)
(* Faulty: each is a plausible mistake in the action it is named after,    *)
(* exchanged for it to show that a property is able to fail.               *)
(***************************************************************************)
\* one submission too many
FaultySubmit ==
    /\ phase = "submit"
    /\ submitted <= call.items
    /\ ~broken
    /\ submitted' = submitted + 1
    /\ fut' = [fut EXCEPT ![submitted + 1] = "pending"]
    /\ UNCHANGED <<call, phase, failure, worker, job, broken, results>>

\* the exception is swallowed and an empty result takes its place
FaultyCollectRaises(i) ==
    /\ phase = "collect"
    /\ fut[i] \in Failed
    /\ i \notin Collected
    /\ results' = Append(results, i)
    /\ UNCHANGED <<call, phase, failure, submitted, fut, worker, job, broken>>

\* shutdown(wait=False)
FaultyLeaveWithoutWaiting ==
    /\ phase = "exit"
    /\ phase' = IF failure = "none" THEN "returned" ELSE "raised"
    /\ UNCHANGED <<call, failure, submitted, fut, worker, job, broken, results>>

\* shutdown(wait=True, cancel_futures=True)
FaultyLeaveCancelling ==
    /\ phase = "exit"
    /\ \A i \in Items : fut[i] # "running"
    /\ phase' = IF failure = "none" THEN "returned" ELSE "raised"
    /\ fut' = [i \in Items |-> IF fut[i] = "pending" THEN "cancelled" ELSE fut[i]]
    /\ UNCHANGED <<call, failure, submitted, worker, job, broken, results>>

\* results are put in front
FaultyCollect(i) ==
    /\ phase = "collect"
    /\ i \notin Collected
    /\ fut[i] = "ok"
    /\ results' = <<i>> \o results
    /\ UNCHANGED <<call, phase, failure, submitted, fut, worker, job, broken>>

\* a future that is still running is collected
FaultyCollectEarly(i) ==
    /\ phase = "collect"
    /\ i \notin Collected
    /\ results' = Append(results, i)
    /\ UNCHANGED <<call, phase, failure, submitted, fut, worker, job, broken>>

\* an item the pool refuses is offered again
FaultySubmitRaises ==
    /\ phase = "submit"
    /\ submitted < call.items
    /\ broken
    /\ UNCHANGED <<call, phase, failure, submitted, fut, worker, job, broken, results>>

-----------------------------------------------------------------------------
(***************************************************************************)
(* Entry.  A serial call and a thread pool run the initializer in the      *)
(* calling process, before any item; a process pool leaves it to its       *)
(* workers.  ProcessPoolExecutor refuses a width of zero.                  *)
(***************************************************************************)
Enter ==
    /\ phase = "entry"
    /\ Width > 0 \/ Mode # "process"
    /\ phase' = IF Mode = "serial" THEN "serial" ELSE "submit"
    /\ UNCHANGED <<call, failure, submitted, fut, worker, job, broken, results>>

RefuseWidth ==
    /\ phase = "entry"
    /\ Mode = "process" /\ Width = 0
    /\ phase' = "raised"
    /\ failure' = "width"
    /\ UNCHANGED <<call, submitted, fut, worker, job, broken, results>>

InitializerRaises ==
    /\ phase = "entry"
    /\ Mode # "process"
    /\ phase' = "raised"
    /\ failure' = "initializer"
    /\ UNCHANGED <<call, submitted, fut, worker, job, broken, results>>

-----------------------------------------------------------------------------
(***************************************************************************)
(* The serial branch, util.py:186-197.                                     *)
(***************************************************************************)
SerialCall(i) ==
    /\ phase = "serial"
    /\ i = Len(results) + 1
    /\ fut[i] = "unsent"
    /\ fut' = [fut EXCEPT ![i] = "running"]
    /\ UNCHANGED <<call, phase, failure, submitted, worker, job, broken, results>>

SerialEnd(i) ==
    /\ phase = "serial"
    /\ fut[i] = "running"
    /\ \E status \in {"ok", "raised"} : fut' = [fut EXCEPT ![i] = status]
    /\ UNCHANGED <<call, phase, failure, submitted, worker, job, broken, results>>

SerialRaise(i) ==
    /\ phase = "serial"
    /\ fut[i] = "raised"
    /\ phase' = "raised"
    /\ failure' = "raised"
    /\ UNCHANGED <<call, submitted, fut, worker, job, broken, results>>

SerialAppend(i) ==
    /\ phase = "serial"
    /\ fut[i] = "ok"
    /\ i = Len(results) + 1
    /\ results' = Append(results, i)
    /\ UNCHANGED <<call, phase, failure, submitted, fut, worker, job, broken>>

SerialReturn ==
    /\ phase = "serial"
    /\ Len(results) = call.items
    /\ phase' = "returned"
    /\ UNCHANGED <<call, failure, submitted, fut, worker, job, broken, results>>

-----------------------------------------------------------------------------
(***************************************************************************)
(* The executor branch, util.py:148-185, in the calling thread.            *)
(***************************************************************************)
Submit ==
    /\ phase = "submit"
    /\ submitted < call.items
    /\ ~broken
    /\ submitted' = submitted + 1
    /\ fut' = [fut EXCEPT ![submitted + 1] = "pending"]
    /\ UNCHANGED <<call, phase, failure, worker, job, broken, results>>

\* submit() on a pool that broke meanwhile raises BrokenProcessPool.
SubmitRaises ==
    /\ phase = "submit"
    /\ submitted < call.items
    /\ broken
    /\ phase' = "exit"
    /\ failure' = "broken"
    /\ UNCHANGED <<call, submitted, fut, worker, job, broken, results>>

BeginCollect ==
    /\ phase = "submit"
    /\ submitted = call.items
    /\ phase' = "collect"
    /\ UNCHANGED <<call, failure, submitted, fut, worker, job, broken, results>>

\* as_completed yields the settled futures in any order.
Collect(i) ==
    /\ phase = "collect"
    /\ i \notin Collected
    /\ fut[i] = "ok"
    /\ results' = Append(results, i)
    /\ UNCHANGED <<call, phase, failure, submitted, fut, worker, job, broken>>

\* future.result() re-raises: the loop is left, what was not collected is lost.
CollectRaises(i) ==
    /\ phase = "collect"
    /\ fut[i] \in Failed
    /\ phase' = "exit"
    /\ failure' = IF fut[i] = "raised" THEN "raised" ELSE "broken"
    /\ UNCHANGED <<call, submitted, fut, worker, job, broken, results>>

EndCollect ==
    /\ phase = "collect"
    /\ Collected = Items
    /\ phase' = "exit"
    /\ UNCHANGED <<call, failure, submitted, fut, worker, job, broken, results>>

(***************************************************************************)
(* executor.__exit__ is shutdown(wait=True): nothing is cancelled, the     *)
(* caller waits until every submitted item has run.  Only then does the    *)
(* call return or re-raise.                                                *)
(***************************************************************************)
LeaveExecutor ==
    /\ phase = "exit"
    /\ \A i \in Items : fut[i] \notin {"pending", "running"}
    /\ phase' = IF failure = "none" THEN "returned" ELSE "raised"
    /\ UNCHANGED <<call, failure, submitted, fut, worker, job, broken, results>>

-----------------------------------------------------------------------------
(***************************************************************************)
(* The executor.                                                           *)
(***************************************************************************)
InExecutor == phase \in {"submit", "collect", "exit"}

PoolSpawn(w) ==
    /\ InExecutor
    /\ submitted > 0
    /\ ~broken
    /\ worker[w] = "unborn"
    /\ \/ worker' = [worker EXCEPT ![w] = "idle"]
       \/ /\ Mode = "process"       \* the initializer raised in the worker
          /\ worker' = [worker EXCEPT ![w] = "dead"]
    /\ UNCHANGED <<call, phase, failure, submitted, fut, job, broken, results>>

\* Items are handed out in the order they were submitted.
PoolTake(w, i) ==
    /\ worker[w] = "idle"
    /\ fut[i] = "pending"
    /\ \A k \in Items : k < i => fut[k] # "pending"
    /\ worker' = [worker EXCEPT ![w] = "busy"]
    /\ job' = [job EXCEPT ![w] = i]
    /\ fut' = [fut EXCEPT ![i] = "running"]
    /\ UNCHANGED <<call, phase, failure, submitted, broken, results>>

PoolEnd(w) ==
    /\ worker[w] = "busy"
    /\ \E status \in {"ok", "raised"} : fut' = [fut EXCEPT ![job[w]] = status]
    /\ worker' = [worker EXCEPT ![w] = "idle"]
    /\ job' = [job EXCEPT ![w] = 0]
    /\ UNCHANGED <<call, phase, failure, submitted, broken, results>>

\* A harness segfault or abort takes the worker process with it.
PoolCrash(w) ==
    /\ Mode = "process"
    /\ worker[w] = "busy"
    /\ worker' = [worker EXCEPT ![w] = "dead"]
    /\ UNCHANGED <<call, phase, failure, submitted, fut, job, broken, results>>

(***************************************************************************)
(* The executor notices a dead worker: every unsettled future fails with   *)
(* BrokenProcessPool and the other workers are terminated.                 *)
(***************************************************************************)
PoolBreaks ==
    /\ InExecutor
    /\ ~broken
    /\ \E w \in Workers : worker[w] = "dead"
    /\ broken' = TRUE
    /\ fut' = [i \in Items |-> CASE fut[i] = "pending" -> "cancelled"
                                 [] fut[i] = "running" -> "lost"
                                 [] OTHER -> fut[i]]
    /\ worker' = [w \in Workers |-> "dead"]
    /\ job' = [w \in Workers |-> 0]
    /\ UNCHANGED <<call, phase, failure, submitted, results>>

-----------------------------------------------------------------------------
Entry == Enter \/ RefuseWidth \/ InitializerRaises

Serial ==
    \/ \E i \in Items : \/ SerialCall(i) \/ SerialEnd(i)
                        \/ SerialAppend(i) \/ SerialRaise(i)
    \/ SerialReturn

Executor ==
    \/ Submit \/ SubmitRaises \/ BeginCollect \/ EndCollect \/ LeaveExecutor
    \/ \E i \in Items : Collect(i) \/ CollectRaises(i)

WorkerStep(w) ==
    \/ PoolSpawn(w) \/ PoolEnd(w) \/ PoolCrash(w)
    \/ \E i \in Items : PoolTake(w, i)

Pool == PoolBreaks \/ \E w \in Workers : WorkerStep(w)

Next == Entry \/ Serial \/ Executor \/ Pool

Spec == Init /\ [][Next]_vars

(***************************************************************************)
(* The calling thread and the executor are scheduled, and a call of the    *)
(* function comes to an end: process_items has no timeout of its own.      *)
(***************************************************************************)
FairSpec ==
    /\ Spec
    /\ WF_vars(Entry \/ Serial \/ Executor)
    /\ WF_vars(Pool)
-----------------------------------------------------------------------------
TypeOK ==
    /\ call \in Calls
    /\ phase \in {"entry", "serial", "submit", "collect", "exit",
                  "returned", "raised"}
    /\ failure \in {"none", "width", "initializer", "raised", "broken"}
    /\ submitted \in 0..call.items
    /\ fut \in [Items -> FutureStatus]
    /\ worker \in [Workers -> {"unborn", "idle", "busy", "dead"}]
    /\ job \in [Workers -> 0..call.items]
    /\ broken \in BOOLEAN
    /\ results \in Seq(Items)

\* No item is in the list of results twice.
Injective ==
    \A k, l \in DOMAIN results : results[k] = results[l] => k = l

(***************************************************************************)
(* util.py:198: a call that returns has the result of every item, each     *)
(* exactly once, and no item of it failed or was lost with a worker.       *)
(***************************************************************************)
ReturnsEverything ==
    phase = "returned" =>
        /\ Collected = Items
        /\ Injective
        /\ \A i \in Items : fut[i] = "ok"

(***************************************************************************)
(* util.py:149: when process_items has returned or raised, no call of the  *)
(* function is in flight and none can begin.  The callers rely on it: they *)
(* delete the inputs, log the results and call sol_compat_fini next.       *)
(***************************************************************************)
Quiescent ==
    Finished =>
        /\ \A i \in Items : fut[i] \notin {"pending", "running"}
        /\ \A w \in Workers : worker[w] # "busy"

(***************************************************************************)
(* An exception in one item (util.py:158, 195).  On a pool every other     *)
(* item still runs before the caller sees it, with all its side effects;   *)
(* serially no item after the failed one is ever begun.                    *)
(***************************************************************************)
AfterAnException ==
    phase = "raised" /\ failure = "raised" =>
        IF Mode = "serial"
        THEN \E i \in Items : /\ fut[i] = "raised"
                              /\ \A k \in 1..(i - 1) : fut[k] = "ok"
                              /\ \A k \in (i + 1)..call.items : fut[k] = "unsent"
        ELSE broken \/ \A i \in Items : fut[i] \in {"ok", "raised"}

(***************************************************************************)
(* A settled future keeps its outcome and a collected result stays where   *)
(* it is, also when the pool breaks while others are still running.        *)
(***************************************************************************)
SettledForGood ==
    [][/\ \A i \in Items : fut[i] \notin Unsettled => fut'[i] = fut[i]
       /\ SubSeq(results', 1, Len(results)) = results]_vars

(***************************************************************************)
(* process_items comes to an end, with a result or an exception, whichever *)
(* items raise and whichever worker processes die (util.py:116-198).       *)
(***************************************************************************)
Termination == <>Finished

(***************************************************************************)
(* process_items keeps what BatchMap promises to its callers.              *)
(***************************************************************************)
BM == INSTANCE BatchMap WITH
        Universe <- Nat,
        items    <- Items,
        begun    <- {i \in Items : fut[i] \in {"running", "ok", "raised", "lost"}},
        inflight <- {i \in Items : fut[i] = "running"},
        answered <- Collected,
        outcome  <- IF Finished THEN phase ELSE "running"

IsABatchMap == BM!Spec
=============================================================================
