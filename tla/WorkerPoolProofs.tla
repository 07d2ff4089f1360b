-------------------------- MODULE WorkerPoolProofs ---------------------------
(***************************************************************************)
(* What process_items keeps for any list, any width and any outcome of the *)
(* items: the type invariant, the safety invariants of WorkerPool, and the *)
(* promise of BatchMap.                                                    *)
(***************************************************************************)
EXTENDS WorkerPool, SequenceTheorems, TLAPS

\* What is collected has a result.
CollectedOk == \A k \in DOMAIN results : fut[results[k]] = "ok"

\* A busy worker has an item, and the item of a worker, alive or dead, runs.
JobsRun ==
    \A w \in Workers : /\ worker[w] = "busy" => job[w] # 0
                       /\ job[w] # 0 => fut[job[w]] = "running"

JobsDiffer ==
    \A v, w \in Workers : v # w /\ job[v] # 0 => job[v] # job[w]

NothingBegun ==
    phase = "entry" =>
        /\ \A i \in Items : fut[i] = "unsent"
        /\ results = << >>
        /\ failure = "none"

\* The serial branch: the results are a prefix of the items.
InOrder ==
    Mode = "serial" =>
        /\ phase \in {"entry", "serial", "returned", "raised"}
        /\ \A k \in DOMAIN results : results[k] = k
        /\ \A i \in Items : fut[i] # "pending"
        /\ \A i \in Items : i <= Len(results) => fut[i] = "ok"
        /\ \A i \in Items : i > Len(results) + 1 => fut[i] = "unsent"
        /\ phase = "raised" /\ failure = "raised" =>
               Len(results) < call.items /\ fut[Len(results) + 1] = "raised"

\* The executor branch: what was submitted, and why the caller is leaving.
Submitted ==
    Mode # "serial" =>
        /\ phase # "serial"
        /\ \A i \in Items : fut[i] = "unsent" <=> i > submitted
        /\ phase = "submit" => results = << >> /\ failure = "none"
        /\ phase = "collect" => submitted = call.items /\ failure = "none"
        /\ phase = "exit" /\ failure = "none" => Collected = Items
        /\ phase \in {"exit", "raised"} /\ failure = "raised" => submitted = call.items

AllSettled ==
    Finished => \A i \in Items : fut[i] \notin {"pending", "running"}

ReturnedAll == phase = "returned" => Collected = Items

OnlyABrokenPoolLoses ==
    ~broken => \A i \in Items : fut[i] \notin {"lost", "cancelled"}

(***************************************************************************)
(* The inductive invariant.  The four properties are not inductive: that a *)
(* returning call has every result rests on what was submitted and why the *)
(* executor is being left, that nothing is in flight then on which worker  *)
(* runs what.                                                              *)
(***************************************************************************)
IInv ==
    /\ TypeOK
    /\ CollectedOk
    /\ Injective
    /\ JobsRun
    /\ JobsDiffer
    /\ NothingBegun
    /\ InOrder
    /\ Submitted
    /\ AllSettled
    /\ ReturnedAll
    /\ OnlyABrokenPoolLoses

-----------------------------------------------------------------------------
\* The branch, the items and the workers depend on the arguments alone.
LEMMA SameCall ==
    call' = call => Mode' = Mode /\ Items' = Items /\ Workers' = Workers /\ Width' = Width
BY DEF Mode, Items, Workers, Width, Requested

LEMMA InitIInv == Init => IInv
<1> SUFFICES ASSUME Init PROVE IInv
  OBVIOUS
<1>1. call.items \in Nat
  BY CallsAssumption DEF Init
<1>2. TypeOK
  <2>1. results \in Seq(Items)
    BY DEF Init
  <2>2. "unsent" \in FutureStatus
    BY DEF FutureStatus, Unsettled
  <2>3. fut \in [Items -> FutureStatus]
    BY <2>2 DEF Init
  <2>4. submitted \in 0..call.items /\ job \in [Workers -> 0..call.items]
    BY <1>1 DEF Init
  <2> QED
    BY <2>1, <2>3, <2>4 DEF Init, TypeOK
<1>3. \A i \in Items : fut[i] = "unsent" /\ i \in Nat /\ i > 0
  BY <1>1 DEF Init, Items
<1>4. CollectedOk /\ Injective /\ JobsRun /\ JobsDiffer /\ NothingBegun
  BY <1>3 DEF Init, CollectedOk, Injective, JobsRun, JobsDiffer, NothingBegun
<1>5. InOrder /\ Submitted
  BY <1>3 DEF Init, InOrder, Submitted
<1>6. AllSettled /\ ReturnedAll /\ OnlyABrokenPoolLoses
  BY <1>3 DEF Init, AllSettled, ReturnedAll, OnlyABrokenPoolLoses, Finished
<1> QED
  BY <1>2, <1>4, <1>5, <1>6 DEF IInv

-----------------------------------------------------------------------------
(***************************************************************************)
(* The steps of the calling thread that begin and collect nothing: they    *)
(* change where it is and what it is about to raise.                       *)
(***************************************************************************)
OnlyControl == UNCHANGED <<call, submitted, fut, worker, job, broken, results>>

LEMMA ControlStep ==
    ASSUME IInv, OnlyControl,
           phase' \in {"entry", "serial", "submit", "collect", "exit",
                      "returned", "raised"},
           failure' \in {"none", "width", "initializer", "raised", "broken"},
           (NothingBegun /\ InOrder /\ Submitted /\ AllSettled /\ ReturnedAll)'
    PROVE  IInv'
<1>1. Items' = Items /\ Workers' = Workers
  BY SameCall DEF OnlyControl
<1>2. TypeOK'
  BY <1>1 DEF IInv, TypeOK, OnlyControl
<1>3. CollectedOk' /\ Injective' /\ JobsRun' /\ JobsDiffer' /\ OnlyABrokenPoolLoses'
  BY <1>1 DEF IInv, CollectedOk, Injective, JobsRun, JobsDiffer, OnlyABrokenPoolLoses,
             OnlyControl
<1> QED
  BY <1>2, <1>3 DEF IInv

LEMMA EntryIInv == ASSUME IInv, Entry PROVE IInv'
<1>1. OnlyControl /\ phase = "entry"
  BY DEF Entry, Enter, RefuseWidth, InitializerRaises, OnlyControl
<1>2. Items' = Items /\ Mode' = Mode /\ call.items \in Nat
  BY <1>1, SameCall, CallsAssumption DEF OnlyControl, IInv, TypeOK
<1>3. /\ \A i \in Items : fut[i] = "unsent" /\ i \in Nat /\ i > 0
      /\ results = << >> /\ failure = "none" /\ submitted \in Nat
  BY <1>1, <1>2 DEF IInv, NothingBegun, Items, TypeOK
<1>4. /\ phase' \in {"serial", "submit", "raised"}
      /\ failure' \in {"none", "width", "initializer"}
      /\ phase' = "serial" <=> (Mode = "serial" /\ phase' # "raised")
      /\ phase' \in {"serial", "submit"} => failure' = "none"
  BY <1>3 DEF Entry, Enter, RefuseWidth, InitializerRaises
<1>5. (NothingBegun /\ AllSettled /\ ReturnedAll)'
  BY <1>1, <1>2, <1>3, <1>4 DEF NothingBegun, AllSettled, ReturnedAll, OnlyControl, Finished
<1>6. InOrder'
  BY <1>1, <1>2, <1>3, <1>4 DEF InOrder, OnlyControl
<1>7. Submitted'
  BY <1>1, <1>2, <1>3, <1>4 DEF Submitted, OnlyControl, IInv
<1> QED
  BY <1>1, <1>4, <1>5, <1>6, <1>7, ControlStep

LEMMA SerialControlIInv ==
    ASSUME IInv, SerialReturn \/ \E i \in Items : SerialRaise(i)
    PROVE  IInv'
<1>1. OnlyControl /\ phase = "serial" /\ phase' \in {"returned", "raised"}
  BY DEF SerialReturn, SerialRaise, OnlyControl
<1>2. Items' = Items /\ Mode' = Mode /\ call.items \in Nat
  BY <1>1, SameCall, CallsAssumption DEF OnlyControl, IInv, TypeOK
<1>3. Mode = "serial" /\ failure' \in {"none", "width", "initializer", "raised", "broken"}
  BY <1>1 DEF IInv, Submitted, SerialReturn, SerialRaise, TypeOK
<1>4. /\ Len(results) \in Nat
      /\ DOMAIN results = 1..Len(results)
      /\ \A k \in DOMAIN results : results[k] \in Items
  BY DEF IInv, TypeOK
<1>5. \A i \in Items : i \in Nat /\ i > 0 /\ i <= call.items
  BY <1>2 DEF Items
<1>6. \A i \in Items : fut[i] \notin {"pending", "running"}
  <2>1. CASE SerialReturn
    BY <1>3, <1>4, <1>5, <2>1 DEF IInv, InOrder, SerialReturn
  <2>2. CASE \E i \in Items : SerialRaise(i)
    <3>1. PICK i \in Items : fut[i] = "raised"
      BY <2>2 DEF SerialRaise
    <3>2. i = Len(results) + 1
      BY <1>3, <1>4, <1>5, <3>1 DEF IInv, InOrder
    <3> QED
      BY <1>3, <1>4, <1>5, <3>1, <3>2 DEF IInv, InOrder
  <2> QED
    BY <2>1, <2>2
<1>7. phase' = "returned" => Collected = Items
  <2> SUFFICES ASSUME Len(results) = call.items PROVE Collected = Items
    BY <1>3, <1>4 DEF SerialReturn, SerialRaise
  <2>1. \A i \in Items : i \in DOMAIN results /\ results[i] = i
    BY <1>3, <1>4, <1>5 DEF IInv, InOrder
  <2> QED
    BY <1>4, <2>1 DEF Collected
<1>8. phase' = "raised" => Len(results) < call.items /\ fut[Len(results) + 1] = "raised"
  <2> SUFFICES ASSUME NEW i \in Items, SerialRaise(i)
               PROVE  Len(results) < call.items /\ fut[Len(results) + 1] = "raised"
    BY DEF SerialReturn
  <2>1. i = Len(results) + 1
    BY <1>3, <1>4, <1>5 DEF IInv, InOrder, SerialRaise
  <2> QED
    BY <1>4, <1>5, <2>1, <1>2 DEF SerialRaise
<1>9. (NothingBegun /\ AllSettled /\ ReturnedAll /\ Submitted)'
  BY <1>1, <1>2, <1>3, <1>6, <1>7
     DEF NothingBegun, AllSettled, ReturnedAll, Submitted, OnlyControl, Finished, Collected
<1>10. InOrder'
  BY <1>1, <1>2, <1>3, <1>8 DEF InOrder, OnlyControl, IInv
<1> QED
  BY <1>1, <1>3, <1>9, <1>10, ControlStep

LEMMA ExecutorControlIInv ==
    ASSUME IInv,
           \/ SubmitRaises \/ BeginCollect \/ EndCollect \/ LeaveExecutor
           \/ \E i \in Items : CollectRaises(i)
    PROVE  IInv'
<1>1. OnlyControl /\ phase \in {"submit", "collect", "exit"}
  BY DEF SubmitRaises, BeginCollect, EndCollect, LeaveExecutor, CollectRaises, OnlyControl
<1>2. Items' = Items /\ Mode' = Mode /\ call.items \in Nat
  BY <1>1, SameCall, CallsAssumption DEF OnlyControl, IInv, TypeOK
<1>3. Mode # "serial"
  BY <1>1 DEF IInv, InOrder
<1>4. /\ phase' \in {"collect", "exit", "returned", "raised"}
      /\ failure' \in {"none", "width", "initializer", "raised", "broken"}
  BY <1>1 DEF SubmitRaises, BeginCollect, EndCollect, LeaveExecutor, CollectRaises,
              IInv, TypeOK
<1>5. (phase \in {"returned", "raised"})' => \A i \in Items : fut[i] \notin {"pending", "running"}
  BY DEF SubmitRaises, BeginCollect, EndCollect, LeaveExecutor, CollectRaises
<1>6. (NothingBegun /\ AllSettled)'
  BY <1>1, <1>2, <1>4, <1>5 DEF NothingBegun, AllSettled, OnlyControl, Finished
<1>7. InOrder'
  BY <1>2, <1>3 DEF InOrder
<1>8. ReturnedAll' /\ Collected' = Collected
  BY <1>1, <1>2, <1>3 DEF ReturnedAll, Collected, OnlyControl, IInv, Submitted,
        SubmitRaises, BeginCollect, EndCollect, LeaveExecutor, CollectRaises
<1>9. Submitted'
  <2>1. CASE SubmitRaises
    BY <1>1, <1>2, <1>3, <2>1 DEF Submitted, SubmitRaises, OnlyControl, IInv
  <2>2. CASE BeginCollect
    BY <1>1, <1>2, <1>3, <2>2 DEF Submitted, BeginCollect, OnlyControl, IInv
  <2>3. CASE EndCollect
    BY <1>1, <1>2, <1>3, <1>8, <2>3 DEF Submitted, EndCollect, OnlyControl, IInv
  <2>4. CASE LeaveExecutor
    BY <1>1, <1>2, <1>3, <2>4 DEF Submitted, LeaveExecutor, OnlyControl, IInv
  <2>5. CASE \E i \in Items : CollectRaises(i)
    BY <1>1, <1>2, <1>3, <2>5 DEF Submitted, CollectRaises, OnlyControl, IInv
  <2> QED
    BY <2>1, <2>2, <2>3, <2>4, <2>5
<1> QED
  BY <1>1, <1>4, <1>6, <1>7, <1>8, <1>9, ControlStep

-----------------------------------------------------------------------------
(***************************************************************************)
(* The steps that collect a result.                                        *)
(***************************************************************************)
LEMMA CollectIInv ==
    ASSUME IInv, NEW i \in Items, SerialAppend(i) \/ Collect(i)
    PROVE  IInv'
<1>1. /\ UNCHANGED <<call, phase, failure, submitted, fut, worker, job, broken>>
      /\ results' = Append(results, i)
      /\ fut[i] = "ok"
      /\ phase \in {"serial", "collect"}
  BY DEF SerialAppend, Collect
<1>2. Items' = Items /\ Mode' = Mode /\ Workers' = Workers /\ call.items \in Nat
  BY <1>1, SameCall, CallsAssumption DEF IInv, TypeOK
<1>3. /\ Len(results) \in Nat
      /\ DOMAIN results = 1..Len(results)
      /\ DOMAIN results' = 1..(Len(results) + 1)
      /\ Len(results') = Len(results) + 1
      /\ results' \in Seq(Items)
      /\ \A k \in DOMAIN results : results'[k] = results[k] /\ results[k] \in Items
      /\ results'[Len(results) + 1] = i
  BY <1>1 DEF IInv, TypeOK
<1>4. i \notin Collected
  <2>1. CASE SerialAppend(i)
    BY <1>1, <1>3, <2>1 DEF IInv, InOrder, Submitted, SerialAppend, Collected
  <2> QED
    BY <2>1 DEF Collect
<1>5. TypeOK'
  BY <1>1, <1>2, <1>3 DEF IInv, TypeOK
<1>6. CollectedOk'
  BY <1>1, <1>3 DEF IInv, CollectedOk
<1>7. Injective'
  BY <1>3, <1>4 DEF IInv, Injective, Collected
<1>8. (JobsRun /\ JobsDiffer /\ OnlyABrokenPoolLoses /\ AllSettled /\ ReturnedAll)'
  BY <1>1, <1>2 DEF IInv, JobsRun, JobsDiffer, OnlyABrokenPoolLoses, AllSettled,
                    ReturnedAll, Finished
<1>9. NothingBegun'
  BY <1>1 DEF NothingBegun
<1>10. Submitted'
  BY <1>1, <1>2 DEF IInv, Submitted
<1>11. InOrder'
  <2> SUFFICES ASSUME Mode = "serial" PROVE InOrder'
    BY <1>2 DEF InOrder
  <2>1. SerialAppend(i) /\ i = Len(results) + 1
    BY DEF IInv, InOrder, Collect, SerialAppend
  <2>2. \A j \in Items : j \in Nat
    BY DEF Items
  <2>3. \A k \in DOMAIN results' : results'[k] = k
    BY <1>3, <2>1 DEF IInv, InOrder
  <2>4. \A j \in Items : j <= Len(results') => fut[j] = "ok"
    BY <1>1, <1>3, <2>1, <2>2 DEF IInv, InOrder
  <2>5. \A j \in Items : j > Len(results') + 1 => fut[j] = "unsent"
    BY <1>3, <2>1, <2>2 DEF IInv, InOrder
  <2> QED
    BY <1>1, <1>2, <2>1, <2>3, <2>4, <2>5 DEF IInv, InOrder
<1> QED
  BY <1>5, <1>6, <1>7, <1>8, <1>9, <1>10, <1>11 DEF IInv

-----------------------------------------------------------------------------
(***************************************************************************)
(* The steps that change the status of a future.                           *)
(***************************************************************************)
LEMMA Types ==
    ASSUME IInv
    PROVE  /\ call.items \in Nat
           /\ \A i \in Items : i \in Nat /\ i > 0 /\ i <= call.items
           /\ submitted \in Nat /\ submitted <= call.items
           /\ fut \in [Items -> FutureStatus]
           /\ job \in [Workers -> Nat]
           /\ \A w \in Workers : job[w] # 0 => job[w] \in Items
           /\ Len(results) \in Nat
           /\ DOMAIN results = 1..Len(results)
           /\ \A k \in DOMAIN results : results[k] \in Items
<1>1. call.items \in Nat
  BY CallsAssumption DEF IInv, TypeOK
<1> QED
  BY <1>1 DEF IInv, TypeOK, Items

LEMMA SerialWorkIInv ==
    ASSUME IInv, NEW i \in Items, SerialCall(i) \/ SerialEnd(i)
    PROVE  IInv'
<1>1. PICK s \in {"running", "ok", "raised"} :
        /\ fut' = [fut EXCEPT ![i] = s]
        /\ UNCHANGED <<call, phase, failure, submitted, worker, job, broken, results>>
        /\ phase = "serial"
        /\ fut[i] \in {"unsent", "running"}
  BY DEF SerialCall, SerialEnd
<1>2. Items' = Items /\ Mode' = Mode /\ Workers' = Workers
  BY <1>1, SameCall
<1>3. Mode = "serial" /\ Workers = {}
  BY <1>1 DEF IInv, Submitted, Workers
<1>4. i = Len(results) + 1
  BY <1>1, <1>3, Types DEF IInv, InOrder, SerialCall, SerialEnd
<1>5. \A k \in DOMAIN results : results[k] # i
  BY <1>1, Types DEF IInv, CollectedOk
<1>6. /\ \A j \in Items : j # i => fut'[j] = fut[j]
      /\ fut'[i] = s
      /\ fut' \in [Items -> FutureStatus]
  BY <1>1, Types DEF FutureStatus, Unsettled, Failed
<1>7. TypeOK'
  BY <1>1, <1>2, <1>6 DEF IInv, TypeOK
<1>8. (CollectedOk /\ Injective /\ JobsRun /\ JobsDiffer)'
  BY <1>1, <1>2, <1>3, <1>5, <1>6, Types DEF IInv, CollectedOk, Injective, JobsRun, JobsDiffer
<1>9. (NothingBegun /\ AllSettled /\ ReturnedAll /\ Submitted)'
  BY <1>1, <1>2, <1>3 DEF NothingBegun, AllSettled, ReturnedAll, Submitted, Finished
<1>10. InOrder'
  BY <1>1, <1>2, <1>3, <1>4, <1>6, Types DEF IInv, InOrder
<1>11. OnlyABrokenPoolLoses'
  BY <1>1, <1>2, <1>6 DEF IInv, OnlyABrokenPoolLoses
<1> QED
  BY <1>7, <1>8, <1>9, <1>10, <1>11 DEF IInv

LEMMA SubmitIInv == ASSUME IInv, Submit PROVE IInv'
<1> DEFINE i == submitted + 1
<1>1. /\ fut' = [fut EXCEPT ![i] = "pending"]
      /\ UNCHANGED <<call, phase, failure, worker, job, broken, results>>
      /\ submitted' = i
      /\ phase = "submit"
      /\ submitted < call.items
  BY DEF Submit
<1>2. Items' = Items /\ Mode' = Mode /\ Workers' = Workers
  BY <1>1, SameCall
<1>3. Mode # "serial" /\ results = << >>
  BY <1>1 DEF IInv, InOrder, Submitted
<1>4. i \in Items /\ fut[i] = "unsent"
  BY <1>1, <1>3, Types DEF IInv, Submitted, Items
<1>5. /\ \A j \in Items : j # i => fut'[j] = fut[j]
      /\ fut'[i] = "pending"
      /\ fut' \in [Items -> FutureStatus]
  BY <1>1, <1>4, Types DEF FutureStatus, Unsettled
<1>6. TypeOK'
  <2>1. submitted' \in 0..call.items
    BY <1>1, Types
  <2> QED
    BY <1>1, <1>2, <1>5, <2>1 DEF IInv, TypeOK
<1> HIDE DEF i
<1>7. \A w \in Workers : job[w] # i
  BY <1>4, Types DEF IInv, JobsRun
<1>8. (CollectedOk /\ Injective /\ JobsRun /\ JobsDiffer)'
  BY <1>1, <1>2, <1>3, <1>5, <1>7, Types DEF IInv, CollectedOk, Injective, JobsRun, JobsDiffer
<1>9. (NothingBegun /\ AllSettled /\ ReturnedAll /\ InOrder)'
  BY <1>1, <1>2, <1>3 DEF NothingBegun, AllSettled, ReturnedAll, InOrder, Finished
<1>10. \A j \in Items : fut'[j] = "unsent" <=> j > submitted'
  <2>1. i = submitted + 1
    BY DEF i
  <2> QED
    BY <1>1, <1>3, <1>5, <2>1, Types DEF IInv, Submitted
<1>11. Submitted'
  BY <1>1, <1>2, <1>3, <1>10 DEF IInv, Submitted
<1>12. OnlyABrokenPoolLoses'
  BY <1>1, <1>2, <1>5 DEF IInv, OnlyABrokenPoolLoses
<1> QED
  BY <1>6, <1>8, <1>9, <1>11, <1>12 DEF IInv

-----------------------------------------------------------------------------
(***************************************************************************)
(* The steps of the executor.                                              *)
(***************************************************************************)
\* A worker that starts or dies leaves its item alone.
LEMMA PoolWorkerIInv ==
    ASSUME IInv, NEW w \in Workers, PoolSpawn(w) \/ PoolCrash(w)
    PROVE  IInv'
<1>1. PICK s \in {"idle", "dead"} :
        /\ worker' = [worker EXCEPT ![w] = s]
        /\ UNCHANGED <<call, phase, failure, submitted, fut, job, broken, results>>
  BY DEF PoolSpawn, PoolCrash
<1>2. Items' = Items /\ Mode' = Mode /\ Workers' = Workers
  BY <1>1, SameCall
<1>3. worker \in [Workers -> {"unborn", "idle", "busy", "dead"}]
  BY DEF IInv, TypeOK
<1>4. TypeOK'
  BY <1>1, <1>2, <1>3 DEF IInv, TypeOK
<1>5. \A v \in Workers : worker'[v] = "busy" => worker[v] = "busy"
  BY <1>1, <1>3
<1>6. (CollectedOk /\ Injective /\ JobsRun /\ JobsDiffer /\ NothingBegun /\ InOrder)'
  BY <1>1, <1>2, <1>5 DEF IInv, CollectedOk, Injective, JobsRun, JobsDiffer, NothingBegun,
                          InOrder
<1>7. (Submitted /\ AllSettled /\ ReturnedAll /\ OnlyABrokenPoolLoses)'
  <2>1. Collected' = Collected
    BY <1>1 DEF Collected
  <2> QED
    BY <1>1, <1>2, <2>1 DEF IInv, Submitted, AllSettled, ReturnedAll, OnlyABrokenPoolLoses,
                            Finished
<1> QED
  BY <1>4, <1>6, <1>7 DEF IInv

LEMMA PoolTakeIInv ==
    ASSUME IInv, NEW w \in Workers, NEW i \in Items, PoolTake(w, i)
    PROVE  IInv'
<1>1. /\ fut[i] = "pending"
      /\ worker' = [worker EXCEPT ![w] = "busy"]
      /\ job' = [job EXCEPT ![w] = i]
      /\ fut' = [fut EXCEPT ![i] = "running"]
      /\ UNCHANGED <<call, phase, failure, submitted, broken, results>>
  BY DEF PoolTake
<1>2. Items' = Items /\ Mode' = Mode /\ Workers' = Workers /\ Collected' = Collected
  BY <1>1, SameCall DEF Collected
<1>3. Mode # "serial" /\ phase # "entry" /\ ~Finished
  BY <1>1 DEF IInv, Workers, NothingBegun, AllSettled
<1>4. /\ \A j \in Items : j # i => fut'[j] = fut[j]
      /\ fut'[i] = "running"
      /\ fut' \in [Items -> FutureStatus]
  BY <1>1, Types DEF FutureStatus, Unsettled
<1>5. /\ \A v \in Workers : v # w => job'[v] = job[v] /\ worker'[v] = worker[v]
      /\ job'[w] = i /\ worker'[w] = "busy"
  BY <1>1 DEF IInv, TypeOK
<1>6. \A v \in Workers : job[v] # i
  BY <1>1, Types DEF IInv, JobsRun
<1>7. TypeOK'
  <2>1. job' \in [Workers -> 0..call.items]
    BY <1>1, Types DEF IInv, TypeOK
  <2> QED
    BY <1>1, <1>2, <1>4, <2>1 DEF IInv, TypeOK
<1>8. CollectedOk' /\ Injective'
  BY <1>1, <1>2, <1>4, Types DEF IInv, CollectedOk, Injective
<1>9. JobsRun'
  BY <1>1, <1>2, <1>4, <1>5, <1>6, Types DEF IInv, JobsRun
<1>10. JobsDiffer'
  BY <1>2, <1>5, <1>6, Types DEF IInv, JobsDiffer
<1>11. (NothingBegun /\ AllSettled /\ ReturnedAll /\ InOrder)'
  BY <1>1, <1>2, <1>3 DEF NothingBegun, AllSettled, ReturnedAll, InOrder, Finished
<1>12. Submitted'
  BY <1>1, <1>2, <1>4 DEF IInv, Submitted
<1>13. OnlyABrokenPoolLoses'
  BY <1>1, <1>2, <1>4 DEF IInv, OnlyABrokenPoolLoses
<1> QED
  BY <1>7, <1>8, <1>9, <1>10, <1>11, <1>12, <1>13 DEF IInv

LEMMA PoolEndIInv == ASSUME IInv, NEW w \in Workers, PoolEnd(w) PROVE IInv'
<1> DEFINE i == job[w]
<1>1. i \in Items /\ fut[i] = "running"
  BY Types DEF IInv, JobsRun, PoolEnd
<1>2. PICK s \in {"ok", "raised"} :
        /\ worker' = [worker EXCEPT ![w] = "idle"]
        /\ job' = [job EXCEPT ![w] = 0]
        /\ fut' = [fut EXCEPT ![i] = s]
        /\ UNCHANGED <<call, phase, failure, submitted, broken, results>>
  BY DEF PoolEnd
<1>3. \A v \in Workers : v # w => job[v] # i
  BY <1>1, Types DEF IInv, JobsDiffer
<1> HIDE DEF i
<1>4. Items' = Items /\ Mode' = Mode /\ Workers' = Workers /\ Collected' = Collected
  BY <1>2, SameCall DEF Collected
<1>5. Mode # "serial" /\ phase # "entry" /\ ~Finished
  BY <1>1 DEF IInv, Workers, NothingBegun, AllSettled
<1>6. /\ \A j \in Items : j # i => fut'[j] = fut[j]
      /\ fut'[i] = s
      /\ fut' \in [Items -> FutureStatus]
  BY <1>1, <1>2, Types DEF FutureStatus, Failed
<1>7. /\ \A v \in Workers : v # w => job'[v] = job[v] /\ worker'[v] = worker[v]
      /\ job'[w] = 0 /\ worker'[w] = "idle"
  BY <1>2 DEF IInv, TypeOK
<1>8. TypeOK'
  <2>1. job' \in [Workers -> 0..call.items]
    BY <1>2, Types DEF IInv, TypeOK
  <2> QED
    BY <1>2, <1>4, <1>6, <2>1 DEF IInv, TypeOK
<1>9. CollectedOk' /\ Injective'
  BY <1>1, <1>2, <1>4, <1>6, Types DEF IInv, CollectedOk, Injective
<1>10. JobsRun'
  BY <1>1, <1>3, <1>4, <1>6, <1>7, Types DEF IInv, JobsRun
<1>11. JobsDiffer'
  BY <1>4, <1>7, Types DEF IInv, JobsDiffer
<1>12. (NothingBegun /\ AllSettled /\ ReturnedAll /\ InOrder)'
  BY <1>2, <1>4, <1>5 DEF NothingBegun, AllSettled, ReturnedAll, InOrder, Finished
<1>13. Submitted'
  BY <1>1, <1>2, <1>4, <1>6 DEF IInv, Submitted
<1>14. OnlyABrokenPoolLoses'
  BY <1>2, <1>4, <1>6 DEF IInv, OnlyABrokenPoolLoses
<1> QED
  BY <1>8, <1>9, <1>10, <1>11, <1>12, <1>13, <1>14 DEF IInv

LEMMA PoolBreaksIInv == ASSUME IInv, PoolBreaks PROVE IInv'
<1>1. /\ broken' = TRUE
      /\ worker' = [w \in Workers |-> "dead"]
      /\ job' = [w \in Workers |-> 0]
      /\ UNCHANGED <<call, phase, failure, submitted, results>>
      /\ phase \in {"submit", "collect", "exit"}
  BY DEF PoolBreaks, InExecutor
<1>2. Items' = Items /\ Mode' = Mode /\ Workers' = Workers /\ Collected' = Collected
  BY <1>1, SameCall DEF Collected
<1>3. Mode # "serial"
  BY <1>1 DEF IInv, InOrder
<1>4. /\ fut' \in [Items -> FutureStatus]
      /\ \A i \in Items : fut[i] \in {"unsent", "ok", "raised"} => fut'[i] = fut[i]
      /\ \A i \in Items : fut'[i] = "unsent" => fut[i] = "unsent"
  <2> DEFINE g(i) == CASE fut[i] = "pending" -> "cancelled"
                       [] fut[i] = "running" -> "lost"
                       [] OTHER -> fut[i]
  <2>1. fut' = [i \in Items |-> g(i)]
    BY DEF PoolBreaks
  <2>2. \A i \in Items :
           /\ g(i) \in FutureStatus
           /\ fut[i] \in {"unsent", "ok", "raised"} => g(i) = fut[i]
           /\ g(i) = "unsent" => fut[i] = "unsent"
    BY Types DEF FutureStatus, Failed, Unsettled
  <2> HIDE DEF g
  <2> QED
    BY <2>1, <2>2
<1>5. TypeOK'
  <2>1. job' \in [Workers -> 0..call.items]
    BY <1>1, Types
  <2>2. worker' \in [Workers -> {"unborn", "idle", "busy", "dead"}]
    BY <1>1
  <2> QED
    BY <1>1, <1>2, <1>4, <2>1, <2>2 DEF IInv, TypeOK
<1>6. (CollectedOk /\ Injective)'
  BY <1>1, <1>2, <1>4, Types DEF IInv, CollectedOk, Injective
<1>7. (JobsRun /\ JobsDiffer)'
  BY <1>1, <1>2 DEF JobsRun, JobsDiffer
<1>8. (NothingBegun /\ AllSettled /\ ReturnedAll /\ InOrder /\ OnlyABrokenPoolLoses)'
  BY <1>1, <1>2, <1>3 DEF NothingBegun, AllSettled, ReturnedAll, InOrder, Finished,
                          OnlyABrokenPoolLoses
<1>9. Submitted'
  BY <1>1, <1>2, <1>4 DEF IInv, Submitted
<1> QED
  BY <1>5, <1>6, <1>7, <1>8, <1>9 DEF IInv

LEMMA NextIInv == IInv /\ [Next]_vars => IInv'
<1> SUFFICES ASSUME IInv, [Next]_vars PROVE IInv'
  OBVIOUS
<1>1. CASE Entry
  BY <1>1, EntryIInv
<1>2. CASE Serial
  BY <1>2, SerialControlIInv, SerialWorkIInv, CollectIInv DEF Serial
<1>3. CASE Executor
  BY <1>3, ExecutorControlIInv, SubmitIInv, CollectIInv DEF Executor
<1>4. CASE Pool
  BY <1>4, PoolWorkerIInv, PoolTakeIInv, PoolEndIInv, PoolBreaksIInv DEF Pool, WorkerStep
<1>5. CASE UNCHANGED vars
  <2>1. Items' = Items /\ Mode' = Mode /\ Workers' = Workers /\ Collected' = Collected
    BY <1>5, SameCall DEF vars, Collected
  <2> QED
    BY <1>5, <2>1 DEF vars, IInv, TypeOK, CollectedOk, Injective, JobsRun, JobsDiffer,
        NothingBegun, InOrder, Submitted, AllSettled, ReturnedAll,
        OnlyABrokenPoolLoses, Finished
<1> QED
  BY <1>1, <1>2, <1>3, <1>4, <1>5 DEF Next

-----------------------------------------------------------------------------
(***************************************************************************)
(* The inductive invariant holds in every state of process_items.          *)
(***************************************************************************)
THEOREM Invariance == Spec => []IInv
BY InitIInv, NextIInv, PTL DEF Spec

(***************************************************************************)
(* Every variable keeps its type, for any list and any width.              *)
(***************************************************************************)
THEOREM TypeCorrect == Spec => []TypeOK
<1>1. IInv => TypeOK
  BY DEF IInv
<1> QED
  BY <1>1, Invariance, PTL

(***************************************************************************)
(* util.py:198: a call that returns has every result exactly once.         *)
(***************************************************************************)
THEOREM ReturnsEverythingHolds == Spec => []ReturnsEverything
<1>1. IInv => ReturnsEverything
  BY DEF IInv, ReturnsEverything, ReturnedAll, CollectedOk, Collected
<1> QED
  BY <1>1, Invariance, PTL

(***************************************************************************)
(* util.py:149: a call that has returned or raised left nothing running.   *)
(***************************************************************************)
THEOREM QuiescentHolds == Spec => []Quiescent
<1>1. IInv => Quiescent
  BY Types DEF IInv, Quiescent, AllSettled, JobsRun
<1> QED
  BY <1>1, Invariance, PTL

(***************************************************************************)
(* util.py:158, 195: what an exception leaves of the other items.          *)
(***************************************************************************)
THEOREM AfterAnExceptionHolds == Spec => []AfterAnException
<1>1. IInv => AfterAnException
  <2> SUFFICES ASSUME IInv, phase = "raised", failure = "raised"
               PROVE  AfterAnException
    BY DEF AfterAnException
  <2>1. CASE Mode = "serial"
    <3>1. /\ Len(results) < call.items
          /\ fut[Len(results) + 1] = "raised"
          /\ \A i \in Items : i <= Len(results) => fut[i] = "ok"
          /\ \A i \in Items : i > Len(results) + 1 => fut[i] = "unsent"
      BY <2>1 DEF IInv, InOrder
    <3>2. Len(results) + 1 \in Items
      BY <3>1, Types DEF Items
    <3>3. \A k \in 1..Len(results) : fut[k] = "ok"
      BY <3>1, Types DEF Items
    <3>4. \A k \in (Len(results) + 2)..call.items : fut[k] = "unsent"
      BY <3>1, Types DEF Items
    <3>5. /\ (Len(results) + 1) - 1 = Len(results)
          /\ (Len(results) + 1) + 1 = Len(results) + 2
      BY Types
    <3> QED
      BY <2>1, <3>1, <3>2, <3>3, <3>4, <3>5 DEF AfterAnException
  <2>2. CASE Mode # "serial"
    <3>1. submitted = call.items
      BY <2>2 DEF IInv, Submitted
    <3>2. \A i \in Items : fut[i] \notin {"unsent", "pending", "running"}
      BY <2>2, <3>1, Types DEF IInv, Submitted, AllSettled, Finished
    <3>3. ~broken => \A i \in Items : fut[i] \in {"ok", "raised"}
      BY <3>2, Types DEF IInv, OnlyABrokenPoolLoses, FutureStatus, Unsettled, Failed
    <3> QED
      BY <2>2, <3>3 DEF AfterAnException
  <2> QED
    BY <2>1, <2>2
<1> QED
  BY <1>1, Invariance, PTL

(***************************************************************************)
(* An outcome is final and the list of results only grows at its end.      *)
(***************************************************************************)
THEOREM SettledForGoodHolds == Spec => SettledForGood
<1> DEFINE Final == \A i \in Items : fut[i] \notin Unsettled => fut'[i] = fut[i]
           Prefix == SubSeq(results', 1, Len(results)) = results
<1>1. IInv /\ [Next]_vars => Final
  <2> SUFFICES ASSUME IInv, Next, NEW j \in Items, fut[j] \notin Unsettled
               PROVE  fut'[j] = fut[j]
    BY DEF vars
  <2>1. ASSUME NEW i \in Items, SerialCall(i) \/ SerialEnd(i) PROVE fut'[j] = fut[j]
    BY <2>1, Types DEF SerialCall, SerialEnd, Unsettled
  <2>2. CASE Submit
    <3>1. Mode # "serial"
      BY <2>2 DEF IInv, InOrder, Submit
    <3>2. j # submitted + 1
      BY <3>1, Types DEF IInv, Submitted, Unsettled
    <3> QED
      BY <2>2, <3>2, Types DEF Submit
  <2>3. ASSUME NEW w \in Workers, NEW i \in Items, PoolTake(w, i) PROVE fut'[j] = fut[j]
    BY <2>3, Types DEF PoolTake, Unsettled
  <2>4. ASSUME NEW w \in Workers, PoolEnd(w) PROVE fut'[j] = fut[j]
    BY <2>4, Types DEF IInv, JobsRun, PoolEnd, Unsettled
  <2>5. CASE PoolBreaks
    BY <2>5 DEF PoolBreaks, Unsettled
  <2>6. CASE UNCHANGED fut
    BY <2>6
  <2> QED
    BY <2>1, <2>2, <2>3, <2>4, <2>5, <2>6
       DEF Next, Entry, Serial, Executor, Pool, WorkerStep, Enter, RefuseWidth,
           InitializerRaises, SerialAppend, SerialRaise, SerialReturn, SubmitRaises,
           BeginCollect, Collect, CollectRaises, EndCollect, LeaveExecutor,
           PoolSpawn, PoolCrash
<1>2. IInv /\ [Next]_vars => Prefix
  <2> SUFFICES ASSUME IInv, [Next]_vars PROVE Prefix
    OBVIOUS
  <2>1. results \in Seq(Items)
    BY DEF IInv, TypeOK
  <2>2. ASSUME NEW i \in Items, results' = Append(results, i) PROVE Prefix
    <3>1. /\ Append(results, i) \in Seq(Items)
          /\ Len(Append(results, i)) = Len(results) + 1
          /\ \A k \in 1..Len(results) : Append(results, i)[k] = results[k]
      BY <2>1
    <3>2. /\ SubSeq(results', 1, Len(results)) \in Seq(Items)
          /\ Len(SubSeq(results', 1, Len(results))) = Len(results)
          /\ \A k \in 1..Len(results) : SubSeq(results', 1, Len(results))[k] = results[k]
      BY <2>1, <2>2, <3>1, SubSeqProperties
    <3> QED
      BY <2>1, <3>2, SeqEqual
  <2>3. CASE UNCHANGED results
    BY <2>1, <2>3, SubSeqFull
  <2> QED
    BY <2>2, <2>3
       DEF vars, Next, Entry, Serial, Executor, Pool, WorkerStep, Enter, RefuseWidth,
           InitializerRaises, SerialCall, SerialEnd, SerialAppend, SerialRaise,
           SerialReturn, Submit, SubmitRaises, BeginCollect, Collect, CollectRaises,
           EndCollect, LeaveExecutor, PoolSpawn, PoolTake, PoolEnd, PoolCrash, PoolBreaks
<1>3. IInv /\ [Next]_vars => [Final /\ Prefix]_vars
  BY <1>1, <1>2
<1> QED
  BY <1>3, Invariance, PTL DEF Spec, SettledForGood

-----------------------------------------------------------------------------
(***************************************************************************)
(* process_items implements BatchMap.  One lemma for each step of BatchMap *)
(* and one for the steps BatchMap does not see.                            *)
(***************************************************************************)
Begun == {i \in Items : fut[i] \in {"running", "ok", "raised", "lost"}}
InFlight == {i \in Items : fut[i] = "running"}
Outcome == IF Finished THEN phase ELSE "running"

LEMMA Mapped ==
    ASSUME UNCHANGED call
    PROVE  /\ Items' = Items
           /\ UNCHANGED results => Collected' = Collected
           /\ UNCHANGED phase => Outcome' = Outcome
           /\ UNCHANGED fut => Begun' = Begun /\ InFlight' = InFlight
BY SameCall DEF Collected, Outcome, Finished, Begun, InFlight

LEMMA MapsToStutter ==
    ASSUME UNCHANGED call, Collected' = Collected, Begun' = Begun,
           InFlight' = InFlight, Outcome' = Outcome
    PROVE  UNCHANGED BM!vars
BY Mapped DEF BM!vars, Begun, InFlight, Outcome

LEMMA MapsToBegin ==
    ASSUME IInv, UNCHANGED <<call, phase, results>>, ~Finished,
           NEW i \in Items, fut[i] \in {"unsent", "pending"},
           fut' = [fut EXCEPT ![i] = "running"]
    PROVE  BM!Next
<1>1. Outcome = "running" /\ i \notin Begun
  BY DEF Outcome, Begun
<1>2. Items' = Items /\ Collected' = Collected /\ Outcome' = Outcome
  BY Mapped
<1>3. \A j \in Items : fut'[j] = IF j = i THEN "running" ELSE fut[j]
  BY Types
<1>4. Begun' = Begun \cup {i} /\ InFlight' = InFlight \cup {i}
  BY <1>2, <1>3 DEF Begun, InFlight
<1>5. BM!Begin(i)
  BY <1>1, <1>2, <1>4 DEF BM!Begin, Begun, InFlight, Outcome
<1> QED
  BY <1>5 DEF BM!Next

LEMMA MapsToEnd ==
    ASSUME UNCHANGED <<call, phase, results>>, ~Finished,
           NEW S \in SUBSET InFlight, S # {},
           Begun' = Begun, InFlight' = InFlight \ S
    PROVE  BM!Next
<1>1. Outcome = "running" /\ Items' = Items /\ Collected' = Collected /\ Outcome' = Outcome
  BY Mapped DEF Outcome
<1>2. BM!End(S)
  BY <1>1 DEF BM!End, Begun, InFlight, Outcome
<1> QED
  BY <1>2 DEF BM!Next, InFlight

LEMMA MapsToAnswer ==
    ASSUME IInv, UNCHANGED <<call, phase, fut>>, ~Finished,
           NEW i \in Items, fut[i] = "ok", i \notin Collected,
           results' = Append(results, i)
    PROVE  BM!Next
<1>1. Outcome = "running" /\ i \in Begun \ (InFlight \cup Collected)
  BY DEF Outcome, Begun, InFlight
<1>2. Items' = Items /\ Outcome' = Outcome /\ Begun' = Begun /\ InFlight' = InFlight
  BY Mapped
<1>3. Collected' = Collected \cup {i}
  <2>1. /\ DOMAIN results' = (DOMAIN results) \cup {Len(results) + 1}
        /\ \A k \in DOMAIN results : results'[k] = results[k]
        /\ results'[Len(results) + 1] = i
    BY DEF IInv, TypeOK
  <2> QED
    BY <2>1 DEF Collected
<1>4. BM!Answer(i)
  BY <1>1, <1>2, <1>3 DEF BM!Answer, Begun, InFlight, Outcome
<1> QED
  BY <1>4 DEF BM!Next

LEMMA MapsToReturn ==
    ASSUME UNCHANGED <<call, fut, results>>, ~Finished, phase' = "returned",
           Collected = Items, InFlight = {}
    PROVE  BM!Next
<1>1. Outcome = "running" /\ Outcome' = "returned"
  BY DEF Outcome, Finished
<1>2. BM!Return
  BY <1>1, Mapped DEF BM!Return, Begun, InFlight, Outcome
<1> QED
  BY <1>2 DEF BM!Next

LEMMA MapsToRaise ==
    ASSUME UNCHANGED <<call, fut, results>>, ~Finished, phase' = "raised",
           InFlight = {}
    PROVE  BM!Next
<1>1. Outcome = "running" /\ Outcome' = "raised"
  BY DEF Outcome, Finished
<1>2. BM!Raise
  BY <1>1, Mapped DEF BM!Raise, Begun, InFlight, Outcome
<1> QED
  BY <1>2 DEF BM!Next

LEMMA InitMaps == Init => BM!Init
<1> SUFFICES ASSUME Init PROVE BM!Init
  OBVIOUS
<1>1. Items \in SUBSET Nat
  BY CallsAssumption DEF Init, Items
<1>2. \A i \in Items : fut[i] = "unsent"
  BY DEF Init
<1>3. Collected = {} /\ ~Finished
  BY DEF Init, Collected, Finished
<1> QED
  BY <1>1, <1>2, <1>3 DEF BM!Init

\* The steps of the calling thread that only change where it is.
LEMMA ControlMaps ==
    ASSUME IInv, OnlyControl, Entry \/ Serial \/ Executor
    PROVE  BM!Next \/ UNCHANGED BM!vars
<1>1. UNCHANGED <<call, fut, results>> /\ ~Finished
  BY DEF OnlyControl, Entry, Serial, Executor, Enter, RefuseWidth, InitializerRaises,
         SerialCall, SerialEnd, SerialAppend, SerialRaise, SerialReturn, Submit,
         SubmitRaises, BeginCollect, Collect, CollectRaises, EndCollect, LeaveExecutor,
         Finished
<1>2. CASE phase' \notin {"returned", "raised"}
  <2>1. Outcome' = Outcome
    BY <1>1, <1>2 DEF Outcome, Finished
  <2> QED
    BY <1>1, <2>1, Mapped, MapsToStutter
<1>3. CASE phase' \in {"returned", "raised"}
  <2>1. IInv'
    BY EntryIInv, SerialControlIInv, SerialWorkIInv, CollectIInv, ExecutorControlIInv,
       SubmitIInv DEF Serial, Executor
  <2>2. InFlight = {}
    BY <1>1, <1>3, <2>1, Mapped DEF IInv, AllSettled, Finished, InFlight
  <2>3. phase' = "returned" => Collected = Items
    BY <1>1, <2>1, Mapped DEF IInv, ReturnedAll
  <2> QED
    BY <1>1, <1>3, <2>2, <2>3, MapsToReturn, MapsToRaise
<1> QED
  BY <1>2, <1>3

LEMMA CollectMaps ==
    ASSUME IInv, NEW i \in Items, SerialAppend(i) \/ Collect(i)
    PROVE  BM!Next
<1>1. i \notin Collected
  BY Types DEF IInv, InOrder, Submitted, SerialAppend, Collect, Collected
<1> QED
  BY <1>1, MapsToAnswer DEF SerialAppend, Collect, Finished

LEMMA SerialWorkMaps ==
    ASSUME IInv, NEW i \in Items, SerialCall(i) \/ SerialEnd(i)
    PROVE  BM!Next
<1>1. CASE SerialCall(i)
  BY <1>1, MapsToBegin DEF SerialCall, Finished
<1>2. CASE SerialEnd(i)
  <2>1. UNCHANGED <<call, phase, results>> /\ ~Finished /\ fut[i] = "running"
    BY <1>2 DEF SerialEnd, Finished
  <2>2. PICK s \in {"ok", "raised"} : fut' = [fut EXCEPT ![i] = s]
    BY <1>2 DEF SerialEnd
  <2>3. \A j \in Items : fut'[j] = IF j = i THEN s ELSE fut[j]
    BY <2>2, Types
  <2>4. Begun' = Begun /\ InFlight' = InFlight \ {i} /\ i \in InFlight
    BY <2>1, <2>3, Mapped DEF Begun, InFlight
  <2> QED
    BY <2>1, <2>4, MapsToEnd
<1> QED
  BY <1>1, <1>2

LEMMA SubmitMaps == ASSUME IInv, Submit PROVE UNCHANGED BM!vars
<1>1. Mode # "serial"
  BY DEF IInv, InOrder, Submit
<1>2. submitted + 1 \in Items /\ fut[submitted + 1] = "unsent"
  BY <1>1, Types DEF IInv, Submitted, Items, Submit
<1>3. UNCHANGED <<call, phase, results>>
  BY DEF Submit
<1>4. \A j \in Items : fut'[j] = IF j = submitted + 1 THEN "pending" ELSE fut[j]
  BY <1>2, Types DEF Submit
<1>5. Begun' = Begun /\ InFlight' = InFlight
  BY <1>2, <1>3, <1>4, Mapped DEF Begun, InFlight
<1> QED
  BY <1>3, <1>5, Mapped, MapsToStutter

LEMMA PoolMaps == ASSUME IInv, Pool PROVE BM!Next \/ UNCHANGED BM!vars
<1>1. UNCHANGED <<call, phase, results>>
  BY DEF Pool, WorkerStep, PoolSpawn, PoolTake, PoolEnd, PoolCrash, PoolBreaks
<1>2. ASSUME NEW w \in Workers, PoolSpawn(w) \/ PoolCrash(w) PROVE UNCHANGED BM!vars
  BY <1>1, <1>2, Mapped, MapsToStutter DEF PoolSpawn, PoolCrash
<1>3. ASSUME NEW w \in Workers, NEW i \in Items, PoolTake(w, i) PROVE BM!Next
  <2>1. fut[i] = "pending" /\ fut' = [fut EXCEPT ![i] = "running"]
    BY <1>3 DEF PoolTake
  <2>2. ~Finished
    BY <2>1 DEF IInv, AllSettled
  <2> QED
    BY <1>1, <2>1, <2>2, MapsToBegin
<1>4. ASSUME NEW w \in Workers, PoolEnd(w) PROVE BM!Next
  <2>1. job[w] \in Items /\ fut[job[w]] = "running"
    BY <1>4, Types DEF IInv, JobsRun, PoolEnd
  <2>2. ~Finished
    BY <2>1 DEF IInv, AllSettled
  <2>3. PICK s \in {"ok", "raised"} : fut' = [fut EXCEPT ![job[w]] = s]
    BY <1>4 DEF PoolEnd
  <2>4. \A j \in Items : fut'[j] = IF j = job[w] THEN s ELSE fut[j]
    BY <2>1, <2>3, Types
  <2>5. Begun' = Begun /\ InFlight' = InFlight \ {job[w]} /\ {job[w]} \in SUBSET InFlight
    BY <1>1, <2>1, <2>4, Mapped DEF Begun, InFlight
  <2> QED
    BY <1>1, <2>2, <2>5, MapsToEnd
<1>5. CASE PoolBreaks
  <2>1. ~Finished
    BY <1>5 DEF PoolBreaks, InExecutor, Finished
  <2>2. \A i \in Items :
           /\ fut'[i] \in {"running", "ok", "raised", "lost"}
                 <=> fut[i] \in {"running", "ok", "raised", "lost"}
           /\ fut'[i] # "running"
    BY <1>5, Types DEF PoolBreaks
  <2>3. Begun' = Begun /\ InFlight' = InFlight \ InFlight
    BY <1>1, <2>2, Mapped DEF Begun, InFlight
  <2>4. CASE InFlight = {}
    BY <1>1, <2>3, <2>4, Mapped, MapsToStutter
  <2>5. CASE InFlight # {}
    BY <1>1, <2>1, <2>3, <2>5, MapsToEnd
  <2> QED
    BY <2>4, <2>5
<1> QED
  BY <1>2, <1>3, <1>4, <1>5 DEF Pool, WorkerStep

(***************************************************************************)
(* Whatever its arguments, the mode it runs in and what happens to the     *)
(* items, process_items is a BatchMap to its callers.                      *)
(***************************************************************************)
THEOREM BatchMapHolds == Spec => IsABatchMap
<1>1. IInv /\ [Next]_vars => [BM!Next]_(BM!vars)
  <2> SUFFICES ASSUME IInv, [Next]_vars PROVE BM!Next \/ UNCHANGED BM!vars
    OBVIOUS
  <2>1. CASE OnlyControl /\ (Entry \/ Serial \/ Executor)
    BY <2>1, ControlMaps
  <2>2. CASE Pool
    BY <2>2, PoolMaps
  <2>3. CASE UNCHANGED vars
    BY <2>3, Mapped, MapsToStutter DEF vars
  <2>4. ASSUME NEW i \in Items,
               \/ SerialCall(i) \/ SerialEnd(i) \/ SerialAppend(i) \/ Collect(i)
        PROVE  BM!Next
    BY <2>4, SerialWorkMaps, CollectMaps
  <2>5. CASE Submit
    BY <2>5, SubmitMaps
  <2>6. Next => \/ OnlyControl /\ (Entry \/ Serial \/ Executor)
                \/ Pool \/ Submit
                \/ \E i \in Items : \/ SerialCall(i) \/ SerialEnd(i)
                                    \/ SerialAppend(i) \/ Collect(i)
    BY DEF Next, Entry, Serial, Executor, Enter, RefuseWidth, InitializerRaises,
           SerialRaise, SerialReturn, SubmitRaises, BeginCollect, CollectRaises,
           EndCollect, LeaveExecutor, OnlyControl
  <2> QED
    BY <2>1, <2>2, <2>3, <2>4, <2>5, <2>6
<1> QED
  BY <1>1, InitMaps, Invariance, PTL DEF Spec, IsABatchMap, BM!Spec

=============================================================================
