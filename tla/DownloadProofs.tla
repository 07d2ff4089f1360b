--------------------------- MODULE DownloadProofs ---------------------------
(***************************************************************************)
(* Safety of module Download for any lists, artifact tables, faults,       *)
(* number of threads and number of sessions.                               *)
(***************************************************************************)
EXTENDS Download, DataLemmas

Working(w) == thread[w] # Idle

\* A busy thread is at an artifact of its repro.
InRange ==
    \A w \in Worker : Working(w) => thread[w].k <= Len(world.hashes[thread[w].repro])

\* No thread outlives its session.
AllIdle == phase # "running" => \A w \in Worker : thread[w] = Idle

(***************************************************************************)
(* A thread that will open or write a fixture holds its claim, and the     *)
(* file is as the thread left it.                                          *)
(***************************************************************************)
HoldsClaim ==
    \A w \in Worker :
        /\ Writing(w) => At(w) \in extracted
        /\ thread[w].pc = "open_fix" => inputs[At(w)] = "absent"
        /\ thread[w].pc = "write_fix" => inputs[At(w)] = "partial"

\* What a thread has in hand, and what the cache holds, is listed by its owner.
DataListed ==
    /\ \A w \in Worker :
          Working(w) /\ thread[w].pc # "lookup" /\ thread[w].data \in Repro
              => Lists(thread[w].data, At(w))
    /\ \A h \in Hash : cache[h] \in Repro => Lists(cache[h], h)

IInv ==
    /\ TypeOK
    /\ InRange
    /\ AllIdle
    /\ HoldsClaim
    /\ OneWriter
    /\ DataListed
    /\ Provenance

-----------------------------------------------------------------------------
(***************************************************************************)
(* The artifact a busy thread is at is one of those its repro lists.       *)
(***************************************************************************)
LEMMA AtListed ==
    ASSUME TypeOK, InRange, NEW w \in Worker, Working(w)
    PROVE  /\ thread[w] \in Busy
           /\ world.hashes[thread[w].repro] \in Seq(Hash)
           /\ thread[w].k \in DOMAIN world.hashes[thread[w].repro]
           /\ At(w) \in Hash
           /\ Lists(thread[w].repro, At(w))
<1>1. thread[w] \in Busy
  BY DEF TypeOK, Working
<1>2. world.hashes[thread[w].repro] \in Seq(Hash)
  BY <1>1, WorldsAssumption DEF TypeOK, Busy
<1>3. thread[w].k \in DOMAIN world.hashes[thread[w].repro]
  BY <1>1, <1>2 DEF InRange, Busy
<1>4. At(w) \in Hash
  BY <1>2, <1>3 DEF At
<1>5. Lists(thread[w].repro, At(w))
  BY <1>3 DEF At, Lists
<1> QED
  BY <1>1, <1>2, <1>3, <1>4, <1>5

\* A thread whose program counter is a step is busy.
LEMMA StepIsWorking ==
    ASSUME NEW w \in Worker, thread[w].pc \in Step
    PROVE  Working(w)
BY DEF Working, Idle, Step

LEMMA InitIInv == Init => IInv
<1> SUFFICES ASSUME Init PROVE IInv
  OBVIOUS
<1> USE DEF Init
<1>1. \A w \in Worker : thread[w] = Idle /\ thread[w].pc = "idle"
  BY DEF Idle
<1>2. TypeOK
  BY DEF TypeOK, Content
<1>3. InRange /\ AllIdle /\ HoldsClaim /\ OneWriter
  BY <1>1 DEF InRange, AllIdle, HoldsClaim, OneWriter, Writing, Working
<1>4. DataListed /\ Provenance
  BY <1>1, ReproAssumption DEF DataListed, Provenance, Working
<1> QED
  BY <1>2, <1>3, <1>4 DEF IInv

-----------------------------------------------------------------------------
(***************************************************************************)
(* What a step of one thread leaves alone.                                 *)
(***************************************************************************)
LEMMA Frame ==
    ASSUME TypeOK, NEW w \in Worker, NEW x,
           thread' = [thread EXCEPT ![w] = x], world' = world
    PROVE  /\ thread'[w] = x
           /\ \A v \in Worker : v # w => /\ thread'[v] = thread[v]
                                         /\ At(v)' = At(v)
                                         /\ Writing(v)' = Writing(v)
                                         /\ Working(v)' = Working(v)
<1>1. thread'[w] = x /\ \A v \in Worker : v # w => thread'[v] = thread[v]
  BY DEF TypeOK
<1>2. ASSUME NEW v \in Worker, v # w
      PROVE  /\ At(v)' = At(v)
             /\ Writing(v)' = Writing(v)
             /\ Working(v)' = Working(v)
  BY <1>1, <1>2 DEF At, Writing, Working
<1> QED
  BY <1>1, <1>2

(***************************************************************************)
(* A step that changes a thread, and neither the fixtures on disk nor the  *)
(* claims, keeps the invariant when its new state y is a sound one.        *)
(***************************************************************************)
LEMMA ThreadStep ==
    ASSUME IInv, NEW w \in Worker, NEW y,
           thread' = [thread EXCEPT ![w] = y],
           UNCHANGED <<world, phase, inputs>>,
           phase = "running",
           extracted \subseteq extracted',
           TypeOK',
           \/ y = Idle
           \/ /\ y \in Busy
              /\ y.k <= Len(world.hashes[y.repro])
              /\ y.pc = "write_fix" => FALSE
              /\ y.pc = "open_fix" =>
                    /\ world.hashes[y.repro][y.k] \in extracted'
                    /\ inputs[world.hashes[y.repro][y.k]] = "absent"
                    /\ \A v \in Worker : Writing(v) =>
                          At(v) # world.hashes[y.repro][y.k]
              /\ y.pc # "lookup" /\ y.data \in Repro =>
                    Lists(y.data, world.hashes[y.repro][y.k]),
           \A h \in Hash : cache'[h] \in Repro => Lists(cache'[h], h)
    PROVE  IInv'
<1> USE DEF IInv
<1>1. /\ thread'[w] = y
      /\ \A v \in Worker : v # w => /\ thread'[v] = thread[v]
                                    /\ At(v)' = At(v)
                                    /\ Writing(v)' = Writing(v)
                                    /\ Working(v)' = Working(v)
  BY Frame
<1>2. At(w)' = world.hashes[y.repro][y.k]
  BY <1>1 DEF At
<1>3. Writing(w)' => y.pc = "open_fix" /\ y # Idle
  BY <1>1 DEF Writing, Idle
<1>4. InRange' /\ AllIdle'
  BY <1>1 DEF InRange, AllIdle, Working
<1>5. HoldsClaim'
  <2> SUFFICES ASSUME NEW v \in Worker
               PROVE  /\ Writing(v)' => At(v)' \in extracted'
                      /\ thread'[v].pc = "open_fix" => inputs'[At(v)'] = "absent"
                      /\ thread'[v].pc = "write_fix" => inputs'[At(v)'] = "partial"
    BY DEF HoldsClaim
  <2>1. CASE v = w
    BY <1>1, <1>2, <1>3, <2>1 DEF Idle
  <2>2. CASE v # w
    BY <1>1, <2>2 DEF HoldsClaim
  <2> QED
    BY <2>1, <2>2
<1>6. OneWriter'
  <2> SUFFICES ASSUME NEW u \in Worker, NEW v \in Worker, u # v,
                      Writing(u)', Writing(v)'
               PROVE  At(u)' # At(v)'
    BY DEF OneWriter
  <2> QED
    BY <1>1, <1>2, <1>3 DEF OneWriter
<1>7. DataListed'
  <2>1. ASSUME NEW v \in Worker, Working(v)', thread'[v].pc # "lookup",
               thread'[v].data \in Repro
        PROVE  Lists(thread[v].data, At(v))'
    <3>1. \A r, h : Lists(r, h)' = Lists(r, h)
      BY DEF Lists
    <3>2. CASE v = w
      <4>1. Lists(y.data, world.hashes[y.repro][y.k])
        BY <1>1, <2>1, <3>2 DEF Working
      <4> QED
        BY <1>1, <1>2, <3>1, <3>2, <4>1
    <3>3. CASE v # w
      <4>1. thread'[v] = thread[v] /\ At(v)' = At(v) /\ Working(v)
        BY <1>1, <2>1, <3>3
      <4>2. Lists(thread[v].data, At(v))
        BY <2>1, <4>1 DEF DataListed
      <4> QED
        BY <3>1, <4>1, <4>2
    <3> QED
      BY <3>2, <3>3
  <2>2. ASSUME NEW h \in Hash, cache'[h] \in Repro
        PROVE  Lists(cache[h], h)'
    BY <2>2 DEF Lists
  <2> QED
    BY <2>1, <2>2 DEF DataListed
<1>8. Provenance'
  BY DEF Provenance, Lists
<1> QED
  BY <1>4, <1>5, <1>6, <1>7, <1>8

(***************************************************************************)
(* A worker step other than Take is a step of a busy thread of a running   *)
(* session; Goto changes its program counter and its data only.            *)
(***************************************************************************)
LEMMA BusyStep ==
    ASSUME IInv, NEW w \in Worker, thread[w].pc \in Step
    PROVE  /\ phase = "running"
           /\ thread[w] \in Busy
           /\ thread[w].k <= Len(world.hashes[thread[w].repro])
           /\ At(w) = world.hashes[thread[w].repro][thread[w].k]
           /\ At(w) \in Hash
           /\ Lists(thread[w].repro, At(w))
<1>1. Working(w)
  BY StepIsWorking
<1> QED
  BY <1>1, AtListed DEF IInv, AllIdle, TypeOK, InRange, Working, At

LEMMA GotoStep ==
    ASSUME NEW w \in Worker, thread[w] \in Busy, NEW pc \in Step, NEW data \in Content,
           Goto(w, pc, data)
    PROVE  \E y \in Busy : /\ thread' = [thread EXCEPT ![w] = y]
                           /\ y.pc = pc /\ y.data = data
                           /\ y.repro = thread[w].repro /\ y.k = thread[w].k
<1> DEFINE y == [thread[w] EXCEPT !.pc = pc, !.data = data]
<1>1. y \in Busy
  BY DEF Busy
<1>2. /\ y.pc = pc /\ y.data = data
      /\ y.repro = thread[w].repro /\ y.k = thread[w].k
  BY DEF Busy
<1>3. thread' = [thread EXCEPT ![w] = y]
  BY DEF Goto
<1> QED
  BY <1>1, <1>2, <1>3

LEMMA AdvanceStep ==
    ASSUME TypeOK, InRange, NEW w \in Worker, thread[w] \in Busy, NEW n \in Nat,
           Advance(w, n)
    PROVE  /\ \E y : /\ thread' = [thread EXCEPT ![w] = y]
                     /\ \/ y = Idle
                        \/ /\ y \in Busy
                           /\ y.pc = "lookup"
                           /\ y.k <= Len(world.hashes[y.repro])
           /\ results' \in Seq([repro : Repro, success : BOOLEAN, fixtures : Nat])
<1> DEFINE y == Lookup(thread[w].repro, thread[w].k + 1, n)
<1>1. CASE thread[w].k < Len(world.hashes[thread[w].repro])
  <2>1. world.hashes[thread[w].repro] \in Seq(Hash)
    BY WorldsAssumption DEF TypeOK, Busy
  <2>2. /\ y \in Busy /\ y.pc = "lookup"
        /\ y.k = thread[w].k + 1 /\ y.repro = thread[w].repro
    BY DEF Busy, Step, Lookup, Content
  <2>3. y.k <= Len(world.hashes[y.repro])
    BY <1>1, <2>1, <2>2 DEF Busy
  <2>4. thread' = [thread EXCEPT ![w] = y] /\ results' = results
    BY <1>1 DEF Advance
  <2> QED
    BY <2>2, <2>3, <2>4 DEF TypeOK
<1>2. CASE ~(thread[w].k < Len(world.hashes[thread[w].repro]))
  <2>1. /\ thread' = [thread EXCEPT ![w] = Idle]
        /\ results' = Append(results, Success(thread[w].repro, n))
    BY <1>2 DEF Advance
  <2>2. Success(thread[w].repro, n) \in [repro : Repro, success : BOOLEAN, fixtures : Nat]
    BY DEF Success, Busy
  <2>3. results' \in Seq([repro : Repro, success : BOOLEAN, fixtures : Nat])
    BY <2>1, <2>2 DEF TypeOK
  <2> QED
    BY <2>1, <2>3
<1> QED
  BY <1>1, <1>2

-----------------------------------------------------------------------------
(***************************************************************************)
(* One lemma per action.                                                   *)
(***************************************************************************)
LEMMA TakeIInv == ASSUME IInv, NEW w \in Worker, Take(w) PROVE IInv'
<1> DEFINE r == world.list[next]
           x == Lookup(r, 1, 0)
<1>1. TypeOK /\ DataListed
  BY DEF IInv
<1>2. r \in Repro /\ world.hashes[r] \in Seq(Hash)
  BY <1>1, WorldsAssumption DEF TypeOK, Take
<1>3. /\ phase = "running"
      /\ UNCHANGED <<world, session, phase, cache, inputs, extracted>>
      /\ next' = next + 1
  BY DEF Take, disk
<1>4. CASE world.hashes[r] = << >>
  <2>1. thread' = thread /\ results' = Append(results, Failure(r))
    BY <1>4 DEF Take
  <2>2. Failure(r) \in [repro : Repro, success : BOOLEAN, fixtures : Nat]
    BY <1>2 DEF Failure
  <2>3. results' \in Seq([repro : Repro, success : BOOLEAN, fixtures : Nat])
    BY <1>1, <2>1, <2>2 DEF TypeOK
  <2>4. TypeOK'
    BY <1>1, <1>3, <2>1, <2>3 DEF TypeOK
  <2>5. thread' = [thread EXCEPT ![w] = Idle]
    BY <1>1, <2>1 DEF Take, TypeOK
  <2> QED
    BY <1>1, <1>3, <2>4, <2>5, ThreadStep DEF DataListed
<1>5. CASE world.hashes[r] # << >>
  <2>1. thread' = [thread EXCEPT ![w] = x] /\ results' = results
    BY <1>5 DEF Take
  <2>2. x \in Busy /\ x.k <= Len(world.hashes[x.repro]) /\ x.pc = "lookup"
    BY <1>2, <1>5 DEF Busy, Step, Content, Lookup
  <2>3. TypeOK'
    BY <1>1, <1>3, <2>1, <2>2 DEF TypeOK
  <2> QED
    BY <1>1, <1>3, <2>1, <2>2, <2>3, ThreadStep DEF DataListed
<1> QED
  BY <1>4, <1>5

LEMMA ReadCacheIInv == ASSUME IInv, NEW w \in Worker, ReadCache(w) PROVE IInv'
<1> DEFINE c == cache[At(w)]
<1>1. TypeOK /\ DataListed
  BY DEF IInv
<1>2. /\ phase = "running"
      /\ thread[w] \in Busy
      /\ thread[w].k <= Len(world.hashes[thread[w].repro])
      /\ At(w) = world.hashes[thread[w].repro][thread[w].k]
      /\ At(w) \in Hash
  BY BusyStep DEF ReadCache, Step
<1>3. c \in Content /\ Goto(w, "claim", c) /\ "claim" \in Step
  BY <1>1, <1>2 DEF TypeOK, ReadCache, Step
<1> HIDE DEF c
<1>4. PICK y \in Busy : /\ thread' = [thread EXCEPT ![w] = y]
                        /\ y.pc = "claim" /\ y.data = c
                        /\ y.repro = thread[w].repro /\ y.k = thread[w].k
  BY <1>2, <1>3, GotoStep
<1>5. UNCHANGED <<world, session, phase, next, cache, inputs, extracted, results>>
  BY DEF ReadCache, disk
<1>6. TypeOK'
  BY <1>1, <1>4, <1>5 DEF TypeOK
<1> QED
  BY <1>1, <1>2, <1>4, <1>5, <1>6, ThreadStep DEF DataListed, c

LEMMA FetchIInv == ASSUME IInv, NEW w \in Worker, Fetch(w) PROVE IInv'
<1>1. TypeOK /\ DataListed
  BY DEF IInv
<1>2. /\ phase = "running"
      /\ thread[w] \in Busy
      /\ thread[w].k <= Len(world.hashes[thread[w].repro])
      /\ At(w) = world.hashes[thread[w].repro][thread[w].k]
      /\ Lists(thread[w].repro, At(w))
  BY BusyStep DEF Fetch, Step
<1>3. thread[w].repro \in Content
  BY <1>2 DEF Busy, Content
<1>4. PICK y \in Busy : /\ thread' = [thread EXCEPT ![w] = y]
                        /\ y.pc = "open_cache" /\ y.data = thread[w].repro
                        /\ y.repro = thread[w].repro /\ y.k = thread[w].k
  <2>1. Goto(w, "open_cache", thread[w].repro) /\ "open_cache" \in Step
    BY DEF Fetch, Step
  <2> QED
    BY <1>2, <1>3, <2>1, GotoStep
<1>5. UNCHANGED <<world, session, phase, next, cache, inputs, extracted, results>>
  BY DEF Fetch, disk
<1>6. TypeOK'
  BY <1>1, <1>4, <1>5 DEF TypeOK
<1> QED
  BY <1>1, <1>2, <1>4, <1>5, <1>6, ThreadStep DEF DataListed

LEMMA OpenCacheIInv == ASSUME IInv, NEW w \in Worker, OpenCache(w) PROVE IInv'
<1>1. TypeOK /\ DataListed
  BY DEF IInv
<1>2. /\ phase = "running"
      /\ thread[w] \in Busy
      /\ thread[w].k <= Len(world.hashes[thread[w].repro])
      /\ At(w) = world.hashes[thread[w].repro][thread[w].k]
      /\ At(w) \in Hash
  BY BusyStep DEF OpenCache, Step
<1>3. /\ thread[w].data \in Content
      /\ Goto(w, "write_cache", thread[w].data)
      /\ "write_cache" \in Step
  BY <1>2 DEF Busy, OpenCache, Step
<1>4. PICK y \in Busy : /\ thread' = [thread EXCEPT ![w] = y]
                        /\ y.pc = "write_cache" /\ y.data = thread[w].data
                        /\ y.repro = thread[w].repro /\ y.k = thread[w].k
  BY <1>2, <1>3, GotoStep
<1>5. /\ UNCHANGED <<world, session, phase, next, inputs, extracted, results>>
      /\ cache' = [cache EXCEPT ![At(w)] = "partial"]
  BY DEF OpenCache
<1>6. cache' \in [Hash -> Content]
  BY <1>1, <1>5 DEF TypeOK, Content
<1>7. TypeOK'
  BY <1>1, <1>4, <1>5, <1>6 DEF TypeOK
<1>8. y.data \in Repro => Lists(y.data, At(w))
  <2>1. Working(w) /\ thread[w].pc # "lookup"
    BY DEF OpenCache, Working, Idle
  <2> QED
    BY <1>1, <1>4, <2>1 DEF DataListed
<1>9. \A h \in Hash : cache'[h] \in Repro => Lists(cache'[h], h)
  BY <1>1, <1>5, ReproAssumption DEF DataListed, TypeOK
<1>10. /\ y.pc # "write_fix" /\ y.pc # "open_fix"
       /\ y.k <= Len(world.hashes[y.repro])
       /\ y.data \in Repro => Lists(y.data, world.hashes[y.repro][y.k])
  BY <1>2, <1>4, <1>8
<1>11. thread' = [thread EXCEPT ![w] = y] /\ y \in Busy
  BY <1>4
<1> QED
  BY <1>2, <1>5, <1>7, <1>9, <1>10, <1>11, ThreadStep

LEMMA WriteCacheIInv == ASSUME IInv, NEW w \in Worker, WriteCache(w) PROVE IInv'
<1>1. TypeOK /\ DataListed
  BY DEF IInv
<1>2. /\ phase = "running"
      /\ thread[w] \in Busy
      /\ thread[w].k <= Len(world.hashes[thread[w].repro])
      /\ At(w) = world.hashes[thread[w].repro][thread[w].k]
      /\ At(w) \in Hash
  BY BusyStep DEF WriteCache, Step
<1>3. /\ thread[w].data \in Content
      /\ Goto(w, "claim", thread[w].data)
      /\ "claim" \in Step
  BY <1>2 DEF Busy, WriteCache, Step
<1>4. PICK y \in Busy : /\ thread' = [thread EXCEPT ![w] = y]
                        /\ y.pc = "claim" /\ y.data = thread[w].data
                        /\ y.repro = thread[w].repro /\ y.k = thread[w].k
  BY <1>2, <1>3, GotoStep
<1>5. /\ UNCHANGED <<world, session, phase, next, inputs, extracted, results>>
      /\ \E c \in {thread[w].data, "partial"} : cache' = [cache EXCEPT ![At(w)] = c]
  BY DEF WriteCache
<1>6. PICK c \in {thread[w].data, "partial"} : cache' = [cache EXCEPT ![At(w)] = c]
  BY <1>5
<1>7. cache' \in [Hash -> Content]
  BY <1>1, <1>3, <1>6 DEF TypeOK, Content
<1>8. TypeOK'
  BY <1>1, <1>4, <1>5, <1>7 DEF TypeOK
<1>9. thread[w].data \in Repro => Lists(thread[w].data, At(w))
  <2>1. Working(w) /\ thread[w].pc # "lookup"
    BY DEF WriteCache, Working, Idle
  <2> QED
    BY <1>1, <2>1 DEF DataListed
<1>10. \A h \in Hash : cache'[h] \in Repro => Lists(cache'[h], h)
  BY <1>1, <1>6, <1>9, ReproAssumption DEF DataListed, TypeOK
<1>11. /\ y.pc # "write_fix" /\ y.pc # "open_fix"
       /\ y.k <= Len(world.hashes[y.repro])
       /\ y.data \in Repro => Lists(y.data, world.hashes[y.repro][y.k])
  BY <1>2, <1>4, <1>9
<1>12. thread' = [thread EXCEPT ![w] = y] /\ y \in Busy
  BY <1>4
<1> QED
  BY <1>2, <1>5, <1>8, <1>10, <1>11, <1>12, ThreadStep

LEMMA SkipIInv == ASSUME IInv, NEW w \in Worker, Skip(w) PROVE IInv'
<1>1. TypeOK /\ DataListed /\ InRange
  BY DEF IInv
<1>2. phase = "running" /\ thread[w] \in Busy
  BY BusyStep DEF Skip, Step
<1>3. thread[w].saved \in Nat /\ Advance(w, thread[w].saved)
  BY <1>2 DEF Skip, Busy
<1>4. /\ UNCHANGED <<world, session, phase, next, cache, inputs, extracted>>
      /\ results' \in Seq([repro : Repro, success : BOOLEAN, fixtures : Nat])
  BY <1>1, <1>2, <1>3, AdvanceStep DEF Skip, disk
<1>5. PICK y : /\ thread' = [thread EXCEPT ![w] = y]
               /\ \/ y = Idle
                  \/ /\ y \in Busy
                     /\ y.pc = "lookup"
                     /\ y.k <= Len(world.hashes[y.repro])
  BY <1>1, <1>2, <1>3, AdvanceStep
<1>6. TypeOK'
  BY <1>1, <1>4, <1>5 DEF TypeOK
<1> QED
  BY <1>1, <1>2, <1>4, <1>5, <1>6, ThreadStep DEF DataListed

LEMMA ClaimIInv == ASSUME IInv, NEW w \in Worker, Claim(w) PROVE IInv'
<1>1. TypeOK /\ DataListed /\ HoldsClaim
  BY DEF IInv
<1>2. /\ phase = "running"
      /\ thread[w] \in Busy
      /\ thread[w].k <= Len(world.hashes[thread[w].repro])
      /\ At(w) = world.hashes[thread[w].repro][thread[w].k]
      /\ At(w) \in Hash
  BY BusyStep DEF Claim, Step
<1>3. /\ thread[w].data \in Content
      /\ Goto(w, "open_fix", thread[w].data)
      /\ "open_fix" \in Step
  BY <1>2 DEF Busy, Claim, Step
<1>4. PICK y \in Busy : /\ thread' = [thread EXCEPT ![w] = y]
                        /\ y.pc = "open_fix" /\ y.data = thread[w].data
                        /\ y.repro = thread[w].repro /\ y.k = thread[w].k
  BY <1>2, <1>3, GotoStep
<1>5. /\ UNCHANGED <<world, session, phase, next, cache, inputs, results>>
      /\ extracted' = extracted \cup {At(w)}
      /\ inputs[At(w)] = "absent" /\ At(w) \notin extracted
  BY DEF Claim, Claimed, disk
<1>6. TypeOK'
  BY <1>1, <1>2, <1>4, <1>5 DEF TypeOK
<1>7. \A v \in Worker : Writing(v) => At(v) # At(w)
  BY <1>1, <1>5 DEF HoldsClaim
<1>8. y.data \in Repro => Lists(y.data, At(w))
  BY <1>1, <1>2, <1>4 DEF DataListed, Claim, Working, Idle
<1>9. \A h \in Hash : cache'[h] \in Repro => Lists(cache'[h], h)
  BY <1>1, <1>5 DEF DataListed
<1> QED
  BY <1>2, <1>4, <1>5, <1>6, <1>7, <1>8, <1>9, ThreadStep

LEMMA FailIInv == ASSUME IInv, NEW w \in Worker, Fail(w) PROVE IInv'
<1>1. TypeOK /\ DataListed
  BY DEF IInv
<1>2. phase = "running" /\ thread[w] \in Busy
  BY BusyStep DEF Fail, Step
<1>3. /\ UNCHANGED <<world, session, phase, next, cache, inputs, extracted>>
      /\ thread' = [thread EXCEPT ![w] = Idle]
      /\ results' = Append(results, Failure(thread[w].repro))
  BY DEF Fail, disk
<1>4. Failure(thread[w].repro) \in [repro : Repro, success : BOOLEAN, fixtures : Nat]
  BY <1>2 DEF Failure, Busy
<1>5. results' \in Seq([repro : Repro, success : BOOLEAN, fixtures : Nat])
  BY <1>1, <1>3, <1>4 DEF TypeOK
<1>6. TypeOK'
  BY <1>1, <1>3, <1>5 DEF TypeOK
<1> QED
  BY <1>1, <1>2, <1>3, <1>6, ThreadStep DEF DataListed

(***************************************************************************)
(* A step of a thread that holds the claim on a fixture and changes that   *)
(* file: no other thread is at it.                                         *)
(***************************************************************************)
LEMMA FixStep ==
    ASSUME IInv, NEW w \in Worker, NEW y, NEW c,
           Writing(w), thread[w] \in Busy, At(w) \in Hash,
           thread' = [thread EXCEPT ![w] = y],
           inputs' = [inputs EXCEPT ![At(w)] = c],
           UNCHANGED <<world, phase, cache, extracted>>,
           phase = "running",
           TypeOK',
           c \in Repro => Lists(c, At(w)),
           \/ y = Idle
           \/ /\ y \in Busy
              /\ y.k <= Len(world.hashes[y.repro])
              /\ \/ y.pc = "lookup"
                 \/ /\ y.pc = "write_fix" /\ c = "partial"
                    /\ world.hashes[y.repro][y.k] = At(w)
                    /\ y.data \in Repro => Lists(y.data, At(w))
    PROVE  IInv'
<1> USE DEF IInv
<1> DEFINE a == At(w)
<1>1. /\ thread'[w] = y
      /\ \A v \in Worker : v # w => /\ thread'[v] = thread[v]
                                    /\ At(v)' = At(v)
                                    /\ Writing(v)' = Writing(v)
                                    /\ Working(v)' = Working(v)
  BY Frame
<1>2. At(w)' = world.hashes[y.repro][y.k]
  BY <1>1 DEF At
<1>3. Writing(w)' => y.pc = "write_fix" /\ y # Idle
  BY <1>1 DEF Writing, Idle
<1>4. InRange' /\ AllIdle'
  BY <1>1 DEF InRange, AllIdle, Working
<1>5. a \in extracted /\ \A v \in Worker : v # w /\ Writing(v) => At(v) # a
  BY DEF HoldsClaim, OneWriter
<1>6. a \in Hash /\ inputs' = [inputs EXCEPT ![a] = c]
  OBVIOUS
<1>7. inputs'[a] = c /\ \A h : h # a => inputs'[h] = inputs[h]
  <2> HIDE DEF a
  <2>1. inputs'[a] = c
    BY <1>6 DEF TypeOK
  <2>2. ASSUME NEW h, h # a PROVE inputs'[h] = inputs[h]
    BY <1>6, <2>2 DEF TypeOK
  <2> QED
    BY <2>1, <2>2
<1> HIDE DEF a
<1>8. HoldsClaim'
  <2> SUFFICES ASSUME NEW v \in Worker
               PROVE  /\ Writing(v)' => At(v)' \in extracted'
                      /\ thread'[v].pc = "open_fix" => inputs'[At(v)'] = "absent"
                      /\ thread'[v].pc = "write_fix" => inputs'[At(v)'] = "partial"
    BY DEF HoldsClaim
  <2>1. CASE v = w
    BY <1>1, <1>2, <1>3, <1>5, <1>7, <2>1 DEF Idle, a
  <2>2. CASE v # w
    <3>1. Writing(v) => At(v) # a
      BY <1>5, <2>2
    <3>2. /\ Writing(v) => At(v) \in extracted /\ inputs'[At(v)] = inputs[At(v)]
          /\ thread[v].pc = "open_fix" => Writing(v) /\ inputs[At(v)] = "absent"
          /\ thread[v].pc = "write_fix" => Writing(v) /\ inputs[At(v)] = "partial"
      BY <1>7, <3>1 DEF HoldsClaim, Writing
    <3> QED
      BY <1>1, <2>2, <3>2
  <2> QED
    BY <2>1, <2>2
<1>9. OneWriter'
  <2> SUFFICES ASSUME NEW u \in Worker, NEW v \in Worker, u # v,
                      Writing(u)', Writing(v)'
               PROVE  At(u)' # At(v)'
    BY DEF OneWriter
  <2> QED
    BY <1>1, <1>2, <1>3, <1>5 DEF OneWriter, a
<1>10. DataListed'
  <2>1. ASSUME NEW v \in Worker, Working(v)', thread'[v].pc # "lookup",
               thread'[v].data \in Repro
        PROVE  Lists(thread[v].data, At(v))'
    <3>1. CASE v = w
      BY <1>1, <1>2, <2>1, <3>1 DEF Working, Lists
    <3>2. CASE v # w
      BY <1>1, <2>1, <3>2 DEF DataListed, Lists
    <3> QED
      BY <3>1, <3>2
  <2>2. ASSUME NEW h \in Hash, cache'[h] \in Repro
        PROVE  Lists(cache[h], h)'
    BY <2>2 DEF Lists, DataListed
  <2> QED
    BY <2>1, <2>2 DEF DataListed
<1>11. Provenance'
  <2> SUFFICES ASSUME NEW h \in Hash, inputs'[h] \in Repro
               PROVE  Lists(inputs[h], h)'
    BY DEF Provenance
  <2>1. CASE h = a
    BY <1>7, <2>1 DEF Lists, a
  <2>2. CASE h # a
    BY <1>7, <2>2 DEF Lists, Provenance
  <2> QED
    BY <2>1, <2>2
<1> QED
  BY <1>4, <1>8, <1>9, <1>10, <1>11

LEMMA OpenFixIInv == ASSUME IInv, NEW w \in Worker, OpenFix(w) PROVE IInv'
<1>1. TypeOK /\ DataListed
  BY DEF IInv
<1>2. /\ phase = "running"
      /\ thread[w] \in Busy
      /\ thread[w].k <= Len(world.hashes[thread[w].repro])
      /\ At(w) = world.hashes[thread[w].repro][thread[w].k]
      /\ At(w) \in Hash
      /\ Writing(w)
  BY BusyStep DEF OpenFix, Step, Writing
<1>3. /\ thread[w].data \in Content
      /\ Goto(w, "write_fix", thread[w].data)
      /\ "write_fix" \in Step
  BY <1>2 DEF Busy, OpenFix, Step
<1>4. PICK y \in Busy : /\ thread' = [thread EXCEPT ![w] = y]
                        /\ y.pc = "write_fix" /\ y.data = thread[w].data
                        /\ y.repro = thread[w].repro /\ y.k = thread[w].k
  BY <1>2, <1>3, GotoStep
<1>5. /\ UNCHANGED <<world, session, phase, next, cache, extracted, results>>
      /\ inputs' = [inputs EXCEPT ![At(w)] = "partial"]
  BY DEF OpenFix
<1>6. inputs' \in [Hash -> Content]
  BY <1>1, <1>5 DEF TypeOK, Content
<1>7. TypeOK'
  BY <1>1, <1>4, <1>5, <1>6 DEF TypeOK
<1>8. thread[w].data \in Repro => Lists(thread[w].data, At(w))
  BY <1>1, <1>2 DEF DataListed, OpenFix, Working, Idle
<1>9. "partial" \notin Repro
  BY ReproAssumption
<1> QED
  BY <1>2, <1>4, <1>5, <1>7, <1>8, <1>9, FixStep

LEMMA WriteFixIInv == ASSUME IInv, NEW w \in Worker, WriteFix(w) PROVE IInv'
<1> DEFINE c == thread[w].data
<1>1. TypeOK /\ DataListed /\ InRange
  BY DEF IInv
<1>2. /\ phase = "running"
      /\ thread[w] \in Busy
      /\ At(w) \in Hash
      /\ Writing(w)
  BY BusyStep DEF WriteFix, Step, Writing
<1>3. thread[w].saved + 1 \in Nat /\ Advance(w, thread[w].saved + 1)
  BY <1>2 DEF WriteFix, Busy
<1>4. PICK y : /\ thread' = [thread EXCEPT ![w] = y]
               /\ \/ y = Idle
                  \/ /\ y \in Busy
                     /\ y.pc = "lookup"
                     /\ y.k <= Len(world.hashes[y.repro])
  BY <1>1, <1>2, <1>3, AdvanceStep
<1>5. /\ UNCHANGED <<world, session, phase, next, cache, extracted>>
      /\ inputs' = [inputs EXCEPT ![At(w)] = c]
      /\ results' \in Seq([repro : Repro, success : BOOLEAN, fixtures : Nat])
  BY <1>1, <1>2, <1>3, AdvanceStep DEF WriteFix
<1>6. c \in Content
  BY <1>2 DEF Busy
<1>7. inputs' \in [Hash -> Content]
  BY <1>1, <1>5, <1>6 DEF TypeOK
<1>8. TypeOK'
  BY <1>1, <1>4, <1>5, <1>7 DEF TypeOK
<1>9. c \in Repro => Lists(c, At(w))
  BY <1>1, <1>2 DEF DataListed, WriteFix, Working, Idle
<1> HIDE DEF c
<1> QED
  BY <1>2, <1>4, <1>5, <1>8, <1>9, FixStep

(***************************************************************************)
(* The steps that end a session or begin one leave every thread idle.      *)
(***************************************************************************)
LEMMA SessionIInv == ASSUME IInv, Finish \/ Crash \/ Rerun PROVE IInv'
<1>1. TypeOK /\ AllIdle /\ DataListed /\ Provenance
  BY DEF IInv
<1>2. /\ \A w \in Worker : thread'[w] = Idle
      /\ UNCHANGED <<world, cache, inputs>>
  BY <1>1 DEF Finish, Crash, Rerun, AllIdle, disk, TypeOK
<1>3. TypeOK'
  <2>1. CASE Finish
    BY <1>1, <2>1 DEF TypeOK, Finish, disk
  <2>2. CASE Crash
    BY <1>1, <2>2 DEF TypeOK, Crash, disk
  <2>3. CASE Rerun
    <3>1. << >> \in Seq([repro : Repro, success : BOOLEAN, fixtures : Nat])
      OBVIOUS
    <3>2. session' \in Nat /\ next' \in Nat \ {0} /\ extracted' \in SUBSET Hash
      BY <1>1, <2>3 DEF TypeOK, Rerun
    <3>3. results' = << >>
      BY <2>3 DEF Rerun
    <3> QED
      BY <1>1, <2>3, <3>1, <3>2, <3>3 DEF TypeOK, Rerun, disk
  <2> QED
    BY <2>1, <2>2, <2>3
<1>4. InRange' /\ AllIdle' /\ HoldsClaim' /\ OneWriter'
  BY <1>2 DEF InRange, AllIdle, HoldsClaim, OneWriter, Writing, Working, Idle
<1>5. DataListed' /\ Provenance'
  BY <1>1, <1>2 DEF DataListed, Provenance, Working, Lists
<1> QED
  BY <1>3, <1>4, <1>5 DEF IInv

LEMMA NextIInv == IInv /\ [Next]_vars => IInv'
<1> SUFFICES ASSUME IInv, [Next]_vars PROVE IInv'
  OBVIOUS
<1>1. CASE Next
  <2>1. ASSUME NEW w \in Worker, Work(w) PROVE IInv'
    BY <2>1, TakeIInv, ReadCacheIInv, FetchIInv, OpenCacheIInv, WriteCacheIInv, SkipIInv,
       ClaimIInv, OpenFixIInv, WriteFixIInv, FailIInv DEF Work
  <2> QED
    BY <1>1, <2>1, SessionIInv DEF Next
<1>2. CASE UNCHANGED vars
  BY <1>2 DEF vars, IInv, TypeOK, InRange, AllIdle, HoldsClaim, OneWriter, DataListed,
              Provenance, Working, Writing, At, Lists
<1> QED
  BY <1>1, <1>2

-----------------------------------------------------------------------------
(***************************************************************************)
(* The inductive invariant holds, and with it the type invariant.          *)
(***************************************************************************)
THEOREM Invariance == Spec => []IInv
BY InitIInv, NextIInv, PTL DEF Spec

(***************************************************************************)
(* Every variable keeps its type, for any lists, faults and threads.       *)
(***************************************************************************)
THEOREM TypeCorrect == Spec => []TypeOK
<1>1. IInv => TypeOK
  BY DEF IInv
<1> QED
  BY <1>1, Invariance, PTL

(***************************************************************************)
(* Mutual exclusion on the files of the inputs directory.                  *)
(***************************************************************************)
THEOREM OneWriterHolds == Spec => []OneWriter
<1>1. IInv => OneWriter
  BY DEF IInv
<1> QED
  BY <1>1, Invariance, PTL

(***************************************************************************)
(* The bytes of a whole fixture come from a repro that lists it.           *)
(***************************************************************************)
THEOREM ProvenanceHolds == Spec => []Provenance
<1>1. IInv => Provenance
  BY DEF IInv
<1> QED
  BY <1>1, Invariance, PTL

(***************************************************************************)
(* A whole fixture is never rewritten, in this session or in a later one:  *)
(* the only steps that change a file are those of the thread that claimed  *)
(* it, and it found it absent.                                             *)
(***************************************************************************)
THEOREM NeverRewrittenHolds == Spec => NeverRewritten
<1> DEFINE Kept == \A h \in Hash : inputs[h] \in Repro => inputs'[h] = inputs[h]
<1>1. ASSUME IInv, [Next]_vars PROVE [Kept]_vars
  <2>1. ASSUME NEW w \in Worker, OpenFix(w) \/ WriteFix(w) PROVE Kept
    <3>1. inputs[At(w)] \notin Repro
      BY <1>1, <2>1, ReproAssumption DEF IInv, HoldsClaim, OpenFix, WriteFix
    <3>2. \A h \in Hash : h # At(w) => inputs'[h] = inputs[h]
      BY <1>1, <2>1 DEF IInv, TypeOK, OpenFix, WriteFix
    <3> QED
      BY <3>1, <3>2
  <2>2. CASE UNCHANGED inputs
    BY <2>2
  <2>3. CASE UNCHANGED vars
    BY <2>3 DEF vars
  <2>4. Next => UNCHANGED inputs \/ \E w \in Worker : OpenFix(w) \/ WriteFix(w)
    BY DEF Next, Work, Finish, Crash, Rerun, Take, ReadCache, Fetch, OpenCache,
           WriteCache, Skip, Claim, Fail, disk
  <2> QED
    BY <1>1, <2>1, <2>2, <2>3, <2>4
<1> QED
  BY <1>1, Invariance, PTL DEF Spec, NeverRewritten

-----------------------------------------------------------------------------
\* Every item is answered.

\* The threads that have an item in hand.
InHand == {w \in Worker : Working(w)}

(***************************************************************************)
(* Every item the pool has handed out is in hand or answered, until the    *)
(* process is killed.                                                      *)
(***************************************************************************)
Counted ==
    phase # "crashed" =>
        /\ Len(results) + Cardinality(InHand) + 1 = next
        /\ next <= Len(world.list) + 1
        /\ phase = "finished" => next = Len(world.list) + 1

LEMMA InHandStep ==
    ASSUME TypeOK, NEW w \in Worker, NEW x, thread' = [thread EXCEPT ![w] = x]
    PROVE  InHand' = IF x = Idle THEN InHand \ {w} ELSE InHand \cup {w}
<1>1. thread'[w] = x /\ \A v \in Worker : v # w => thread'[v] = thread[v]
  BY DEF TypeOK
<1> QED
  BY <1>1 DEF InHand, Working

\* A step record is not the record of an idle thread.
LEMMA BusyNotIdle == \A y \in Busy : y # Idle
BY DEF Busy, Idle, Step

(***************************************************************************)
(* What a step of a thread does to the answers.                            *)
(***************************************************************************)
LEMMA AdvanceAnswers ==
    ASSUME TypeOK, NEW w \in Worker, Working(w), NEW n, Advance(w, n)
    PROVE  \/ results' = results /\ InHand' = InHand
           \/ Len(results') = Len(results) + 1 /\ InHand' = InHand \ {w}
<1> DEFINE x == Lookup(thread[w].repro, thread[w].k + 1, n)
<1>1. CASE thread[w].k < Len(world.hashes[thread[w].repro])
  <2>1. thread' = [thread EXCEPT ![w] = x] /\ results' = results
    BY <1>1 DEF Advance
  <2>2. x # Idle
    BY DEF Lookup, Idle
  <2>3. InHand' = InHand \cup {w}
    BY <2>1, <2>2, InHandStep
  <2> QED
    BY <2>1, <2>3 DEF InHand
<1>2. CASE ~(thread[w].k < Len(world.hashes[thread[w].repro]))
  <2>1. /\ thread' = [thread EXCEPT ![w] = Idle]
        /\ results' = Append(results, Success(thread[w].repro, n))
    BY <1>2 DEF Advance
  <2>2. InHand' = InHand \ {w}
    BY <2>1, InHandStep
  <2> QED
    BY <2>1, <2>2 DEF TypeOK
<1> QED
  BY <1>1, <1>2

LEMMA GotoInHand ==
    ASSUME TypeOK, NEW w \in Worker, thread[w] \in Busy, NEW pc \in Step, NEW data \in Content,
           Goto(w, pc, data)
    PROVE  InHand' = InHand
<1>1. PICK y \in Busy : thread' = [thread EXCEPT ![w] = y]
  BY GotoStep
<1>2. InHand' = InHand \cup {w}
  BY <1>1, InHandStep, BusyNotIdle
<1> QED
  BY <1>2, BusyNotIdle DEF InHand, Working

LEMMA WorkAnswers ==
    ASSUME IInv, NEW w \in Worker, Work(w)
    PROVE  /\ phase = "running" /\ UNCHANGED <<phase, world>>
           /\ \/ /\ next' = next + 1 /\ next <= Len(world.list)
                 /\ \/ Len(results') = Len(results) + 1 /\ InHand' = InHand
                    \/ /\ results' = results
                       /\ InHand' = InHand \cup {w} /\ w \notin InHand
              \/ /\ next' = next
                 /\ \/ results' = results /\ InHand' = InHand
                    \/ /\ Len(results') = Len(results) + 1
                       /\ InHand' = InHand \ {w} /\ w \in InHand
<1>1. TypeOK
  BY DEF IInv
<1>2. CASE Take(w)
  <2> DEFINE r == world.list[next]
             x == Lookup(r, 1, 0)
  <2>1. /\ phase = "running" /\ UNCHANGED <<phase, world>>
        /\ next' = next + 1 /\ next <= Len(world.list)
        /\ thread[w] = Idle
    BY <1>2 DEF Take
  <2>2. w \notin InHand
    BY <2>1 DEF InHand, Working
  <2>3. CASE world.hashes[r] = << >>
    <3>1. thread' = thread /\ results' = Append(results, Failure(r))
      BY <1>2, <2>3 DEF Take
    <3>2. InHand' = InHand
      BY <3>1 DEF InHand, Working
    <3> QED
      BY <1>1, <2>1, <3>1, <3>2 DEF TypeOK
  <2>4. CASE world.hashes[r] # << >>
    <3>1. thread' = [thread EXCEPT ![w] = x] /\ results' = results
      BY <1>2, <2>4 DEF Take
    <3>2. x # Idle
      BY DEF Lookup, Idle
    <3>3. InHand' = InHand \cup {w}
      BY <1>1, <3>1, <3>2, InHandStep
    <3> QED
      BY <2>1, <2>2, <3>1, <3>3
  <2> QED
    BY <2>3, <2>4
<1>3. CASE ReadCache(w) \/ Fetch(w) \/ OpenCache(w) \/ WriteCache(w) \/ Claim(w) \/ OpenFix(w)
  <2>1. thread[w].pc \in Step
    BY <1>3 DEF ReadCache, Fetch, OpenCache, WriteCache, Claim, OpenFix, Step
  <2>2. /\ phase = "running" /\ thread[w] \in Busy /\ At(w) \in Hash
        /\ UNCHANGED <<phase, world, next, results>>
    BY <1>3, <2>1, BusyStep
       DEF ReadCache, Fetch, OpenCache, WriteCache, Claim, OpenFix
  <2>3. PICK pc \in Step, data \in Content : Goto(w, pc, data)
    <3>1. /\ thread[w].data \in Content /\ thread[w].repro \in Content
          /\ cache[At(w)] \in Content
      BY <1>1, <2>2 DEF Busy, Content, TypeOK
    <3>2. {"open_cache", "write_cache", "claim", "open_fix", "write_fix"} \subseteq Step
      BY DEF Step
    <3> QED
      BY <1>3, <3>1, <3>2 DEF ReadCache, Fetch, OpenCache, WriteCache, Claim, OpenFix
  <2>4. InHand' = InHand
    BY <1>1, <2>2, <2>3, GotoInHand
  <2> QED
    BY <2>2, <2>4
<1>4. CASE Skip(w) \/ WriteFix(w)
  <2>1. thread[w].pc \in Step /\ UNCHANGED <<phase, world, next>>
    BY <1>4 DEF Skip, WriteFix, Step
  <2>2. phase = "running" /\ Working(w) /\ w \in InHand
    BY <2>1, BusyStep, StepIsWorking DEF InHand
  <2>3. PICK n : Advance(w, n)
    BY <1>4 DEF Skip, WriteFix
  <2> QED
    BY <1>1, <2>1, <2>2, <2>3, AdvanceAnswers
<1>5. CASE Fail(w)
  <2>1. /\ thread[w].pc \in Step /\ UNCHANGED <<phase, world, next>>
        /\ thread' = [thread EXCEPT ![w] = Idle]
        /\ results' = Append(results, Failure(thread[w].repro))
    BY <1>5 DEF Fail, Step
  <2>2. phase = "running" /\ w \in InHand
    BY <2>1, BusyStep, StepIsWorking DEF InHand
  <2>3. InHand' = InHand \ {w}
    BY <1>1, <2>1, InHandStep
  <2> QED
    BY <1>1, <2>1, <2>2, <2>3 DEF TypeOK
<1>6. \/ Take(w) \/ Skip(w) \/ WriteFix(w) \/ Fail(w)
      \/ ReadCache(w) \/ Fetch(w) \/ OpenCache(w) \/ WriteCache(w) \/ Claim(w) \/ OpenFix(w)
  BY DEF Work
<1> QED
  BY <1>2, <1>3, <1>4, <1>5, <1>6

LEMMA NextCounted == IInv /\ Counted /\ [Next]_vars => Counted'
<1> SUFFICES ASSUME IInv, Counted, [Next]_vars PROVE Counted'
  OBVIOUS
<1>1. TypeOK /\ AllIdle
  BY DEF IInv
<1>2. IsFiniteSet(InHand) /\ Cardinality(InHand) \in Nat
  BY WorkerAssumption, FS_Subset, FS_CardinalityType DEF InHand
<1>3. /\ Len(results) \in Nat /\ next \in Nat
      /\ world.list \in Seq(Repro) /\ Len(world.list) \in Nat
  BY <1>1, WorldsAssumption DEF TypeOK
<1>4. ASSUME NEW w \in Worker, Work(w) PROVE Counted'
  <2>1. w \notin InHand => Cardinality(InHand \cup {w}) = Cardinality(InHand) + 1
    BY <1>2, FS_AddElement
  <2>2. w \in InHand => Cardinality(InHand \ {w}) = Cardinality(InHand) - 1
    BY <1>2, FS_RemoveElement
  <2>3. /\ phase = "running" /\ UNCHANGED <<phase, world>>
        /\ \/ /\ next' = next + 1 /\ next <= Len(world.list)
              /\ \/ Len(results') = Len(results) + 1 /\ InHand' = InHand
                 \/ /\ results' = results
                    /\ InHand' = InHand \cup {w} /\ w \notin InHand
           \/ /\ next' = next
              /\ \/ results' = results /\ InHand' = InHand
                 \/ /\ Len(results') = Len(results) + 1
                    /\ InHand' = InHand \ {w} /\ w \in InHand
    BY <1>4, WorkAnswers
  <2>4. \/ /\ next' = next + 1 /\ next <= Len(world.list)
           /\ Len(results') + Cardinality(InHand') = Len(results) + Cardinality(InHand) + 1
        \/ /\ next' = next
           /\ Len(results') + Cardinality(InHand') = Len(results) + Cardinality(InHand)
    <3> DEFINE more == InHand \cup {w}
               less == InHand \ {w}
    <3>1. /\ w \notin InHand => Cardinality(more) = Cardinality(InHand) + 1
          /\ w \in InHand => Cardinality(less) = Cardinality(InHand) - 1
      BY <2>1, <2>2
    <3>2. \/ /\ next' = next + 1 /\ next <= Len(world.list)
             /\ \/ Len(results') = Len(results) + 1 /\ InHand' = InHand
                \/ results' = results /\ InHand' = more /\ w \notin InHand
          \/ /\ next' = next
             /\ \/ results' = results /\ InHand' = InHand
                \/ Len(results') = Len(results) + 1 /\ InHand' = less /\ w \in InHand
      BY <2>3
    <3> HIDE DEF more, less
    <3> QED
      BY <1>2, <1>3, <3>1, <3>2
  <2>5. /\ Len(results) + Cardinality(InHand) + 1 = next
        /\ next <= Len(world.list) + 1
    BY <2>3 DEF Counted
  <2>6. /\ Len(results') + Cardinality(InHand') + 1 = next'
        /\ next' <= Len(world.list) + 1
    <3> DEFINE a == Len(results') + Cardinality(InHand')
               b == Len(results) + Cardinality(InHand)
    <3>1. b \in Nat
      BY <1>2, <1>3
    <3> HIDE DEF a, b
    <3>2. a = b \/ a = b + 1
      BY <2>4 DEF a, b
    <3> QED
      BY <1>3, <2>4, <2>5, <3>1 DEF a, b
  <2> QED
    BY <2>3, <2>6 DEF Counted
<1>5. CASE Finish
  <2>1. /\ phase = "running" /\ phase' = "finished" /\ next > Len(world.list)
        /\ UNCHANGED <<world, next, results, thread>>
    BY <1>5 DEF Finish
  <2>2. InHand' = InHand
    BY <2>1 DEF InHand, Working
  <2> QED
    BY <1>3, <2>1, <2>2 DEF Counted
<1>6. CASE Crash
  BY <1>6 DEF Crash, Counted
<1>7. CASE Rerun
  <2>1. /\ next' = 1 /\ results' = << >> /\ phase' = "running"
        /\ UNCHANGED <<world, thread>> /\ phase # "running"
    BY <1>7 DEF Rerun
  <2>2. InHand' = {}
    BY <1>1, <2>1 DEF AllIdle, InHand, Working
  <2> QED
    BY <1>3, <2>1, <2>2, FS_EmptySet DEF Counted
<1>8. CASE UNCHANGED vars
  BY <1>8 DEF vars, Counted, InHand, Working
<1> QED
  BY <1>4, <1>5, <1>6, <1>7, <1>8 DEF Next

LEMMA CountedHolds == Spec => []Counted
<1>1. Init => Counted
  <2> SUFFICES ASSUME Init PROVE Counted
    OBVIOUS
  <2>1. InHand = {} /\ results = << >> /\ next = 1 /\ phase = "running"
    BY DEF Init, InHand, Working
  <2>2. world.list \in Seq(Repro)
    BY WorldsAssumption DEF Init
  <2> QED
    BY <2>1, <2>2, FS_EmptySet DEF Counted
<1> QED
  BY <1>1, NextCounted, Invariance, PTL DEF Spec

(***************************************************************************)
(* A session that ends has one result per item of its list, whatever       *)
(* fails: an exception of a download is the item's answer, never a lost    *)
(* item.                                                                   *)
(***************************************************************************)
THEOREM EveryItemAnsweredHolds == Spec => []EveryItemAnswered
<1>1. IInv /\ Counted => EveryItemAnswered
  <2> SUFFICES ASSUME IInv, Counted, phase = "finished"
               PROVE  Len(results) = Len(world.list)
    BY DEF EveryItemAnswered
  <2>1. InHand = {}
    BY DEF IInv, AllIdle, InHand, Working
  <2>2. Len(results) \in Nat /\ Len(world.list) \in Nat
    BY WorldsAssumption DEF IInv, TypeOK
  <2> QED
    BY <2>1, <2>2, FS_EmptySet DEF Counted
<1> QED
  BY <1>1, Invariance, CountedHolds, PTL

-----------------------------------------------------------------------------
\* What is reported saved is there.

(***************************************************************************)
(* What a thread has in hand once it is past the cache is a payload.       *)
(***************************************************************************)
Fetched ==
    \A w \in Worker : Working(w) /\ thread[w].pc # "lookup" => thread[w].data # "absent"

\* The fixtures that are on disk, or whose file a thread is about to create.
There ==
    {h \in Hash : \/ inputs[h] # "absent"
                 \/ \E w \in Worker : thread[w].pc = "open_fix" /\ At(w) = h}

(***************************************************************************)
(* While every write succeeds: what is claimed, what a thread has passed   *)
(* on its way through a repro, and what a successful repro lists, is there.*)
(***************************************************************************)
Delivered ==
    "write" \notin world.faults =>
        /\ extracted \subseteq There
        /\ \A w \in Worker : Working(w) =>
              \A j \in 1..(thread[w].k - 1) : world.hashes[thread[w].repro][j] \in There
        /\ phase # "crashed" =>
              \A r \in Successes, h \in Hash : Lists(r, h) => h \in There

LEMMA NextFetched == IInv /\ Fetched /\ [Next]_vars => Fetched'
<1> SUFFICES ASSUME IInv, Fetched, [Next]_vars PROVE Fetched'
  OBVIOUS
<1>1. TypeOK /\ AllIdle
  BY DEF IInv
<1>2. ASSUME NEW w \in Worker, NEW y, thread' = [thread EXCEPT ![w] = y],
             y = Idle \/ y.pc = "lookup" \/ y.data # "absent"
      PROVE  Fetched'
  <2>1. thread'[w] = y /\ \A v \in Worker : v # w => thread'[v] = thread[v]
    BY <1>1, <1>2 DEF TypeOK
  <2> QED
    BY <1>2, <2>1 DEF Fetched, Working
<1>3. ASSUME UNCHANGED thread PROVE Fetched'
  BY <1>3 DEF Fetched, Working
<1>4. ASSUME NEW w \in Worker, Work(w) PROVE Fetched'
  <2>1. CASE Take(w)
    BY <1>2, <1>3, <2>1 DEF Take, Lookup
  <2>2. CASE ReadCache(w) \/ Fetch(w) \/ OpenCache(w) \/ WriteCache(w) \/ Claim(w) \/ OpenFix(w)
    <3>1. thread[w].pc \in Step
      BY <2>2 DEF ReadCache, Fetch, OpenCache, WriteCache, Claim, OpenFix, Step
    <3>2. thread[w] \in Busy /\ Working(w)
      BY <3>1, BusyStep, StepIsWorking
    <3>3. thread[w].repro # "absent"
      BY <3>2, ReproAssumption DEF Busy
    <3>4. PICK pc, data : pc \in Step /\ Goto(w, pc, data) /\ data # "absent"
      <4>1. /\ "open_cache" \in Step /\ "write_cache" \in Step /\ "claim" \in Step
            /\ "open_fix" \in Step /\ "write_fix" \in Step
        BY DEF Step
      <4>2. thread[w].pc # "lookup" => thread[w].data # "absent"
        BY <3>2 DEF Fetched
      <4> QED
        BY <2>2, <3>3, <4>1, <4>2
           DEF ReadCache, Fetch, OpenCache, WriteCache, Claim, OpenFix
    <3> DEFINE y == [thread[w] EXCEPT !.pc = pc, !.data = data]
    <3>5. thread' = [thread EXCEPT ![w] = y] /\ y.data # "absent"
      BY <3>2, <3>4 DEF Goto, Busy
    <3> QED
      BY <1>2, <3>5
  <2>3. CASE Skip(w) \/ WriteFix(w)
    BY <1>2, <2>3 DEF Skip, WriteFix, Advance, Lookup
  <2>4. CASE Fail(w)
    BY <1>2, <2>4 DEF Fail
  <2> QED
    BY <1>4, <2>1, <2>2, <2>3, <2>4 DEF Work
<1>5. CASE Finish \/ Crash \/ Rerun
  BY <1>1, <1>3, <1>5 DEF Finish, Crash, Rerun, Fetched, Working
<1>6. CASE UNCHANGED vars
  BY <1>3, <1>6 DEF vars
<1> QED
  BY <1>4, <1>5, <1>6 DEF Next

-----------------------------------------------------------------------------
LEMMA SuccessesAppend ==
    ASSUME TypeOK, NEW x, results' = Append(results, x)
    PROVE  \A r \in Successes' : r \in Successes \/ (x.success /\ r = x.repro)
<1> SUFFICES ASSUME NEW r \in Successes'
             PROVE  r \in Successes \/ (x.success /\ r = x.repro)
  OBVIOUS
<1>0. PICK k \in DOMAIN results' : results'[k].success /\ r = results'[k].repro
  BY DEF Successes
<1>1. results \in Seq([repro : Repro, success : BOOLEAN, fixtures : Nat])
  BY DEF TypeOK
<1>2. CASE k = Len(results) + 1
  <2>1. results'[k] = x
    BY <1>1, <1>2
  <2> QED
    BY <1>0, <2>1
<1>3. CASE k # Len(results) + 1
  <2>1. k \in DOMAIN results /\ results'[k] = results[k]
    BY <1>0, <1>1, <1>3
  <2> QED
    BY <1>0, <2>1 DEF Successes
<1> QED
  BY <1>2, <1>3

(***************************************************************************)
(* A fixture that is there stays there when no write fails.                *)
(***************************************************************************)
LEMMA ThereKept ==
    ASSUME IInv, Fetched, "write" \notin world.faults, NEW w \in Worker, Work(w),
           NEW h \in There
    PROVE  h \in There'
<1>1. TypeOK
  BY DEF IInv
<1>2. ASSUME inputs[h] # "absent" PROVE inputs'[h] # "absent"
  <2>1. CASE OpenFix(w) \/ WriteFix(w)
    <3>1. thread[w].pc \in Step /\ thread[w].pc # "lookup"
      BY <2>1 DEF OpenFix, WriteFix, Step
    <3>2. thread[w].data # "absent"
      BY <3>1, StepIsWorking DEF Fetched
    <3> DEFINE a == At(w)
               d == thread[w].data
    <3>3. \E c \in {"partial", d} : inputs' = [inputs EXCEPT ![a] = c]
      BY <2>1 DEF OpenFix, WriteFix
    <3> HIDE DEF a, d
    <3> QED
      BY <1>1, <1>2, <3>2, <3>3 DEF TypeOK, d
  <2>2. CASE UNCHANGED inputs
    BY <1>2, <2>2
  <2> QED
    BY <2>1, <2>2 DEF Work, Take, ReadCache, Fetch, OpenCache, WriteCache, Skip, Claim,
                      Fail, disk
<1>3. ASSUME NEW v \in Worker, thread[v].pc = "open_fix", At(v) = h
      PROVE  h \in There'
  <2>1. CASE v = w
    <3>1. OpenFix(w)
      BY <1>3, <2>1 DEF Work, Take, ReadCache, Fetch, OpenCache, WriteCache, Skip, Claim,
                        WriteFix, Fail, Idle
    <3>2. inputs' = [inputs EXCEPT ![h] = "partial"]
      BY <1>3, <2>1, <3>1 DEF OpenFix
    <3>3. inputs'[h] = "partial"
      BY <1>1, <3>2 DEF TypeOK, There
    <3> QED
      BY <3>3 DEF There
  <2>2. CASE v # w
    <3>1. world' = world /\ \E x : thread' = [thread EXCEPT ![w] = x]
      <4>1. thread' = thread => thread' = [thread EXCEPT ![w] = thread[w]]
        BY <1>1 DEF TypeOK
      <4> QED
        BY <4>1 DEF Work, Take, ReadCache, Fetch, OpenCache, WriteCache, Skip, Claim,
                    OpenFix, WriteFix, Fail, Goto, Advance
    <3>2. thread'[v] = thread[v] /\ At(v)' = At(v)
      BY <1>1, <2>2, <3>1, Frame
    <3> QED
      BY <1>3, <3>2 DEF There
  <2> QED
    BY <2>1, <2>2
<1> QED
  BY <1>2, <1>3 DEF There

(***************************************************************************)
(* A step of thread w keeps Delivered when its new state y has passed only *)
(* what is there, and so has the repro it reports.                         *)
(***************************************************************************)
LEMMA DeliveredStep ==
    ASSUME IInv, Fetched, Delivered, "write" \notin world.faults,
           NEW w \in Worker, Work(w), NEW y,
           thread' = [thread EXCEPT ![w] = y],
           UNCHANGED <<world, phase>>,
           extracted' \subseteq extracted \cup There',
           y = Idle \/ \A j \in 1..(y.k - 1) : world.hashes[y.repro][j] \in There',
           \A r \in Successes' : r \in Successes \/ \A h \in Hash : Lists(r, h) => h \in There'
    PROVE  Delivered'
<1>1. TypeOK /\ TypeOK'
  BY NextIInv DEF IInv, Next
<1>2. There \subseteq There'
  BY ThereKept
<1>3. extracted' \subseteq There'
  BY <1>2 DEF Delivered
<1>4. ASSUME NEW v \in Worker, Working(v)'
      PROVE  \A j \in 1..(thread'[v].k - 1) : world'.hashes[thread'[v].repro][j] \in There'
  <2>1. /\ thread'[w] = y /\ (v # w => thread'[v] = thread[v])
    BY <1>1, Frame
  <2>2. CASE v = w
    BY <1>4, <2>1, <2>2 DEF Working
  <2>3. CASE v # w
    <3>1. thread'[v] = thread[v] /\ Working(v)
      BY <1>4, <2>1, <2>3 DEF Working
    <3>2. \A j \in 1..(thread[v].k - 1) : world.hashes[thread[v].repro][j] \in There
      BY <3>1 DEF Delivered
    <3> QED
      BY <1>2, <3>1, <3>2
  <2> QED
    BY <2>2, <2>3
<1>5. ASSUME phase' # "crashed", NEW r \in Successes', NEW h \in Hash, Lists(r, h)'
      PROVE  h \in There'
  <2>1. Lists(r, h)
    BY <1>5 DEF Lists
  <2> QED
    BY <1>2, <1>5, <2>1 DEF Delivered
<1>6. world' = world
  OBVIOUS
<1> QED
  BY <1>3, <1>4, <1>5, <1>6 DEF Delivered

(***************************************************************************)
(* What Advance does once the artifact at hand is there.                   *)
(***************************************************************************)
LEMMA AdvanceDelivered ==
    ASSUME IInv, Fetched, Delivered, "write" \notin world.faults,
           NEW w \in Worker, Work(w), thread[w].pc \in Step, NEW n, Advance(w, n),
           UNCHANGED <<world, phase, extracted>>,
           At(w) \in There'
    PROVE  Delivered'
<1> DEFINE r == thread[w].repro
           k == thread[w].k
           x == Lookup(r, k + 1, n)
<1>1. TypeOK
  BY DEF IInv
<1>2. /\ thread[w] \in Busy /\ Working(w)
      /\ k <= Len(world.hashes[r]) /\ At(w) = world.hashes[r][k]
  BY BusyStep, StepIsWorking
<1>3. k \in Nat \ {0} /\ world.hashes[r] \in Seq(Hash)
  BY <1>1, <1>2, WorldsAssumption DEF Busy, TypeOK
<1>4. \A j \in 1..k : world.hashes[r][j] \in There'
  <2>1. \A j \in 1..(k - 1) : world.hashes[r][j] \in There
    BY <1>2 DEF Delivered
  <2>2. There \subseteq There'
    BY ThereKept
  <2> SUFFICES ASSUME NEW j \in 1..k PROVE world.hashes[r][j] \in There'
    OBVIOUS
  <2>3. CASE j = k
    BY <1>2, <2>3
  <2>4. CASE j # k
    <3>1. j \in 1..(k - 1)
      BY <1>3, <2>4
    <3> QED
      BY <2>1, <2>2, <3>1
  <2> QED
    BY <2>3, <2>4
<1>5. CASE k < Len(world.hashes[r])
  <2>1. thread' = [thread EXCEPT ![w] = x] /\ results' = results
    BY <1>5 DEF Advance
  <2>2. x.repro = r /\ x.k = k + 1 /\ x.k - 1 = k
    BY <1>3 DEF Lookup
  <2>3. \A j \in 1..(x.k - 1) : world.hashes[x.repro][j] \in There'
    BY <1>4, <2>2
  <2>4. \A s \in Successes' : s \in Successes
    BY <2>1 DEF Successes
  <2> HIDE DEF x, r, k
  <2> QED
    BY <2>1, <2>3, <2>4, DeliveredStep
<1>6. CASE ~(k < Len(world.hashes[r]))
  <2>1. /\ thread' = [thread EXCEPT ![w] = Idle]
        /\ results' = Append(results, Success(r, n))
    BY <1>6 DEF Advance
  <2>2. \A s \in Successes' : s \in Successes \/ s = r
    BY <1>1, <2>1, SuccessesAppend DEF Success
  <2>3. \A h \in Hash : Lists(r, h) => h \in There'
    <3>1. DOMAIN world.hashes[r] = 1..k
      BY <1>2, <1>3, <1>6
    <3> QED
      BY <1>4, <3>1 DEF Lists
  <2>4. \A s \in Successes' : s \in Successes \/ \A h \in Hash : Lists(s, h) => h \in There'
    BY <2>2, <2>3
  <2> HIDE DEF r, k
  <2> QED
    BY <2>1, <2>4, DeliveredStep
<1> QED
  BY <1>5, <1>6

LEMMA WorkDelivered ==
    ASSUME IInv, Fetched, Delivered, "write" \notin world.faults, NEW w \in Worker, Work(w)
    PROVE  Delivered'
<1>1. TypeOK /\ HoldsClaim
  BY DEF IInv
<1>2. CASE Take(w)
  <2> DEFINE r == world.list[next]
             x == Lookup(r, 1, 0)
  <2>1. /\ UNCHANGED <<world, phase, extracted>> /\ thread[w] = Idle
    BY <1>2 DEF Take
  <2>2. CASE world.hashes[r] = << >>
    <3>1. thread' = thread /\ results' = Append(results, Failure(r))
      BY <1>2, <2>2 DEF Take
    <3>2. thread' = [thread EXCEPT ![w] = Idle]
      BY <1>1, <2>1, <3>1 DEF TypeOK
    <3>3. \A s \in Successes' : s \in Successes
      BY <1>1, <3>1, SuccessesAppend DEF Failure
    <3> QED
      BY <2>1, <3>2, <3>3, DeliveredStep
  <2>3. CASE world.hashes[r] # << >>
    <3>1. thread' = [thread EXCEPT ![w] = x] /\ results' = results
      BY <1>2, <2>3 DEF Take
    <3>2. \A j \in 1..(x.k - 1) : world.hashes[x.repro][j] \in There'
      BY DEF Lookup
    <3>3. \A s \in Successes' : s \in Successes
      BY <3>1 DEF Successes
    <3> HIDE DEF x
    <3> QED
      BY <2>1, <3>1, <3>2, <3>3, DeliveredStep
  <2> QED
    BY <2>2, <2>3
<1>3. CASE ReadCache(w) \/ Fetch(w) \/ OpenCache(w) \/ WriteCache(w) \/ Claim(w) \/ OpenFix(w)
  <2>1. thread[w].pc \in Step
    BY <1>3 DEF ReadCache, Fetch, OpenCache, WriteCache, Claim, OpenFix, Step
  <2>2. thread[w] \in Busy /\ Working(w) /\ At(w) \in Hash
    BY <2>1, BusyStep, StepIsWorking
  <2>3. UNCHANGED <<world, phase, results>>
    BY <1>3 DEF ReadCache, Fetch, OpenCache, WriteCache, Claim, OpenFix
  <2>4. PICK pc \in Step, data \in Content :
           Goto(w, pc, data) /\ (Claim(w) => pc = "open_fix")
    <3>1. /\ thread[w].data \in Content /\ thread[w].repro \in Content
          /\ cache[At(w)] \in Content
      BY <1>1, <2>2 DEF Busy, Content, TypeOK
    <3>2. {"open_cache", "write_cache", "claim", "open_fix", "write_fix"} \subseteq Step
      BY DEF Step
    <3> QED
      BY <1>3, <3>1, <3>2 DEF ReadCache, Fetch, OpenCache, WriteCache, Claim, OpenFix
  <2>5. PICK y \in Busy : /\ thread' = [thread EXCEPT ![w] = y]
                          /\ y.pc = pc
                          /\ y.repro = thread[w].repro /\ y.k = thread[w].k
    BY <2>2, <2>4, GotoStep
  <2>6. There \subseteq There'
    BY ThereKept
  <2>7. \A j \in 1..(y.k - 1) : world.hashes[y.repro][j] \in There'
    BY <2>2, <2>5, <2>6 DEF Delivered
  <2>8. extracted' \subseteq extracted \cup There'
    <3>1. CASE Claim(w)
      <4>1. extracted' = extracted \cup {At(w)}
        BY <3>1 DEF Claim
      <4>2. thread'[w] = y
        BY <1>1, <2>5 DEF TypeOK
      <4>3. At(w)' = At(w) /\ thread'[w].pc = "open_fix"
        BY <2>3, <2>4, <2>5, <3>1, <4>2 DEF At
      <4>4. At(w) \in There'
        BY <2>2, <4>3 DEF There
      <4> QED
        BY <4>1, <4>4
    <3>2. CASE ~Claim(w)
      BY <1>3, <3>2 DEF ReadCache, Fetch, OpenCache, WriteCache, OpenFix
    <3> QED
      BY <3>1, <3>2
  <2>9. \A s \in Successes' : s \in Successes
    BY <2>3 DEF Successes
  <2> QED
    BY <2>3, <2>5, <2>7, <2>8, <2>9, DeliveredStep
<1>4. CASE Skip(w) \/ WriteFix(w)
  <2>1. thread[w].pc \in Step /\ UNCHANGED <<world, phase, extracted>>
    BY <1>4 DEF Skip, WriteFix, Step
  <2>2. PICK n : Advance(w, n)
    BY <1>4 DEF Skip, WriteFix
  <2>3. At(w) \in Hash
    BY <2>1, BusyStep
  <2>4. At(w) \in There
    <3>1. CASE Skip(w)
      BY <2>3, <3>1 DEF Skip, Claimed, Delivered, There
    <3>2. CASE WriteFix(w)
      BY <1>1, <2>3, <3>2 DEF WriteFix, HoldsClaim, There
    <3> QED
      BY <1>4, <3>1, <3>2
  <2>5. At(w) \in There'
    BY <2>4, ThereKept
  <2> QED
    BY <2>1, <2>2, <2>5, AdvanceDelivered
<1>5. CASE Fail(w)
  <2>1. /\ UNCHANGED <<phase, world, extracted>>
        /\ thread' = [thread EXCEPT ![w] = Idle]
        /\ results' = Append(results, Failure(thread[w].repro))
    BY <1>5 DEF Fail
  <2>2. \A s \in Successes' : s \in Successes
    BY <1>1, <2>1, SuccessesAppend DEF Failure
  <2> QED
    BY <2>1, <2>2, DeliveredStep
<1>6. \/ Take(w) \/ Skip(w) \/ WriteFix(w) \/ Fail(w)
      \/ ReadCache(w) \/ Fetch(w) \/ OpenCache(w) \/ WriteCache(w) \/ Claim(w) \/ OpenFix(w)
  BY DEF Work
<1> QED
  BY <1>2, <1>3, <1>4, <1>5, <1>6

LEMMA NextDelivered == IInv /\ Fetched /\ Delivered /\ [Next]_vars => Delivered'
<1> SUFFICES ASSUME IInv, Fetched, Delivered, [Next]_vars PROVE Delivered'
  OBVIOUS
<1>0. TypeOK /\ AllIdle
  BY DEF IInv
<1>1. world' = world
  BY DEF Next, Work, Finish, Crash, Rerun, Take, ReadCache, Fetch, OpenCache, WriteCache,
         Skip, Claim, OpenFix, WriteFix, Fail, vars
<1>2. CASE "write" \in world.faults
  BY <1>1, <1>2 DEF Delivered
<1> SUFFICES ASSUME "write" \notin world.faults PROVE Delivered'
  BY <1>2
<1>3. CASE \E w \in Worker : Work(w)
  BY <1>3, WorkDelivered
<1>4. CASE Finish
  <2>1. /\ phase = "running" /\ phase' = "finished"
        /\ UNCHANGED <<world, thread, inputs, extracted, results>>
    BY <1>4 DEF Finish, disk
  <2>2. There' = There /\ Successes' = Successes
    BY <2>1 DEF There, Successes, At
  <2> QED
    BY <2>1, <2>2 DEF Delivered, Working, Lists
<1>5. CASE Crash
  BY <1>5 DEF Crash, Delivered, Working
<1>6. CASE Rerun
  <2>1. /\ phase # "running" /\ extracted' = {} /\ results' = << >> /\ thread' = thread
    BY <1>6 DEF Rerun
  <2>2. Successes' = {}
    BY <2>1 DEF Successes
  <2>3. \A w \in Worker : ~Working(w)'
    BY <1>0, <2>1 DEF AllIdle, Working
  <2> QED
    BY <2>1, <2>2, <2>3 DEF Delivered
<1>7. CASE UNCHANGED vars
  <2>1. There' = There /\ Successes' = Successes
    BY <1>7 DEF There, Successes, At, vars
  <2> QED
    BY <1>7, <2>1 DEF vars, Delivered, Working, Lists
<1> QED
  BY <1>3, <1>4, <1>5, <1>6, <1>7 DEF Next

LEMMA DeliveredHolds == Spec => [](Fetched /\ Delivered)
<1>1. Init => Fetched /\ Delivered
  BY DEF Init, Fetched, Delivered, Working, Successes
<1>2. IInv /\ Fetched /\ Delivered /\ [Next]_vars => Fetched' /\ Delivered'
  BY NextFetched, NextDelivered
<1> QED
  BY <1>1, <1>2, Invariance, PTL DEF Spec

(***************************************************************************)
(* A repro is reported successful only with every one of its artifacts on  *)
(* disk, unless writing fails: what one thread skips because another has   *)
(* claimed it is there too by the time the session ends.                   *)
(***************************************************************************)
THEOREM ReportedIsThereHolds == Spec => []ReportedIsThereUnlessWriteFails
<1>1. IInv /\ Delivered => ReportedIsThereUnlessWriteFails
  BY DEF IInv, AllIdle, Delivered, There, ReportedIsThereUnlessWriteFails, ReportedIsThere,
         Idle
<1> QED
  BY <1>1, Invariance, DeliveredHolds, PTL

-----------------------------------------------------------------------------
\* What is reported saved is whole, when nothing interferes.

\* Nothing goes wrong but a download, and no two items meet on a file.
Calm == NothingShared /\ world.faults \subseteq {"download"}

\* A thread's repro stands in the part of the list that was handed out.
HandedOut(w) == \E i \in DOMAIN world.list : i < next /\ world.list[i] = thread[w].repro

(***************************************************************************)
(* In a calm world no two threads have the same repro in hand, a thread    *)
(* past the cache holds somebody's payload, and a truncated file is one    *)
(* that a thread has just opened and is about to fill.                     *)
(***************************************************************************)
Undisturbed ==
    Calm =>
        /\ \A w \in Worker : Working(w) => HandedOut(w)
        /\ \A v, w \in Worker :
              v # w /\ Working(v) /\ Working(w) => thread[v].repro # thread[w].repro
        /\ \A w \in Worker :
              Working(w) /\ thread[w].pc # "lookup" => thread[w].data \in Repro
        /\ \A h \in Hash : cache[h] = "partial" =>
              \E w \in Worker : thread[w].pc = "write_cache" /\ At(w) = h
        /\ \A h \in Hash : inputs[h] = "partial" =>
              \E w \in Worker : thread[w].pc = "write_fix" /\ At(w) = h
        /\ \A w \in Worker : thread[w].pc = "write_cache" => cache[At(w)] = "partial"

(***************************************************************************)
(* Two threads are at different artifacts, and a file that no write of the *)
(* thread at its artifact has open is whole.                               *)
(***************************************************************************)
LEMMA Apart ==
    ASSUME IInv, Undisturbed, Calm, NEW v \in Worker, NEW w \in Worker, v # w,
           Working(v), Working(w)
    PROVE  At(v) # At(w)
<1>1. PICK i \in DOMAIN world.list : world.list[i] = thread[v].repro
  BY DEF Undisturbed, HandedOut
<1>2. PICK j \in DOMAIN world.list : world.list[j] = thread[w].repro
  BY DEF Undisturbed, HandedOut
<1>3. i # j
  BY <1>1, <1>2 DEF Undisturbed
<1>4. /\ thread[v].k \in DOMAIN world.hashes[world.list[i]]
      /\ thread[w].k \in DOMAIN world.hashes[world.list[j]]
  BY <1>1, <1>2, AtListed DEF IInv
<1>5. /\ At(v) = world.hashes[world.list[i]][thread[v].k]
      /\ At(w) = world.hashes[world.list[j]][thread[w].k]
  BY <1>1, <1>2 DEF At
<1>6. \A k \in DOMAIN world.hashes[world.list[i]], l \in DOMAIN world.hashes[world.list[j]] :
         world.hashes[world.list[i]][k] = world.hashes[world.list[j]][l] => i = j
  BY DEF Calm, NothingShared
<1> QED
  BY <1>3, <1>4, <1>5, <1>6

LEMMA Whole ==
    ASSUME IInv, Undisturbed, Calm, NEW w \in Worker, thread[w].pc \in Step
    PROVE  /\ thread[w].pc # "write_cache" => cache[At(w)] # "partial"
           /\ thread[w].pc # "write_fix" => inputs[At(w)] # "partial"
<1>1. Working(w) /\ At(w) \in Hash
  BY BusyStep, StepIsWorking
<1>2. \A v \in Worker : thread[v].pc \in Step /\ At(v) = At(w) => v = w
  BY <1>1, Apart, StepIsWorking
<1>3. {"write_cache", "write_fix"} \subseteq Step
  BY DEF Step
<1> QED
  BY <1>1, <1>2, <1>3 DEF Undisturbed

(***************************************************************************)
(* A step of thread w that changes no file outside A.                      *)
(***************************************************************************)
LEMMA CalmStep ==
    ASSUME IInv, Undisturbed, Calm, NEW w \in Worker, NEW y, NEW A \in SUBSET Hash,
           thread' = [thread EXCEPT ![w] = y], world' = world, next <= next', next' \in Nat,
           \/ y = Idle
           \/ Working(w) /\ y.repro = thread[w].repro
           \/ /\ \E i \in DOMAIN world.list : i < next' /\ world.list[i] = y.repro
              /\ \A v \in Worker : Working(v) => thread[v].repro # y.repro,
           y # Idle /\ y.pc # "lookup" => y.data \in Repro,
           \A h \in Hash \ A : cache'[h] = cache[h] /\ inputs'[h] = inputs[h],
           \A h \in A : /\ cache'[h] = "partial" =>
                              y.pc = "write_cache" /\ world.hashes[y.repro][y.k] = h
                        /\ inputs'[h] = "partial" =>
                              y.pc = "write_fix" /\ world.hashes[y.repro][y.k] = h,
           y.pc = "write_cache" => /\ world.hashes[y.repro][y.k] \in A
                                   /\ cache'[world.hashes[y.repro][y.k]] = "partial",
           thread[w].pc \in {"write_cache", "write_fix"} => At(w) \in A,
           \A v \in Worker : v # w /\ Working(v) => At(v) \notin A
    PROVE  Undisturbed'
<1>0. /\ TypeOK
      /\ \A v \in Worker : thread[v].pc = "write_cache" => Working(v) /\ At(v) \in Hash
      /\ \A v \in Worker : thread[v].pc = "write_fix" => Working(v) /\ At(v) \in Hash
  BY AtListed, StepIsWorking DEF Step, IInv
<1>1. /\ thread'[w] = y
      /\ \A v \in Worker : v # w => /\ thread'[v] = thread[v]
                                    /\ At(v)' = At(v)
                                    /\ Working(v)' = Working(v)
  <2>1. thread' = [thread EXCEPT ![w] = y] /\ world' = world
    OBVIOUS
  <2> QED
    BY ONLY <1>0, <2>1, Frame, w \in Worker
<1>2. At(w)' = world.hashes[y.repro][y.k] /\ Working(w)' = (y # Idle)
  BY <1>1 DEF At, Working
<1>3. world.list \in Seq(Repro) /\ next \in Nat
  BY <1>0, WorldsAssumption DEF TypeOK
<1>4. ASSUME NEW v \in Worker, Working(v)' PROVE HandedOut(v)'
  <2>1. CASE v # w \/ (Working(w) /\ y.repro = thread[w].repro)
    <3>1. Working(v) /\ thread'[v].repro = thread[v].repro
      BY <1>1, <1>4, <2>1
    <3>2. PICK i \in DOMAIN world.list : i < next /\ world.list[i] = thread[v].repro
      BY <3>1 DEF Undisturbed, HandedOut
    <3>3. i < next'
      BY <1>3, <3>2
    <3> QED
      BY <3>1, <3>2, <3>3 DEF HandedOut
  <2>2. CASE v = w /\ ~(Working(w) /\ y.repro = thread[w].repro)
    <3>1. thread'[v] = y /\ y # Idle
      BY <1>1, <1>2, <1>4, <2>2
    <3>2. PICK i \in DOMAIN world.list : i < next' /\ world.list[i] = y.repro
      BY <2>2, <3>1
    <3> QED
      BY <3>1, <3>2 DEF HandedOut
  <2> QED
    BY <2>1, <2>2
<1>5. ASSUME NEW u \in Worker, NEW v \in Worker, u # v, Working(u)', Working(v)'
      PROVE  thread'[u].repro # thread'[v].repro
  <2>1. \A t \in Worker : t # w /\ Working(t) /\ y # Idle => thread[t].repro # y.repro
    BY DEF Undisturbed
  <2>2. CASE u = w
    <3>1. y # Idle /\ thread'[u] = y /\ Working(v) /\ thread'[v] = thread[v]
      BY <1>1, <1>2, <1>5, <2>2
    <3> QED
      BY <1>5, <2>1, <2>2, <3>1
  <2>3. CASE v = w
    <3>1. y # Idle /\ thread'[v] = y /\ Working(u) /\ thread'[u] = thread[u]
      BY <1>1, <1>2, <1>5, <2>3
    <3> QED
      BY <1>5, <2>1, <2>3, <3>1
  <2>4. CASE u # w /\ v # w
    <3>1. /\ thread'[u] = thread[u] /\ Working(u)
          /\ thread'[v] = thread[v] /\ Working(v)
      BY <1>1, <1>5, <2>4
    <3> QED
      BY <1>5, <3>1 DEF Undisturbed
  <2> QED
    BY <2>2, <2>3, <2>4
<1>6. ASSUME NEW v \in Worker, Working(v)', thread'[v].pc # "lookup"
      PROVE  thread'[v].data \in Repro
  BY <1>1, <1>2, <1>6 DEF Undisturbed
<1>7. ASSUME NEW h \in Hash, cache'[h] = "partial"
      PROVE  \E v \in Worker : thread'[v].pc = "write_cache" /\ At(v)' = h
  <2>1. CASE h \in A
    BY <1>1, <1>2, <1>7, <2>1
  <2>2. CASE h \notin A
    <3>1. PICK v \in Worker : thread[v].pc = "write_cache" /\ At(v) = h
      BY <1>7, <2>2 DEF Undisturbed
    <3>2. v # w
      BY <2>2, <3>1
    <3> QED
      BY <1>1, <3>1, <3>2
  <2> QED
    BY <2>1, <2>2
<1>8. ASSUME NEW h \in Hash, inputs'[h] = "partial"
      PROVE  \E v \in Worker : thread'[v].pc = "write_fix" /\ At(v)' = h
  <2>1. CASE h \in A
    BY <1>1, <1>2, <1>8, <2>1
  <2>2. CASE h \notin A
    <3>1. PICK v \in Worker : thread[v].pc = "write_fix" /\ At(v) = h
      BY <1>8, <2>2 DEF Undisturbed
    <3>2. v # w
      BY <2>2, <3>1
    <3> QED
      BY <1>1, <3>1, <3>2
  <2> QED
    BY <2>1, <2>2
<1>9. ASSUME NEW v \in Worker, thread'[v].pc = "write_cache"
      PROVE  cache'[At(v)'] = "partial"
  <2>1. CASE v = w
    BY <1>1, <1>2, <1>9, <2>1
  <2>2. CASE v # w
    <3>1. thread[v].pc = "write_cache" /\ At(v)' = At(v)
      BY <1>1, <1>9, <2>2
    <3>2. At(v) \in Hash \ A /\ cache[At(v)] = "partial"
      BY <1>0, <2>2, <3>1 DEF Undisturbed
    <3> QED
      BY <3>1, <3>2
  <2> QED
    BY <2>1, <2>2
<1> QED
  BY <1>4, <1>5, <1>6, <1>7, <1>8, <1>9 DEF Undisturbed

LEMMA WorkUndisturbed ==
    ASSUME IInv, Undisturbed, Calm, NEW w \in Worker, Work(w)
    PROVE  Undisturbed'
<1>0. /\ TypeOK /\ next \in Nat /\ next <= next /\ {} \in SUBSET Hash
      /\ world.list \in Seq(Repro)
  BY WorldsAssumption DEF IInv, TypeOK
<1>1. ASSUME thread[w].pc \in Step
      PROVE  /\ thread[w] \in Busy /\ Working(w) /\ At(w) \in Hash
             /\ At(w) = world.hashes[thread[w].repro][thread[w].k]
             /\ \A v \in Worker : v # w /\ Working(v) => At(v) \notin {At(w)}
             /\ {At(w)} \in SUBSET Hash
             /\ thread[w].pc # "lookup" => thread[w].data \in Repro
             /\ thread[w].repro \in Repro
  BY <1>1, BusyStep, StepIsWorking, Apart DEF Undisturbed, Busy
<1>2. CASE Take(w)
  <2> DEFINE r == world.list[next]
             x == Lookup(r, 1, 0)
  <2>1. /\ world' = world /\ UNCHANGED <<cache, inputs>> /\ thread[w] = Idle
        /\ next' = next + 1 /\ next <= next' /\ next' \in Nat /\ next \in DOMAIN world.list
        /\ thread[w].pc \notin {"write_cache", "write_fix"}
    BY <1>0, <1>2 DEF Take, disk, Idle, IInv, TypeOK
  <2>2. CASE world.hashes[r] = << >>
    <3>1. thread' = [thread EXCEPT ![w] = Idle]
      BY <1>0, <1>2, <2>1, <2>2 DEF Take, TypeOK
    <3> QED
      BY <1>0, <2>1, <3>1, CalmStep DEF Idle
  <2>3. CASE world.hashes[r] # << >>
    <3>1. thread' = [thread EXCEPT ![w] = x]
      BY <1>2, <2>3 DEF Take
    <3>2. x.repro = r /\ x.pc = "lookup"
      BY DEF Lookup
    <3>3. \A v \in Worker : Working(v) => thread[v].repro # r
      <4> SUFFICES ASSUME NEW v \in Worker, Working(v), thread[v].repro = r PROVE FALSE
        OBVIOUS
      <4>1. PICK i \in DOMAIN world.list : i < next /\ world.list[i] = r
        BY DEF Undisturbed, HandedOut
      <4>2. world.hashes[r] \in Seq(Hash)
        BY <4>1, <1>0, WorldsAssumption DEF TypeOK
      <4>3. 1 \in DOMAIN world.hashes[r]
        BY <2>3, <4>2
      <4>4. i = next
        <5>1. world.list[next] = r
          OBVIOUS
        <5> HIDE DEF r
        <5> QED
          BY <2>1, <4>1, <4>3, <5>1 DEF Calm, NothingShared
      <4> QED
        BY <1>0, <4>1, <4>4
    <3>4. \E i \in DOMAIN world.list : i < next' /\ world.list[i] = x.repro
      BY <1>0, <2>1, <3>2
    <3> HIDE DEF x, r
    <3> QED
      BY <1>0, <2>1, <3>1, <3>2, <3>3, <3>4, CalmStep
  <2> QED
    BY <2>2, <2>3
<1>3. CASE ReadCache(w) \/ Fetch(w) \/ Claim(w)
  <2>1. /\ thread[w].pc \in Step /\ thread[w].pc \notin {"write_cache", "write_fix"}
        /\ UNCHANGED <<world, next, cache, inputs>>
    BY <1>3 DEF ReadCache, Fetch, Claim, Step, disk
  <2>2. PICK pc \in Step, data \in Repro : Goto(w, pc, data) /\ pc # "write_cache"
    <3>1. "open_cache" \in Step /\ "claim" \in Step /\ "open_fix" \in Step
      BY DEF Step
    <3>2. cache[At(w)] \in Repro \/ cache[At(w)] = "absent"
      BY <1>0, <1>1, <2>1, Whole DEF TypeOK, Content
    <3> QED
      BY <1>1, <1>3, <2>1, <3>1, <3>2 DEF ReadCache, Fetch, Claim
  <2>3. PICK y \in Busy : /\ thread' = [thread EXCEPT ![w] = y]
                          /\ y.pc = pc /\ y.data = data
                          /\ y.repro = thread[w].repro /\ y.k = thread[w].k
    BY <1>1, <2>1, <2>2, GotoStep DEF Content
  <2>4. y # Idle /\ y.data \in Repro /\ y.pc # "write_cache"
    BY <2>2, <2>3 DEF Busy, Step, Idle
  <2> QED
    BY <1>0, <1>1, <2>1, <2>3, <2>4, CalmStep
<1>4. CASE OpenCache(w)
  <2>1. /\ thread[w].pc \in Step /\ thread[w].pc = "open_cache"
        /\ UNCHANGED <<world, next, inputs>> /\ "write_cache" \in Step
        /\ thread[w].data \in Content
    BY <1>1, <1>4 DEF OpenCache, Step, Content
  <2>2. PICK y \in Busy : /\ thread' = [thread EXCEPT ![w] = y]
                          /\ y.pc = "write_cache" /\ y.data = thread[w].data
                          /\ y.repro = thread[w].repro /\ y.k = thread[w].k
    BY <1>1, <1>4, <2>1, GotoStep DEF OpenCache
  <2> DEFINE a == At(w)
  <2>3. cache' = [cache EXCEPT ![a] = "partial"] /\ a \in Hash
    BY <1>1, <1>4, <2>1 DEF OpenCache
  <2>4. a = world.hashes[y.repro][y.k] /\ inputs[a] # "partial"
    BY <1>1, <2>1, <2>2, Whole
  <2>5. thread[w].data \in Repro /\ Working(w) /\ {a} \in SUBSET Hash
    BY <1>1, <2>1
  <2>6. \A v \in Worker : v # w /\ Working(v) => At(v) \notin {a}
    BY <1>1, <2>1
  <2> HIDE DEF a
  <2>7. cache'[a] = "partial" /\ \A h \in Hash \ {a} : cache'[h] = cache[h]
    BY <1>0, <2>3 DEF TypeOK
  <2> QED
    BY <1>0, <2>1, <2>2, <2>4, <2>5, <2>6, <2>7, CalmStep
<1>5. CASE WriteCache(w)
  <2>1. /\ thread[w].pc \in Step /\ thread[w].pc = "write_cache"
        /\ UNCHANGED <<world, next, inputs>> /\ "claim" \in Step
        /\ thread[w].data \in Content
    BY <1>1, <1>5 DEF WriteCache, Step, Content
  <2>2. PICK y \in Busy : /\ thread' = [thread EXCEPT ![w] = y]
                          /\ y.pc = "claim" /\ y.data = thread[w].data
                          /\ y.repro = thread[w].repro /\ y.k = thread[w].k
    BY <1>1, <1>5, <2>1, GotoStep DEF WriteCache
  <2> DEFINE a == At(w)
             d == thread[w].data
  <2>3. cache' = [cache EXCEPT ![a] = d] /\ a \in Hash
    BY <1>1, <1>5, <2>1 DEF WriteCache, Undisturbed
  <2>4. a = At(w) /\ inputs[a] # "partial"
    BY <1>1, <2>1, <2>2, Whole
  <2>5. d \in Repro /\ d = thread[w].data /\ Working(w) /\ {a} \in SUBSET Hash
    BY <1>1, <2>1
  <2>6. \A v \in Worker : v # w /\ Working(v) => At(v) \notin {a}
    BY <1>1, <2>1
  <2> HIDE DEF a, d
  <2>7. cache'[a] # "partial" /\ \A h \in Hash \ {a} : cache'[h] = cache[h]
    BY <1>0, <2>3, <2>5, ReproAssumption DEF TypeOK
  <2> QED
    BY <1>0, <2>1, <2>2, <2>4, <2>5, <2>6, <2>7, CalmStep
<1>6. CASE OpenFix(w)
  <2>1. /\ thread[w].pc \in Step /\ thread[w].pc = "open_fix"
        /\ UNCHANGED <<world, next, cache>> /\ "write_fix" \in Step
        /\ thread[w].data \in Content
    BY <1>1, <1>6 DEF OpenFix, Step, Content
  <2>2. PICK y \in Busy : /\ thread' = [thread EXCEPT ![w] = y]
                          /\ y.pc = "write_fix" /\ y.data = thread[w].data
                          /\ y.repro = thread[w].repro /\ y.k = thread[w].k
    BY <1>1, <1>6, <2>1, GotoStep DEF OpenFix
  <2> DEFINE a == At(w)
  <2>3. inputs' = [inputs EXCEPT ![a] = "partial"] /\ a \in Hash
    BY <1>1, <1>6, <2>1 DEF OpenFix
  <2>4. a = world.hashes[y.repro][y.k] /\ cache[a] # "partial"
    BY <1>1, <2>1, <2>2, Whole
  <2>5. thread[w].data \in Repro /\ Working(w) /\ {a} \in SUBSET Hash
    BY <1>1, <2>1
  <2>6. \A v \in Worker : v # w /\ Working(v) => At(v) \notin {a}
    BY <1>1, <2>1
  <2> HIDE DEF a
  <2>7. \A h \in Hash \ {a} : inputs'[h] = inputs[h]
    BY <1>0, <2>3 DEF TypeOK
  <2> QED
    BY <1>0, <2>1, <2>2, <2>4, <2>5, <2>6, <2>7, CalmStep
<1>7. CASE Skip(w) \/ WriteFix(w)
  <2>1. /\ thread[w].pc \in Step /\ thread[w].pc # "write_cache"
        /\ UNCHANGED <<world, next, cache>>
    BY <1>7 DEF Skip, WriteFix, Step, disk
  <2>2. PICK y : /\ thread' = [thread EXCEPT ![w] = y]
                 /\ y = Idle \/ y.repro = thread[w].repro
                 /\ y = Idle \/ y.pc = "lookup"
                 /\ y.pc # "write_cache"
    BY <1>7 DEF Skip, WriteFix, Advance, Lookup, Idle
  <2> DEFINE a == At(w)
             d == thread[w].data
  <2>3. cache[a] # "partial" /\ a \in Hash /\ a = At(w) /\ {a} \in SUBSET Hash
    BY <1>1, <2>1, Whole
  <2>4. \A v \in Worker : v # w /\ Working(v) => At(v) \notin {a}
    BY <1>1, <2>1
  <2>5. WriteFix(w) => inputs' = [inputs EXCEPT ![a] = d] /\ d \in Repro
    BY <1>1, <2>1 DEF WriteFix
  <2>6. Skip(w) => inputs' = inputs /\ inputs[a] # "partial"
    BY <2>1, Whole DEF Skip, disk
  <2>7. Working(w)
    BY <1>1, <2>1
  <2> HIDE DEF a, d
  <2>8. inputs'[a] # "partial" /\ \A h \in Hash \ {a} : inputs'[h] = inputs[h]
    BY <1>0, <1>7, <2>3, <2>5, <2>6, ReproAssumption DEF TypeOK
  <2> QED
    BY <1>0, <2>1, <2>2, <2>3, <2>4, <2>7, <2>8, CalmStep
<1>8. CASE Fail(w)
  <2>1. /\ UNCHANGED <<world, next, cache, inputs>>
        /\ thread' = [thread EXCEPT ![w] = Idle]
        /\ thread[w].pc \notin {"write_cache", "write_fix"}
    BY <1>8 DEF Fail, disk, Calm
  <2> QED
    BY <1>0, <2>1, CalmStep DEF Idle
<1>9. \/ Take(w) \/ Skip(w) \/ WriteFix(w) \/ Fail(w)
      \/ ReadCache(w) \/ Fetch(w) \/ OpenCache(w) \/ WriteCache(w) \/ Claim(w) \/ OpenFix(w)
  BY DEF Work
<1> QED
  BY <1>2, <1>3, <1>4, <1>5, <1>6, <1>7, <1>8, <1>9

LEMMA NextUndisturbed == IInv /\ Undisturbed /\ [Next]_vars => Undisturbed'
<1> SUFFICES ASSUME IInv, Undisturbed, [Next]_vars PROVE Undisturbed'
  OBVIOUS
<1>0. TypeOK /\ AllIdle
  BY DEF IInv
<1>1. world' = world
  BY DEF Next, Work, Finish, Crash, Rerun, Take, ReadCache, Fetch, OpenCache, WriteCache,
         Skip, Claim, OpenFix, WriteFix, Fail, vars
<1>2. Calm' = Calm
  BY <1>1 DEF Calm, NothingShared
<1>3. CASE ~Calm
  BY <1>2, <1>3 DEF Undisturbed
<1> SUFFICES ASSUME Calm PROVE Undisturbed'
  BY <1>3
<1>4. CASE \E w \in Worker : Work(w)
  BY <1>4, WorkUndisturbed
<1>5. ASSUME UNCHANGED <<thread, cache, inputs>>,
             next' = next \/ \A w \in Worker : thread[w] = Idle
      PROVE  Undisturbed'
  BY <1>1, <1>5 DEF Undisturbed, HandedOut, Working, At
<1>6. CASE Finish \/ Rerun
  BY <1>0, <1>5, <1>6 DEF Finish, Rerun, disk, AllIdle
<1>7. CASE Crash
  BY <1>7 DEF Crash, Calm
<1>8. CASE UNCHANGED vars
  BY <1>5, <1>8 DEF vars
<1> QED
  BY <1>4, <1>6, <1>7, <1>8 DEF Next

LEMMA UndisturbedHolds == Spec => []Undisturbed
<1>1. Init => Undisturbed
  BY DEF Init, Undisturbed, Working, Idle
<1> QED
  BY <1>1, NextUndisturbed, Invariance, PTL DEF Spec

(***************************************************************************)
(* When no two items of the list meet on a file and only downloads fail,   *)
(* what is reported saved is whole.                                        *)
(***************************************************************************)
THEOREM ReportedIsWholeHolds == Spec => []ReportedIsWholeUndisturbed
<1>1. IInv /\ Undisturbed => ReportedIsWholeUndisturbed
  BY DEF IInv, AllIdle, Undisturbed, Calm, ReportedIsWholeUndisturbed, ReportedIsWhole, Idle
<1> QED
  BY <1>1, Invariance, UndisturbedHolds, PTL

-----------------------------------------------------------------------------
\* The reported number of fixtures.

\* The elements of E that own gives to one of the keys in s.
Part(own, E, s) == {e \in E : own[e] \in s}

SumOver(g, f, D) ==
    g = [s \in SUBSET D |->
            IF s = {} THEN 0
            ELSE LET x == CHOOSE x \in s : TRUE IN f[x].fixtures + g[s \ {x}]]

Sum(f) == FoldFunction(LAMBDA r, n : r.fixtures + n, 0, f)

(***************************************************************************)
(* When every f[k].fixtures counts the elements that belong to k, the sum  *)
(* counts the elements that belong to some k.                              *)
(***************************************************************************)
LEMMA PartAdd ==
    ASSUME NEW E, IsFiniteSet(E), NEW own, NEW s, NEW x \in s
    PROVE  /\ IsFiniteSet(Part(own, E, s))
           /\ Cardinality(Part(own, E, s)) \in Nat
           /\ Cardinality(Part(own, E, s)) =
                 Cardinality(Part(own, E, {x})) + Cardinality(Part(own, E, s \ {x}))
<1> DEFINE A == Part(own, E, {x})
           B == Part(own, E, s \ {x})
           C == Part(own, E, s)
<1>1. A \in SUBSET E /\ B \in SUBSET E /\ C \in SUBSET E
  BY DEF Part
<1>2. A \cap B = {} /\ A \cup B = C
  BY DEF Part
<1> HIDE DEF A, B, C
<1>3. IsFiniteSet(A) /\ IsFiniteSet(B) /\ IsFiniteSet(C)
  BY <1>1, FS_Subset
<1>4. Cardinality(A) \in Nat /\ Cardinality(B) \in Nat /\ Cardinality(C) \in Nat
  BY <1>3, FS_CardinalityType
<1>5. Cardinality(A \cup B) = Cardinality(A) + Cardinality(B) - Cardinality(A \cap B)
  BY <1>3, FS_Union
<1>6. Cardinality(A \cap B) = 0
  BY <1>2, FS_EmptySet
<1>7. Cardinality(A \cup B) = Cardinality(C)
  BY <1>2
<1>8. Cardinality(C) = Cardinality(A) + Cardinality(B)
  BY <1>4, <1>5, <1>6, <1>7
<1> QED
  BY <1>3, <1>4, <1>8 DEF A, B, C

LEMMA SumOfParts ==
    ASSUME NEW f, IsFiniteSet(DOMAIN f), NEW E, IsFiniteSet(E), NEW own,
           \A k \in DOMAIN f : f[k].fixtures = Cardinality(Part(own, E, {k}))
    PROVE  Sum(f) = Cardinality(Part(own, E, DOMAIN f))
<1> DEFINE D == DOMAIN f
           C(s) == Cardinality(Part(own, E, s))
           g == [s \in SUBSET D |-> C(s)]
           h == CHOOSE h : SumOver(h, f, D)
<1>1. Sum(f) = h[D]
  BY DEF Sum, FoldFunction, FoldFunctionOnSet, MapThenFoldSet, SumOver
<1>2. C({}) = 0
  BY FS_EmptySet DEF Part
<1>3. \A s \in SUBSET D : \A x \in s : C(s) = f[x].fixtures + C(s \ {x})
  <2> SUFFICES ASSUME NEW s \in SUBSET D, NEW x \in s
               PROVE  C(s) = f[x].fixtures + C(s \ {x})
    OBVIOUS
  <2>1. f[x].fixtures = C({x})
    OBVIOUS
  <2>2. C(s) = C({x}) + C(s \ {x})
    BY PartAdd
  <2> QED
    BY <2>1, <2>2
<1> HIDE DEF C
<1>4. SumOver(g, f, D)
  <2> SUFFICES ASSUME NEW s \in SUBSET D
               PROVE  g[s] = IF s = {} THEN 0
                             ELSE LET x == CHOOSE x \in s : TRUE IN f[x].fixtures + g[s \ {x}]
    BY DEF SumOver
  <2>1. CASE s = {}
    BY <1>2, <2>1
  <2>2. CASE s # {}
    <3> DEFINE x == CHOOSE x \in s : TRUE
    <3>1. x \in s
      BY <2>2
    <3> HIDE DEF x
    <3>2. g[s] = f[x].fixtures + g[s \ {x}]
      BY <1>3, <3>1
    <3> QED
      BY <2>2, <3>2 DEF x
  <2> QED
    BY <2>1, <2>2
<1>5. SumOver(h, f, D)
  BY <1>4
<1> HIDE DEF g, h
<1>6. \A s \in SUBSET D : IsFiniteSet(s) /\ Cardinality(s) \in Nat
  BY FS_Subset, FS_CardinalityType
<1> DEFINE wrong == {s \in SUBSET D : h[s] # C(s)}
           sizes == {Cardinality(s) : s \in wrong}
<1>7. wrong = {}
  <2> SUFFICES ASSUME wrong # {} PROVE FALSE
    OBVIOUS
  <2>1. sizes \in SUBSET Nat /\ sizes # {}
    BY <1>6
  <2>2. PICK n \in sizes : \A m \in sizes : n <= m
    BY <2>1, LeastNatural
  <2>3. PICK s \in wrong : Cardinality(s) = n
    BY <2>2
  <2>4. h[s] = IF s = {} THEN 0
               ELSE LET x == CHOOSE x \in s : TRUE IN f[x].fixtures + h[s \ {x}]
    BY <1>5, <2>3 DEF SumOver
  <2>5. s # {}
    BY <1>2, <2>3, <2>4
  <2> DEFINE x == CHOOSE x \in s : TRUE
  <2>6. x \in s
    BY <2>5
  <2>7. h[s] = f[x].fixtures + h[s \ {x}]
    BY <2>4, <2>5
  <2> HIDE DEF x
  <2>8. Cardinality(s \ {x}) = n - 1 /\ n \in Nat
    BY <1>6, <2>1, <2>3, <2>6, FS_RemoveElement
  <2>9. s \ {x} \notin wrong
    <3>1. ~(n <= n - 1)
      BY <2>8
    <3> QED
      BY <2>2, <2>8, <3>1
  <2>10. h[s \ {x}] = C(s \ {x})
    BY <2>3, <2>9
  <2>11. h[s] = C(s)
    BY <1>3, <2>3, <2>6, <2>7, <2>10
  <2> QED
    BY <2>3, <2>11
<1>8. h[D] = C(D)
  BY <1>7
<1> QED
  BY <1>1, <1>8 DEF C

(***************************************************************************)
(* Every claimed file is attributed to the thread that claimed it, and to  *)
(* the result of the item once that is there.                              *)
(***************************************************************************)
Mine(w) == <<"thread", w>>
Theirs(k) == <<"result", k>>

\* How many files a thread has claimed for the item it has in hand.
Weight(t) == t.saved + (IF t.pc \in {"open_fix", "write_fix"} THEN 1 ELSE 0)

Count(own, o) == Cardinality(Part(own, extracted, {o}))

OwnedBy(own) ==
    /\ \A h \in extracted :
          \/ \E w \in Worker : Working(w) /\ own[h] = Mine(w)
          \/ \E k \in DOMAIN results : own[h] = Theirs(k)
    /\ \A w \in Worker : Working(w) => Count(own, Mine(w)) = Weight(thread[w])
    /\ \A k \in DOMAIN results :
          IF results[k].success THEN Count(own, Theirs(k)) = results[k].fixtures
                                ELSE results[k].fixtures = 0

Owned ==
    /\ IsFiniteSet(extracted)
    /\ phase # "crashed" => \E own : OwnedBy(own)

LEMMA Keys ==
    /\ \A v, w : Mine(v) = Mine(w) => v = w
    /\ \A k, l : Theirs(k) = Theirs(l) => k = l
    /\ \A w, k : Mine(w) # Theirs(k)
BY DEF Mine, Theirs

(***************************************************************************)
(* A step that claims nothing and answers nothing.                         *)
(***************************************************************************)
LEMMA OwnedKept ==
    ASSUME TypeOK, Owned, phase = "running", NEW w \in Worker, NEW y,
           thread' = [thread EXCEPT ![w] = y], y # Idle,
           UNCHANGED <<world, phase, extracted, results>>,
           IF Working(w) THEN Weight(y) = Weight(thread[w]) ELSE Weight(y) = 0
    PROVE  Owned'
<1>1. PICK own : OwnedBy(own)
  BY DEF Owned
<1>2. /\ thread'[w] = y /\ Working(w)'
      /\ \A v \in Worker : v # w => thread'[v] = thread[v] /\ Working(v)' = Working(v)
  BY DEF TypeOK, Working
<1>3. ASSUME NEW v \in Worker, Working(v)' PROVE Count(own, Mine(v))' = Weight(thread'[v])
  <2>1. Count(own, Mine(v))' = Count(own, Mine(v))
    BY DEF Count, Part
  <2>2. CASE Working(v)
    <3>1. Weight(thread'[v]) = Weight(thread[v])
      BY <1>2, <2>2
    <3> QED
      BY <1>1, <2>1, <2>2, <3>1 DEF OwnedBy
  <2>3. CASE ~Working(v)
    <3>1. v = w /\ Weight(thread'[v]) = 0
      BY <1>2, <1>3, <2>3
    <3>2. \A h \in extracted : own[h] # Mine(v)
      BY <1>1, <2>3, Keys DEF OwnedBy
    <3>3. Part(own, extracted, {Mine(v)}) = {}
      BY <3>2 DEF Part
    <3>4. Count(own, Mine(v)) = 0
      BY <3>3, FS_EmptySet DEF Count
    <3> QED
      BY <2>1, <3>1, <3>4
  <2> QED
    BY <2>2, <2>3
<1>4. ASSUME NEW h \in extracted
      PROVE  \/ \E v \in Worker : Working(v)' /\ own[h] = Mine(v)
             \/ \E k \in DOMAIN results : own[h] = Theirs(k)
  BY <1>1, <1>2 DEF OwnedBy
<1>5. \A o : Count(own, o)' = Count(own, o)
  BY DEF Count, Part
<1>6. OwnedBy(own)'
  <2>1. \A k \in DOMAIN results :
          IF results[k].success THEN Count(own, Theirs(k))' = results[k].fixtures
                                ELSE results[k].fixtures = 0
    BY <1>1, <1>5 DEF OwnedBy
  <2> QED
    BY <1>3, <1>4, <2>1 DEF OwnedBy
<1> QED
  BY <1>6 DEF Owned

(***************************************************************************)
(* A step that claims a file.                                              *)
(***************************************************************************)
LEMMA OwnedMore ==
    ASSUME TypeOK, Owned, phase = "running", NEW w \in Worker, NEW y,
           thread' = [thread EXCEPT ![w] = y], y # Idle, Working(w),
           NEW a, a \notin extracted, extracted' = extracted \cup {a},
           UNCHANGED <<world, phase, results>>,
           Weight(thread[w]) \in Nat, Weight(y) = Weight(thread[w]) + 1
    PROVE  Owned'
<1>1. PICK own : OwnedBy(own)
  BY DEF Owned
<1>2. /\ thread'[w] = y /\ Working(w)'
      /\ \A v \in Worker : v # w => thread'[v] = thread[v] /\ Working(v)' = Working(v)
  BY DEF TypeOK, Working
<1>3. PICK mine : /\ mine[a] = Mine(w)
                  /\ \A h \in extracted : mine[h] = own[h]
  <2> DEFINE m == [h \in extracted \cup {a} |-> IF h = a THEN Mine(w) ELSE own[h]]
  <2>1. m[a] = Mine(w) /\ \A h \in extracted : m[h] = own[h]
    OBVIOUS
  <2> QED
    BY <2>1
<1>4. IsFiniteSet(extracted) /\ IsFiniteSet(extracted')
  BY FS_AddElement DEF Owned
<1>5. ASSUME NEW o, o # Mine(w) PROVE Count(mine, o)' = Count(own, o)
  <2>1. Part(mine, extracted', {o}) = Part(own, extracted, {o})
    BY <1>3, <1>5 DEF Part
  <2> QED
    BY <2>1 DEF Count
<1>6. Count(mine, Mine(w))' = Count(own, Mine(w)) + 1
  <2> DEFINE P == Part(own, extracted, {Mine(w)})
  <2>1. Part(mine, extracted', {Mine(w)}) = P \cup {a}
    BY <1>3 DEF Part
  <2>2. a \notin P /\ IsFiniteSet(P)
    <3>1. P \in SUBSET extracted
      BY DEF Part
    <3> QED
      BY <1>4, <3>1, FS_Subset
  <2>3. Cardinality(P \cup {a}) = Cardinality(P) + 1
    BY <2>2, FS_AddElement
  <2>4. Cardinality(Part(mine, extracted', {Mine(w)})) = Cardinality(P \cup {a})
    BY <2>1
  <2> QED
    BY <2>3, <2>4 DEF Count
<1>7. ASSUME NEW v \in Worker, Working(v)' PROVE Count(mine, Mine(v))' = Weight(thread'[v])
  <2>1. CASE v = w
    BY <1>1, <1>2, <1>6, <2>1 DEF OwnedBy
  <2>2. CASE v # w
    <3>1. Mine(v) # Mine(w) /\ Working(v) /\ thread'[v] = thread[v]
      BY <1>2, <1>7, <2>2, Keys
    <3> QED
      BY <1>1, <1>5, <3>1 DEF OwnedBy
  <2> QED
    BY <2>1, <2>2
<1>8. ASSUME NEW h \in extracted'
      PROVE  \/ \E v \in Worker : Working(v)' /\ mine[h] = Mine(v)
             \/ \E k \in DOMAIN results : mine[h] = Theirs(k)
  BY <1>1, <1>2, <1>3 DEF OwnedBy
<1>9. \A k \in DOMAIN results :
         IF results[k].success THEN Count(mine, Theirs(k))' = results[k].fixtures
                               ELSE results[k].fixtures = 0
  BY <1>1, <1>5, Keys DEF OwnedBy
<1>10. OwnedBy(mine)'
  BY <1>7, <1>8, <1>9 DEF OwnedBy
<1> QED
  BY <1>4, <1>10 DEF Owned

(***************************************************************************)
(* A step that answers an item: of thread w, or one nobody had in hand.    *)
(***************************************************************************)
LEMMA OwnedAnswer ==
    ASSUME TypeOK, Owned, phase = "running", NEW w \in Worker, NEW x,
           thread' = [thread EXCEPT ![w] = Idle],
           results' = Append(results, x),
           UNCHANGED <<world, phase, extracted>>,
           IF x.success THEN Working(w) /\ x.fixtures = Weight(thread[w]) ELSE x.fixtures = 0
    PROVE  Owned'
<1>1. PICK own : OwnedBy(own)
  BY DEF Owned
<1>2. /\ thread'[w] = Idle /\ ~Working(w)'
      /\ \A v \in Worker : v # w => thread'[v] = thread[v] /\ Working(v)' = Working(v)
  BY DEF TypeOK, Working
<1>3. PICK n : n = Len(results) + 1
  OBVIOUS
<1>0. PICK mine : \A h \in extracted :
                     mine[h] = IF own[h] = Mine(w) THEN Theirs(n) ELSE own[h]
  <2> DEFINE m == [h \in extracted |-> IF own[h] = Mine(w) THEN Theirs(n) ELSE own[h]]
  <2>1. \A h \in extracted : m[h] = IF own[h] = Mine(w) THEN Theirs(n) ELSE own[h]
    OBVIOUS
  <2> QED
    BY <2>1
<1>4. /\ n \notin DOMAIN results /\ DOMAIN results' = DOMAIN results \cup {n}
      /\ results'[n] = x
      /\ \A k \in DOMAIN results : results'[k] = results[k]
  BY <1>3 DEF TypeOK
<1>5. \A h \in extracted : own[h] # Theirs(n)
  BY <1>1, <1>4, Keys DEF OwnedBy
<1>6. \A v \in Worker : v # w => Count(mine, Mine(v))' = Count(own, Mine(v))
  <2> SUFFICES ASSUME NEW v \in Worker, v # w
               PROVE  Cardinality(Part(mine, extracted, {Mine(v)})) =
                         Cardinality(Part(own, extracted, {Mine(v)}))
    BY DEF Count
  <2>1. \A h \in extracted : mine[h] = Mine(v) <=> own[h] = Mine(v)
    BY <1>0, Keys
  <2>2. Part(mine, extracted, {Mine(v)}) = Part(own, extracted, {Mine(v)})
    BY <2>1 DEF Part
  <2> QED
    BY <2>2
<1>7. Count(mine, Theirs(n))' = Count(own, Mine(w))
  <2>1. \A h \in extracted : mine[h] = Theirs(n) <=> own[h] = Mine(w)
    BY <1>0, <1>5
  <2>2. Part(mine, extracted, {Theirs(n)}) = Part(own, extracted, {Mine(w)})
    BY <2>1 DEF Part
  <2> QED
    BY <2>2 DEF Count
<1>8. \A k \in DOMAIN results : Count(mine, Theirs(k))' = Count(own, Theirs(k))
  <2> SUFFICES ASSUME NEW k \in DOMAIN results
               PROVE  Cardinality(Part(mine, extracted, {Theirs(k)})) =
                         Cardinality(Part(own, extracted, {Theirs(k)}))
    BY DEF Count
  <2>1. Theirs(k) # Theirs(n) /\ Theirs(k) # Mine(w)
    BY <1>4, Keys
  <2>2. \A h \in extracted : mine[h] = Theirs(k) <=> own[h] = Theirs(k)
    BY <1>0, <2>1
  <2>3. Part(mine, extracted, {Theirs(k)}) = Part(own, extracted, {Theirs(k)})
    BY <2>2 DEF Part
  <2> QED
    BY <2>3
<1>9. ASSUME NEW v \in Worker, Working(v)' PROVE Count(mine, Mine(v))' = Weight(thread'[v])
  <2>1. v # w /\ thread'[v] = thread[v] /\ Working(v)
    BY <1>2, <1>9
  <2> QED
    BY <1>1, <1>6, <2>1 DEF OwnedBy
<1>10. ASSUME NEW h \in extracted
       PROVE  \/ \E v \in Worker : Working(v)' /\ mine[h] = Mine(v)
              \/ \E k \in DOMAIN results' : mine[h] = Theirs(k)
  <2>1. CASE own[h] = Mine(w)
    BY <1>0, <1>4, <2>1
  <2>2. CASE own[h] # Mine(w)
    <3>1. mine[h] = own[h]
      BY <1>0, <2>2
    <3> QED
      BY <1>1, <1>2, <1>4, <2>2, <3>1 DEF OwnedBy
  <2> QED
    BY <2>1, <2>2
<1>11. ASSUME NEW k \in DOMAIN results'
       PROVE  IF results'[k].success THEN Count(mine, Theirs(k))' = results'[k].fixtures
                                     ELSE results'[k].fixtures = 0
  <2>1. CASE k = n
    BY <1>1, <1>4, <1>7, <2>1 DEF OwnedBy
  <2>2. CASE k # n
    <3>1. k \in DOMAIN results /\ results'[k] = results[k]
      BY <1>4, <1>11, <2>2
    <3> QED
      BY <1>1, <1>8, <3>1 DEF OwnedBy
  <2> QED
    BY <2>1, <2>2
<1>12. OwnedBy(mine)'
  BY <1>9, <1>10, <1>11 DEF OwnedBy
<1> QED
  BY <1>12 DEF Owned

LEMMA AdvanceOwned ==
    ASSUME TypeOK, Owned, phase = "running", NEW w \in Worker, Working(w),
           Advance(w, Weight(thread[w])),
           UNCHANGED <<world, phase, extracted>>
    PROVE  Owned'
<1> DEFINE t == thread[w]
           x == Lookup(t.repro, t.k + 1, Weight(t))
           s == Success(t.repro, Weight(t))
<1>1. CASE t.k < Len(world.hashes[t.repro])
  <2>1. thread' = [thread EXCEPT ![w] = x] /\ results' = results
    BY <1>1 DEF Advance
  <2>2. Weight(t) \in Nat
    BY DEF TypeOK, Working, Busy, Weight
  <2>3. x # Idle /\ Weight(x) = Weight(t)
    BY <2>2 DEF Lookup, Idle, Weight
  <2> HIDE DEF x
  <2> QED
    BY <2>1, <2>3, OwnedKept
<1>2. CASE ~(t.k < Len(world.hashes[t.repro]))
  <2>1. thread' = [thread EXCEPT ![w] = Idle] /\ results' = Append(results, s)
    BY <1>2 DEF Advance
  <2>2. s.success /\ s.fixtures = Weight(t)
    BY DEF Success
  <2> HIDE DEF s
  <2> QED
    BY <2>1, <2>2, OwnedAnswer
<1> QED
  BY <1>1, <1>2

LEMMA WorkOwned == ASSUME IInv, Owned, NEW w \in Worker, Work(w) PROVE Owned'
<1>1. TypeOK
  BY DEF IInv
<1>2. CASE Take(w)
  <2> DEFINE r == world.list[next]
             x == Lookup(r, 1, 0)
             f == Failure(r)
  <2>1. phase = "running" /\ UNCHANGED <<world, phase, extracted>> /\ thread[w] = Idle
    BY <1>2 DEF Take, disk
  <2>2. CASE world.hashes[r] = << >>
    <3>1. thread' = thread /\ results' = Append(results, f)
      BY <1>2, <2>2 DEF Take
    <3>2. thread' = [thread EXCEPT ![w] = Idle]
      BY <1>1, <2>1, <3>1 DEF TypeOK
    <3>3. ~f.success /\ f.fixtures = 0
      BY DEF Failure
    <3> HIDE DEF f
    <3> QED
      BY <1>1, <2>1, <3>1, <3>2, <3>3, OwnedAnswer
  <2>3. CASE world.hashes[r] # << >>
    <3>1. thread' = [thread EXCEPT ![w] = x] /\ results' = results
      BY <1>2, <2>3 DEF Take
    <3>2. x # Idle /\ Weight(x) = 0 /\ ~Working(w)
      BY <2>1 DEF Lookup, Idle, Weight, Working
    <3> HIDE DEF x
    <3> QED
      BY <1>1, <2>1, <3>1, <3>2, OwnedKept
  <2> QED
    BY <2>2, <2>3
<1>3. CASE ReadCache(w) \/ Fetch(w) \/ OpenCache(w) \/ WriteCache(w) \/ Claim(w) \/ OpenFix(w)
  <2>1. thread[w].pc \in Step
    BY <1>3 DEF ReadCache, Fetch, OpenCache, WriteCache, Claim, OpenFix, Step
  <2>2. phase = "running" /\ thread[w] \in Busy /\ Working(w)
    BY <2>1, BusyStep, StepIsWorking
  <2>3. UNCHANGED <<world, phase, results>>
    BY <1>3 DEF ReadCache, Fetch, OpenCache, WriteCache, Claim, OpenFix
  <2>4. PICK pc, data :
           /\ pc \in Step
           /\ Goto(w, pc, data)
           /\ IF Claim(w) THEN pc = "open_fix"
              ELSE pc \in {"open_fix", "write_fix"} <=>
                      thread[w].pc \in {"open_fix", "write_fix"}
    <3>1. {"open_cache", "write_cache", "claim", "open_fix", "write_fix"} \subseteq Step
      BY DEF Step
    <3> QED
      BY <1>3, <3>1 DEF ReadCache, Fetch, OpenCache, WriteCache, Claim, OpenFix
  <2> DEFINE y == [thread[w] EXCEPT !.pc = pc, !.data = data]
  <2>5. thread' = [thread EXCEPT ![w] = y]
    BY <2>4 DEF Goto
  <2>6. /\ y.pc = pc /\ y.saved = thread[w].saved /\ thread[w].saved \in Nat
        /\ y # Idle
    BY <2>2, <2>4 DEF Busy, Idle, Step
  <2> HIDE DEF y
  <2>7. CASE Claim(w)
    <3>1. At(w) \notin extracted /\ extracted' = extracted \cup {At(w)}
      BY <2>7 DEF Claim, Claimed
    <3>2. Weight(thread[w]) \in Nat /\ Weight(y) = Weight(thread[w]) + 1
      BY <2>4, <2>6, <2>7 DEF Weight, Claim
    <3> QED
      BY <1>1, <2>2, <2>3, <2>5, <2>6, <3>1, <3>2, OwnedMore
  <2>8. CASE ~Claim(w)
    <3>1. extracted' = extracted
      BY <1>3, <2>8 DEF ReadCache, Fetch, OpenCache, WriteCache, OpenFix
    <3>2. Weight(y) = Weight(thread[w])
      BY <2>4, <2>6, <2>8 DEF Weight
    <3> QED
      BY <1>1, <2>2, <2>3, <2>5, <2>6, <3>1, <3>2, OwnedKept
  <2> QED
    BY <2>7, <2>8
<1>4. CASE Skip(w) \/ WriteFix(w)
  <2>1. thread[w].pc \in Step /\ UNCHANGED <<world, phase, extracted>>
    BY <1>4 DEF Skip, WriteFix, Step
  <2>2. phase = "running" /\ thread[w] \in Busy /\ Working(w)
    BY <2>1, BusyStep, StepIsWorking
  <2>3. Advance(w, Weight(thread[w]))
    <3>1. Skip(w) => Weight(thread[w]) = thread[w].saved
      BY <2>2 DEF Skip, Weight, Busy
    <3>2. WriteFix(w) => Weight(thread[w]) = thread[w].saved + 1
      BY <2>2 DEF WriteFix, Weight, Busy
    <3> QED
      BY <1>4, <3>1, <3>2 DEF Skip, WriteFix
  <2> QED
    BY <1>1, <2>1, <2>2, <2>3, AdvanceOwned
<1>5. CASE Fail(w)
  <2> DEFINE f == Failure(thread[w].repro)
  <2>1. /\ thread[w].pc \in Step /\ UNCHANGED <<phase, world, extracted>>
        /\ thread' = [thread EXCEPT ![w] = Idle] /\ results' = Append(results, f)
    BY <1>5 DEF Fail, Step
  <2>2. phase = "running"
    BY <2>1, BusyStep
  <2>3. ~f.success /\ f.fixtures = 0
    BY DEF Failure
  <2> HIDE DEF f
  <2> QED
    BY <1>1, <2>1, <2>2, <2>3, OwnedAnswer
<1>6. \/ Take(w) \/ Skip(w) \/ WriteFix(w) \/ Fail(w)
      \/ ReadCache(w) \/ Fetch(w) \/ OpenCache(w) \/ WriteCache(w) \/ Claim(w) \/ OpenFix(w)
  BY DEF Work
<1> QED
  BY <1>2, <1>3, <1>4, <1>5, <1>6

\* No thread has an item in hand and nothing was claimed or answered.
LEMMA NothingOwned ==
    ASSUME extracted = {}, results = << >>, \A w \in Worker : thread[w] = Idle
    PROVE  Owned
<1>1. OwnedBy(<< >>)
  BY DEF OwnedBy, Working
<1> QED
  BY <1>1, FS_EmptySet DEF Owned

LEMMA NextOwned == IInv /\ Owned /\ [Next]_vars => Owned'
<1> SUFFICES ASSUME IInv, Owned, [Next]_vars PROVE Owned'
  OBVIOUS
<1>1. CASE \E w \in Worker : Work(w)
  BY <1>1, WorkOwned
<1>2. CASE Finish \/ UNCHANGED vars
  <2>1. /\ UNCHANGED <<thread, extracted, results>>
        /\ phase' # "crashed" => phase # "crashed"
    BY <1>2 DEF Finish, vars
  <2>2. \A own : OwnedBy(own) => OwnedBy(own)'
    BY <2>1 DEF OwnedBy, Count, Working
  <2> QED
    BY <2>1, <2>2 DEF Owned
<1>3. CASE Crash
  BY <1>3, FS_EmptySet DEF Crash, Owned
<1>4. CASE Rerun
  <2>1. extracted' = {} /\ results' = << >> /\ \A w \in Worker : thread'[w] = Idle
    BY <1>4 DEF Rerun, IInv, AllIdle
  <2>2. OwnedBy(<< >>)'
    BY <2>1 DEF OwnedBy, Working
  <2> QED
    BY <2>1, <2>2, FS_EmptySet DEF Owned
<1> QED
  BY <1>1, <1>2, <1>3, <1>4 DEF Next

LEMMA OwnedHolds == Spec => []Owned
<1>1. Init => Owned
  BY NothingOwned DEF Init
<1> QED
  BY <1>1, NextOwned, Invariance, PTL DEF Spec

(***************************************************************************)
(* The sum over the results counts the files that successful results own.  *)
(***************************************************************************)
LEMMA ReportedIsOwned ==
    ASSUME IInv, Owned, phase # "crashed"
    PROVE  LET reported == FoldFunction(LAMBDA r, n : r.fixtures + n, 0, results) IN
           /\ reported <= Cardinality(extracted)
           /\ phase = "finished" /\ (\A k \in DOMAIN results : results[k].success) =>
                  reported = Cardinality(extracted)
<1>1. PICK own : OwnedBy(own)
  BY DEF Owned
<1>2. TypeOK /\ AllIdle /\ IsFiniteSet(extracted)
  BY DEF IInv, Owned
<1>3. results \in Seq([repro : Repro, success : BOOLEAN, fixtures : Nat])
  BY <1>2 DEF TypeOK
<1> DEFINE D == DOMAIN results
           E == {h \in extracted : \E k \in D : results[k].success /\ own[h] = Theirs(k)}
           key == [h \in E |-> own[h][2]]
<1>4. IsFiniteSet(D)
  <2>1. D = 1..Len(results) /\ Len(results) \in Int
    BY <1>3
  <2> QED
    BY <2>1, FS_Interval
<1>5. E \in SUBSET extracted /\ IsFiniteSet(E)
  BY <1>2, FS_Subset
<1>6. \A h \in E : key[h] \in D /\ own[h] = Theirs(key[h]) /\ results[key[h]].success
  BY DEF Theirs
<1>7. ASSUME NEW k \in D PROVE results[k].fixtures = Cardinality(Part(key, E, {k}))
  <2>1. CASE results[k].success
    <3>1. Part(key, E, {k}) = Part(own, extracted, {Theirs(k)})
      <4>1. ASSUME NEW h \in Part(key, E, {k}) PROVE h \in Part(own, extracted, {Theirs(k)})
        BY <1>6, <4>1 DEF Part
      <4>2. ASSUME NEW h \in Part(own, extracted, {Theirs(k)}) PROVE h \in Part(key, E, {k})
        <5>1. h \in E /\ own[h] = Theirs(k)
          BY <2>1, <4>2 DEF Part
        <5>2. key[h] = k
          BY <1>6, <5>1, Keys
        <5> QED
          BY <5>1, <5>2 DEF Part
      <4> QED
        BY <4>1, <4>2
    <3> HIDE DEF key, E
    <3>2. Count(own, Theirs(k)) = Cardinality(Part(key, E, {k}))
      BY <3>1 DEF Count
    <3> QED
      BY <1>1, <2>1, <3>2 DEF OwnedBy
  <2>2. CASE ~results[k].success
    <3>1. Part(key, E, {k}) = {}
      BY <1>6, <2>2 DEF Part
    <3>2. results[k].fixtures = 0
      BY <1>1, <2>2 DEF OwnedBy
    <3> QED
      BY <3>1, <3>2, FS_EmptySet
  <2> QED
    BY <2>1, <2>2
<1>8. Part(key, E, D) = E
  BY <1>6 DEF Part
<1>9. phase = "finished" /\ (\A k \in D : results[k].success) => E = extracted
  BY <1>1, <1>2 DEF OwnedBy, AllIdle, Working
<1> HIDE DEF E, key
<1>10. Sum(results) = Cardinality(Part(key, E, D))
  BY <1>4, <1>5, <1>7, SumOfParts
<1>11. Sum(results) = Cardinality(E)
  BY <1>8, <1>10
<1>12. Cardinality(E) <= Cardinality(extracted)
  BY <1>2, <1>5, FS_Subset
<1> QED
  BY <1>9, <1>11, <1>12 DEF Sum

(***************************************************************************)
(* The number of fixtures the session reports never exceeds the number of  *)
(* distinct files its threads claimed, and is that number when every item  *)
(* succeeds. The claims are attributed to threads and results (Owned); the *)
(* sum over the results counts the attributed ones (SumOfParts).           *)
(***************************************************************************)
THEOREM FixtureCountHolds == Spec => []FixtureCount
<1>1. IInv /\ Owned => FixtureCount
  BY ReportedIsOwned DEF FixtureCount
<1> QED
  BY <1>1, Invariance, OwnedHolds, PTL
=============================================================================
