------------------------- MODULE CrashDownloadProofs ------------------------
(***************************************************************************)
(* Safety of module CrashDownload for any threads, commands, listings,     *)
(* errors and drivers: what a command that ends may claim, and what the    *)
(* crash files hold after any sequence of commands.                        *)
(***************************************************************************)
EXTENDS CrashDownload, DataLemmas

(***************************************************************************)
(* The bugs of one lineage, and the verified ones.                         *)
(***************************************************************************)
LEMMA LineageFiltered ==
    ASSUME NEW A, NEW s \in Seq(A), NEW l
    PROVE  FlattenSeq([k \in DOMAIN s |-> IF s[k].lineage = l THEN <<s[k]>> ELSE << >>])
               \in Seq({b \in A : b.lineage = l})
<1>1. \A k \in DOMAIN s : s[k] \in A
  OBVIOUS
<1> QED
  BY <1>1, PickRange

LEMMA VerifiedFiltered ==
    ASSUME NEW A, NEW s \in Seq(A)
    PROVE  Filter(s, AllVerified) \in Seq(A)
<1> DEFINE t == [k \in DOMAIN s |-> IF AllVerified(s[k]) THEN <<s[k]>> ELSE << >>]
<1>1. \A k \in DOMAIN s : s[k] \in A
  OBVIOUS
<1>2. FlattenSeq(t) \in Seq(A)
  BY <1>1, PickRange
<1>3. Filter(s, AllVerified) = FlattenSeq(t)
  BY DEF Filter
<1> QED
  BY <1>2, <1>3


-----------------------------------------------------------------------------
\* What the URLs of a crash lead to.
Offers(bug, blob) == \E k \in DOMAIN CrashUrls(bug) : CrashUrls(bug)[k].blob = blob

(***************************************************************************)
(* Every bug has a sequence of crash URLs, and none leads to a torn file.  *)
(***************************************************************************)
LEMMA KnownCrashUrls ==
    ASSUME NEW b \in Known
    PROVE  CrashUrls(b) \in Seq(URL) /\ ~Offers(b, Torn)
<1>0. PICK reply \in Replies : \E n \in DOMAIN reply.bugs : b = BugRecord(reply.bugs[n])
  BY DEF Known, Bugs
<1>1. PICK n \in DOMAIN reply.bugs : b = BugRecord(reply.bugs[n])
  BY <1>0
<1> DEFINE data == reply.bugs[n]
<1>2. data \in BugData
  BY <1>1, ReplyAssumption
<1>3. \A field \in Field : \A url \in Range(data.source[field]) \cup Range(data.top[field]) :
          url.blob # Torn
  BY ReplyAssumption
<1> HIDE DEF data
<1>4. ASSUME NEW field \in Field
      PROVE  /\ b.urls[field] \in Seq(URL)
             /\ \A k \in DOMAIN b.urls[field] : b.urls[field][k].blob # Torn
  <2>1. b.urls[field] = UrlsOf(data, field)
    BY <1>1 DEF BugRecord, data
  <2>2. data.source[field] \in Seq(URL) /\ data.top[field] \in Seq(URL)
    BY <1>2 DEF BugData
  <2>3. b.urls[field] \in {data.source[field], data.top[field]}
    BY <2>1 DEF UrlsOf
  <2> QED
    BY <1>3, <2>2, <2>3 DEF Range
<1> DEFINE one == b.urls["artifact_gcs"]
           two == b.urls["artifact_s3"]
<1>5. one \in Seq(URL) /\ two \in Seq(URL) /\ CrashUrls(b) = one \o two
  BY <1>4 DEF Field, CrashUrls
<1>6. /\ \A k \in DOMAIN one : one[k].blob # Torn
      /\ \A k \in DOMAIN two : two[k].blob # Torn
  BY <1>4 DEF Field
<1> HIDE DEF one, two
<1>7. one \o two \in Seq(URL) /\ Range(one \o two) = Range(one) \cup Range(two)
  BY <1>5, RangeConcatenation
<1>8. \A url \in Range(one \o two) : url.blob # Torn
  BY <1>6, <1>7 DEF Range
<1>9. \A k \in DOMAIN CrashUrls(b) : CrashUrls(b)[k].blob # Torn
  BY <1>5, <1>8 DEF Range
<1> QED
  BY <1>5, <1>7, <1>9 DEF Offers

(***************************************************************************)
(* What is listed for a lineage: bugs the server knows, of that lineage.   *)
(***************************************************************************)
LEMMA VerifiedListed ==
    ASSUME NEW reply \in Replies, NEW l, NEW limit \in Int
    PROVE  VerifiedOf(ReproIndex(reply), l, limit) \in Seq({b \in Known : b.lineage = l})
<1> DEFINE index == ReproIndex(reply)
           ofL == {b \in Known : b.lineage = l}
           repros == IF l \in DOMAIN index THEN index[l] ELSE << >>
           verified == Filter(repros, AllVerified)
<1>1. Bugs(reply) \in Seq(Known)
  <2>1. reply.bugs \in Seq(BugData)
    BY ReplyAssumption
  <2>2. Len(reply.bugs) \in Nat /\ DOMAIN reply.bugs = 1..Len(reply.bugs)
    BY <2>1
  <2>3. \A k \in DOMAIN reply.bugs : Bugs(reply)[k] \in Known
    BY DEF Known
  <2>4. Bugs(reply) \in [1..Len(reply.bugs) -> Known]
    BY <2>2, <2>3 DEF Bugs
  <2> QED
    BY <2>2, <2>4
<1>2. repros \in Seq(ofL)
  <2>1. CASE l \in DOMAIN index
    <3> DEFINE bugs == Bugs(reply)
               chosen == FlattenSeq([k \in DOMAIN bugs |->
                                        IF bugs[k].lineage = l THEN <<bugs[k]>> ELSE << >>])
    <3>1. index[l] = chosen
      BY <2>1 DEF ReproIndex, Filter
    <3>2. chosen \in Seq(ofL)
      <4> HIDE DEF bugs
      <4>1. bugs \in Seq(Known)
        BY <1>1 DEF bugs
      <4> QED
        BY <4>1, LineageFiltered
    <3> HIDE DEF chosen, index
    <3> QED
      BY <2>1, <3>1, <3>2
  <2>2. CASE l \notin DOMAIN index
    BY <2>2
  <2> QED
    BY <2>1, <2>2
<1> HIDE DEF repros, ofL
<1>3. verified \in Seq(ofL)
  BY <1>2, VerifiedFiltered
<1>4. VerifiedOf(index, l, limit) =
          IF limit > 0 THEN SubSeq(verified, 1, Min({limit, Len(verified)})) ELSE verified
  BY DEF VerifiedOf, repros
<1> HIDE DEF verified, index
<1>5. CASE limit > 0
  <2>1. Len(verified) \in Nat /\ \A i \in 1..Len(verified) : verified[i] \in ofL
    BY <1>3
  <2> DEFINE n == Min({limit, Len(verified)})
  <2>2. n \in {limit, Len(verified)} /\ \A m \in {limit, Len(verified)} : n <= m
    <3>1. {limit, Len(verified)} \in SUBSET Nat /\ {limit, Len(verified)} # {}
      BY <1>5, <2>1
    <3> QED
      BY <3>1, MinOfNaturals
  <2>3. n \in Int /\ \A i \in 1..n : verified[i] \in ofL
    <3> HIDE DEF n
    <3>1. n \in Int /\ n <= Len(verified)
      BY <1>5, <2>1, <2>2
    <3> QED
      BY <2>1, <3>1
  <2> HIDE DEF n
  <2>4. SubSeq(verified, 1, n) \in Seq(ofL)
    BY <2>3, SubSeqProperties
  <2> QED
    BY <1>4, <1>5, <2>4 DEF n, ofL, index
<1>6. CASE ~(limit > 0)
  BY <1>3, <1>4, <1>6 DEF ofL, index
<1> QED
  BY <1>5, <1>6

(***************************************************************************)
(* The download list: bugs the server knows, of the lineages asked for.    *)
(***************************************************************************)
LEMMA DownloadListed ==
    ASSUME NEW reply \in Replies, NEW S, NEW sections \in Seq(S), NEW limit \in Int
    PROVE  DownloadList(ReproIndex(reply), sections, limit)
               \in Seq({b \in Known : b.lineage \in S})
<1> DEFINE B == {b \in Known : b.lineage \in S}
           parts == [k \in DOMAIN sections |->
                        VerifiedOf(ReproIndex(reply), sections[k], limit)]
<1>1. ASSUME NEW k \in DOMAIN sections PROVE parts[k] \in Seq(B)
  <2>1. sections[k] \in S
    OBVIOUS
  <2>2. parts[k] \in Seq({b \in Known : b.lineage = sections[k]})
    BY VerifiedListed
  <2>3. {b \in Known : b.lineage = sections[k]} \subseteq B
    BY <2>1
  <2> HIDE DEF parts, B
  <2> DEFINE C == {b \in Known : b.lineage = sections[k]}
  <2> HIDE DEF C
  <2>4. parts[k] \in Seq(C) /\ C \subseteq B
    BY <2>2, <2>3 DEF C
  <2> QED
    BY <2>4
<1>2. parts \in Seq(Seq(B))
  <2>1. Len(sections) \in Nat /\ DOMAIN sections = 1..Len(sections)
    OBVIOUS
  <2>2. parts \in [1..Len(sections) -> Seq(B)]
    BY <1>1, <2>1
  <2> HIDE DEF parts
  <2> QED
    BY <2>1, <2>2
<1>3. DownloadList(ReproIndex(reply), sections, limit) = FlattenSeq(parts)
  BY DEF DownloadList
<1> QED
  BY <1>2, <1>3, FlattenRange

(***************************************************************************)
(* The cached record of an item is an item of the list with its hash.      *)
(***************************************************************************)
LEMMA CachedIsListed ==
    ASSUME NEW S, NEW lst \in Seq(S), NEW k \in DOMAIN lst
    PROVE  \E m \in DOMAIN lst : /\ MetadataCache(lst)[lst[k].hash] = lst[m]
                                 /\ lst[m].hash = lst[k].hash
<1> DEFINE same == {m \in DOMAIN lst : lst[m].hash = lst[k].hash}
<1>1. Len(lst) \in Nat /\ DOMAIN lst = 1..Len(lst)
  OBVIOUS
<1>2. same \in SUBSET (0..Len(lst)) /\ same # {}
  BY <1>1
<1>3. Max(same) \in same
  BY <1>1, <1>2, MaxOfBounded
<1>4. MetadataCache(lst)[lst[k].hash] = lst[Max(same)]
  BY DEF MetadataCache
<1> QED
  BY <1>3, <1>4

PathSet == [lineage : {b.lineage : b \in Known}, hash : {b.hash : b \in Known}]

\* What a thread that downloads a crash has in hand.
Busy ==
    [pc : {"check", "fetch", "open", "write"}, item : Nat \ {0}, bug : Known,
     urls : Seq(URL), path : PathSet, tried : SUBSET URL,
     data : {Absent} \cup {url.blob : url \in URL}]

Result ==
    [status : {"cached", "downloaded", "not_fetched", "not_written"},
     path : PathSet, tried : SUBSET URL]

TypeOK ==
    /\ command \in Commands
    /\ phase \in {"calling", "downloading", "done", "exited", "killed"}
    /\ errors \in Seq(Errors)
    /\ list \in Seq(Known)
    /\ next \in 1..(Len(list) + 1)
    /\ thread \in [Thread -> {Idle} \cup Busy]
    /\ \A k \in DOMAIN results : results[k] \in Result

\* No thread outlives its command.
AllIdle == phase # "downloading" => \A w \in Thread : thread[w] = Idle

(***************************************************************************)
(* The attempts of a batch command so far: the call goes on while they     *)
(* were transient and not too many, and exits on the one that was not.     *)
(***************************************************************************)
Retrying ==
    IsBatch =>
        /\ phase = "calling" =>
              Len(errors) <= MaxRetries /\ \A k \in DOMAIN errors : Transient(errors[k])
        /\ phase = "exited" =>
              /\ ~Transient(Last(errors)) \/ Len(errors) = MaxRetries + 1
              /\ \A k \in 1..(Len(errors) - 1) : Transient(errors[k])

(***************************************************************************)
(* The list is empty before the answer comes.  Then it has only bugs with  *)
(* a lineage, and their records are cached; that of download-crash has one *)
(* item, which a thread has had from the start.                            *)
(***************************************************************************)
Listed ==
    /\ phase = "calling" => list = << >> /\ results = << >>
    /\ IsBatch => \A k \in DOMAIN list : list[k].lineage # Absent
    /\ phase = "downloading" =>
          IF IsBatch THEN cache = MetadataCache(list) ELSE next > Len(list)

\* The file of an item, unless the list has another item of its hash.
OwnPath(path, k) ==
    \/ \E j \in DOMAIN list \ {k} : list[j].hash = list[k].hash
    \/ path = Path(list[k].lineage, list[k])

(***************************************************************************)
(* A busy thread has a bug of the list and the path of that very bug.  The *)
(* URLs it tried and those it has left are those of the bug.               *)
(***************************************************************************)
Sound(t) ==
    /\ t \in Busy
    /\ t.item \in DOMAIN list /\ t.item < next
    /\ t.bug \in Range(list)
    /\ t.path = Path(t.bug.lineage, t.bug)
    /\ t.tried \cup Range(t.urls) = Range(CrashUrls(t.bug))
    /\ t.pc \in {"open", "write"} => Offers(t.bug, t.data)
    /\ t.pc = "write" => t.path \in DOMAIN file
    /\ OwnPath(t.path, t.item)

Threads == \A w \in Thread : thread[w] = Idle \/ Sound(thread[w])

\* The items the threads have in hand.
InHand == {thread[w].item : w \in {v \in Thread : thread[v] # Idle}}

\* Every item that was handed out is in hand or answered.
Counted ==
    /\ phase \in {"calling", "downloading"} => DOMAIN results \cup InHand = 1..(next - 1)
    /\ phase = "done" => DOMAIN results = DOMAIN list

\* What the results say is so.
Truthful(k) ==
    /\ results[k].status = "not_fetched" =>
          \E b \in Range(list) : /\ b.hash = results[k].path.hash
                                 /\ results[k].tried = Range(CrashUrls(b))
    /\ results[k].status \in {"cached", "downloaded"} => results[k].path \in DOMAIN file
    /\ OwnPath(results[k].path, k)

\* A torn file is one that a thread is about to write.
TornIsOpen ==
    ~disturbed =>
        \A p \in DOMAIN file :
            file[p] = Torn => \E w \in Thread : thread[w].pc = "write" /\ thread[w].path = p

IInv ==
    /\ TypeOK
    /\ AllIdle
    /\ Retrying
    /\ Listed
    /\ Threads
    /\ Counted
    /\ \A k \in DOMAIN results : Truthful(k)
    /\ TornIsOpen
    /\ CrashContent

-----------------------------------------------------------------------------
LEMMA InitIInv == Init => IInv
<1> SUFFICES ASSUME Init PROVE IInv
  OBVIOUS
<1>1. /\ list = << >> /\ errors = << >> /\ results = << >> /\ file = << >>
      /\ next = 1 /\ phase = "calling"
      /\ \A w \in Thread : thread[w] = Idle
      /\ thread = [w \in Thread |-> Idle] /\ command \in Commands
  BY DEF Init
<1>2. DOMAIN list = {} /\ DOMAIN results = {} /\ DOMAIN file = {} /\ DOMAIN errors = {}
      /\ Len(list) = 0 /\ Len(errors) = 0
  BY <1>1
<1>3. InHand = {}
  BY <1>1 DEF InHand
<1>4. TypeOK
  BY <1>1, <1>2 DEF TypeOK
<1>5. AllIdle /\ Listed /\ Threads /\ TornIsOpen /\ CrashContent
  BY <1>1, <1>2 DEF AllIdle, Listed, Threads, TornIsOpen, CrashContent
<1>6. Retrying
  BY <1>1, <1>2, CrashAssumption DEF Retrying
<1>7. Counted
  BY <1>1, <1>2, <1>3 DEF Counted
<1>8. \A k \in DOMAIN results : Truthful(k)
  BY <1>2
<1> QED
  BY <1>4, <1>5, <1>6, <1>7, <1>8 DEF IInv

(***************************************************************************)
(* What was sound of a thread or a result stays so while the list stays,   *)
(* and no file is deleted.                                                 *)
(***************************************************************************)
LEMMA StaysSound ==
    ASSUME list' = list, next \in Int, next' \in Int, next <= next',
           DOMAIN file \subseteq DOMAIN file', TypeOK
    PROVE  /\ \A t : Sound(t) => Sound(t)'
           /\ \A k : k \in DOMAIN results /\ Truthful(k) /\ results'[k] = results[k]
                        => Truthful(k)'
           /\ \A path, k : OwnPath(path, k)' = OwnPath(path, k)
<1>1. \A path, k : OwnPath(path, k)' = OwnPath(path, k)
  BY DEF OwnPath
<1>2. ASSUME NEW t, Sound(t) PROVE Sound(t)'
  <2>1. t.item < next'
    BY <1>2 DEF Sound, Busy
  <2> QED
    BY <1>1, <1>2, <2>1 DEF Sound
<1>3. ASSUME NEW k, k \in DOMAIN results, Truthful(k), results'[k] = results[k]
      PROVE  Truthful(k)'
  BY <1>1, <1>3 DEF Truthful
<1> QED
  BY <1>1, <1>2, <1>3

(***************************************************************************)
(* A step of a thread that answers nothing and leaves the files alone or   *)
(* opens one; y is the new state of the thread.                            *)
(***************************************************************************)
LEMMA ThreadMoves ==
    ASSUME IInv, phase = "downloading", NEW w \in Thread, NEW y, Sound(y)',
           thread' = [thread EXCEPT ![w] = y],
           UNCHANGED <<command, phase, errors, list, cache, results>>,
           \/ thread[w] # Idle /\ next' = next /\ y.item = thread[w].item
           \/ thread[w] = Idle /\ next <= Len(list) /\ next' = next + 1 /\ y.item = next,
           DOMAIN file \subseteq DOMAIN file'
    PROVE  TypeOK' /\ AllIdle' /\ Retrying' /\ Listed' /\ Threads' /\ Counted'
           /\ \A k \in DOMAIN results' : Truthful(k)'
<1>1. TypeOK /\ Len(list) \in Nat
  BY DEF IInv, TypeOK
<1>2. next \in 1..(Len(list) + 1) /\ next' \in 1..(Len(list) + 1) /\ next <= next'
  BY <1>1 DEF TypeOK
<1>3. thread'[w] = y /\ \A v \in Thread : v # w => thread'[v] = thread[v]
  BY <1>1 DEF TypeOK
<1>4. y \in Busy /\ y # Idle
  BY DEF Sound, Busy, Idle
<1>5. TypeOK'
  BY <1>1, <1>2, <1>4 DEF TypeOK
<1>6. AllIdle' /\ Retrying'
  BY DEF IInv, AllIdle, Retrying, IsBatch
<1>7. Listed'
  BY <1>2 DEF IInv, Listed, IsBatch
<1>8. Threads'
  BY <1>1, <1>2, <1>3, StaysSound DEF IInv, Threads
<1>9. \A k \in DOMAIN results' : Truthful(k)'
  BY <1>1, <1>2, StaysSound DEF IInv
<1>10. DOMAIN results \cup InHand = 1..(next - 1)
  BY DEF IInv, Counted
<1>11. InHand' = InHand \cup {y.item}
  <2>1. \A v \in Thread : thread'[v] # Idle <=> v = w \/ thread[v] # Idle
    BY <1>3, <1>4
  <2>2. ASSUME NEW i \in InHand' PROVE i \in InHand \cup {y.item}
    BY <1>3, <2>1, <2>2 DEF InHand
  <2>3. ASSUME NEW i \in InHand \cup {y.item} PROVE i \in InHand'
    <3>1. CASE i = y.item
      BY <1>3, <1>4, <3>1 DEF InHand
    <3>2. CASE i \in InHand
      <4>1. PICK v \in Thread : thread[v] # Idle /\ i = thread[v].item
        BY <3>2 DEF InHand
      <4>2. thread'[v].item = i
        BY <1>3, <4>1
      <4> QED
        BY <2>1, <4>1, <4>2 DEF InHand
    <3> QED
      BY <2>3, <3>1, <3>2
  <2> QED
    BY <2>2, <2>3
<1>12. (DOMAIN results) \cup InHand' = 1..(next' - 1)
  <2>1. CASE thread[w] # Idle /\ next' = next /\ y.item = thread[w].item
    <3>1. y.item \in InHand
      BY <2>1 DEF InHand
    <3> QED
      BY <1>10, <1>11, <2>1, <3>1
  <2>2. CASE next' = next + 1 /\ y.item = next
    <3>1. 1..(next' - 1) = (1..(next - 1)) \cup {next}
      BY <1>2, <2>2
    <3> QED
      BY <1>10, <1>11, <2>2, <3>1
  <2> QED
    BY <2>1, <2>2
<1>13. Counted'
  BY <1>12 DEF Counted
<1> QED
  BY <1>5, <1>6, <1>7, <1>8, <1>9, <1>13

(***************************************************************************)
(* A step by which a thread answers its item.                              *)
(***************************************************************************)
LEMMA ThreadAnswers ==
    ASSUME IInv, NEW w \in Thread, thread[w] # Idle,
           NEW status \in {"cached", "downloaded", "not_fetched", "not_written"},
           Finish(w, status),
           UNCHANGED <<command, phase, errors, list, cache, next>>,
           DOMAIN file \subseteq DOMAIN file',
           status = "not_fetched" => thread[w].urls = << >>,
           status \in {"cached", "downloaded"} => thread[w].path \in DOMAIN file'
    PROVE  TypeOK' /\ AllIdle' /\ Retrying' /\ Listed' /\ Threads' /\ Counted'
           /\ \A k \in DOMAIN results' : Truthful(k)'
<1>1. TypeOK /\ Len(list) \in Nat
  BY DEF IInv, TypeOK
<1>2. next \in Int /\ next' \in Int /\ next <= next'
  BY <1>1 DEF TypeOK
<1>3. /\ thread' = [thread EXCEPT ![w] = Idle]
      /\ thread'[w] = Idle /\ \A v \in Thread : v # w => thread'[v] = thread[v]
  BY <1>1 DEF TypeOK, Finish
<1>4. Sound(thread[w]) /\ phase = "downloading"
  BY DEF IInv, Threads, AllIdle
<1>5. PICK t : t = thread[w]
  OBVIOUS
<1> DEFINE r == [status |-> status, path |-> t.path, tried |-> t.tried]
<1>6. /\ DOMAIN results' = DOMAIN results \cup {t.item}
      /\ results'[t.item] = r
      /\ \A k \in DOMAIN results : k # t.item => results'[k] = results[k]
  BY <1>5 DEF Finish, With
<1>7. r \in Result
  BY <1>4, <1>5 DEF Sound, Busy, Result
<1>8. TypeOK'
  <2>1. \A k \in DOMAIN results' : results'[k] \in Result
    BY <1>1, <1>6, <1>7 DEF TypeOK
  <2>2. thread' \in [Thread -> {Idle} \cup Busy]
    BY <1>1, <1>3 DEF TypeOK
  <2> QED
    BY <1>1, <2>1, <2>2 DEF TypeOK
<1>9. AllIdle' /\ Retrying'
  BY <1>4 DEF IInv, AllIdle, Retrying, IsBatch
<1>10. Listed'
  BY <1>4 DEF IInv, Listed, IsBatch
<1>11. Threads'
  BY <1>1, <1>2, <1>3, StaysSound DEF IInv, Threads
<1>12. Truthful(t.item)'
  <2>1. Sound(t)
    BY <1>4, <1>5
  <2>2. OwnPath(t.path, t.item)'
    BY <1>1, <1>2, <2>1, StaysSound DEF Sound
  <2>3. results'[t.item].status = status /\ results'[t.item].path = t.path
        /\ results'[t.item].tried = t.tried
    BY <1>6
  <2>4. ASSUME status = "not_fetched"
        PROVE  \E b \in Range(list) : b.hash = t.path.hash /\ t.tried = Range(CrashUrls(b))
    <3>1. Range(t.urls) = {}
      BY <1>5, <2>4 DEF Range
    <3>2. t.tried = Range(CrashUrls(t.bug)) /\ t.bug \in Range(list) /\ t.path.hash = t.bug.hash
      BY <2>1, <3>1 DEF Sound, Path
    <3> QED
      BY <3>2
  <2> HIDE DEF r
  <2> QED
    BY <1>5, <2>2, <2>3, <2>4 DEF Truthful
<1>13. \A k \in DOMAIN results' : Truthful(k)'
  <2> SUFFICES ASSUME NEW k \in DOMAIN results' PROVE Truthful(k)'
    OBVIOUS
  <2>1. CASE k = t.item
    BY <1>12, <2>1
  <2>2. CASE k # t.item
    <3>1. k \in DOMAIN results /\ results'[k] = results[k] /\ Truthful(k)
      BY <1>6, <2>2 DEF IInv
    <3> QED
      BY <1>1, <1>2, <3>1, StaysSound
  <2> QED
    BY <2>1, <2>2
<1>14. (DOMAIN results') \cup InHand' = 1..(next - 1)
  <2>1. DOMAIN results \cup InHand = 1..(next - 1)
    BY <1>4 DEF IInv, Counted
  <2>2. ASSUME NEW i \in InHand' PROVE i \in InHand
    BY <1>3, <2>2 DEF InHand
  <2>3. t.item \in InHand
    BY <1>5 DEF InHand
  <2>4. ASSUME NEW i \in InHand, i # t.item PROVE i \in InHand'
    <3>1. PICK v \in Thread : thread[v] # Idle /\ i = thread[v].item
      BY DEF InHand
    <3>2. thread'[v] = thread[v]
      BY <1>3, <1>5, <2>4, <3>1
    <3> QED
      BY <3>1, <3>2 DEF InHand
  <2> QED
    BY <1>6, <2>1, <2>2, <2>3, <2>4
<1>15. Counted'
  BY <1>4, <1>14 DEF Counted
<1> QED
  BY <1>8, <1>9, <1>10, <1>11, <1>13, <1>15

-----------------------------------------------------------------------------
(***************************************************************************)
(* The files, when none changes and no thread stops writing.               *)
(***************************************************************************)
LEMMA FilesKept ==
    ASSUME TypeOK, TornIsOpen, CrashContent, NEW w \in Thread, NEW y,
           thread' = [thread EXCEPT ![w] = y], thread[w].pc # "write",
           UNCHANGED <<file, disturbed>>
    PROVE  TornIsOpen' /\ CrashContent'
<1>1. \A v \in Thread : v # w => thread'[v] = thread[v]
  BY DEF TypeOK
<1>2. TornIsOpen'
  BY <1>1 DEF TornIsOpen
<1> QED
  BY <1>2 DEF CrashContent

\* What a step of a busy thread starts from.
LEMMA BusyThread ==
    ASSUME IInv, NEW w \in Thread, thread[w].pc # "idle"
    PROVE  /\ TypeOK /\ TornIsOpen /\ CrashContent
           /\ thread[w] # Idle /\ phase = "downloading"
           /\ Sound(thread[w])
           /\ CrashUrls(thread[w].bug) \in Seq(URL) /\ ~Offers(thread[w].bug, Torn)
<1>1. thread[w] # Idle
  BY DEF Idle
<1>2. Sound(thread[w]) /\ phase = "downloading"
  BY <1>1 DEF IInv, Threads, AllIdle
<1>3. thread[w].bug \in Known
  BY <1>2 DEF Sound, Busy
<1> QED
  BY <1>1, <1>2, <1>3, KnownCrashUrls DEF IInv

LEMMA NotThereIInv == ASSUME IInv, NEW w \in Thread, NotThere(w) PROVE IInv'
<1>1. thread[w].pc = "check" /\ UNCHANGED <<command, phase, errors, list, cache, next, results, file, disturbed>>
  BY DEF NotThere
<1>2. PICK t : t = thread[w]
  OBVIOUS
<1>3. TypeOK /\ TornIsOpen /\ CrashContent /\ thread[w] # Idle /\ phase = "downloading" /\ Sound(t)
  BY <1>1, <1>2, BusyThread
<1> DEFINE y == [t EXCEPT !.pc = "fetch"]
<1>4. thread' = [thread EXCEPT ![w] = y]
  BY <1>2, <1>3 DEF NotThere, TypeOK
<1>5. y \in Busy /\ y.pc = "fetch" /\ y.item = t.item /\ y.bug = t.bug /\ y.path = t.path
      /\ y.tried = t.tried /\ y.urls = t.urls
  BY <1>3 DEF Sound, Busy
<1> HIDE DEF y
<1>6. Sound(y)
  BY <1>3, <1>5 DEF Sound
<1>7. next \in Int
  BY <1>3 DEF TypeOK
<1>8. Sound(y)'
  BY <1>1, <1>3, <1>6, <1>7, StaysSound
<1>9. TypeOK' /\ AllIdle' /\ Retrying' /\ Listed' /\ Threads' /\ Counted'
      /\ \A k \in DOMAIN results' : Truthful(k)'
  BY <1>1, <1>2, <1>3, <1>4, <1>5, <1>8, ThreadMoves
<1>10. TornIsOpen' /\ CrashContent'
  BY <1>1, <1>3, <1>4, FilesKept
<1> QED
  BY <1>9, <1>10 DEF IInv

LEMMA UrlWorksIInv == ASSUME IInv, NEW w \in Thread, UrlWorks(w) PROVE IInv'
<1>1. thread[w].pc = "fetch" /\ thread[w].urls # << >>
      /\ UNCHANGED <<command, phase, errors, list, cache, next, results, file, disturbed>>
  BY DEF UrlWorks
<1>2. PICK t : t = thread[w]
  OBVIOUS
<1>3. TypeOK /\ TornIsOpen /\ CrashContent /\ thread[w] # Idle /\ phase = "downloading" /\ Sound(t)
  BY <1>1, <1>2, BusyThread
<1> DEFINE url == Head(t.urls)
           y == [t EXCEPT !.pc = "open", !.data = url.blob]
<1>4. thread' = [thread EXCEPT ![w] = y]
  BY <1>2, <1>3 DEF UrlWorks, TypeOK
<1>5. url \in URL /\ url \in Range(t.urls)
  BY <1>1, <1>2, <1>3, HeadTailRange DEF Sound, Busy
<1>6. Offers(t.bug, url.blob)
  <2>1. url \in Range(CrashUrls(t.bug))
    BY <1>3, <1>5 DEF Sound
  <2> HIDE DEF url
  <2> QED
    BY <2>1 DEF Offers, Range
<1>7. url.blob \in {Absent} \cup {u.blob : u \in URL}
  BY <1>5
<1> HIDE DEF url
<1>8. y \in Busy /\ y.pc = "open" /\ y.item = t.item /\ y.bug = t.bug /\ y.path = t.path
      /\ y.tried = t.tried /\ y.urls = t.urls /\ y.data = url.blob
  BY <1>3, <1>7 DEF Sound, Busy
<1> HIDE DEF y
<1>9. Sound(y)
  BY <1>3, <1>6, <1>8 DEF Sound
<1>10. next \in Int
  BY <1>3 DEF TypeOK
<1>11. Sound(y)'
  BY <1>1, <1>3, <1>9, <1>10, StaysSound
<1>12. TypeOK' /\ AllIdle' /\ Retrying' /\ Listed' /\ Threads' /\ Counted'
      /\ \A k \in DOMAIN results' : Truthful(k)'
  BY <1>1, <1>2, <1>3, <1>4, <1>8, <1>11, ThreadMoves
<1>13. TornIsOpen' /\ CrashContent'
  BY <1>1, <1>3, <1>4, FilesKept
<1> QED
  BY <1>12, <1>13 DEF IInv

LEMMA UrlFailsIInv == ASSUME IInv, NEW w \in Thread, UrlFails(w) PROVE IInv'
<1>1. thread[w].pc = "fetch" /\ thread[w].urls # << >>
      /\ UNCHANGED <<command, phase, errors, list, cache, next, results, file, disturbed>>
  BY DEF UrlFails
<1>2. PICK t : t = thread[w]
  OBVIOUS
<1>3. TypeOK /\ TornIsOpen /\ CrashContent /\ thread[w] # Idle /\ phase = "downloading" /\ Sound(t)
  BY <1>1, <1>2, BusyThread
<1> DEFINE url == Head(t.urls)
           y == [t EXCEPT !.urls = Tail(t.urls), !.tried = t.tried \cup {url}]
<1>4. thread' = [thread EXCEPT ![w] = y]
  BY <1>2, <1>3 DEF UrlFails, TypeOK
<1>5. url \in URL /\ Tail(t.urls) \in Seq(URL) /\ {url} \cup Range(Tail(t.urls)) = Range(t.urls)
  BY <1>1, <1>2, <1>3, HeadTailRange DEF Sound, Busy
<1> HIDE DEF url
<1>6. y \in Busy /\ y.pc = "fetch" /\ y.item = t.item /\ y.bug = t.bug /\ y.path = t.path
      /\ y.tried = t.tried \cup {url} /\ y.urls = Tail(t.urls)
  BY <1>1, <1>2, <1>3, <1>5 DEF Sound, Busy
<1> HIDE DEF y
<1>7. y.tried \cup Range(y.urls) = t.tried \cup Range(t.urls)
  BY <1>5, <1>6
<1>8. Sound(y)
  BY <1>3, <1>6, <1>7 DEF Sound
<1>9. next \in Int
  BY <1>3 DEF TypeOK
<1>10. Sound(y)'
  BY <1>1, <1>3, <1>8, <1>9, StaysSound
<1>11. TypeOK' /\ AllIdle' /\ Retrying' /\ Listed' /\ Threads' /\ Counted'
      /\ \A k \in DOMAIN results' : Truthful(k)'
  BY <1>1, <1>2, <1>3, <1>4, <1>6, <1>10, ThreadMoves
<1>12. TornIsOpen' /\ CrashContent'
  BY <1>1, <1>3, <1>4, FilesKept
<1> QED
  BY <1>11, <1>12 DEF IInv

LEMMA OpenFileIInv == ASSUME IInv, NEW w \in Thread, OpenFile(w) PROVE IInv'
<1>1. thread[w].pc = "open"
      /\ UNCHANGED <<command, phase, errors, list, cache, next, results, disturbed>>
  BY DEF OpenFile
<1>2. PICK t : t = thread[w]
  OBVIOUS
<1>3. TypeOK /\ TornIsOpen /\ CrashContent /\ thread[w] # Idle /\ phase = "downloading" /\ Sound(t)
  BY <1>1, <1>2, BusyThread
<1> DEFINE y == [t EXCEPT !.pc = "write"]
<1>4. thread' = [thread EXCEPT ![w] = y]
  BY <1>2, <1>3 DEF OpenFile, TypeOK
<1>5. y \in Busy /\ y.pc = "write" /\ y.item = t.item /\ y.bug = t.bug /\ y.path = t.path
      /\ y.tried = t.tried /\ y.urls = t.urls /\ y.data = t.data
  BY <1>3 DEF Sound, Busy
<1> HIDE DEF y
<1>6. /\ DOMAIN file' = DOMAIN file \cup {t.path}
      /\ file'[t.path] = Torn
      /\ \A p \in DOMAIN file : p # t.path => file'[p] = file[p]
  BY <1>2 DEF OpenFile, With
<1>7. next \in Int
  BY <1>3 DEF TypeOK
<1>8. Sound(y)'
  <2>1. OwnPath(y.path, y.item)'
    BY <1>1, <1>3, <1>5, <1>6, <1>7, StaysSound DEF Sound
  <2> QED
    BY <1>1, <1>2, <1>3, <1>5, <1>6, <2>1 DEF Sound
<1>9. TypeOK' /\ AllIdle' /\ Retrying' /\ Listed' /\ Threads' /\ Counted'
      /\ \A k \in DOMAIN results' : Truthful(k)'
  BY <1>1, <1>2, <1>3, <1>4, <1>5, <1>6, <1>8, ThreadMoves
<1>10. thread'[w] = y /\ \A v \in Thread : v # w => thread'[v] = thread[v]
  BY <1>3, <1>4 DEF TypeOK
<1>11. TornIsOpen'
  <2> SUFFICES ASSUME ~disturbed, NEW p \in DOMAIN file', file'[p] = Torn
               PROVE  \E v \in Thread : thread'[v].pc = "write" /\ thread'[v].path = p
    BY <1>1 DEF TornIsOpen
  <2>1. CASE p = t.path
    BY <1>5, <1>10, <2>1
  <2>2. CASE p # t.path
    <3>1. PICK v \in Thread : thread[v].pc = "write" /\ thread[v].path = p
      BY <1>3, <1>6, <2>2 DEF TornIsOpen
    <3>2. v # w
      BY <1>1, <3>1
    <3> QED
      BY <1>10, <3>1, <3>2
  <2> QED
    BY <2>1, <2>2
<1>12. CrashContent'
  BY <1>3, <1>6 DEF CrashContent
<1> QED
  BY <1>9, <1>11, <1>12 DEF IInv

LEMMA TakeIInv == ASSUME IInv, NEW w \in Thread, Take(w) PROVE IInv'
<1>1. /\ phase = "downloading" /\ thread[w].pc = "idle" /\ next <= Len(list) /\ next' = next + 1
      /\ UNCHANGED <<command, phase, errors, list, cache, results, file, disturbed>>
  BY DEF Take
<1>2. TypeOK /\ TornIsOpen /\ CrashContent
  BY DEF IInv
<1>3. thread[w] = Idle
  BY <1>1, <1>2 DEF TypeOK, Busy
<1>4. next \in DOMAIN list /\ next \in Nat \ {0} /\ list \in Seq(Known)
  BY <1>1, <1>2 DEF TypeOK
<1>5. IsBatch /\ cache = MetadataCache(list) /\ \A k \in DOMAIN list : list[k].lineage # Absent
  BY <1>1, <1>4 DEF IInv, Listed
<1>6. PICK m \in DOMAIN list : cache[list[next].hash] = list[m] /\ list[m].hash = list[next].hash
  BY <1>4, <1>5, CachedIsListed
<1>7. PICK bug \in Known : bug = list[m]
  BY <1>4
<1>8. bug \in Range(list) /\ bug.lineage # Absent /\ CrashUrls(bug) \in Seq(URL)
  BY <1>5, <1>7, KnownCrashUrls DEF Range
<1> DEFINE y == [pc |-> "check", item |-> next, bug |-> bug, urls |-> CrashUrls(bug),
                 path |-> Path(bug.lineage, bug), tried |-> {}, data |-> Absent]
<1>9. thread' = [thread EXCEPT ![w] = y]
  BY <1>6, <1>7, <1>8 DEF Take, Lineage
<1>10. Path(bug.lineage, bug) \in PathSet
  BY DEF Path, PathSet
<1>11. PICK i : i = next
  OBVIOUS
<1>12. y \in Busy /\ y.pc = "check" /\ y.item = i /\ y.bug = bug
       /\ y.path = Path(bug.lineage, bug) /\ y.tried = {} /\ y.urls = CrashUrls(bug)
  BY <1>4, <1>8, <1>10, <1>11 DEF Busy
<1>13. PICK z : z = y
  OBVIOUS
<1> HIDE DEF y
<1>14. OwnPath(z.path, z.item)
  <2>1. CASE m = i
    BY <1>7, <1>12, <1>13, <2>1 DEF OwnPath
  <2>2. CASE m # i
    BY <1>6, <1>11, <1>12, <1>13, <2>2 DEF OwnPath
  <2> QED
    BY <2>1, <2>2
<1>15. Sound(z)'
  <2>1. OwnPath(z.path, z.item)'
    BY <1>1, <1>14 DEF OwnPath
  <2>2. z.item < next'
    BY <1>1, <1>4, <1>11, <1>12, <1>13
  <2> QED
    BY <1>1, <1>4, <1>8, <1>11, <1>12, <1>13, <2>1, <2>2 DEF Sound
<1>16. thread' = [thread EXCEPT ![w] = z]
  BY <1>9, <1>13
<1>17. TypeOK' /\ AllIdle' /\ Retrying' /\ Listed' /\ Threads' /\ Counted'
      /\ \A k \in DOMAIN results' : Truthful(k)'
  BY <1>1, <1>3, <1>11, <1>12, <1>13, <1>15, <1>16, ThreadMoves
<1>18. TornIsOpen' /\ CrashContent'
  BY <1>1, <1>2, <1>16, FilesKept
<1> QED
  BY <1>17, <1>18 DEF IInv

LEMMA AlreadyThereIInv == ASSUME IInv, NEW w \in Thread, AlreadyThere(w) PROVE IInv'
<1>1. /\ thread[w].pc = "check" /\ thread[w].path \in DOMAIN file
      /\ Finish(w, "cached")
      /\ UNCHANGED <<command, phase, errors, list, cache, next, file, disturbed>>
  BY DEF AlreadyThere
<1>2. TypeOK /\ TornIsOpen /\ CrashContent /\ thread[w] # Idle
  BY <1>1, BusyThread
<1>3. TypeOK' /\ AllIdle' /\ Retrying' /\ Listed' /\ Threads' /\ Counted'
      /\ \A k \in DOMAIN results' : Truthful(k)'
  BY <1>1, <1>2, ThreadAnswers
<1>4. TornIsOpen' /\ CrashContent'
  BY <1>1, <1>2, FilesKept DEF Finish
<1> QED
  BY <1>3, <1>4 DEF IInv

LEMMA FetchFailsIInv == ASSUME IInv, NEW w \in Thread, FetchFails(w) PROVE IInv'
<1>1. /\ thread[w].pc = "fetch" /\ thread[w].urls = << >>
      /\ Finish(w, "not_fetched")
      /\ UNCHANGED <<command, phase, errors, list, cache, next, file, disturbed>>
  BY DEF FetchFails
<1>2. TypeOK /\ TornIsOpen /\ CrashContent /\ thread[w] # Idle
  BY <1>1, BusyThread
<1>3. TypeOK' /\ AllIdle' /\ Retrying' /\ Listed' /\ Threads' /\ Counted'
      /\ \A k \in DOMAIN results' : Truthful(k)'
  BY <1>1, <1>2, ThreadAnswers
<1>4. TornIsOpen' /\ CrashContent'
  BY <1>1, <1>2, FilesKept DEF Finish
<1> QED
  BY <1>3, <1>4 DEF IInv

LEMMA WriteFileIInv == ASSUME IInv, NEW w \in Thread, WriteFile(w) PROVE IInv'
<1>1. /\ thread[w].pc = "write"
      /\ Finish(w, "downloaded")
      /\ UNCHANGED <<command, phase, errors, list, cache, next, disturbed>>
  BY DEF WriteFile
<1>2. PICK t : t = thread[w]
  OBVIOUS
<1>3. TypeOK /\ TornIsOpen /\ CrashContent /\ thread[w] # Idle /\ Sound(t) /\ ~Offers(t.bug, Torn)
  BY <1>1, <1>2, BusyThread
<1>4. t.pc = "write" /\ t.path \in DOMAIN file /\ Offers(t.bug, t.data) /\ t.data # Torn
  BY <1>1, <1>2, <1>3 DEF Sound
<1>5. /\ DOMAIN file' = DOMAIN file
      /\ file'[t.path] = t.data
      /\ \A p \in DOMAIN file : p # t.path => file'[p] = file[p]
  BY <1>2, <1>4 DEF WriteFile
<1>6. TypeOK' /\ AllIdle' /\ Retrying' /\ Listed' /\ Threads' /\ Counted'
      /\ \A k \in DOMAIN results' : Truthful(k)'
  BY <1>1, <1>2, <1>3, <1>4, <1>5, ThreadAnswers
<1>7. \A v \in Thread : v # w => thread'[v] = thread[v]
  BY <1>1, <1>3 DEF TypeOK, Finish
<1>8. TornIsOpen'
  <2> SUFFICES ASSUME ~disturbed, NEW p \in DOMAIN file', file'[p] = Torn
               PROVE  \E v \in Thread : thread'[v].pc = "write" /\ thread'[v].path = p
    BY <1>1 DEF TornIsOpen
  <2>1. p # t.path /\ file[p] = Torn /\ p \in DOMAIN file
    BY <1>4, <1>5
  <2>2. PICK v \in Thread : thread[v].pc = "write" /\ thread[v].path = p
    BY <1>3, <2>1 DEF TornIsOpen
  <2> QED
    BY <1>2, <1>7, <2>1, <2>2
<1>9. CrashContent'
  <2> SUFFICES ASSUME NEW p \in DOMAIN file', file'[p] # Torn
               PROVE  \E b \in Known :
                         /\ b.hash = p.hash /\ b.lineage = p.lineage
                         /\ \E k \in DOMAIN CrashUrls(b) : CrashUrls(b)[k].blob = file'[p]
    BY DEF CrashContent
  <2>1. CASE p = t.path
    <3>1. t.bug \in Known /\ t.path.hash = t.bug.hash /\ t.path.lineage = t.bug.lineage
      BY <1>3 DEF Sound, Busy, Path
    <3> QED
      BY <1>4, <1>5, <2>1, <3>1 DEF Offers
  <2>2. CASE p # t.path
    BY <1>3, <1>5, <2>2 DEF CrashContent
  <2> QED
    BY <2>1, <2>2
<1> QED
  BY <1>6, <1>8, <1>9 DEF IInv

LEMMA WriteFailsIInv == ASSUME IInv, NEW w \in Thread, WriteFails(w) PROVE IInv'
<1>1. /\ thread[w].pc = "write"
      /\ Finish(w, "not_written")
      /\ disturbed'
      /\ UNCHANGED <<command, phase, errors, list, cache, next, file>>
  BY DEF WriteFails
<1>2. TypeOK /\ CrashContent /\ thread[w] # Idle
  BY <1>1, BusyThread
<1>3. TypeOK' /\ AllIdle' /\ Retrying' /\ Listed' /\ Threads' /\ Counted'
      /\ \A k \in DOMAIN results' : Truthful(k)'
  BY <1>1, <1>2, ThreadAnswers
<1>4. TornIsOpen' /\ CrashContent'
  BY <1>1, <1>2 DEF TornIsOpen, CrashContent
<1> QED
  BY <1>3, <1>4 DEF IInv

-----------------------------------------------------------------------------
(***************************************************************************)
(* While no thread has anything in hand.                                   *)
(***************************************************************************)
LEMMA NoneInHand ==
    ASSUME \A w \in Thread : thread[w] = Idle
    PROVE  InHand = {}
BY DEF InHand

LEMMA CallFailsIInv == ASSUME IInv, NEW error \in Errors, CallFails(error) PROVE IInv'
<1>1. /\ phase = "calling"
      /\ errors' = Append(errors, error)
      /\ phase' = IF ~IsBatch \/ GivesUp(errors', MaxRetries) THEN "exited" ELSE phase
      /\ UNCHANGED <<command, list, cache, next, thread, results, file, disturbed>>
  BY DEF CallFails
<1>2. TypeOK /\ errors \in Seq(Errors) /\ errors' \in Seq(Errors)
  BY <1>1 DEF IInv, TypeOK
<1>3. /\ Len(errors') = Len(errors) + 1 /\ Len(errors) \in Nat
      /\ errors'[Len(errors')] = error
      /\ \A k \in 1..Len(errors) : errors'[k] = errors[k]
      /\ DOMAIN errors' = 1..(Len(errors) + 1) /\ DOMAIN errors = 1..Len(errors)
  BY <1>1, <1>2
<1>4. Last(errors') = error
  BY <1>3 DEF Last
<1>5. TypeOK'
  BY <1>1, <1>2 DEF TypeOK
<1>6. Retrying'
  <2> SUFFICES ASSUME IsBatch
               PROVE  /\ phase' = "calling" =>
                            /\ Len(errors') <= MaxRetries
                            /\ \A k \in DOMAIN errors' : Transient(errors'[k])
                      /\ phase' = "exited" =>
                            /\ ~Transient(Last(errors')) \/ Len(errors') = MaxRetries + 1
                            /\ \A k \in 1..(Len(errors') - 1) : Transient(errors'[k])
    BY <1>1 DEF Retrying, IsBatch
  <2>1. Len(errors) <= MaxRetries /\ \A k \in 1..Len(errors) : Transient(errors'[k])
    BY <1>1, <1>3 DEF IInv, Retrying
  <2>2. MaxRetries \in Nat
    BY CrashAssumption
  <2>3. phase' = "calling" => Transient(error) /\ Len(errors') <= MaxRetries
    BY <1>1, <1>3, <1>4, <2>2 DEF GivesUp
  <2>4. phase' = "calling" => \A k \in DOMAIN errors' : Transient(errors'[k])
    BY <1>3, <2>1, <2>3
  <2>5. phase' = "exited" => ~Transient(Last(errors')) \/ Len(errors') = MaxRetries + 1
    BY <1>1, <1>3, <2>1, <2>2 DEF GivesUp
  <2> QED
    BY <1>3, <2>1, <2>3, <2>4, <2>5
<1>7. Listed' /\ AllIdle' /\ Threads' /\ Counted'
  <2>1. phase' \in {"calling", "exited"}
    BY <1>1
  <2>2. InHand' = InHand
    BY <1>1 DEF InHand
  <2> QED
    BY <1>1, <2>1, <2>2 DEF IInv, Listed, IsBatch, AllIdle, Threads, Counted
<1>8. \A k \in DOMAIN results' : Truthful(k)'
  BY <1>1 DEF IInv, Listed
<1>9. TornIsOpen' /\ CrashContent'
  BY <1>1 DEF IInv, TornIsOpen, CrashContent
<1> QED
  BY <1>5, <1>6, <1>7, <1>8, <1>9 DEF IInv

LEMMA ListingArrivesIInv ==
    ASSUME IInv, NEW reply \in Replies, ListingArrives(reply) PROVE IInv'
<1>1. /\ phase = "calling" /\ IsBatch /\ phase' = "downloading"
      /\ list' = DownloadList(ReproIndex(reply), command.sections, command.limit)
      /\ cache' = MetadataCache(list')
      /\ UNCHANGED <<command, errors, next, thread, results, file, disturbed>>
  BY DEF ListingArrives
<1>2. TypeOK /\ list = << >> /\ results = << >> /\ \A w \in Thread : thread[w] = Idle
  BY <1>1 DEF IInv, AllIdle, Listed
<1>3. next = 1
  BY <1>2 DEF TypeOK
<1>4. command.sections \in Seq(STRING \ {Absent}) /\ command.limit \in Int
  BY <1>1, <1>2, CommandAssumption DEF TypeOK, IsBatch
<1> DEFINE chosen == DownloadList(ReproIndex(reply), command.sections, command.limit)
           B == {b \in Known : b.lineage \in STRING \ {Absent}}
<1>5. chosen \in Seq(B)
  BY <1>4, DownloadListed
<1>6. list' \in Seq(B) /\ B \subseteq Known
  BY <1>1, <1>5
<1>7. \A b \in B : b.lineage # Absent
  OBVIOUS
<1> HIDE DEF chosen, B
<1>8. list' \in Seq(Known) /\ \A k \in DOMAIN list' : list'[k].lineage # Absent
  BY <1>6, <1>7
<1>9. TypeOK'
  BY <1>1, <1>2, <1>3, <1>8 DEF TypeOK
<1>10. AllIdle' /\ Retrying' /\ Threads'
  BY <1>1, <1>2 DEF AllIdle, Retrying, Threads
<1>11. Listed'
  BY <1>1, <1>8 DEF Listed, IsBatch
<1>12. Counted'
  <2>1. InHand' = InHand
    BY <1>1 DEF InHand
  <2> QED
    BY <1>1, <2>1 DEF IInv, Counted
<1>13. \A k \in DOMAIN results' : Truthful(k)'
  BY <1>1, <1>2
<1>14. TornIsOpen' /\ CrashContent'
  BY <1>1 DEF IInv, TornIsOpen, CrashContent
<1> QED
  BY <1>9, <1>10, <1>11, <1>12, <1>13, <1>14 DEF IInv

LEMMA BugArrivesIInv ==
    ASSUME IInv, NEW w \in Thread, NEW reply \in Replies, BugArrives(w, reply) PROVE IInv'
<1>1. PICK n \in DOMAIN reply.bugs :
          /\ BugRecord(reply.bugs[n]).lineage = command.lineage
          /\ list' = <<BugRecord(reply.bugs[n])>>
          /\ thread' = [thread EXCEPT ![w] =
                [pc |-> "fetch", item |-> 1, bug |-> BugRecord(reply.bugs[n]),
                 urls |-> CrashUrls(BugRecord(reply.bugs[n])),
                 path |-> Path(command.lineage, BugRecord(reply.bugs[n])),
                 tried |-> {}, data |-> Absent]]
  BY DEF BugArrives
<1>2. /\ phase = "calling" /\ ~IsBatch /\ phase' = "downloading" /\ next' = 2
      /\ UNCHANGED <<command, errors, cache, results, file, disturbed>>
  BY DEF BugArrives
<1>3. TypeOK /\ list = << >> /\ results = << >> /\ \A v \in Thread : thread[v] = Idle
  BY <1>2 DEF IInv, AllIdle, Listed
<1>4. PICK bug : bug = BugRecord(reply.bugs[n])
  OBVIOUS
<1>5. bug \in Known
  BY <1>4 DEF Known, Bugs
<1>6. CrashUrls(bug) \in Seq(URL)
  BY <1>5, KnownCrashUrls
<1> DEFINE y == [pc |-> "fetch", item |-> 1, bug |-> bug, urls |-> CrashUrls(bug),
                 path |-> Path(bug.lineage, bug), tried |-> {}, data |-> Absent]
<1>7. /\ thread' = [thread EXCEPT ![w] = y]
      /\ list' = <<bug>>
  BY <1>1, <1>4
<1>8. thread'[w] = y /\ \A v \in Thread : v # w => thread'[v] = Idle
  BY <1>3, <1>7 DEF TypeOK
<1>9. Path(bug.lineage, bug) \in PathSet
  BY <1>5 DEF Path, PathSet
<1>10. y \in Busy /\ y.pc = "fetch" /\ y.item = 1 /\ y.bug = bug
       /\ y.path = Path(bug.lineage, bug) /\ y.tried = {} /\ y.urls = CrashUrls(bug)
       /\ y # Idle
  BY <1>5, <1>6, <1>9 DEF Busy, Idle
<1> HIDE DEF y
<1>11. list' \in Seq(Known) /\ Len(list') = 1 /\ list'[1] = bug /\ DOMAIN list' = {1}
  BY <1>5, <1>7
<1>12. Sound(y)'
  <2>1. bug \in Range(list')
    BY <1>11 DEF Range
  <2>2. OwnPath(y.path, y.item)'
    BY <1>10, <1>11 DEF OwnPath
  <2> QED
    BY <1>2, <1>10, <1>11, <2>1, <2>2 DEF Sound
<1>13. TypeOK'
  BY <1>2, <1>3, <1>7, <1>10, <1>11 DEF TypeOK
<1>14. AllIdle' /\ Retrying'
  BY <1>2 DEF AllIdle, Retrying, IsBatch
<1>15. Listed'
  BY <1>2, <1>11 DEF Listed, IsBatch
<1>16. Threads'
  BY <1>8, <1>12 DEF Threads
<1>17. Counted'
  <2>1. InHand' = {1}
    BY <1>8, <1>10 DEF InHand
  <2>2. DOMAIN results' = {}
    BY <1>2, <1>3
  <2>3. 1..(next' - 1) = {1}
    BY <1>2
  <2> QED
    BY <1>2, <2>1, <2>2, <2>3 DEF Counted
<1>18. \A k \in DOMAIN results' : Truthful(k)'
  BY <1>2, <1>3
<1>19. TornIsOpen' /\ CrashContent'
  <2>1. \A v \in Thread : thread[v].pc # "write"
    BY <1>3 DEF Idle
  <2> QED
    BY <1>2, <2>1 DEF IInv, TornIsOpen, CrashContent
<1> QED
  BY <1>13, <1>14, <1>15, <1>16, <1>17, <1>18, <1>19 DEF IInv

LEMMA AllAnsweredIInv == ASSUME IInv, AllAnswered PROVE IInv'
<1>1. /\ phase = "downloading" /\ next > Len(list)
      /\ \A w \in Thread : thread[w].pc = "idle"
      /\ phase' = IF ~IsBatch /\ results[1].status # "downloaded" THEN "exited" ELSE "done"
      /\ UNCHANGED <<command, errors, list, cache, next, thread, results, file, disturbed>>
  BY DEF AllAnswered
<1>2. TypeOK /\ \A w \in Thread : thread[w] = Idle
  <2>1. TypeOK
    BY DEF IInv
  <2> QED
    BY <1>1, <2>1 DEF TypeOK, Busy
<1>3. TypeOK'
  BY <1>1, <1>2 DEF TypeOK
<1>4. AllIdle' /\ Retrying' /\ Listed' /\ Threads'
  BY <1>1, <1>2 DEF IInv, AllIdle, Retrying, Listed, Threads, IsBatch
<1>5. Counted'
  <2>1. DOMAIN results = 1..(next - 1)
    BY <1>1, <1>2, NoneInHand DEF IInv, Counted
  <2>2. next = Len(list) + 1 /\ DOMAIN list = 1..Len(list) /\ Len(list) \in Nat
    BY <1>1, <1>2 DEF TypeOK
  <2> QED
    BY <1>1, <2>1, <2>2 DEF Counted
<1>6. \A k \in DOMAIN results' : Truthful(k)'
  BY <1>1 DEF IInv, Truthful, OwnPath
<1>7. TornIsOpen' /\ CrashContent'
  BY <1>1 DEF IInv, TornIsOpen, CrashContent
<1> QED
  BY <1>3, <1>4, <1>5, <1>6, <1>7 DEF IInv

LEMMA KillIInv == ASSUME IInv, Kill PROVE IInv'
<1>1. /\ phase' = "killed"
      /\ thread' = [w \in Thread |-> Idle]
      /\ ~disturbed' => ~disturbed /\ \A w \in Thread : thread[w].pc # "write"
      /\ UNCHANGED <<command, errors, list, cache, next, results, file>>
  BY DEF Kill
<1>2. TypeOK'
  BY <1>1 DEF IInv, TypeOK
<1>3. AllIdle' /\ Retrying' /\ Listed' /\ Threads' /\ Counted'
  BY <1>1 DEF IInv, AllIdle, Retrying, Listed, Threads, Counted, IsBatch
<1>4. \A k \in DOMAIN results' : Truthful(k)'
  BY <1>1 DEF IInv, Truthful, OwnPath
<1>5. TornIsOpen' /\ CrashContent'
  BY <1>1 DEF IInv, TornIsOpen, CrashContent
<1> QED
  BY <1>2, <1>3, <1>4, <1>5 DEF IInv

LEMMA RerunIInv == ASSUME IInv, Rerun PROVE IInv'
<1>1. /\ phase # "downloading" /\ phase' = "calling" /\ command' \in Commands
      /\ errors' = << >> /\ list' = << >> /\ cache' = << >> /\ next' = 1 /\ results' = << >>
      /\ UNCHANGED <<thread, file, disturbed>>
  BY DEF Rerun
<1>2. TypeOK /\ \A w \in Thread : thread[w] = Idle
  BY <1>1 DEF IInv, AllIdle
<1>3. DOMAIN list' = {} /\ DOMAIN results' = {} /\ DOMAIN errors' = {}
      /\ Len(list') = 0 /\ Len(errors') = 0
  BY <1>1
<1>4. TypeOK'
  BY <1>1, <1>2, <1>3 DEF TypeOK
<1>5. AllIdle' /\ Listed' /\ Threads'
  BY <1>1, <1>2, <1>3 DEF AllIdle, Listed, Threads
<1>6. Retrying'
  BY <1>1, <1>3, CrashAssumption DEF Retrying
<1>7. Counted'
  <2>1. InHand' = {}
    BY <1>1, <1>2 DEF InHand
  <2> QED
    BY <1>1, <1>3, <2>1 DEF Counted
<1>8. \A k \in DOMAIN results' : Truthful(k)'
  BY <1>3
<1>9. TornIsOpen' /\ CrashContent'
  BY <1>1 DEF IInv, TornIsOpen, CrashContent
<1> QED
  BY <1>4, <1>5, <1>6, <1>7, <1>8, <1>9 DEF IInv

LEMMA NextIInv == IInv /\ [Next]_vars => IInv'
<1> SUFFICES ASSUME IInv, [Next]_vars PROVE IInv'
  OBVIOUS
<1>1. ASSUME NEW w \in Thread, Work(w) PROVE IInv'
  BY <1>1, BugArrivesIInv, TakeIInv, AlreadyThereIInv, NotThereIInv, UrlWorksIInv,
     UrlFailsIInv, FetchFailsIInv, OpenFileIInv, WriteFileIInv, WriteFailsIInv DEF Work
<1>2. CASE Call
  BY <1>2, CallFailsIInv, ListingArrivesIInv DEF Call
<1>3. CASE UNCHANGED vars
  <2>1. InHand' = InHand /\ \A path, k : OwnPath(path, k)' = OwnPath(path, k)
    BY <1>3 DEF vars, InHand, OwnPath
  <2>2. \A t : Sound(t)' = Sound(t)
    BY <1>3, <2>1 DEF vars, Sound
  <2>3. TypeOK' /\ AllIdle' /\ Retrying' /\ Listed'
    BY <1>3 DEF vars, IInv, TypeOK, AllIdle, Retrying, Listed, IsBatch
  <2>4. Threads' /\ Counted' /\ TornIsOpen' /\ CrashContent'
    BY <1>3, <2>1, <2>2 DEF vars, IInv, Threads, Counted, TornIsOpen, CrashContent
  <2>5. \A k \in DOMAIN results' : Truthful(k)'
    BY <1>3, <2>1 DEF vars, IInv, Truthful
  <2> QED
    BY <2>3, <2>4, <2>5 DEF IInv
<1> QED
  BY <1>1, <1>2, <1>3, AllAnsweredIInv, KillIInv, RerunIInv DEF Next

(***************************************************************************)
(* The inductive invariant holds throughout.                               *)
(***************************************************************************)
THEOREM Invariance == Spec => []IInv
BY InitIInv, NextIInv, PTL DEF Spec

(***************************************************************************)
(* Nothing gives up early: a batch command exits only on a permanent error *)
(* or once its retries are used up, and what could not be fetched was      *)
(* tried at every URL of its bug.                                          *)
(***************************************************************************)
THEOREM NoEarlyFailureHolds == Spec => []NoEarlyFailure
<1>1. IInv => NoEarlyFailure
  BY DEF IInv, Retrying, Truthful, NoEarlyFailure
<1> QED
  BY <1>1, Invariance, PTL

(***************************************************************************)
(* A whole crash file holds a crash input of the bug its name and its      *)
(* directory say, after any sequence of commands, kills and failures.      *)
(***************************************************************************)
THEOREM CrashContentHolds == Spec => []CrashContent
<1>1. IInv => CrashContent
  BY DEF IInv
<1> QED
  BY <1>1, Invariance, PTL

(***************************************************************************)
(* What a finished command reports as saved or cached is there, it is      *)
(* whole unless a write was interrupted, and it is the file of that item   *)
(* unless another item has its hash.                                       *)
(***************************************************************************)
THEOREM ReportedCrashIsThereHolds == Spec => []ReportedCrashIsThere
<1>1. ASSUME IInv PROVE ReportedCrashIsThere
  <2> SUFFICES ASSUME phase = "done" PROVE ReportedCrashIsThere
    BY DEF ReportedCrashIsThere
  <2>1. DOMAIN results = DOMAIN list
    BY <1>1 DEF IInv, Counted
  <2>2. \A w \in Thread : thread[w].pc # "write"
    BY <1>1 DEF IInv, AllIdle, Idle
  <2>3. ASSUME NEW k \in DOMAIN list, results[k].status \in {"cached", "downloaded"}
        PROVE  /\ results[k].path \in DOMAIN file
               /\ disturbed \/ file[results[k].path] # Torn
               /\ OwnPath(results[k].path, k)
    <3>1. Truthful(k)
      BY <1>1, <2>1 DEF IInv
    <3> QED
      BY <1>1, <2>2, <2>3, <3>1 DEF IInv, TornIsOpen, Truthful
  <2> QED
    BY <2>1, <2>3 DEF ReportedCrashIsThere, OwnPath
<1> QED
  BY <1>1, Invariance, PTL

-----------------------------------------------------------------------------
(***************************************************************************)
(* The client's downloads (module Client): the first URL that works is     *)
(* returned, and an error only after every URL was tried.                  *)
(***************************************************************************)
LEMMA FirstWorking ==
    ASSUME NEW O, NEW tries \in Seq(O), NEW k \in DOMAIN tries, tries[k].ok,
           \A j \in 1..(k - 1) : ~tries[j].ok
    PROVE  FirstThatWorks(tries) = tries[k]
<1> DEFINE working == {j \in DOMAIN tries : tries[j].ok}
<1>1. working \in SUBSET Nat /\ k \in working
  OBVIOUS
<1>2. Min(working) \in working /\ \A m \in working : Min(working) <= m
  BY <1>1, MinOfNaturals
<1>3. Min(working) = k
  <2>1. Min(working) \in DOMAIN tries /\ tries[Min(working)].ok /\ Min(working) <= k
    BY <1>1, <1>2
  <2> HIDE DEF working
  <2> QED
    BY <2>1
<1> QED
  BY <1>1, <1>3 DEF FirstThatWorks

LEMMA NoneWorking ==
    ASSUME NEW O, NEW tries \in Seq(O), \A j \in DOMAIN tries : ~tries[j].ok
    PROVE  FirstThatWorks(tries) =
               IF tries = << >> THEN Raised(Unexpected) ELSE tries[Len(tries)]
<1>1. {j \in DOMAIN tries : tries[j].ok} = {}
  OBVIOUS
<1> QED
  BY <1>1 DEF FirstThatWorks, Last

LEMMA SomeWorking ==
    ASSUME NEW O, NEW tries \in Seq(O), NEW n \in DOMAIN tries, tries[n].ok
    PROVE  \E k \in DOMAIN tries : tries[k].ok /\ \A j \in 1..(k - 1) : ~tries[j].ok
<1> DEFINE working == {j \in DOMAIN tries : tries[j].ok}
<1>1. working \in SUBSET Nat /\ n \in working
  OBVIOUS
<1>2. PICK k \in working : \A m \in working : k <= m
  BY <1>1, LeastNatural
<1>3. \A j \in 1..(k - 1) : ~tries[j].ok
  BY <1>2
<1> QED
  BY <1>2, <1>3

\* A download succeeds when one of its URLs does.
LEMMA WorksIffOneDoes ==
    ASSUME NEW O, NEW tries \in Seq(O)
    PROVE  FirstThatWorks(tries).ok <=> \E k \in DOMAIN tries : tries[k].ok
<1>1. CASE \E k \in DOMAIN tries : tries[k].ok
  <2>1. PICK k \in DOMAIN tries : tries[k].ok /\ \A j \in 1..(k - 1) : ~tries[j].ok
    BY <1>1, SomeWorking
  <2> QED
    BY <1>1, <2>1, FirstWorking
<1>2. CASE \A k \in DOMAIN tries : ~tries[k].ok
  <2>1. CASE tries = << >>
    <3>1. FirstThatWorks(tries) = Raised(Unexpected)
      BY <1>2, <2>1, NoneWorking
    <3>2. ~Raised(Unexpected).ok
      BY DEF Raised
    <3> QED
      BY <1>2, <3>1, <3>2
  <2>2. CASE tries # << >>
    <3>1. FirstThatWorks(tries) = tries[Len(tries)]
      BY <1>2, <2>2, NoneWorking
    <3>2. Len(tries) \in DOMAIN tries
      BY <2>2
    <3> QED
      BY <1>2, <3>1, <3>2
  <2> QED
    BY <2>1, <2>2
<1> QED
  BY <1>1, <1>2

(***************************************************************************)
(* Trying two lists of URLs one after the other is trying the second only  *)
(* when the first has failed.                                              *)
(***************************************************************************)
LEMMA OneAfterTheOther ==
    ASSUME NEW O, NEW s \in Seq(O), NEW t \in Seq(O)
    PROVE  FirstThatWorks(s \o t) =
               IF FirstThatWorks(s).ok \/ t = << >> THEN FirstThatWorks(s)
               ELSE FirstThatWorks(t)
<1> DEFINE u == s \o t
<1>1. /\ u \in Seq(O) /\ Len(u) = Len(s) + Len(t)
      /\ \A k \in 1..Len(s) : k \in DOMAIN u /\ u[k] = s[k]
      /\ \A k \in 1..Len(t) : Len(s) + k \in DOMAIN u /\ u[Len(s) + k] = t[k]
      /\ \A k \in DOMAIN u : k \in 1..Len(s) \/ k - Len(s) \in 1..Len(t)
  OBVIOUS
<1>2. DOMAIN s = 1..Len(s) /\ DOMAIN t = 1..Len(t) /\ DOMAIN u = 1..Len(u)
      /\ Len(s) \in Nat /\ Len(t) \in Nat
  BY <1>1
<1> HIDE DEF u
<1>3. CASE FirstThatWorks(s).ok
  <2>1. PICK n \in DOMAIN s : s[n].ok
    BY <1>3, WorksIffOneDoes
  <2>2. PICK k \in DOMAIN s : s[k].ok /\ \A j \in 1..(k - 1) : ~s[j].ok
    BY <2>1, SomeWorking
  <2>3. k \in DOMAIN u /\ u[k].ok /\ u[k] = s[k] /\ \A j \in 1..(k - 1) : ~u[j].ok
    BY <1>1, <1>2, <2>2
  <2>4. FirstThatWorks(u) = u[k]
    BY <1>1, <2>3, FirstWorking
  <2>5. FirstThatWorks(s) = s[k]
    BY <2>2, FirstWorking
  <2> QED
    BY <1>3, <2>3, <2>4, <2>5 DEF u
<1>4. CASE ~FirstThatWorks(s).ok /\ t = << >>
  <2>1. u = s
    BY <1>4 DEF u
  <2> QED
    BY <1>4, <2>1 DEF u
<1>5. CASE ~FirstThatWorks(s).ok /\ t # << >>
  <2>1. \A k \in 1..Len(s) : ~s[k].ok
    BY <1>2, <1>5, WorksIffOneDoes
  <2>2. CASE FirstThatWorks(t).ok
    <3>1. PICK n \in DOMAIN t : t[n].ok
      BY <2>2, WorksIffOneDoes
    <3>2. PICK k \in DOMAIN t : t[k].ok /\ \A j \in 1..(k - 1) : ~t[j].ok
      BY <3>1, SomeWorking
    <3> DEFINE i == Len(s) + k
    <3>3. i \in DOMAIN u /\ u[i] = t[k]
      BY <1>1, <1>2
    <3>4. ASSUME NEW j \in 1..(i - 1) PROVE ~u[j].ok
      <4>1. CASE j \in 1..Len(s)
        BY <1>1, <2>1, <4>1
      <4>2. CASE j > Len(s)
        <5>1. j - Len(s) \in 1..(k - 1) /\ j - Len(s) \in 1..Len(t) /\ Len(s) + (j - Len(s)) = j
          BY <1>2, <4>2
        <5> QED
          BY <1>1, <3>2, <5>1
      <4> QED
        BY <1>2, <4>1, <4>2
    <3>5. FirstThatWorks(u) = u[i]
      BY <1>1, <3>2, <3>3, <3>4, FirstWorking
    <3>6. FirstThatWorks(t) = t[k]
      BY <3>2, FirstWorking
    <3> QED
      BY <1>5, <3>3, <3>5, <3>6 DEF u
  <2>3. CASE ~FirstThatWorks(t).ok
    <3>1. \A k \in 1..Len(t) : ~t[k].ok
      BY <1>2, <2>3, WorksIffOneDoes
    <3>2. \A k \in DOMAIN u : ~u[k].ok
      <4> SUFFICES ASSUME NEW k \in DOMAIN u PROVE ~u[k].ok
        OBVIOUS
      <4>1. CASE k \in 1..Len(s)
        BY <1>1, <2>1, <4>1
      <4>2. CASE k - Len(s) \in 1..Len(t)
        <5>1. k = Len(s) + (k - Len(s))
          BY <1>2
        <5> QED
          BY <1>1, <3>1, <4>2, <5>1
      <4> QED
        BY <1>1, <4>1, <4>2
    <3>3. Len(t) \in 1..Len(t) /\ Len(u) = Len(s) + Len(t)
      BY <1>1, <1>2, <1>5
    <3>4. u # << >> /\ u[Len(u)] = t[Len(t)]
      BY <1>1, <1>2, <3>3
    <3> QED
      BY <1>1, <1>2, <1>5, <3>1, <3>2, <3>4, NoneWorking DEF u
  <2> QED
    BY <2>2, <2>3
<1> QED
  BY <1>3, <1>4, <1>5

LEMMA SameAsConcatenated ==
    ASSUME NEW O, NEW u \in Seq(O), NEW s \in Seq(O), NEW t \in Seq(O),
           Len(u) = Len(s) + Len(t),
           \A k \in 1..Len(s) : u[k] = s[k],
           \A k \in 1..Len(t) : u[Len(s) + k] = t[k]
    PROVE  u = s \o t
<1> DEFINE v == s \o t
<1>1. v \in Seq(O) /\ Len(v) = Len(u)
  OBVIOUS
<1>2. ASSUME NEW k \in 1..Len(u) PROVE u[k] = v[k]
  <2>1. CASE k \in 1..Len(s)
    BY <2>1
  <2>2. CASE k > Len(s)
    <3> DEFINE n == k - Len(s)
    <3>1. n \in 1..Len(t) /\ k = Len(s) + n
      BY <2>2
    <3>2. u[k] = t[n]
      <4> HIDE DEF n
      <4> QED
        BY <3>1
    <3> QED
      BY <2>2, <3>1, <3>2
  <2> QED
    BY <2>1, <2>2
<1> HIDE DEF v
<1>3. u = v
  BY <1>1, <1>2, SeqEqual
<1> QED
  BY <1>3 DEF v

-----------------------------------------------------------------------------
(***************************************************************************)
(* What the storage may answer; the URLs and the tries of a download.      *)
(***************************************************************************)
Tries(urls, drivers, answers) ==
    [k \in DOMAIN urls |-> DownloadFromUrl(urls[k], drivers, answers[k])]

LEMMA TriesOf ==
    ASSUME NEW O, NEW urls \in Seq(URL), NEW drivers, NEW answers \in Seq(O),
           Raised(Unexpected) \in O, Len(answers) >= Len(urls)
    PROVE  Tries(urls, drivers, answers) \in Seq(O)
<1>1. \A k \in 1..Len(urls) : answers[k] \in O
  OBVIOUS
<1>2. \A k \in 1..Len(urls) : DownloadFromUrl(urls[k], drivers, answers[k]) \in O
  BY <1>1 DEF DownloadFromUrl
<1>3. DOMAIN urls = 1..Len(urls) /\ Len(urls) \in Nat
  OBVIOUS
<1> QED
  BY <1>2, <1>3 DEF Tries

(***************************************************************************)
(* octane_api_client.py:200-222, 1021-1038.  A repro is the fixture if one *)
(* of the fixture's URLs works, otherwise what download_bug_crash returns  *)
(* from the remaining URLs: a raw crash input never takes the place of a   *)
(* fixture that can be had, and an artifact is not given up before the     *)
(* crash URLs were tried.                                                  *)
(***************************************************************************)
THEOREM ReproIsFixtureElseCrash ==
    ASSUME NEW O, Raised(Unexpected) \in O,
           NEW bug, bug.urls \in [Field -> Seq(URL)], NEW drivers, NEW answers \in Seq(O),
           Len(answers) = Len(ReproUrls(bug))
    PROVE  DownloadRepro(bug, drivers, answers) =
               IF DownloadFixture(bug, drivers, answers).ok \/ CrashUrls(bug) = << >>
               THEN DownloadFixture(bug, drivers, answers)
               ELSE DownloadCrash(bug, drivers,
                        [k \in DOMAIN CrashUrls(bug) |-> answers[Len(FixtureUrls(bug)) + k]])
<1> DEFINE f == FixtureUrls(bug)
           c == CrashUrls(bug)
           rest == [k \in DOMAIN c |-> answers[Len(f) + k]]
           s == Tries(f, drivers, answers)
           t == Tries(c, drivers, rest)
<1>1. f \in Seq(URL) /\ c \in Seq(URL)
  BY DEF FixtureUrls, CrashUrls, Field
<1>2. ReproUrls(bug) = f \o c
  BY DEF ReproUrls
<1> HIDE DEF f, c
<1>3. DOMAIN f = 1..Len(f) /\ DOMAIN c = 1..Len(c) /\ Len(f) \in Nat /\ Len(c) \in Nat
      /\ f \o c \in Seq(URL) /\ Len(f \o c) = Len(f) + Len(c)
  BY <1>1
<1>4. Len(answers) = Len(f) + Len(c)
  BY <1>2, <1>3
<1>5. rest \in Seq(O) /\ Len(rest) = Len(c)
  <2>1. \A k \in 1..Len(c) : answers[Len(f) + k] \in O
    BY <1>3, <1>4
  <2> QED
    BY <1>3, <2>1
<1>6. s \in Seq(O) /\ t \in Seq(O)
  <2> HIDE DEF rest
  <2> QED
    BY <1>1, <1>3, <1>4, <1>5, TriesOf
<1>7. Tries(f \o c, drivers, answers) = s \o t
  <2> DEFINE u == Tries(f \o c, drivers, answers)
  <2>1. Len(s) = Len(f) /\ Len(t) = Len(c) /\ DOMAIN s = 1..Len(f) /\ DOMAIN t = 1..Len(c)
    BY <1>3 DEF Tries
  <2>2. u = [k \in 1..(Len(f) + Len(c)) |-> DownloadFromUrl((f \o c)[k], drivers, answers[k])]
    BY <1>3 DEF Tries
  <2>3. \A k \in 1..Len(f) : u[k] = s[k]
    BY <1>1, <1>3, <2>2 DEF Tries
  <2>4. \A k \in 1..Len(c) : u[Len(f) + k] = t[k]
    BY <1>1, <1>3, <2>2 DEF Tries
  <2>5. u \in Seq(O) /\ Len(u) = Len(f) + Len(c)
    <3> DEFINE urls == f \o c
    <3>0. urls \in Seq(URL) /\ Len(answers) >= Len(urls)
      BY <1>3, <1>4
    <3>1. u \in Seq(O)
      <4> HIDE DEF urls
      <4>1. Tries(urls, drivers, answers) \in Seq(O)
        BY <3>0, TriesOf
      <4> QED
        BY <4>1 DEF urls
    <3> HIDE DEF u
    <3> QED
      BY <1>3, <2>2, <3>1
  <2> HIDE DEF u, s, t
  <2>6. /\ Len(u) = Len(s) + Len(t)
        /\ \A k \in 1..Len(s) : u[k] = s[k]
        /\ \A k \in 1..Len(t) : u[Len(s) + k] = t[k]
    BY <2>1, <2>3, <2>4, <2>5
  <2>7. u = s \o t
    BY <1>6, <2>5, <2>6, SameAsConcatenated
  <2> QED
    BY <2>7 DEF u
<1>8. /\ DownloadRepro(bug, drivers, answers) = FirstThatWorks(s \o t)
      /\ DownloadFixture(bug, drivers, answers) = FirstThatWorks(s)
      /\ DownloadCrash(bug, drivers, rest) = FirstThatWorks(t)
  BY <1>2, <1>7 DEF DownloadRepro, DownloadFixture, DownloadCrash, DownloadFrom, Tries, f, c
<1>9. t = << >> <=> c = << >>
  <2>1. DOMAIN t = DOMAIN c
    BY DEF Tries
  <2> HIDE DEF t
  <2> QED
    BY <1>1, <1>6, <2>1
<1> HIDE DEF s, t
<1> QED
  BY <1>6, <1>8, <1>9, OneAfterTheOther DEF f, c

-----------------------------------------------------------------------------
(***************************************************************************)
(* octane_utils.py:131-190.  octane_api_call answers for whatever the      *)
(* attempts end with: with the first result, or an error that may not be   *)
(* repeated, or that of the attempt after max_retries repetitions; every   *)
(* attempt before it failed transiently.                                   *)
(***************************************************************************)
THEOREM CallsAreBounded ==
    ASSUME NEW maxRetries \in Nat, NEW O, NEW outcomes \in Seq(O),
           Len(outcomes) = maxRetries + 1
    PROVE  \E k \in DOMAIN outcomes :
              /\ ApiCall(outcomes, maxRetries) = outcomes[k]
              /\ outcomes[k].ok \/ ~Transient(outcomes[k].error) \/ k = maxRetries + 1
              /\ \A j \in 1..(k - 1) : ~outcomes[j].ok /\ Transient(outcomes[j].error)
<1> DEFINE ends == {k \in DOMAIN outcomes : EndsCall(outcomes, k, maxRetries)}
<1>1. DOMAIN outcomes = 1..(maxRetries + 1)
  OBVIOUS
<1>2. ASSUME NEW k \in DOMAIN outcomes
      PROVE  EndsCall(outcomes, k, maxRetries) <=>
                \/ outcomes[k].ok
                \/ ~Transient(outcomes[k].error)
                \/ k = maxRetries + 1
  <2> DEFINE errs == [j \in 1..k |-> outcomes[j].error]
  <2>1. k \in 1..(maxRetries + 1)
    BY <1>1
  <2>2. errs \in Seq({outcomes[j].error : j \in 1..k}) /\ Len(errs) = k
    BY <2>1
  <2>3. errs[k] = outcomes[k].error
    BY <2>1
  <2> HIDE DEF errs
  <2>4. Last(errs) = outcomes[k].error
    BY <2>2, <2>3 DEF Last
  <2>5. GivesUp(errs, maxRetries) <=> ~Transient(outcomes[k].error) \/ k = maxRetries + 1
    BY <2>1, <2>2, <2>4 DEF GivesUp
  <2> QED
    BY <2>5 DEF EndsCall, errs
<1>3. ends \in SUBSET Nat /\ maxRetries + 1 \in ends
  BY <1>1, <1>2
<1>4. Min(ends) \in ends /\ \A m \in ends : Min(ends) <= m
  BY <1>3, MinOfNaturals
<1> DEFINE k == Min(ends)
<1>5. k \in 1..(maxRetries + 1) /\ EndsCall(outcomes, k, maxRetries)
  BY <1>1, <1>4
<1>6. ASSUME NEW j \in 1..(k - 1) PROVE ~EndsCall(outcomes, j, maxRetries) /\ j \in DOMAIN outcomes
  <2>1. j \in DOMAIN outcomes /\ ~(k <= j)
    BY <1>1, <1>5
  <2> QED
    BY <1>4, <2>1
<1>7. ApiCall(outcomes, maxRetries) = outcomes[k]
  BY DEF ApiCall
<1> HIDE DEF k
<1>8. \A j \in 1..(k - 1) : ~outcomes[j].ok /\ Transient(outcomes[j].error)
  BY <1>2, <1>6
<1> QED
  BY <1>1, <1>2, <1>5, <1>7, <1>8

(***************************************************************************)
(* octane_utils.py:20-33, octane_api_client.py:455-460.  What the commands *)
(* ask does not depend on OCTANE_API_URL, unless OCTANE_API_ORIGIN is set  *)
(* and empty: they ask OCTANE_API_ORIGIN, or the default.                  *)
(***************************************************************************)
THEOREM UrlVariableIsIgnored ==
    ASSUME NEW env, NEW bundle,
           "OCTANE_API_ORIGIN" \in DOMAIN env => env["OCTANE_API_ORIGIN"] # Absent
    PROVE  OctaneClient(env, Absent, bundle).origin =
               IF "OCTANE_API_ORIGIN" \in DOMAIN env
               THEN env["OCTANE_API_ORIGIN"] ELSE DEFAULT_OCTANE_API_ORIGIN
<1> DEFINE origin == OctaneApiOrigin(env)
<1>1. origin # Absent
  <2>1. DEFAULT_OCTANE_API_ORIGIN # Absent
    BY DEF DEFAULT_OCTANE_API_ORIGIN, Absent
  <2> QED
    BY <2>1 DEF OctaneApiOrigin
<1> HIDE DEF origin
<1>2. ASSUME NEW a, NEW b, NEW c PROVE FirstPresent(<<origin, a, b, c>>) = origin
  <2> DEFINE values == <<origin, a, b, c>>
             present == {k \in DOMAIN values : values[k] # Absent}
  <2>1. present \in SUBSET Nat /\ 1 \in present /\ \A m \in present : 1 <= m
    BY <1>1
  <2>2. Min(present) = 1
    <3> HIDE DEF present
    <3>1. Min(present) \in present /\ \A m \in present : Min(present) <= m
      BY <2>1, MinOfNaturals
    <3>2. Min(present) \in Nat /\ Min(present) <= 1 /\ 1 <= Min(present)
      BY <2>1, <3>1
    <3> QED
      BY <3>2
  <2>3. FirstPresent(values) = values[1]
    BY <2>1, <2>2 DEF FirstPresent
  <2> QED
    BY <2>3
<1>3. FirstPresent(<<Absent, origin>>) = origin
  <2> DEFINE values == <<Absent, origin>>
             present == {k \in DOMAIN values : values[k] # Absent}
  <2>1. present = {2}
    BY <1>1
  <2>2. Min(present) = 2
    <3>1. Min({2}) \in {2}
      BY MinOfNaturals
    <3> QED
      BY <2>1, <3>1
  <2>3. FirstPresent(values) = values[2]
    BY <2>1, <2>2 DEF FirstPresent
  <2> QED
    BY <2>3
<1>4. OctaneClient(env, Absent, bundle).origin = origin
  BY <1>2, <1>3 DEF OctaneClient, ClientOf, origin
<1> QED
  BY <1>4 DEF origin, OctaneApiOrigin
=============================================================================
