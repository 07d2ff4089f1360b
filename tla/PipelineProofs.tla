--------------------------- MODULE PipelineProofs ---------------------------
(***************************************************************************)
(* What debug-mismatches tests, and what it may lose, for any artifacts,   *)
(* payloads, faults and number of sessions.                                *)
(***************************************************************************)
EXTENDS Pipeline, SequenceTheorems, TLAPS

(***************************************************************************)
(* A directory that may take the place of the inputs: fixtures created     *)
(* from files that were found, one for every accepted payload, and one for *)
(* all files with the same bytes.                                          *)
(***************************************************************************)
FromFiles(dir) ==
    \A h \in Hash :
        \/ dir[h] = Absent
        \/ IsKind(files[h], "accepted") /\ dir[h] = Created(files[h].of)

Distinct(dir) ==
    \A g, h \in Names(dir) : Bytes(files[g]) = Bytes(files[h]) => g = h

Replacement(dir) ==
    /\ FromFiles(dir)
    /\ Accepted \subseteq Payloads(dir)
    /\ Distinct(dir)

Downloading == phase = "download" => files = Empty /\ tested = Empty /\ ~raised

\* Of the names deduplication has come to, each content is seen and kept once.
Deduping ==
    phase = "dedupe" =>
        /\ ~raised
        /\ \A h \in Hash : inputs[h] \in {files[h], Absent}
        /\ Payloads(files) \subseteq Payloads(inputs)
        /\ \A c \in seen : \E k \in Hash \ todo : Bytes(inputs[k]) = c
        /\ \A k \in Hash \ todo : inputs[k] \in Whole => Bytes(inputs[k]) \in seen
        /\ \A g, h \in Hash \ todo :
              inputs[g] \in Whole /\ Bytes(inputs[g]) = Bytes(inputs[h]) => g = h

Deduped ==
    phase \in {"clear", "create"} =>
        /\ \A h \in Hash : inputs[h] \in {files[h], Absent}
        /\ Payloads(files) \subseteq Payloads(inputs)
        /\ \A g, h \in Hash :
              inputs[g] \in Whole /\ Bytes(inputs[g]) = Bytes(inputs[h]) => g = h

Clearing == phase = "clear" => Names(created) \subseteq todo /\ ~raised

Creating ==
    phase = "create" /\ ~raised =>
        \A h \in Hash :
            created[h] = IF h \notin todo /\ IsKind(inputs[h], "accepted")
                         THEN Created(inputs[h].of) ELSE Absent

Removing ==
    phase = "remove" =>
        Replacement(created) /\ Names(inputs) \subseteq todo /\ ~raised

Copying ==
    phase = "copy" =>
        /\ Replacement(created)
        /\ ~raised => \A h \in Hash : h \notin todo => inputs[h] = created[h]

Replaced == phase \in {"discard", "test"} => Replacement(inputs) /\ ~raised

Testing ==
    /\ tested = Empty \/ Replacement(tested)
    /\ phase \in {"test", "done"} => Replacement(tested)

(***************************************************************************)
(* The inductive invariant: what each stage has done to the names it has   *)
(* come to.  The four properties speak of the end of the stages only.      *)
(***************************************************************************)
IInv ==
    /\ TypeOK
    /\ Downloading
    /\ Deduping
    /\ Deduped
    /\ Clearing
    /\ Creating
    /\ Removing
    /\ Copying
    /\ Replaced
    /\ Testing
    /\ NoInputIsLost

-----------------------------------------------------------------------------
\* The forms of a file are told apart, and its bytes tell what it holds.
LEMMA Forms ==
    /\ Absent \notin Whole /\ Torn \notin Whole /\ Absent # Torn
    /\ \A c \in Whole : Bytes(c) \in Whole /\ Bytes(c).of = c.of /\ c.of \in Payload
    /\ Bytes(Absent) = Absent /\ Bytes(Torn) = Torn
    /\ \A p \in Payload : /\ Created(p) \in Whole /\ Created(p).of = p
                        /\ Downloaded(p) \in Whole /\ Downloaded(p).of = p
<1>1. Absent.form = "absent" /\ Torn.form = "torn"
  BY DEF Absent, Torn
<1>2. ASSUME NEW p \in Payload
      PROVE /\ Created(p) \in Whole /\ Created(p).of = p /\ Created(p).form = "created"
            /\ Downloaded(p) \in Whole /\ Downloaded(p).of = p
            /\ Downloaded(p).form = "downloaded"
  BY DEF Created, Downloaded, Whole
<1>3. ASSUME NEW c \in Whole
      PROVE \E p \in Payload : c = Downloaded(p) \/ c = Created(p)
  BY DEF Whole
<1>4. ASSUME NEW c \in Whole
      PROVE Bytes(c) \in Whole /\ Bytes(c).of = c.of /\ c.of \in Payload
  BY <1>2, <1>3 DEF Bytes
<1>5. Bytes(Absent) = Absent /\ Bytes(Torn) = Torn
  BY <1>1 DEF Bytes
<1>6. Absent \notin Whole /\ Torn \notin Whole /\ Absent # Torn
  BY <1>1, <1>2, <1>3
<1> QED
  BY <1>2, <1>4, <1>5, <1>6

LEMMA WholeBytes == \A c \in Content : Bytes(c) \in Whole => c \in Whole
BY Forms DEF Content

LEMMA WorldTypes ==
    ASSUME world \in Worlds
    PROVE /\ world.asked \in Seq(SUBSET Hash)
          /\ Len(world.asked) \in Nat \ {0}
          /\ world.payload \in [Hash -> Payload]
          /\ world.kind \in [Payload -> Kind]
BY PipelineAssumption, EmptySeq

LEMMA InitIInv == Init => IInv
<1> SUFFICES ASSUME Init PROVE IInv
  OBVIOUS
<1>1. Empty \in [Hash -> Content]
  BY DEF Empty, Content
<1>2. todo \in SUBSET Hash
  <2>1. 1 \in 1..Len(world.asked)
    BY WorldTypes DEF Init
  <2> QED
    BY <2>1, WorldTypes DEF Init
<1>3. session \in Nat \ {0} /\ phase \in Stages \cup Ends
  BY DEF Init, Stages
<1>4. TypeOK
  BY <1>1, <1>2, <1>3 DEF Init, TypeOK
<1> QED
  BY <1>4 DEF Init, IInv, Downloading, Deduping, Deduped, Clearing, Creating, Removing,
              Copying, Replaced, Testing, NoInputIsLost, PastDownload

-----------------------------------------------------------------------------
LEMMA IndexFailsIInv == ASSUME IInv, IndexFails PROVE IInv'
<1>1. TypeOK'
  BY DEF IInv, TypeOK, IndexFails, Ends
<1> QED
  BY <1>1 DEF IInv, IndexFails, Downloading, Deduping, Deduped, Clearing, Creating,
              Removing, Copying, Replaced, Testing, NoInputIsLost, PastDownload

LEMMA DownloadIInv == ASSUME IInv, NEW h \in Hash, Download(h) PROVE IInv'
<1>1. TypeOK'
  BY WorldTypes, Forms DEF IInv, TypeOK, Download, Handle, Content
<1> QED
  BY <1>1 DEF IInv, Download, Handle, Downloading, Deduping, Deduped, Clearing, Creating,
              Removing, Copying, Replaced, Testing, NoInputIsLost, PastDownload

LEMMA DownloadDoneIInv == ASSUME IInv, DownloadDone PROVE IInv'
<1>1. TypeOK'
  BY DEF IInv, TypeOK, DownloadDone, Proceed, Names, Stages, Ends
<1>2. Deduping'
  BY Forms DEF IInv, TypeOK, DownloadDone, Proceed, Deduping, Downloading, Names, Payloads
<1>3. NoInputIsLost'
  BY DEF DownloadDone, Proceed, NoInputIsLost, PastDownload, Accepted, Payloads
<1>4. (tested = Empty /\ ~raised)'
  BY DEF IInv, DownloadDone, Proceed, Downloading
<1>5. phase' \in {"failed", "dedupe"}
  BY DEF DownloadDone, Proceed
<1> QED
  BY <1>1, <1>2, <1>3, <1>4, <1>5 DEF IInv, Downloading, Deduped, Clearing, Creating,
              Removing, Copying, Replaced, Testing

\* Nothing that Replacement or NoInputIsLost reads of the session has changed.
Kept == UNCHANGED <<world, files, tested>>

LEMMA KeptTesting ==
    ASSUME Testing, Kept, phase' \in {"test", "done"} => phase \in {"test", "done"}
    PROVE  Testing'
BY DEF Testing, Kept, Replacement, FromFiles, Distinct, IsKind, Bytes, Accepted, Payloads,
       Names, Empty

LEMMA DedupeIInv == ASSUME IInv, NEW h \in Hash, Dedupe(h) PROVE IInv'
<1>1. TypeOK'
  BY Forms DEF IInv, TypeOK, Content, Dedupe, Handle
<1>2. /\ Deduping /\ h \in todo /\ todo' = todo \ {h} /\ phase = "dedupe" /\ phase' = phase
      /\ Kept /\ UNCHANGED <<created, raised>>
  BY DEF IInv, Dedupe, Handle, Kept
<1>3. \A k \in Hash : inputs[k] \in Content
  BY DEF IInv, TypeOK
<1>4. ASSUME Bytes(inputs[h]) \in seen, inputs' = [inputs EXCEPT ![h] = Absent],
             UNCHANGED seen
      PROVE  Deduping'
  <2>1. /\ inputs'[h] = Absent
        /\ \A k \in Hash : k # h => inputs'[k] = inputs[k]
    BY <1>4 DEF IInv, TypeOK
  <2>2. PICK twin \in Hash \ todo : Bytes(inputs[twin]) = Bytes(inputs[h])
    BY <1>2, <1>4 DEF Deduping
  <2>3. Payloads(inputs)' = Payloads(inputs)
    <3>1. ASSUME inputs[h] \in Whole
          PROVE inputs[twin] \in Whole /\ inputs[twin].of = inputs[h].of
      BY <1>3, <2>2, <3>1, Forms, WholeBytes
    <3> QED
      BY <1>2, <2>1, <2>2, <3>1, Forms DEF Payloads
  <2>4. \A k \in Hash : inputs'[k] \in {files[k], Absent}
    BY <1>2, <2>1 DEF Deduping
  <2>5. \A c \in seen : \E k \in Hash \ todo' : Bytes(inputs'[k]) = c
    BY <1>2, <2>1 DEF Deduping
  <2>6. \A k \in Hash \ todo' : inputs'[k] \in Whole => Bytes(inputs'[k]) \in seen
    BY <1>2, <2>1, Forms DEF Deduping
  <2>7. \A f, g \in Hash \ todo' :
           inputs'[f] \in Whole /\ Bytes(inputs'[f]) = Bytes(inputs'[g]) => f = g
    BY <1>2, <2>1, Forms DEF Deduping
  <2> QED
    BY <1>2, <1>4, <2>3, <2>4, <2>5, <2>6, <2>7 DEF Deduping, Payloads, Bytes, Kept
<1>5. ASSUME Bytes(inputs[h]) \notin seen \/ inputs[h] = Torn,
             seen' = seen \cup {Bytes(inputs[h])},
             UNCHANGED inputs
      PROVE  Deduping'
  <2>1. \A c \in seen' : \E k \in Hash \ todo' : Bytes(inputs[k]) = c
    BY <1>2, <1>5 DEF Deduping
  <2>2. \A k \in Hash \ todo' : inputs[k] \in Whole => Bytes(inputs[k]) \in seen'
    BY <1>2, <1>5 DEF Deduping
  <2>3. ASSUME NEW f \in Hash \ todo', NEW g \in Hash \ todo',
               inputs[f] \in Whole, Bytes(inputs[f]) = Bytes(inputs[g])
        PROVE f = g
    <3>1. inputs[g] \in Whole
      BY <1>3, <2>3, Forms, WholeBytes
    <3>2. inputs[f] # Torn /\ inputs[g] # Torn
      BY <2>3, <3>1, Forms
    <3> QED
      BY <1>2, <1>5, <2>3, <3>1, <3>2 DEF Deduping
  <2> QED
    BY <1>2, <1>5, <2>1, <2>2, <2>3 DEF Deduping, Payloads, Bytes, Kept
<1>6. Deduping'
  BY <1>4, <1>5 DEF Dedupe
<1>7. Testing'
  BY <1>2, KeptTesting DEF IInv
<1>8. NoInputIsLost'
  <2>1. Accepted' \subseteq Payloads(files)'
    BY DEF Accepted
  <2>2. Payloads(files)' \subseteq Payloads(inputs)'
    BY <1>2, <1>6 DEF Deduping
  <2> QED
    BY <2>1, <2>2 DEF NoInputIsLost
<1> QED
  BY <1>1, <1>2, <1>6, <1>7, <1>8 DEF IInv, Downloading, Deduped, Clearing, Creating, Removing,
     Copying, Replaced

LEMMA DedupeDoneIInv == ASSUME IInv, DedupeDone PROVE IInv'
<1>1. TypeOK'
  BY DEF IInv, TypeOK, DedupeDone, Proceed, Names, Stages
<1>2. /\ phase = "dedupe" /\ todo = {} /\ phase' = "clear" /\ todo' = Names(created)
      /\ UNCHANGED <<world, inputs, created, files, raised, tested>>
  BY DEF DedupeDone, Proceed
<1>3. Deduping
  BY DEF IInv
<1>4. Deduped'
  <2>1. Payloads(files)' \subseteq Payloads(inputs)'
    BY <1>2, <1>3 DEF Deduping, Payloads
  <2>2. \A g, h \in Hash :
           inputs'[g] \in Whole /\ Bytes(inputs[g])' = Bytes(inputs[h])' => g = h
    BY <1>2, <1>3 DEF Deduping, Bytes
  <2> QED
    BY <1>2, <1>3, <2>1, <2>2 DEF Deduping, Deduped
<1>5. Clearing'
  BY <1>2, <1>3 DEF Deduping, Clearing, Names
<1>6. Testing'
  <2>1. Kept
    BY <1>2 DEF Kept
  <2> QED
    BY <1>2, <2>1, KeptTesting DEF IInv
<1>7. NoInputIsLost'
  BY <1>2 DEF IInv, NoInputIsLost, PastDownload, Accepted, Payloads
<1> QED
  BY <1>1, <1>2, <1>4, <1>5, <1>6, <1>7 DEF IInv, Downloading, Deduping, Creating, Removing,
     Copying, Replaced

-----------------------------------------------------------------------------
LEMMA RemoveCreatedIInv == ASSUME IInv, NEW h \in Hash, RemoveCreated(h) PROVE IInv'
<1> USE DEF RemoveCreated, Handle
<1>1. TypeOK'
  BY DEF IInv, TypeOK, Content
<1>2. Kept /\ UNCHANGED <<phase, inputs, raised>> /\ phase \in {"clear", "discard"}
  BY DEF Kept
<1>3. Testing'
  BY <1>2, KeptTesting DEF IInv
<1>4. CASE phase = "clear"
  <2>1. Deduped'
    BY <1>2, <1>4 DEF IInv, Deduped, Kept, Payloads, Bytes
  <2>2. Clearing'
    BY <1>2, <1>4 DEF IInv, TypeOK, Clearing, Names
  <2>3. NoInputIsLost'
    <3>1. Accepted' \subseteq Payloads(files)'
      BY DEF Accepted
    <3>2. Payloads(files)' \subseteq Payloads(inputs)'
      BY <1>2, <1>4, <2>1 DEF Deduped
    <3> QED
      BY <3>1, <3>2 DEF NoInputIsLost
  <2> QED
    BY <1>1, <1>2, <1>3, <1>4, <2>1, <2>2, <2>3 DEF IInv, Downloading, Deduping, Creating,
       Removing, Copying, Replaced
<1>5. CASE phase = "discard"
  <2>1. Replaced'
    BY <1>2, <1>5 DEF IInv, Replaced, Kept, Replacement, FromFiles, Distinct, IsKind, Bytes,
       Accepted, Payloads, Names
  <2>2. NoInputIsLost'
    BY <1>2, <1>5, <2>1 DEF Replaced, Replacement, NoInputIsLost
  <2> QED
    BY <1>1, <1>2, <1>3, <1>5, <2>1, <2>2 DEF IInv, Downloading, Deduping, Deduped, Clearing,
       Creating, Removing, Copying
<1> QED
  BY <1>2, <1>4, <1>5

\* From here on the files that were found, and what is accepted of them, are fixed.
LEMMA ClearedIInv == ASSUME IInv, Cleared PROVE IInv'
<1>1. TypeOK'
  BY DEF IInv, TypeOK, Cleared, Proceed, Names, Stages
<1>2. /\ phase = "clear" /\ todo = {} /\ phase' = "create" /\ todo' = Names(inputs)
      /\ Kept /\ UNCHANGED <<inputs, created, seen, raised>>
  BY DEF Cleared, Proceed, Kept
<1>3. Testing'
  BY <1>2, KeptTesting DEF IInv
<1>4. Deduped'
  BY <1>2 DEF IInv, Deduped, Kept, Payloads, Bytes
<1>5. Creating'
  <2>1. \A h \in Hash : created[h] = Absent
    BY <1>2 DEF IInv, Clearing, Names
  <2>2. \A h \in Hash : h \notin todo' => inputs[h] = Absent
    BY <1>2 DEF Names
  <2> QED
    BY <1>2, <2>1, <2>2, Forms DEF Creating, IsKind
<1>6. NoInputIsLost'
  BY <1>2 DEF IInv, NoInputIsLost, PastDownload, Kept, Accepted, Payloads
<1> QED
  BY <1>1, <1>2, <1>3, <1>4, <1>5, <1>6 DEF IInv, Downloading, Deduping, Clearing,
     Removing, Copying, Replaced

LEMMA CreateIInv == ASSUME IInv, NEW h \in Hash, Create(h) PROVE IInv'
<1> USE DEF Create, Handle
<1>1. phase = "create" /\ phase' = phase /\ Kept /\ UNCHANGED inputs
  BY DEF Kept
<1>2. TypeOK'
  <2>1. created' \in [Hash -> Content]
    BY <1>1, Forms DEF IInv, TypeOK, IsKind, Content
  <2>2. raised' \in BOOLEAN
    BY <1>1 DEF IInv, TypeOK
  <2> QED
    BY <1>1, <2>1, <2>2 DEF IInv, TypeOK
<1>3. Testing'
  BY <1>1, KeptTesting DEF IInv
<1>4. Deduped'
  BY <1>1 DEF IInv, Deduped, Kept, Payloads, Bytes
<1>5. Creating'
  <2> SUFFICES ASSUME ~raised' PROVE Creating'
    BY DEF Creating
  <2>1. h \in todo /\ todo' = todo \ {h}
    OBVIOUS
  <2>2. CASE IsKind(inputs[h], "accepted") /\ ~raised
             /\ created' = [created EXCEPT ![h] = Created(inputs[h].of)]
    BY <1>1, <2>1, <2>2 DEF IInv, TypeOK, Creating, Kept, IsKind
  <2>3. CASE ~IsKind(inputs[h], "accepted") /\ ~raised /\ UNCHANGED created
    BY <1>1, <2>1, <2>3 DEF IInv, TypeOK, Creating, Kept, IsKind
  <2> QED
    BY <2>2, <2>3 DEF IInv, TypeOK, IsKind
<1>6. NoInputIsLost'
  <2>1. Accepted' \subseteq Payloads(files)'
    BY DEF Accepted
  <2>2. Payloads(files)' \subseteq Payloads(inputs)'
    BY <1>1, <1>4 DEF Deduped
  <2> QED
    BY <2>1, <2>2 DEF NoInputIsLost
<1> QED
  BY <1>1, <1>2, <1>3, <1>4, <1>5, <1>6 DEF IInv, Downloading, Deduping, Clearing,
     Removing, Copying, Replaced

LEMMA AbortIInv == ASSUME IInv, Abort PROVE IInv'
<1>1. TypeOK'
  BY DEF IInv, TypeOK, Abort, Ends
<1>2. phase' = "aborted" /\ Kept /\ UNCHANGED <<inputs, created>>
  BY DEF Abort, Kept
<1>3. Testing'
  BY <1>2, KeptTesting DEF IInv
<1>4. NoInputIsLost'
  BY <1>2 DEF IInv, Abort, NoInputIsLost, PastDownload, Kept, Accepted, Payloads
<1> QED
  BY <1>1, <1>2, <1>3, <1>4 DEF IInv, Downloading, Deduping, Deduped, Clearing, Creating,
     Removing, Copying, Replaced

LEMMA CreationDoneIInv == ASSUME IInv, CreationDone PROVE IInv'
<1>1. TypeOK'
  BY DEF IInv, TypeOK, CreationDone, Proceed, Names, Stages
<1>2. /\ phase = "create" /\ todo = {} /\ phase' = "remove" /\ todo' = Names(inputs)
      /\ Kept /\ UNCHANGED <<inputs, created, raised>> /\ ~raised
  BY DEF CreationDone, Proceed, Kept
<1>3. Testing'
  BY <1>2, KeptTesting DEF IInv
<1>4. NoInputIsLost'
  BY <1>2 DEF IInv, NoInputIsLost, PastDownload, Kept, Accepted, Payloads
<1>5. /\ \A h \in Hash :
            created[h] = IF IsKind(inputs[h], "accepted") THEN Created(inputs[h].of) ELSE Absent
      /\ \A h \in Hash : inputs[h] \in {files[h], Absent}
      /\ Payloads(files) \subseteq Payloads(inputs)
      /\ \A g, h \in Hash :
            inputs[g] \in Whole /\ Bytes(inputs[g]) = Bytes(inputs[h]) => g = h
  BY <1>2 DEF IInv, Creating, Deduped
<1>6. FromFiles(created)
  BY <1>5, Forms DEF FromFiles, IsKind
<1>7. Accepted \subseteq Payloads(created)
  <2> SUFFICES ASSUME NEW p \in Accepted PROVE p \in Payloads(created)
    OBVIOUS
  <2>1. p \in Payloads(inputs) /\ world.kind[p] = "accepted"
    BY <1>5 DEF Accepted
  <2>2. PICK h \in Hash : inputs[h] \in Whole /\ inputs[h].of = p
    BY <2>1 DEF Payloads
  <2>3. created[h] = Created(p) /\ p \in Payload
    BY <1>5, <2>1, <2>2, Forms DEF IsKind
  <2> QED
    BY <2>3, Forms DEF Payloads
<1>8. Distinct(created)
  <2> SUFFICES ASSUME NEW g \in Names(created), NEW h \in Names(created),
                      Bytes(files[g]) = Bytes(files[h])
               PROVE  g = h
    BY DEF Distinct
  <2>1. g \in Hash /\ h \in Hash /\ IsKind(inputs[g], "accepted") /\ IsKind(inputs[h], "accepted")
    BY <1>5 DEF Names
  <2>2. inputs[g] \in Whole /\ inputs[g] = files[g] /\ inputs[h] = files[h]
    BY <1>5, <2>1, Forms DEF IsKind
  <2> QED
    BY <1>5, <2>1, <2>2
<1>9. Removing'
  BY <1>2, <1>6, <1>7, <1>8 DEF Removing, Replacement, FromFiles, Distinct, IsKind, Bytes,
     Accepted, Payloads, Names, Kept
<1> QED
  BY <1>1, <1>2, <1>3, <1>4, <1>9 DEF IInv, Downloading, Deduping, Deduped, Clearing, Creating,
     Copying, Replaced

-----------------------------------------------------------------------------
\* While inputs/ is replaced, create_fixtures/ is what keeps the payloads.
LEMMA RemoveInputIInv == ASSUME IInv, NEW h \in Hash, RemoveInput(h) PROVE IInv'
<1> USE DEF RemoveInput, Handle
<1>1. TypeOK'
  BY DEF IInv, TypeOK, Content
<1>2. /\ phase = "remove" /\ phase' = phase /\ todo' = todo \ {h}
      /\ inputs' = [inputs EXCEPT ![h] = Absent]
      /\ Kept /\ UNCHANGED <<created, raised>>
  BY DEF Kept
<1>3. Testing'
  BY <1>2, KeptTesting DEF IInv
<1>4. Removing'
  <2>1. Replacement(created)'
    BY <1>2 DEF IInv, Removing, Replacement, FromFiles, Distinct, IsKind, Bytes, Accepted,
       Payloads, Names, Kept
  <2>2. (Names(inputs) \subseteq todo /\ ~raised)'
    BY <1>2 DEF IInv, TypeOK, Removing, Names
  <2> QED
    BY <2>1, <2>2 DEF Removing
<1>5. NoInputIsLost'
  BY <1>2, <1>4 DEF Removing, Replacement, NoInputIsLost
<1> QED
  BY <1>1, <1>2, <1>3, <1>4, <1>5 DEF IInv, Downloading, Deduping, Deduped, Clearing, Creating,
     Copying, Replaced

LEMMA RemovedIInv == ASSUME IInv, Removed PROVE IInv'
<1>1. TypeOK'
  BY DEF IInv, TypeOK, Removed, Proceed, Names, Stages
<1>2. /\ phase = "remove" /\ todo = {} /\ phase' = "copy" /\ todo' = Names(created)
      /\ Kept /\ UNCHANGED <<inputs, created, raised>>
  BY DEF Removed, Proceed, Kept
<1>3. Testing'
  BY <1>2, KeptTesting DEF IInv
<1>4. Replacement(created)'
  BY <1>2 DEF IInv, Removing, Replacement, FromFiles, Distinct, IsKind, Bytes, Accepted,
     Payloads, Names, Kept
<1>5. \A h \in Hash : h \notin todo' => inputs'[h] = created'[h]
  BY <1>2 DEF IInv, Removing, Names
<1>6. Copying' /\ NoInputIsLost'
  BY <1>4, <1>5 DEF Copying, Replacement, NoInputIsLost
<1> QED
  BY <1>1, <1>2, <1>3, <1>6 DEF IInv, Downloading, Deduping, Deduped, Clearing, Creating,
     Removing, Replaced

LEMMA OpenCopyIInv == ASSUME IInv, NEW h \in Hash, OpenCopy(h) PROVE IInv'
<1> USE DEF OpenCopy
<1>1. TypeOK'
  BY DEF IInv, TypeOK, Content
<1>2. phase = "copy" /\ phase' = phase /\ Kept /\ UNCHANGED <<todo, created, raised>>
  BY DEF Kept
<1>3. Testing'
  BY <1>2, KeptTesting DEF IInv
<1>4. Replacement(created)'
  BY <1>2 DEF IInv, Copying, Replacement, FromFiles, Distinct, IsKind, Bytes, Accepted,
     Payloads, Names, Kept
<1>5. ~raised' => \A k \in Hash : k \notin todo' => inputs'[k] = created'[k]
  BY <1>2 DEF IInv, TypeOK, Copying
<1>6. Copying' /\ NoInputIsLost'
  BY <1>4, <1>5 DEF Copying, Replacement, NoInputIsLost
<1> QED
  BY <1>1, <1>2, <1>3, <1>6 DEF IInv, Downloading, Deduping, Deduped, Clearing, Creating,
     Removing, Replaced

LEMMA WriteCopyIInv == ASSUME IInv, NEW h \in Hash, WriteCopy(h) PROVE IInv'
<1> USE DEF WriteCopy, Handle
<1>1. TypeOK'
  BY DEF IInv, TypeOK
<1>2. phase = "copy" /\ phase' = phase /\ Kept /\ UNCHANGED created
  BY DEF Kept
<1>3. Testing'
  BY <1>2, KeptTesting DEF IInv
<1>4. Replacement(created)'
  BY <1>2 DEF IInv, Copying, Replacement, FromFiles, Distinct, IsKind, Bytes, Accepted,
     Payloads, Names, Kept
<1>5. ~raised' => \A k \in Hash : k \notin todo' => inputs'[k] = created'[k]
  <2> SUFFICES ASSUME ~raised', NEW k \in Hash, k \notin todo'
               PROVE  inputs'[k] = created'[k]
    OBVIOUS
  <2>1. ~raised /\ inputs' = [inputs EXCEPT ![h] = created[h]]
    OBVIOUS
  <2> QED
    BY <1>2, <2>1 DEF IInv, TypeOK, Copying
<1>6. Copying' /\ NoInputIsLost'
  BY <1>4, <1>5 DEF Copying, Replacement, NoInputIsLost
<1> QED
  BY <1>1, <1>2, <1>3, <1>6 DEF IInv, Downloading, Deduping, Deduped, Clearing, Creating,
     Removing, Replaced

LEMMA CopiedIInv == ASSUME IInv, Copied PROVE IInv'
<1>1. TypeOK'
  BY DEF IInv, TypeOK, Copied, Proceed, Names, Stages
<1>2. /\ phase = "copy" /\ todo = {} /\ phase' = "discard" /\ ~raised
      /\ Kept /\ UNCHANGED <<inputs, created, raised>>
  BY DEF Copied, Proceed, Kept
<1>3. Testing'
  BY <1>2, KeptTesting DEF IInv
<1>4. inputs = created
  BY <1>2 DEF IInv, TypeOK, Copying
<1>5. Replacement(inputs)'
  BY <1>2, <1>4 DEF IInv, Copying, Replacement, FromFiles, Distinct, IsKind, Bytes, Accepted,
     Payloads, Names, Kept
<1>6. Replaced' /\ NoInputIsLost'
  BY <1>2, <1>5 DEF Replaced, Replacement, NoInputIsLost
<1> QED
  BY <1>1, <1>2, <1>3, <1>6 DEF IInv, Downloading, Deduping, Deduped, Clearing, Creating,
     Removing, Copying

LEMMA DiscardedIInv == ASSUME IInv, Discarded PROVE IInv'
<1>1. TypeOK'
  BY DEF IInv, TypeOK, Discarded, Proceed, Stages
<1>2. /\ phase = "discard" /\ phase' = "test" /\ tested' = inputs
      /\ UNCHANGED <<world, files, inputs, created, raised>>
  BY DEF Discarded, Proceed
<1>3. Replacement(inputs)' /\ Replacement(tested)'
  BY <1>2 DEF IInv, Replaced, Replacement, FromFiles, Distinct, IsKind, Bytes, Accepted,
     Payloads, Names
<1>4. Replaced' /\ Testing' /\ NoInputIsLost'
  BY <1>2, <1>3 DEF IInv, Replaced, Testing, Replacement, NoInputIsLost
<1> QED
  BY <1>1, <1>2, <1>4 DEF IInv, Downloading, Deduping, Deduped, Clearing, Creating,
     Removing, Copying

LEMMA RunTestsIInv == ASSUME IInv, RunTests PROVE IInv'
<1>1. TypeOK'
  BY DEF IInv, TypeOK, RunTests, Proceed, Ends
<1>2. /\ phase = "test" /\ phase' = "done" /\ Kept /\ UNCHANGED <<inputs, created>>
  BY DEF RunTests, Proceed, Kept
<1>3. Testing'
  BY <1>2, KeptTesting DEF IInv
<1>4. NoInputIsLost'
  BY <1>2 DEF IInv, NoInputIsLost, PastDownload, Kept, Accepted, Payloads
<1> QED
  BY <1>1, <1>2, <1>3, <1>4 DEF IInv, Downloading, Deduping, Deduped, Clearing, Creating,
     Removing, Copying, Replaced

-----------------------------------------------------------------------------
LEMMA KillIInv == ASSUME IInv, Kill PROVE IInv'
<1>1. PICK open \in SUBSET (todo \ Names(inputs)) :
         /\ open # {} => phase = "download"
         /\ inputs' = [h \in Hash |-> IF h \in open THEN Torn ELSE inputs[h]]
  BY DEF Kill
<1>2. phase' = "killed" /\ Kept /\ UNCHANGED <<session, todo, created, seen, raised>>
  BY DEF Kill, Kept
<1>3. TypeOK'
  BY <1>1, <1>2 DEF IInv, TypeOK, Kept, Content, Ends
<1>4. Testing'
  BY <1>2, KeptTesting DEF IInv
<1>5. NoInputIsLost'
  <2>1. CASE phase = "download"
    BY <1>2, <2>1 DEF IInv, Downloading, NoInputIsLost, PastDownload, Kept, Empty
  <2>2. CASE phase # "download"
    <3>1. inputs' = inputs
      BY <1>1, <2>2 DEF IInv, TypeOK
    <3>2. phase # "failed"
      BY DEF Kill, Stages
    <3> QED
      BY <1>2, <2>2, <3>1, <3>2 DEF IInv, NoInputIsLost, PastDownload, Kept, Accepted, Payloads,
         Empty
  <2> QED
    BY <2>1, <2>2
<1> QED
  BY <1>2, <1>3, <1>4, <1>5 DEF IInv, Downloading, Deduping, Deduped, Clearing, Creating,
     Removing, Copying, Replaced

LEMMA RerunIInv == ASSUME IInv, Rerun PROVE IInv'
<1>1. Empty \in [Hash -> Content]
  BY DEF Empty, Content
<1>2. session + 1 \in 1..Len(world.asked)
  BY WorldTypes DEF IInv, TypeOK, Rerun
<1>3. todo' \in SUBSET Hash
  BY <1>2, WorldTypes DEF IInv, TypeOK, Rerun
<1>4. phase' \in Stages \cup Ends
  BY DEF Rerun, Stages
<1>5. TypeOK'
  <2>1. session' \in Nat \ {0}
    BY <1>2 DEF IInv, TypeOK, Rerun
  <2>2. files' \in [Hash -> Content] /\ tested' \in [Hash -> Content] /\ raised' \in BOOLEAN
    BY <1>1 DEF Rerun
  <2>3. UNCHANGED <<world, inputs, created, seen>>
    BY DEF Rerun
  <2> QED
    BY <1>3, <1>4, <2>1, <2>2, <2>3 DEF IInv, TypeOK
<1>6. /\ phase' = "download" /\ ~raised'
      /\ files' = [h \in Hash |-> Absent] /\ tested' = [h \in Hash |-> Absent]
  BY DEF Rerun, Empty
<1>7. Downloading' /\ Testing' /\ NoInputIsLost'
  BY <1>6 DEF Downloading, Testing, NoInputIsLost, PastDownload, Empty
<1> QED
  BY <1>5, <1>6, <1>7 DEF IInv, Deduping, Deduped, Clearing, Creating, Removing, Copying, Replaced

LEMMA StutterIInv == ASSUME IInv, UNCHANGED vars PROVE IInv'
<1> USE DEF vars
<1>1. Kept
  BY DEF Kept
<1>2. Downloading' /\ Clearing'
  BY DEF IInv, Downloading, Clearing, Names, Empty
<1>3. Testing'
  BY <1>1, KeptTesting DEF IInv
<1>4. Deduping' /\ Deduped'
  <2>1. Deduping'
    BY DEF IInv, Deduping, Payloads, Bytes
  <2>2. Deduped'
    BY DEF IInv, Deduped, Payloads, Bytes
  <2> QED
    BY <2>1, <2>2
<1>5. Creating'
  BY DEF IInv, Creating, IsKind
<1>6. Removing' /\ Copying' /\ Replaced'
  <2>1. (Replacement(created) => Replacement(created)') /\ (Replacement(inputs) => Replacement(inputs)')
    BY DEF Replacement, FromFiles, Distinct, IsKind, Bytes, Accepted, Payloads, Names
  <2> QED
    BY <2>1 DEF IInv, Removing, Copying, Replaced, Names
<1>7. NoInputIsLost'
  BY DEF IInv, NoInputIsLost, PastDownload, Accepted, Payloads, Empty
<1>8. TypeOK'
  BY DEF IInv, TypeOK
<1> QED
  BY <1>2, <1>3, <1>4, <1>5, <1>6, <1>7, <1>8 DEF IInv

LEMMA NextIInv == IInv /\ [Next]_vars => IInv'
BY IndexFailsIInv, DownloadIInv, DownloadDoneIInv, DedupeIInv, DedupeDoneIInv,
   RemoveCreatedIInv, ClearedIInv, CreateIInv, AbortIInv, CreationDoneIInv,
   RemoveInputIInv, RemovedIInv, OpenCopyIInv, WriteCopyIInv, CopiedIInv, DiscardedIInv,
   RunTestsIInv, KillIInv, RerunIInv, StutterIInv DEF Next

\* Every step of every session keeps to what the stages promise each other.
THEOREM Invariance == Spec => []IInv
BY InitIInv, NextIInv, PTL DEF Spec

\* test_suite.py:1420-1587.  The directories hold names and contents of files.
THEOREM TypeCorrect == Spec => []TypeOK
<1>1. IInv => TypeOK
  BY DEF IInv
<1> QED
  BY <1>1, Invariance, PTL

(***************************************************************************)
(* util.py:201-222 and test_suite.py:1564-1569.  What run_tests is given   *)
(* is a replacement: fixtures created from the files that were found, one  *)
(* for every accepted payload, and of files with the same bytes one.       *)
(***************************************************************************)
LEMMA Tests == IInv => TestedIsCreated /\ TestedIsWhatWasFound /\ TestedOnce
<1> SUFFICES ASSUME IInv PROVE TestedIsCreated /\ TestedIsWhatWasFound /\ TestedOnce
  OBVIOUS
<1>1. CASE tested = Empty /\ phase \notin {"test", "done"}
  BY <1>1 DEF TestedIsCreated, TestedIsWhatWasFound, TestedOnce, Names, Empty
<1>2. CASE Replacement(tested)
  <2>1. \A h \in Names(tested) :
           /\ h \in Hash /\ files[h] \in Whole /\ files[h].of \in Payload
           /\ world.kind[files[h].of] = "accepted" /\ tested[h] = Created(files[h].of)
    BY <1>2, Forms DEF Replacement, FromFiles, IsKind, Names
  <2>2. TestedIsCreated
    BY <2>1 DEF TestedIsCreated
  <2>3. Payloads(tested) \subseteq Accepted
    <3> SUFFICES ASSUME NEW h \in Hash, tested[h] \in Whole
                 PROVE  tested[h].of \in Accepted
      BY DEF Payloads
    <3>1. h \in Names(tested)
      BY Forms DEF Names
    <3> QED
      BY <2>1, <3>1, Forms DEF Accepted, Payloads
  <2> QED
    BY <1>2, <2>2, <2>3 DEF Replacement, Distinct, TestedIsWhatWasFound, TestedOnce
<1> QED
  BY <1>1, <1>2 DEF IInv, Testing

\* Only whole fixtures with the reference's effects are tested.
THEOREM TestedIsCreatedHolds == Spec => []TestedIsCreated
BY Tests, Invariance, PTL

\* Every accepted payload that was there after the download is tested, and no other.
THEOREM TestedIsWhatWasFoundHolds == Spec => []TestedIsWhatWasFound
BY Tests, Invariance, PTL

\* No two files with the same bytes are both tested.
THEOREM TestedOnceHolds == Spec => []TestedOnce
BY Tests, Invariance, PTL

\* A session that ends anywhere leaves each accepted payload in a directory.
THEOREM NoInputIsLostHolds == Spec => []NoInputIsLost
<1>1. IInv => NoInputIsLost
  BY DEF IInv
<1> QED
  BY <1>1, Invariance, PTL

=============================================================================
