----------------------------- MODULE FileCommands ----------------------------
(***************************************************************************)
(* The commands that turn files into files: create-fixtures, fix-to-ctx,   *)
(* decode-protobufs, regenerate-fixtures and mass-regenerate-fixtures; and *)
(* those that only answer: exec-fixtures, execute and validate-fixtures.   *)
(* Each clears its output folder, hands every input file to a handler on a *)
(* pool of processes (WorkerPool), and adds up the answers.                *)
(*                                                                         *)
(* A library is external: the effects of a context are a function of the   *)
(* context and its features, and some contexts are rejected.  What a       *)
(* handler reads and computes is one step; opening and writing its output  *)
(* file are steps of their own, for another process may have the same name.*)
(***************************************************************************)
EXTENDS FlatElf, Features

CONSTANTS
    Worlds,         \* a command line, its input files, and the libraries
    FixtureNames,   \* names that begin with "fixtures"
    Width           \* --num-processes

ASSUME FileCommandsAssumption == Width \in Nat \ {0}

(***************************************************************************)
(* The options each command has; the others keep their defaults.  single:  *)
(* --input is a file; harness: --default-harness-type; byProgram:          *)
(* --group-by-program; formatValid: what --output-format is.               *)
(***************************************************************************)
Defaults ==
    [single |-> FALSE, debugMode |-> FALSE, harness |-> "InstrHarness", formatValid |-> TRUE,
     readable |-> FALSE, byProgram |-> FALSE, keepPassing |-> FALSE,
     dryRun |-> FALSE, add |-> {}, remove |-> {}, rekey |-> << >>]

ExecuteOptions == {"single", "harness"}
ValidateOptions == {"single"}
FixToCtxOptions == {"single", "debugMode"}
DecodeOptions == {"single", "debugMode", "harness"}
CreateOptions == {"single", "debugMode", "harness", "formatValid",
                  "readable", "byProgram", "keepPassing"}
ExecOptions == {"single", "debugMode"}
MassOptions == {"debugMode", "dryRun", "add", "remove", "rekey"}
RegenerateOptions == MassOptions \cup {"single"}

Mass == "mass-regenerate-fixtures"
Regenerations == {"regenerate-fixtures", Mass}

\* Commands without an output directory, and without a pool.
ReadOnly == {"execute", "validate-fixtures"}

Commands == ReadOnly \cup Regenerations
               \cup {"fix-to-ctx", "decode-protobufs", "create-fixtures", "exec-fixtures"}

OptionsOf(command) ==
    CASE command = "execute" -> ExecuteOptions
      [] command = "validate-fixtures" -> ValidateOptions
      [] command = "fix-to-ctx" -> FixToCtxOptions
      [] command = "decode-protobufs" -> DecodeOptions
      [] command = "create-fixtures" -> CreateOptions
      [] command = "exec-fixtures" -> ExecOptions
      [] command = Mass -> MassOptions
      [] command = "regenerate-fixtures" -> RegenerateOptions

ASSUME WorldsAssumption ==
    \A w \in Worlds : \A o \in DOMAIN Defaults \ OptionsOf(w.command) : w[o] = Defaults[o]

VARIABLES
    world,
    phase,      \* begin, folder, tasks; returned, raised, exited, refused
    folders,    \* input folders still to be done
    current,    \* the one being done
    task,       \* input file -> what its handler answers, and how far it is
    output,     \* path -> content, of the files in the output directory
    count,      \* the sum of the answers that is printed, of all folders
    verdict     \* what the command returns

vars == <<world, phase, folders, current, task, output, count, verdict>>

Root == << >>

\* Context files of any harness, and fixtures.
Supported(f) == f.suffix \in {"fix", "ctx"}

Below(folder, path) == IsPrefix(folder, path)

\* A file of the output directory.
PathOf(folder, stem, ext) == [folder |-> folder, stem |-> stem, ext |-> ext]

NoEffects == [of |-> << >>, under |-> << >>]

Content(what, harness, context, features, effects) ==
    [what |-> what, harness |-> harness, context |-> context,
     features |-> features, effects |-> effects]
Debris(what) == Content(what, NoHarness, << >>, << >>, NoEffects)

(***************************************************************************)
(* What the worlds are made of.  What an earlier run left is marked "old". *)
(* Printable text never looks like FlatBuffers: its first four bytes are a *)
(* root beyond 1024.                                                       *)
(***************************************************************************)
ASSUME FilesAssumption ==
    \A w \in Worlds :
        /\ w.command \in Commands
        /\ w.add \in SUBSET STRING /\ w.rekey \in Seq(STRING \X STRING)
        /\ \A p \in DOMAIN w.before : p.folder \in Seq(STRING) /\ w.before[p] = Debris("old")
        /\ IsFiniteSet(w.files)
        /\ \A f \in w.files :
              /\ f.folder \in Seq(STRING)
              /\ f.features \in Seq(SUBSET STRING) /\ Len(f.features) <= 1
              /\ f.body = "text" => DetectFormat(f) # "flatbuffers"
              /\ IF f.body = "text" THEN IsText(f.context) ELSE IsContext(f.context)

\* What a library returns for a context it does not reject.
Rejects(context) == context \in world.rejected
Execute(context, features) == [of |-> context, under |-> features]

-----------------------------------------------------------------------------
(***************************************************************************)
(* What a handler answers: an exception, None, or a number that is counted *)
(* (dry is the 1 of a run that writes nothing); and the file it writes.    *)
(***************************************************************************)
NoPath == PathOf(Root, "none", "none")
Only(answer) == [answer |-> answer, to |-> NoPath, content |-> Debris("nothing")]
Written(path, content) == [answer |-> "written", to |-> path, content |-> content]

-----------------------------------------------------------------------------
(***************************************************************************)
(* Faulty variants, exchanged for the definition they are named after to   *)
(* show that a property is able to fail; nothing else uses them.           *)
(***************************************************************************)
\* the new id is added whether or not the old one was there
FaultyRekey(ids, pair) == (ids \ {pair[1]}) \cup {pair[2]}

\* the files of earlier runs stay
FaultyCleared(folder) == output

\* files in folders below the input are left out
FaultyInputs(folder) == {f \in world.files : f.folder = folder /\ Supported(f)}

-----------------------------------------------------------------------------
(***************************************************************************)
(* The feature set of a regenerated fixture.  Pairs are applied in turn.   *)
(***************************************************************************)
Rekey(ids, pair) ==
    IF pair[1] \in ids THEN (ids \ {pair[1]}) \cup {pair[2]} ELSE ids

Rekeyed(ids, pairs) ==
    LET after[k \in 0..Len(pairs)] ==
            IF k = 0 THEN ids ELSE Rekey(after[k - 1], pairs[k])
    IN after[Len(pairs)]

ComputeNewFeatureSet(original) ==
    Rekeyed((original \cup world.add) \ world.remove, world.rekey)

\* f.features: the one feature set of a context, << >> of one that has none.
NewFeatures(f) == [i \in DOMAIN f.features |-> ComputeNewFeatureSet(f.features[i])]

-----------------------------------------------------------------------------
\* The program a fixture is filed under; other contexts name no program.
GetProgramType(f) ==
    IF f.program # "unknown" THEN <<f.program>>
    ELSE IF f.owner # "unknown" THEN <<f.owner, "programs">>
    ELSE <<"unknown">>

\* fd58 refuses the program's address, or the owner asked for in its place.
NoProgramType(f, context) ==
    \/ "program_id" \notin DOMAIN context
    \/ Enc32(context["program_id"].of) = Malformed
    \/ f.program = "unknown" /\ f.owner = "malformed"

(***************************************************************************)
(* write_fixture_to_disk.  The readable form and the program are those of  *)
(* an instruction, whatever the harness is, and the format asked for and   *)
(* that of the source change nothing.                                      *)
(***************************************************************************)
WriteFixtureToDisk(out, f, content) ==
    LET folder == out \o (IF world.byProgram THEN GetProgramType(f) ELSE << >>)
        text == HumanEncode(content.harness, content.context)
    IN IF \/ (world.readable \/ world.byProgram) /\ content.harness # "InstrHarness"
          \/ world.byProgram /\ NoProgramType(f, content.context)
          \/ world.readable /\ Raises(text)
       THEN Only("raises")
       ELSE IF world.readable
       THEN Written(PathOf(folder, f.stem, "fix.txt"),
                    Content("readable", content.harness, text, content.features, content.effects))
       ELSE Written(PathOf(folder, f.stem, "fix"), content)

\* create_fixture_from_context, and the fixture written if there is one.
CreateFixtureFromContext(out, f, harness, context, features) ==
    IF harness \in ScalarHarnesses THEN Only("raises")
    ELSE IF Rejects(context) \/ (world.keepPassing /\ context \in world.disagree)
    THEN Only("skipped")
    ELSE WriteFixtureToDisk(out, f, Content("fixture", harness, context, features,
                                       Execute(context, features)))

CreateFixture(out, f) ==
    CASE f.suffix = "fix" /\ ~ReadsFixture(f) -> Only("raises")
      [] f.suffix = "fix" /\ ReadsFixture(f) ->
           CreateFixtureFromContext(out, f, HarnessOf(f), f.context, f.features)
      [] f.suffix # "fix" /\ ~ReadsContext(world.harness, f) -> Only("skipped")
      [] OTHER ->
           CreateFixtureFromContext(out, f, world.harness, ContextOf(world.harness, f), f.features)

(***************************************************************************)
(* extract_context_from_fixture: whatever goes wrong is a 0, after the     *)
(* output file was opened if the input is not a message.                   *)
(***************************************************************************)
ExtractContextFromFixture(f) ==
    LET path == PathOf(Root, f.stem, "bin")
    IN CASE HarnessOf(f) = NoHarness -> Only("skipped")
         [] HarnessOf(f) \in ScalarHarnesses ->
              [answer |-> "skipped", to |-> path, content |-> Debris("empty")]
         [] OTHER ->
              Written(path, Content("context", HarnessOf(f), f.context, f.features, NoEffects))

\* decode_single_test_case: a file that cannot be read raises.
DecodeSingleTestCase(f) ==
    LET isFixture == f.suffix = "fix"
        harness == IF isFixture THEN HarnessOf(f) ELSE world.harness
        reads == IF isFixture THEN ReadsFixture(f) ELSE ReadsContext(harness, f)
        text == HumanEncode(harness, ContextOf(harness, f))
    IN IF ~reads \/ Raises(text) THEN Only("raises")
       ELSE Written(PathOf(Root, f.stem, "txt"),
                    Content(IF isFixture THEN "readable" ELSE "text",
                            harness, text, f.features, NoEffects))

(***************************************************************************)
(* A FlatBuffers fixture of the ELF loader is never a message: its context *)
(* is built again for the v2 entrypoint, and features that are not there   *)
(* become an empty list.                                                   *)
(***************************************************************************)
ExtractFbFeatures(f) == IF f.features = << >> THEN {} ELSE f.features[1]

ExtractFbContext(f) == [elf |-> f.context, features |-> ExtractFbFeatures(f)]

ExtractFbEffects(f) == IF f.effects = NoEffects THEN << >> ELSE <<f.effects>>

\* None (<< >>) of a library that rejects, or has no v2 entrypoint.
ProcessTargetRaw(entrypoint, ctx) ==
    IF EntrypointToV2(entrypoint) \in world.exports /\ ~Rejects(ctx.elf)
    THEN <<Execute(ctx.elf, <<ctx.features>>)>> ELSE << >>

BuildFbFixture(ctx, effects) ==
    Content("flatbuffers", NoHarness, ctx.elf, <<ctx.features>>, effects)

IsNative(f) == DetectFormat(f) = "flatbuffers" /\ FlatbuffersAvailable

RegenerateFbFixture(out, f) ==
    LET ctx == [ExtractFbContext(f) EXCEPT !.features = ComputeNewFeatureSet(@)]
        effects == ProcessTargetRaw(f.entrypoint, ctx)
    IN CASE world.dryRun -> Only("dry")
         [] ~world.dryRun /\ effects = << >> -> Only("skipped")
         [] ~world.dryRun /\ effects # << >> ->
              Written(PathOf(out, f.stem, "fix"), BuildFbFixture(ctx, effects[1]))

ExecuteFbFixture(f) ==
    LET expected == ExtractFbEffects(f)
        actual == ProcessTargetRaw(f.entrypoint, ExtractFbContext(f))
    IN Only(IF expected = << >> THEN "skipped"
            ELSE IF actual = expected THEN "passed" ELSE "failed")

\* Messages with one FeatureSet somewhere in the context.
HasFeatureSet(harness) == harness # "GossipHarness"

Regenerated(out, f, features) ==
    CreateFixtureFromContext(out, f, HarnessOf(f), f.context, features)

RegenerateFixture(out, f) ==
    CASE IsNative(f) -> RegenerateFbFixture(out, f)
      [] ~IsNative(f) /\ ~ReadsFixture(f) -> Only("raises")
      [] ~IsNative(f) /\ HarnessOf(f) \in ScalarHarnesses -> Only("None")
      [] ~IsNative(f) /\ HarnessOf(f) \in Harnesses \ ScalarHarnesses ->
           CASE ~HasFeatureSet(HarnessOf(f)) -> Only("raises")
             [] HasFeatureSet(HarnessOf(f)) /\ world.dryRun -> Only("dry")
             [] OTHER -> Regenerated(out, f, NewFeatures(f))

(***************************************************************************)
(* execute_fixture: the effects recorded against those returned.  Of a     *)
(* file that is no fixture it returns a pair, which nobody can unpack.     *)
(***************************************************************************)
ExecuteFixture(f) ==
    CASE f.suffix # "fix" -> Only("pair")
      [] f.suffix = "fix" /\ IsNative(f) -> ExecuteFbFixture(f)
      [] OTHER ->
           IF ~ReadsFixture(f) \/ HarnessOf(f) \in ScalarHarnesses THEN Only("raises")
           ELSE Only(IF ~Rejects(f.context) /\ Execute(f.context, f.features) = f.effects
                     THEN "passed" ELSE "failed")

\* One file of execute: a context that cannot be read is tried as a fixture.
ExecuteFile(f) ==
    IF f.suffix # "fix" /\ ReadsContext(world.harness, f)
    THEN Only(IF Rejects(ContextOf(world.harness, f)) THEN "rejected" ELSE "executed")
    ELSE IF ~ReadsFixture(f) \/ HarnessOf(f) \in ScalarHarnesses THEN Only("raises")
    ELSE Only(IF Rejects(f.context) THEN "rejected" ELSE "executed")

ValidateFile(f) == Only(IF LoadedAs(f) = "invalid" THEN "invalid" ELSE "valid")

Handler(out, f) ==
    CASE world.command = "create-fixtures" -> CreateFixture(out, f)
      [] world.command = "fix-to-ctx" -> ExtractContextFromFixture(f)
      [] world.command = "decode-protobufs" -> DecodeSingleTestCase(f)
      [] world.command \in Regenerations ->
           RegenerateFixture(out, f)
      [] world.command = "exec-fixtures" -> ExecuteFixture(f)
      [] world.command = "execute" -> ExecuteFile(f)
      [] world.command = "validate-fixtures" -> ValidateFile(f)

-----------------------------------------------------------------------------
(***************************************************************************)
(* The commands.                                                           *)
(***************************************************************************)
\* A folder with files at or below <harness>/fixtures... is regenerated.
IsFixtureFolder(folder) == Len(folder) >= 2 /\ folder[2] \in FixtureNames

RegenerateFolders == {f.folder : f \in {x \in world.files : IsFixtureFolder(x.folder)}}

\* copy_files_excluding_fixture_files
CopiedPath(f) == PathOf(f.folder, f.stem, f.suffix)
Copied ==
    LET others == {f \in world.files : ~IsFixtureFolder(f.folder)}
    IN [p \in {CopiedPath(f) : f \in others} |-> Debris("copied")]

\* Extensions are looked for at every depth, by validate-fixtures at the first.
Inputs(folder) ==
    {f \in world.files :
        /\ IsPrefix(folder, f.folder)
        /\ Supported(f)
        /\ world.command = "validate-fixtures" => f.folder = folder}

\* What rmtree of a folder leaves.
Cleared(folder) ==
    [p \in {q \in DOMAIN output : ~IsPrefix(folder, q.folder)} |-> output[p]]

Given(files) == [f \in files |-> [at |-> "waiting", does |-> Only("nothing")]]

Init ==
    /\ world \in Worlds
    /\ phase = "begin"
    /\ folders = {}
    /\ current = Root
    /\ task = << >>
    /\ output = world.before
    /\ count = 0
    /\ verdict = FALSE

\* create-fixtures looks at --output-format before it clears anything.
Refuse ==
    /\ phase = "begin"
    /\ world.command = "create-fixtures"
    /\ ~world.formatValid
    /\ phase' = "refused"
    /\ UNCHANGED <<world, folders, current, task, output, count, verdict>>

Begin ==
    /\ phase = "begin"
    /\ world.command = "create-fixtures" => world.formatValid
    /\ IF world.command = Mass
       THEN /\ output' = Copied
            /\ folders' = RegenerateFolders
       ELSE /\ output' = IF world.command \in ReadOnly THEN output ELSE Cleared(Root)
            /\ folders' = {Root}
    /\ phase' = "folder"
    /\ UNCHANGED <<world, current, task, count, verdict>>

\* The folders are a set: any of them is next.
NextFolder(folder) ==
    /\ phase = "folder"
    /\ folder \in folders
    /\ folders' = folders \ {folder}
    /\ current' = folder
    /\ output' = IF world.command = Mass THEN Cleared(folder) ELSE output
    /\ task' = Given(IF world.single THEN world.files ELSE Inputs(folder))
    /\ phase' = "tasks"
    /\ UNCHANGED <<world, count, verdict>>

-----------------------------------------------------------------------------
Serial == world.debugMode \/ world.command \in ReadOnly

At(state) == {f \in DOMAIN task : task[f].at = state}
Answered == [f \in At("settled") |-> task[f].does.answer]

\* In the parent process the first exception ends the command.
Stopped == Serial /\ \E f \in DOMAIN Answered : Answered[f] = "raises"

\* A worker takes a file, reads it, calls the libraries.
Take(f) ==
    /\ phase = "tasks"
    /\ f \in At("waiting")
    /\ Cardinality(At("opening") \cup At("writing")) < IF Serial THEN 1 ELSE Width
    /\ ~Stopped
    /\ LET does == Handler(current, f)
       IN task' = [task EXCEPT ![f] =
             [at |-> IF does.to = NoPath THEN "settled" ELSE "opening", does |-> does]]
    /\ UNCHANGED <<world, phase, folders, current, output, count, verdict>>

Put(path, content) ==
    [p \in DOMAIN output \cup {path} |-> IF p = path THEN content ELSE output[p]]

\* open(..., "w") empties the file of that name.
Open(f) ==
    /\ phase = "tasks"
    /\ f \in At("opening")
    /\ output' = Put(task[f].does.to, Debris("empty"))
    /\ task' = [task EXCEPT ![f].at = "writing"]
    /\ UNCHANGED <<world, phase, folders, current, count, verdict>>

\* Over what another process wrote meanwhile, a shorter text leaves its end.
Write(f) ==
    /\ phase = "tasks"
    /\ f \in At("writing")
    /\ \E content \in
             {task[f].does.content} \cup
             (IF output[task[f].does.to] \in {Debris("empty"), task[f].does.content}
              THEN {} ELSE {Debris("mixed")}) :
          output' = [output EXCEPT ![task[f].does.to] = content]
    /\ task' = [task EXCEPT ![f].at = "settled"]
    /\ UNCHANGED <<world, phase, folders, current, count, verdict>>

\* A library crashes its process: the pool is broken, or the command is dead.
Die ==
    /\ phase = "tasks"
    /\ At("settled") # DOMAIN task
    /\ ~Stopped
    /\ phase' = "exited"
    /\ UNCHANGED <<world, folders, current, task, output, count, verdict>>

Counted(answers) == Cardinality({f \in DOMAIN answers : answers[f] \in {"written", "dry"}})

Some(answers, what) == \E f \in DOMAIN answers : answers[f] = what

CreateReturns(answers) == Counted(answers) > 0
ExecReturns(answers) ==
    Some(answers, "passed") /\ ~Some(answers, "failed") /\ ~Some(answers, "skipped")
ValidateReturns(answers) == answers # << >> /\ ~Some(answers, "invalid")

Returns(answers) ==
    CASE world.command = "create-fixtures" -> CreateReturns(answers)
      [] world.command = "exec-fixtures" -> ExecReturns(answers)
      [] world.command = "validate-fixtures" -> ValidateReturns(answers)
      [] OTHER -> TRUE

\* An answer that cannot be added up or unpacked is an exception, too.
Unusable == {"raises", "None", "pair"}

FolderDone ==
    /\ phase = "tasks"
    /\ At("settled") = DOMAIN task
    /\ \A f \in DOMAIN Answered : Answered[f] \notin Unusable
    /\ count' = count + Counted(Answered)
    /\ verdict' = Returns(Answered)
    /\ phase' = "folder"
    /\ UNCHANGED <<world, folders, current, task, output>>

Fail ==
    /\ phase = "tasks"
    /\ Stopped \/ At("settled") = DOMAIN task
    /\ \E f \in DOMAIN Answered : Answered[f] \in Unusable
    /\ phase' = "raised"
    /\ UNCHANGED <<world, folders, current, task, output, count, verdict>>

Return ==
    /\ phase = "folder"
    /\ folders = {}
    /\ phase' = "returned"
    /\ verdict' = (verdict \/ world.command = Mass)
    /\ UNCHANGED <<world, folders, current, task, output, count>>

Next ==
    \/ Refuse \/ Begin \/ Die \/ FolderDone \/ Fail \/ Return
    \/ \E folder \in folders : NextFolder(folder)
    \/ \E f \in DOMAIN task : Take(f) \/ Open(f) \/ Write(f)

Spec == Init /\ [][Next]_vars

-----------------------------------------------------------------------------
(***************************************************************************)
(* Properties.                                                             *)
(***************************************************************************)
Works ==
    {w \in (IF world.command = Mass THEN RegenerateFolders ELSE {Root}) \X world.files :
        world.single \/ w[2] \in Inputs(w[1])}

Writers(p) == {w \in Works : Handler(w[1], w[2]).to = p}

Nested == \E a, b \in RegenerateFolders : a # b /\ IsPrefix(a, b)

(***************************************************************************)
(* What a command leaves when it is over, returned or raised: of earlier   *)
(* runs nothing; each file whole, as the handler of one input alone writes *)
(* it, two processes that write to one name excepted (the stem is all that *)
(* is kept of an input's path, fixture_utils.py write_fixture_to_disk).    *)
(* One that returns has written all of them, unless a folder to regenerate *)
(* lies in another, and has counted the files it has read from.            *)
(***************************************************************************)
OutputIsRight ==
    world.command \notin ReadOnly /\ phase \in {"returned", "raised"} =>
        /\ \A p \in DOMAIN output :
              LET writers == Writers(p)
              IN \/ world.command = Mass /\ p \in DOMAIN Copied /\ output[p] = Debris("copied")
                 \/ \E w \in writers : output[p] = Handler(w[1], w[2]).content
                 \/ ~Serial /\ Cardinality(writers) > 1 /\ output[p] = Debris("mixed")
        /\ phase = "returned" /\ ~(world.command = Mass /\ Nested) =>
              /\ \A w \in Works :
                    Handler(w[1], w[2]).to \in DOMAIN output \cup {NoPath}
              /\ world.command = Mass => DOMAIN Copied \subseteq DOMAIN output
              /\ count = Cardinality({w \in Works :
                            Handler(w[1], w[2]).answer \in {"written", "dry"}})

(***************************************************************************)
(* mass-regenerate-fixtures takes the folders in any order, and each time  *)
(* empties the output folder with all below it (test_suite.py              *)
(* regenerate_fixtures), which another folder may have filled.  It still   *)
(* loses no fixture: the outer folder's inputs include the inner ones.     *)
(***************************************************************************)
NothingIsLost ==
    /\ phase = "returned"
    /\ world.command = Mass
    /\ \A f, g \in world.files : f.stem = g.stem => f = g
    => \A w \in Works :
          LET does == Handler(w[1], w[2])
          IN does.answer = "written" =>
                \E p \in DOMAIN output : p.stem = w[2].stem /\ output[p] = does.content

\* Where the rekeyed pairs take one id, and the ids a fixture should end with.
Moved(id, pair) == IF id = pair[1] THEN pair[2] ELSE id

Fate(id, pairs) ==
    LET after[k \in 0..Len(pairs)] ==
            IF k = 0 THEN id ELSE Moved(after[k - 1], pairs[k])
    IN after[Len(pairs)]

FeaturesOf(f) ==
    LET New(ids) == {Fate(id, world.rekey) : id \in (ids \cup world.add) \ world.remove}
    IN IF world.command \notin Regenerations THEN f.features
       ELSE IF IsNative(f) /\ f.features = << >> THEN <<New({})>>
       ELSE [i \in DOMAIN f.features |-> New(f.features[i])]

(***************************************************************************)
(* Every fixture written, whatever happens to the command, records the     *)
(* effects of running exactly the context and the features it contains;    *)
(* the features are those of its source after the additions, removals and  *)
(* each pair of --rekey-feature, one id at a time.                         *)
(***************************************************************************)
EffectsBelong ==
    \A p \in DOMAIN output :
        LET content == output[p]
        IN content.effects # NoEffects =>
              /\ content.effects.under = content.features
              /\ content.what # "readable" => content.effects.of = content.context
              /\ \E f \in world.files :
                    /\ p.stem = f.stem
                    /\ content.effects.of = ContextOf(world.harness, f)
                    /\ content.features = FeaturesOf(f)

(***************************************************************************)
(* What decode-protobufs and create-fixtures --readable write is the input *)
(* again when it is decoded (codec_utils.py of every harness): no run of   *)
(* zeros is lost.  The exception: an empty hash is written as zeros.       *)
(***************************************************************************)
DecodedReadsBack ==
    \A p \in {q \in DOMAIN output : output[q].what \in {"text", "readable"}} :
        LET harness == output[p].harness
            WithZeros(x, v) ==
                IF Rule(EncodeInput(harness), x) = "key or zeros" /\ v.of = << >>
                THEN Bytes(Zeros(KeyLength)) ELSE v
        IN \E f \in world.files :
              LET context == ContextOf(harness, f)
              IN /\ p.stem = f.stem
                 /\ HumanDecode(harness, output[p].context)
                        = [x \in DOMAIN context |-> WithZeros(x, context[x])]
=============================================================================
