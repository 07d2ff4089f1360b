--------------------------- MODULE MCFileCommands ---------------------------
(***************************************************************************)
(* Rows of two bytes and addresses of two.  Two or three files for each    *)
(* command: with one stem, in folders within each other, of every body;    *)
(* and to decode, every data of up to five bytes, each zero or not.        *)
(***************************************************************************)
EXTENDS FileCommands

Entry(harness) == [harness |-> harness, version |-> "v1"]

\* Heads: a long field 4, the root and vtable of FlatBuffers, no format.
Protobuf == <<34, 9, 255, 255>>
Flat == <<8, 0, 0, 0, 4, 0, 8, 0, 4, 0, 0, 0>>
Other == <<255, 255, 255, 255>>

Instr(data) == [program_id |-> Bytes(<<1, 2>>), data |-> Bytes(data)]
Txn == [message_hash |-> Bytes(<< >>), signature |-> Bytes(<<3, 4>>)]
Block == [poh |-> Bytes(<<5, 6>>), message_hash |-> Bytes(<<0, 7>>)]
Vm == [stack_prefix |-> Bytes(<<0, 0, 0, 8, 0>>), program_id |-> Bytes(<< >>)]
Gossip == [message |-> Bytes(<<0, 9>>)]

File(stem, folder, suffix, body, harness, context) ==
    [stem |-> stem, folder |-> folder, suffix |-> suffix, body |-> body,
     head |-> Protobuf, size |-> 64, harness |-> harness, entrypoint |-> Entry(harness),
     context |-> context, features |-> <<{"p", "q"}>>,
     effects |-> Execute(context, <<{"p", "q"}>>),
     program |-> "unknown", owner |-> "loader"]

Fix(stem, folder, harness, context) ==
    File(stem, folder, "fix", "protobuf", harness, context)

i1 == Fix("x", Root, "InstrHarness", Instr(<<1>>))
i1Below == [Fix("x", <<"sub">>, "InstrHarness", Instr(<<0, 0, 0>>)) EXCEPT
                !.program = "vote", !.features = << >>, !.effects = NoEffects]
ctx == File("y", Root, "ctx", "context", "InstrHarness", Instr(<<2, 0, 0>>))
odd == [ctx EXCEPT !.stem = "o", !.context.program_id = Bytes(<<1>>)]
text == [ctx EXCEPT !.stem = "t", !.body = "text",
                    !.context = HumanEncode("InstrHarness", Instr(<<0, 0, 3>>))]
badText == [text EXCEPT !.context.program_id = Bytes(<<1, 2>>)]
txn == [Fix("n", Root, "TxnHarness", Txn) EXCEPT !.entrypoint.version = "v2"]
block == Fix("b", Root, "BlockHarness", Block)
vm == Fix("v", Root, "VmInterpHarness", Vm)
gossip == Fix("g", Root, "GossipHarness", Gossip)
scalar == Fix("s", Root, "GossipDecodeHarness", Gossip)
unknown == Fix("u", Root, "NewHarness", Gossip)
fb == [File("f", Root, "fix", "flatbuffers", "none", Instr(<<4>>)) EXCEPT
          !.head = Flat, !.entrypoint = [harness |-> "elf", version |-> "v2"]]
fbEmpty == [fb EXCEPT !.stem = "e", !.features = << >>, !.effects = NoEffects]
garbage == [File("z", Root, "fix", "garbage", "none", << >>) EXCEPT !.head = Other]
short == [garbage EXCEPT !.size = 7]

Old == PathOf(Root, "x", "fix") :> Debris("old") @@ PathOf(<<"m">>, "w", "fix") :> Debris("old")

World ==
    Defaults @@ [command |-> "regenerate-fixtures", files |-> {}, before |-> Old,
                 exports |-> {[harness |-> "elf", version |-> "v2"]},
                 rejected |-> {}, disagree |-> {}]

With(command, files) == [World EXCEPT !.command = command, !.files = files]
Alone(command, f) == [With(command, {f}) EXCEPT !.single = TRUE]

Create ==
    LET w == With("create-fixtures", {i1, i1Below, ctx})
    IN {w, [w EXCEPT !.formatValid = FALSE], [w EXCEPT !.byProgram = TRUE],
        [w EXCEPT !.readable = TRUE, !.debugMode = TRUE],
        [w EXCEPT !.files = {i1, text, badText}, !.readable = TRUE, !.rejected = {i1.context}],
        [w EXCEPT !.files = {odd, ctx}, !.readable = TRUE],
        [w EXCEPT !.keepPassing = TRUE, !.disagree = {ctx.context}],
        [w EXCEPT !.keepPassing = TRUE, !.disagree = {i1.context, i1Below.context, ctx.context}],
        [w EXCEPT !.files = {txn, i1}, !.byProgram = TRUE],
        [w EXCEPT !.files = {odd, i1Below}, !.byProgram = TRUE],
        [w EXCEPT !.files = {[ctx EXCEPT !.owner = "malformed"], i1}, !.byProgram = TRUE],
        [w EXCEPT !.files = {scalar, i1, garbage}], [w EXCEPT !.files = {fb, i1}]}

Regenerate ==
    LET w == [With("regenerate-fixtures", {i1, i1Below, fb}) EXCEPT
                 !.add = {"r"}, !.remove = {"q"}]
    IN {w, [w EXCEPT !.dryRun = TRUE], [w EXCEPT !.exports = {}, !.debugMode = TRUE],
        [w EXCEPT !.files = {i1, fbEmpty, txn}, !.rekey = << <<"p", "r">>, <<"r", "p">> >>],
        [w EXCEPT !.files = {i1, block}, !.rekey = << <<"p", "s">>, <<"s", "t">>, <<"q", "u">> >>],
        [w EXCEPT !.files = {i1, scalar}], [w EXCEPT !.files = {i1, gossip}],
        [w EXCEPT !.files = {ctx, i1}]}

Vectors ==
    LET Placed(f, stem, folder) == [f EXCEPT !.stem = stem, !.folder = folder]
        outer == Placed(i1, "x", <<"m", "fixtures">>)
        inner == Placed(txn, "n", <<"m", "fixtures", "deep">>)
        side == Placed(fb, "x", <<"k", "fixtures_v2">>)
        note == [Placed(garbage, "readme", <<"m">>) EXCEPT !.suffix = "txt"]
        w == [With(Mass, {outer, inner, note}) EXCEPT !.add = {"r"}]
    IN {w, [w EXCEPT !.files = {outer, side, note}], [w EXCEPT !.dryRun = TRUE],
        [w EXCEPT !.files = {outer, side, Placed(gossip, "g", <<"k", "fixtures">>)}],
        [w EXCEPT !.files = {note}]}

Data == UNION {[1..n -> {0, 7}] : n \in 0..5}

Decode ==
    {Alone("decode-protobufs", [ctx EXCEPT !.context = Instr(data)]) : data \in Data}
    \cup {Alone("decode-protobufs", f) :
              f \in {odd, text, badText, txn, block, vm, gossip, scalar, unknown, fb, garbage}}
    \cup {With("decode-protobufs", {i1, i1Below, ctx}),
          [Alone("decode-protobufs", Fix("p", Root, "TxnHarness", Txn)) EXCEPT
              !.files = {File("p", Root, "bin", "context", "TxnHarness", Txn)},
              !.harness = "TxnHarness"]}

Extract ==
    {With("fix-to-ctx", {i1, i1Below, scalar}), With("fix-to-ctx", {fb, unknown, txn})}

Answer ==
    UNION {{With(c, {i1, fb}), With(c, {i1, i1Below, ctx}), With(c, {scalar, i1}), With(c, {}),
            With(c, {garbage, txn}), Alone(c, [short EXCEPT !.suffix = "bin"]),
            Alone(c, [i1 EXCEPT !.suffix = "bin"]),
            [With(c, {i1, fb}) EXCEPT !.rejected = {i1.context, fb.context}],
            With(c, {fbEmpty, i1}), With(c, {text, badText})} :
           c \in {"exec-fixtures", "execute", "validate-fixtures"}}

MCWorlds == Create \cup Regenerate \cup Vectors \cup Decode \cup Extract \cup Answer

-----------------------------------------------------------------------------
(***************************************************************************)
(* FlatBuffers on small values.  What is ready for check-deps may still    *)
(* not be importable, and no FlatBuffers fixture is converted.             *)
(***************************************************************************)
ASSUME DependencyCheck ==
    /\ \A packages \in SUBSET {"flatbuffers", "numpy"}, bindings \in SUBSET FbBindings :
          ImportsBindings(packages, bindings) => CheckDeps(packages, bindings)
    /\ CheckDeps({"flatbuffers"}, {"ELFLoaderFixture"})
    /\ ~ImportsBindings({"flatbuffers"}, {"ELFLoaderFixture"})

ASSUME StoredHashCheck ==
    \A n \in 0..10 : StoredHash(Zeros(n)) = IF n < 8 THEN << >> ELSE Zeros(8)

ASSUME ConversionCheck ==
    \A w \in Worlds : \A f \in w.files :
        LoadedAs(f) = "flatbuffers" => ~ConvertFileToProtobuf(f) /\ ~LoadFixtureFile(f).hasMessage

\* Every pool of three features, with every set of four.
ASSUME FeaturesetCheck ==
    \A cleaned, supported \in SUBSET (1..3), features \in SUBSET (1..4) :
        LET target == TargetFeaturePool(cleaned, supported)
            report == CompatibilityReport(target, features)
            Changes(other) == (features \ other) \cup (other \ features)
            least == MinCompatibleFeatureset(target, features)
        IN /\ IsFeaturesetCompatible(target, features) <=>
                  report.missing = {} /\ report.unsupported = {}
           /\ IsFeaturesetCompatible(target, least)
           /\ \A other \in SUBSET (1..4) :
                 IsFeaturesetCompatible(target, other) => Changes(least) \subseteq Changes(other)

ASSUME PoolCheck ==
    LET exported == [struct_size |-> 40, cleaned_up_features |-> <<1, 2, 1>>,
                     cleaned_up_features_count |-> 3, supported_features |-> <<2, 3>>,
                     supported_features_count |-> 1]
    IN /\ GetSolCompatFeatures(exported) = <<TargetFeaturePool({1, 2}, {2})>>
       /\ GetSolCompatFeatures([exported EXCEPT !.struct_size = 39]) = << >>
=============================================================================
