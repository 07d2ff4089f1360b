------------------------------- MODULE FlatElf ------------------------------
(***************************************************************************)
(* The FlatBuffers side of flatbuffers_utils.py: whether fixtures can be   *)
(* read, what is built and extracted of an ELF loader's fixture, and what  *)
(* the unified loader makes a message of.                                  *)
(*                                                                         *)
(* A part that a table may lack is a sequence of at most one element.  A   *)
(* hash is a sequence of bytes, << >> for None, which an empty one counts  *)
(* as.  A context is [elf_data, features, deploy_checks], features a       *)
(* sequence of ids.  FlatBuffers itself, which keeps the numbers, vectors  *)
(* and structures it is given, is external; with numpy or without, a       *)
(* vector is read element by element.                                      *)
(***************************************************************************)
EXTENDS Formats

-----------------------------------------------------------------------------
(***************************************************************************)
(* packages can be imported; bindings are the generated files there are.   *)
(* check-deps calls the support ready when it finds one of them; the       *)
(* module itself needs five.                                               *)
(***************************************************************************)
FbBindings == {"ELFLoaderFixture", "ELFLoaderCtx", "ELFLoaderEffects",
               "FixtureMetadata", "FeatureSet"}

CheckFbBindingsExist(bindings) == "ELFLoaderFixture" \in bindings

DependencyStatus(packages, bindings) ==
    [flatbuffers_package |-> "flatbuffers" \in packages,
     numpy_package       |-> "numpy" \in packages,
     fb_bindings         |-> CheckFbBindingsExist(bindings),
     ready               |-> "flatbuffers" \in packages /\ CheckFbBindingsExist(bindings)]

\* print_dependency_status, whose value check-deps returns.
CheckDeps(packages, bindings) == DependencyStatus(packages, bindings).ready

\* The value of FLATBUFFERS_AVAILABLE.
ImportsBindings(packages, bindings) ==
    "flatbuffers" \in packages /\ FbBindings \subseteq bindings

-----------------------------------------------------------------------------
(***************************************************************************)
(* Effects.  A stored hash has eight bytes: a longer one is cut, a shorter *)
(* one is left out.  A fixture built without effects has those that hold   *)
(* nothing.                                                                *)
(***************************************************************************)
HashLength == 8

StoredHash(hash) == IF Len(hash) >= HashLength THEN SubSeq(hash, 1, HashLength) ELSE << >>

EffectsTable(effects) ==
    [effects EXCEPT !.rodata_hash = StoredHash(@), !.calldests_hash = StoredHash(@)]

BlankEffects ==
    [err_code |-> 0, rodata_hash |-> << >>, text_cnt |-> 0, text_off |-> 0,
     entry_pc |-> 0, calldests_hash |-> << >>]

\* What a library returned: a table, or << >> for bytes that cannot be read as one.
ParseFbElfEffects(returned) == IF FlatbuffersAvailable THEN returned ELSE << >>

-----------------------------------------------------------------------------
(***************************************************************************)
(* Contexts and fixtures: [metadata, input, output].                       *)
(***************************************************************************)
BuildFbElfCtx(ctx) ==
    [elf_data |-> ctx.elf_data, features |-> <<ctx.features>>,
     deploy_checks |-> ctx.deploy_checks]

BuildFbElfFixture(entrypoint, ctx, effects) ==
    [metadata |-> <<entrypoint>>,
     input    |-> <<BuildFbElfCtx(ctx)>>,
     output   |-> IF effects = << >> THEN <<BlankEffects>> ELSE <<EffectsTable(effects[1])>>]

\* An entrypoint that is missing reads as the empty one.
ExtractFbElfEntrypoint(fixture, empty) ==
    IF fixture.metadata = << >> THEN empty ELSE fixture.metadata[1]

ExtractFbElfFeatures(fixture) ==
    IF fixture.input = << >> \/ fixture.input[1].features = << >> THEN << >>
    ELSE fixture.input[1].features[1]

ExtractFbElfCtx(fixture) ==
    IF fixture.input = << >>
    THEN [elf_data |-> << >>, features |-> << >>, deploy_checks |-> FALSE]
    ELSE [elf_data |-> fixture.input[1].elf_data,
          features |-> ExtractFbElfFeatures(fixture),
          deploy_checks |-> fixture.input[1].deploy_checks]

ExtractFbElfEffects(fixture) == fixture.output

\* _regenerate_fb_fixture, once a library has returned effects for new features.
RegeneratedElf(fixture, empty, features, effects) ==
    BuildFbElfFixture(ExtractFbElfEntrypoint(fixture, empty),
                      [ExtractFbElfCtx(fixture) EXCEPT !.features = features], <<effects>>)

-----------------------------------------------------------------------------
(***************************************************************************)
(* The loader keeps the detected format of a file it cannot load.  Only a  *)
(* Protobuf fixture has a message, so no other can be saved as one.        *)
(***************************************************************************)
FormatType(f) ==
    CASE f.size < 8 -> "unknown"
      [] f.size >= 8 /\ LoadedAs(f) = "invalid" -> DetectFormat(f)
      [] OTHER -> LoadedAs(f)

SavesAsProtobuf(f) == LoadedAs(f) = "protobuf"

LoadFixtureFile(f) == [format |-> FormatType(f), hasMessage |-> SavesAsProtobuf(f)]

ConvertFileToProtobuf(f) == LoadedAs(f) # "invalid" /\ SavesAsProtobuf(f)
=============================================================================
