------------------------------- MODULE Formats ------------------------------
(***************************************************************************)
(* What a file is taken for: format detection and the unified loader of    *)
(* flatbuffers_utils.py, the readers of multiprocessing_utils.py, and the  *)
(* harness of an entrypoint (fuzz_context.py).                             *)
(*                                                                         *)
(* A file has a suffix, a head (its first bytes; size of them in all) and  *)
(* a body: "protobuf" or "flatbuffers" fixtures, "context", "text" (a      *)
(* readable context), "readable" (a readable fixture) or "garbage".  The   *)
(* body says what a parser makes of it, the head what detect_format does.  *)
(***************************************************************************)
EXTENDS Codecs, FiniteSets

CONSTANT FlatbuffersAvailable

ASSUME FormatsAssumption == FlatbuffersAvailable \in BOOLEAN

Harnesses == {"InstrHarness", "SyscallHarness", "VmInterpHarness", "VmValidateHarness",
              "TxnHarness", "BlockHarness", "GossipHarness", "GossipDecodeHarness"}

\* Their fixtures hold bytes instead of a context message.
ScalarHarnesses == {"GossipDecodeHarness"}

NoHarness == "none"

-----------------------------------------------------------------------------
(***************************************************************************)
(* is_flatbuffers_format.  Byte n of the file is head[n + 1]; what the     *)
(* head leaves out is not looked at.                                       *)
(***************************************************************************)
Byte(f, n) == f.head[n + 1]
U16(f, n) == Byte(f, n) + 256 * Byte(f, n + 1)
S32(f, n) ==
    U16(f, n) + 65536 * Byte(f, n + 2)
        + 16777216 * (IF Byte(f, n + 3) > 127 THEN Byte(f, n + 3) - 256 ELSE Byte(f, n + 3))

IsFlatbuffersFormat(f) ==
    LET root   == S32(f, 0)
        vtable == root - S32(f, root)
    IN /\ f.size >= 12
       /\ root \in 4..1024
       /\ root + 4 <= f.size
       /\ vtable >= 0
       /\ vtable + 4 <= f.size
       /\ \/ /\ U16(f, vtable) \in {n \in 4..256 : n % 2 = 0}
             /\ U16(f, vtable + 2) \in 4..1024
          \/ /\ root = 20
             /\ Byte(f, 4) <= 32
             /\ Byte(f, 5) = 0

\* is_protobuf_format: the tag of the first field and, if short, its length.
IsProtobufFormat(f) ==
    LET wire  == Byte(f, 0) % 8
        field == Byte(f, 0) \div 8
    IN /\ f.size >= 2
       /\ wire <= 5
       /\ field >= 1
       /\ \/ wire = 0
          \/ wire = 2 /\ (field <= 3 \/ Byte(f, 1) \in {n \in 1..127 : n <= f.size})

DetectFormat(f) ==
    IF f.size < 4 THEN "unknown"
    ELSE IF IsFlatbuffersFormat(f) THEN "flatbuffers"
    ELSE IF IsProtobufFormat(f) THEN "protobuf"
    ELSE "unknown"

-----------------------------------------------------------------------------
EntrypointToV1(e) == IF e.version = "v2" THEN [e EXCEPT !.version = "v1"] ELSE e
EntrypointToV2(e) == IF e.version = "v1" THEN [e EXCEPT !.version = "v2"] ELSE e

\* Every harness is registered under its v1 entrypoint; else a KeyError.
HarnessForEntrypoint(e) ==
    IF \E known \in {e, EntrypointToV1(e)} : known.version = "v1" /\ e.harness \in Harnesses
    THEN e.harness ELSE NoHarness

(***************************************************************************)
(* extract_metadata and get_harness_for_entrypoint on its answer: no       *)
(* metadata, and an entrypoint nobody knows, raise an exception alike.     *)
(* The loader has no metadata of a FlatBuffers fixture, and the parser of  *)
(* the metadata alone refuses a readable fixture for its other fields.     *)
(***************************************************************************)
HarnessOf(f) ==
    IF f.body = "protobuf" THEN HarnessForEntrypoint(f.entrypoint) ELSE NoHarness

(***************************************************************************)
(* FixtureLoader.  A format that is not recognised is tried as both; the   *)
(* root of FlatBuffers is taken from any bytes.                            *)
(***************************************************************************)
LoadsProtobuf(f) == f.body = "protobuf" /\ HarnessForEntrypoint(f.entrypoint) # NoHarness

LoadedAs(f) ==
    IF f.size < 8 THEN "invalid"
    ELSE CASE DetectFormat(f) = "protobuf" ->
                 IF LoadsProtobuf(f) THEN "protobuf" ELSE "invalid"
           [] DetectFormat(f) = "flatbuffers" ->
                 IF FlatbuffersAvailable THEN "flatbuffers" ELSE "invalid"
           [] OTHER ->
                 IF LoadsProtobuf(f) THEN "protobuf"
                 ELSE IF FlatbuffersAvailable THEN "flatbuffers" ELSE "invalid"

(***************************************************************************)
(* read_fixture: the loader has no message for FlatBuffers, so its None is *)
(* returned; anything else is parsed again by its own harness.             *)
(***************************************************************************)
ReadsFixture(f) ==
    /\ ~(DetectFormat(f) = "flatbuffers" /\ LoadedAs(f) = "flatbuffers")
    /\ HarnessOf(f) # NoHarness

(***************************************************************************)
(* read_context: binary, else readable.                                    *)
(***************************************************************************)
ReadsContext(harness, f) ==
    /\ harness \notin ScalarHarnesses
    /\ f.harness = harness
    /\ \/ f.body = "context"
       \/ f.body = "text" /\ ~Raises(HumanDecode(harness, f.context))

ContextOf(harness, f) ==
    IF f.body = "text" THEN HumanDecode(harness, f.context) ELSE f.context
=============================================================================
