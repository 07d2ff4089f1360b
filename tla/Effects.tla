------------------------------- MODULE Effects ------------------------------
(***************************************************************************)
(* How the effects of two libraries are compared: instr/diff_utils.py and  *)
(* txn/diff_utils.py, and the table of harnesses in fuzz_context.py that   *)
(* says which mode of run-tests uses which of them.                        *)
(*                                                                         *)
(* A value stands for a message.  InstrEffects: result, custom_err,        *)
(* cu_avail, modified_accounts and the rest.  TxnResult: executed, status, *)
(* executed_units, error (instruction_error, its index and custom_error)   *)
(* and the rest.  The effects of any other harness are compared whole.     *)
(***************************************************************************)
EXTENDS Integers

Mode == {"consensus", "core_bpf", "ignore_compute_units"}

Harness == {"InstrHarness", "TxnHarness", "OtherHarness", "FlatBuffers"}

-----------------------------------------------------------------------------
(***************************************************************************)
(* Faulty variants, exchanged for the definition they are named after to   *)
(* show that a property is able to fail; nothing else uses them.           *)
(***************************************************************************)
\* one failure is enough to drop the accounts of both
FaultyCoreBpfInstr(a, b) ==
    LET Sanitized(e) == [e EXCEPT !.result = 0, !.custom_err = 0, !.cu_avail = 0,
                                  !.modified_accounts =
                                     IF a.result # 0 \/ b.result # 0 THEN {} ELSE @]
    IN Sanitized(a) = Sanitized(b)

-----------------------------------------------------------------------------
\* The protobuf operator ==.
GenericDiff(a, b) == a = b

\* Error codes and compute units are normalised; modified accounts are not.
WithoutErrorCode(e) == [e EXCEPT !.result = 0, !.custom_err = 0, !.cu_avail = 0]

ConsensusInstr(a, b) == WithoutErrorCode(a) = WithoutErrorCode(b)

\* A failed instruction returns no modified accounts.
WithoutAccountsOfAFailure(e) ==
    [e EXCEPT !.modified_accounts = IF e.result # 0 THEN {} ELSE @]

CoreBpfInstr(a, b) ==
    WithoutErrorCode(WithoutAccountsOfAFailure(a))
        = WithoutErrorCode(WithoutAccountsOfAFailure(b))

WithoutComputeUnits(e) == [e EXCEPT !.cu_avail = 0]

IgnoreComputeUnitsInstr(a, b) == WithoutComputeUnits(a) = WithoutComputeUnits(b)

\* Compute units do not count when both were executed and failed.
ConsensusTxn(a, b) ==
    LET bothFailed == a.executed /\ b.executed /\ a.status # 0 /\ b.status # 0
        Sanitized(e) == [e EXCEPT !.status = 0, !.error = 0,
                                  !.executed_units = IF bothFailed THEN 0 ELSE @]
    IN Sanitized(a) = Sanitized(b)

(***************************************************************************)
(* diff_effect_fn as build_test_results sets it.  build_test_results_fb    *)
(* knows no modes.                                                         *)
(***************************************************************************)
DiffEffects(harness, modes, a, b) ==
    CASE harness = "InstrHarness" /\ "ignore_compute_units" \in modes ->
            IgnoreComputeUnitsInstr(a, b)
      [] harness = "InstrHarness" /\ modes = {"core_bpf"} -> CoreBpfInstr(a, b)
      [] harness = "InstrHarness" /\ modes = {"consensus"} -> ConsensusInstr(a, b)
      [] harness = "TxnHarness" /\ modes = {"consensus"} -> ConsensusTxn(a, b)
      [] OTHER -> GenericDiff(a, b)
=============================================================================
