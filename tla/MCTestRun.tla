------------------------------ MODULE MCTestRun -----------------------------
(***************************************************************************)
(* Up to three files and three libraries.  Two files may have the same     *)
(* stem (they come from different directories) or differ only in their     *)
(* extension.  The effects tell the diff modes apart: "ok" and "okSlow"    *)
(* differ in compute units, "fails" and "failsElse" in error code and      *)
(* accounts.                                                               *)
(***************************************************************************)
EXTENDS CreateEnv

CONSTANTS f1, f2, f3

MCFile == {f1, f2, f3}
MCStem == {"a", "b", "c"}
MCExtension == {".fix", ".ctx"}
MCTargets == <<"ref", "fd", "alt">>

Instr(result, cu, accounts) ==
    [result |-> result, custom_err |-> result, cu_avail |-> cu,
     modified_accounts |-> accounts, rest |-> "same"]
ok == Instr(0, 10, {"x"})
okSlow == Instr(0, 20, {"x"})
okElse == Instr(0, 10, {"y"})
fails == Instr(5, 10, {"x"})
failsElse == Instr(6, 20, {"y"})

Txn(status, units) ==
    [executed |-> TRUE, status |-> status, executed_units |-> units,
     error |-> status, rest |-> "same"]
txnOk == Txn(0, 10)
txnFails == Txn(5, 10)
txnFailsElse == Txn(6, 20)

MCEffect == {ok, okSlow, okElse, fails, failsElse, txnOk, txnFails, txnFailsElse}

ThreeTuple(x, y, z) ==
    [f \in MCFile |-> IF f = f1 THEN x ELSE IF f = f2 THEN y ELSE z]

Libs(x, y, z) ==
    [t \in {"ref", "fd", "alt"} |-> IF t = "ref" THEN x ELSE IF t = "fd" THEN y ELSE z]

InstrAnswers == {Libs(ok, ok, ok), Libs(ok, okSlow, ok), Libs(ok, ok, fails),
                 Libs(fails, okElse, ok), Libs(fails, failsElse, fails),
                 Libs(ok, ok, None), Libs(None, ok, ok), Libs(ok, Missing, ok)}
TxnAnswers == {Libs(txnFails, txnFailsElse, txnFailsElse),
               Libs(txnFails, txnFailsElse, txnOk), Libs(txnFailsElse, txnFails, txnOk),
               Libs(txnOk, txnOk, txnFails)}

Distinct == ThreeTuple(<<"a", ".fix">>, <<"b", ".fix">>, <<"c", ".ctx">>)
SameName == ThreeTuple(<<"a", ".fix">>, <<"a", ".fix">>, <<"b", ".fix">>)
SameStem == ThreeTuple(<<"a", ".fix">>, <<"a", ".ctx">>, <<"b", ".fix">>)

AllRun == ThreeTuple("runs", "runs", "runs")
MCFates == {AllRun, ThreeTuple("runs", "unparsed", "runs"),
            ThreeTuple("runs", "runs", "unreadable"), ThreeTuple("crashes", "runs", "runs")}

\* The options of the command, on files that two libraries answer alike.
Answers(x, y) == ThreeTuple(x, y, Libs(ok, ok, ok))
Options ==
    [input          : {<< >>, <<f1>>, <<f2, f1, f3>>},
     name           : {Distinct},
     fate           : MCFates,
     answer         : {Answers(x, y) :
                          x, y \in {Libs(ok, ok, ok), Libs(ok, ok, fails), Libs(None, ok, ok)}},
     harness        : {ThreeTuple("InstrHarness", "FlatBuffers", "InstrHarness")},
     modes          : {{}, {"consensus", "core_bpf"}},
     fail_early     : BOOLEAN,
     failures_only  : BOOLEAN,
     log_chunk_size : {1, 2}]

\* Every mode on one file of each harness.
DiffModes ==
    [input          : {<<f1, f2>>},
     name           : {Distinct},
     fate           : {AllRun},
     answer         : {Answers(x, y) : x \in InstrAnswers, y \in TxnAnswers},
     harness        : {ThreeTuple("InstrHarness", "TxnHarness", "OtherHarness"),
                       ThreeTuple("FlatBuffers", "TxnHarness", "OtherHarness")},
     modes          : {{}} \cup {{m} : m \in Mode},
     fail_early     : {FALSE},
     failures_only  : {FALSE},
     log_chunk_size : {2}]

MCWorlds == Options \cup DiffModes

\* One file passes and one fails, and they share a stem or a whole name.
MCSameStems ==
    [input          : {<<f1, f2>>, <<f2, f1>>},
     name           : {SameName, SameStem},
     fate           : {AllRun},
     answer         : {ThreeTuple(x, y, x) : x, y \in InstrAnswers},
     harness        : {ThreeTuple("InstrHarness", "InstrHarness", "InstrHarness")},
     modes          : {{}},
     fail_early     : {FALSE},
     failures_only  : {FALSE},
     log_chunk_size : {2}]

\* A directory that is there, one that is missing from a directory, and one
\* that is missing with the directory it would be in.
MCDirectory == {"vm", "new", "new/far", Blank, Slash}
MCVectors == {"vm", Slash}
MCCreatable == {"new"}
MCLists == {[lines |-> << >>, terminated |-> TRUE]} \cup
           [lines : {<<[dir |-> d, name |-> <<"c", ".fix">>]>> : d \in {"vm", "new", "new/far"}},
            terminated : BOOLEAN] \cup
           [lines : {<<[dir |-> Blank, name |-> <<Blank, Blank>>]>>}, terminated : BOOLEAN]
=============================================================================
