------------------------------- MODULE Codecs -------------------------------
(***************************************************************************)
(* The readable form of a context: the codec_utils.py of every harness.    *)
(*                                                                         *)
(* A bytes field holds [as |-> "bytes", of |-> a sequence of bytes]; in    *)
(* the readable form "base58" of an address, "hex" with runs of zeros      *)
(* counted, or "variant", hex behind the name of a gossip message.  The    *)
(* fields of a repeated message go by one name.                            *)
(***************************************************************************)
EXTENDS Integers, Sequences, SequencesExt, TLC

CONSTANTS
    Gap,        \* 16: bytes in a row of encode_hex_compact
    KeyLength   \* 32: bytes in an address

ASSUME CodecsAssumption == Gap \in Nat \ {0} /\ KeyLength \in Nat \ {0}

Bytes(b) == [as |-> "bytes", of |-> b]

Zeros(n) == [i \in 1..n |-> 0]

\* Fields of bytes, and what is readable: hex is a sequence of parts.
IsContext(context) ==
    \A x \in DOMAIN context : context[x].of \in Seq(Nat) /\ context[x] = Bytes(context[x].of)

Part == ({"hex"} \X Seq(Nat)) \cup ({"zeros"} \X [1..1 -> Nat])

IsText(text) == \A x \in DOMAIN text : text[x].as = "hex" => text[x].of \in Seq(Part)

\* What a conversion raises an exception for.
Malformed == [as |-> "malformed", of |-> << >>]

-----------------------------------------------------------------------------
(***************************************************************************)
(* Faulty variants, exchanged for the definition they are named after to   *)
(* show that a property is able to fail; nothing else uses them.           *)
(***************************************************************************)
\* a run of zeros at the end is dropped
FaultySkipped(n) == IF n > Gap THEN << <<"zeros", <<n>> >> >> ELSE << >>

-----------------------------------------------------------------------------
(***************************************************************************)
(* encode_hex_compact, decode_hex_compact: the parts of the text in turn.  *)
(***************************************************************************)
Rows(buf) ==
    LET last(i) == IF i * Gap < Len(buf) THEN i * Gap ELSE Len(buf)
    IN [i \in 1..((Len(buf) + Gap - 1) \div Gap) |-> SubSeq(buf, (i - 1) * Gap + 1, last(i))]

Skipped(n) == IF n > 0 THEN << <<"zeros", <<n>> >> >> ELSE << >>

\* One row is written, or its zeros are added to those that are not yet.
Row(done, row) ==
    IF row = Zeros(Len(row)) THEN [text |-> done.text, skipped |-> done.skipped + Len(row)]
    ELSE [text |-> done.text \o Skipped(done.skipped) \o << <<"hex", row>> >>, skipped |-> 0]

EncodeHexCompact(buf) ==
    LET rows == Rows(buf)
        done[i \in 0..Len(rows)] ==
            IF i = 0 THEN [text |-> << >>, skipped |-> 0] ELSE Row(done[i - 1], rows[i])
    IN done[Len(rows)].text \o Skipped(done[Len(rows)].skipped)

DecodeHexCompact(text) ==
    FlattenSeq([i \in DOMAIN text |->
                   IF text[i][1] = "hex" THEN text[i][2] ELSE Zeros(text[i][2][1])])

\* fd58 refuses an address of another length.
Enc32(b) == IF Len(b) = KeyLength THEN [as |-> "base58", of |-> b] ELSE Malformed

-----------------------------------------------------------------------------
(***************************************************************************)
(* How a field is written.  A name with "?" leaves an empty field alone;   *)
(* "key or zeros" puts zeros in the place of an empty address.             *)
(***************************************************************************)
EncodeField(how, v) ==
    IF how \in {"key?", "hex?", "variant?"} /\ v.of = << >> THEN v
    ELSE CASE how \in {"key", "key?"} -> Enc32(v.of)
           [] how = "key or zeros" -> Enc32(IF v.of = << >> THEN Zeros(KeyLength) ELSE v.of)
           [] how \in {"hex", "hex?"} -> [as |-> "hex", of |-> EncodeHexCompact(v.of)]
           [] how = "variant?" -> [as |-> "variant", of |-> v.of]
           [] OTHER -> v

DecodeField(how, v) ==
    IF how \in {"key?", "hex?", "variant?"} /\ v.of = << >> THEN v
    ELSE CASE how \in {"key", "key?", "key or zeros"} ->
                 IF v.as = "base58" THEN Bytes(v.of) ELSE Malformed
           [] how \in {"hex", "hex?"} ->
                 IF v.as = "hex" THEN Bytes(DecodeHexCompact(v.of)) ELSE Malformed
           [] how = "variant?" -> Bytes(v.of)
           [] OTHER -> v

AcctState == [x \in {"account.address", "account.owner"} |-> "key?"]
             @@ ("account.data" :> "hex?")

EncodeInstr == AcctState @@ ("program_id" :> "key?") @@ ("data" :> "hex?")
DecodeInstr == AcctState @@ ("program_id" :> "key?") @@ ("data" :> "hex?")

EncodeSanitizedTx ==
    [x \in {"message_hash", "recent_blockhash"} |-> "key or zeros"]
    @@ [x \in {"signature", "account_key", "lookup.account_key"} |-> "key?"]
    @@ ("instruction.data" :> "hex?")
DecodeSanitizedTx ==
    [x \in {"message_hash", "recent_blockhash"} |-> "key or zeros"]
    @@ [x \in {"signature", "account_key", "lookup.account_key"} |-> "key?"]
    @@ ("instruction.data" :> "hex?")

EncodeTxn == EncodeSanitizedTx @@ AcctState @@ ("blockhash_queue.blockhash" :> "key?")
DecodeTxn == DecodeSanitizedTx @@ AcctState @@ ("blockhash_queue.blockhash" :> "key?")

PrevVoteAccount == [x \in {"vote_account.address", "vote_account.node_pubkey"} |-> "key?"]

EncodeBlock ==
    EncodeSanitizedTx @@ AcctState @@ PrevVoteAccount
    @@ [x \in {"poh", "parent_bank_hash", "blockhash_queue.blockhash"} |-> "key"]
DecodeBlock ==
    DecodeSanitizedTx @@ AcctState @@ PrevVoteAccount
    @@ [x \in {"poh", "parent_bank_hash", "blockhash_queue.blockhash"} |-> "key"]

VmFields == {"rodata", "call_whitelist", "return_data.data",
             "function_name", "stack_prefix", "heap_prefix"}

EncodeSyscall == EncodeInstr @@ [x \in VmFields |-> "hex?"] @@ ("return_data.program_id" :> "key?")
DecodeSyscall == DecodeInstr @@ [x \in VmFields |-> "hex?"] @@ ("return_data.program_id" :> "key?")

EncodeGossip == "message" :> "variant?"
DecodeGossip == "message" :> "variant?"

(***************************************************************************)
(* The harness table of fuzz_context.py.  A field no codec names is left   *)
(* as it is.                                                               *)
(***************************************************************************)
EncodeInput(harness) ==
    CASE harness = "InstrHarness" -> EncodeInstr
      [] harness \in {"SyscallHarness", "VmInterpHarness"} -> EncodeSyscall
      [] harness = "TxnHarness" -> EncodeTxn
      [] harness = "BlockHarness" -> EncodeBlock
      [] harness = "GossipHarness" -> EncodeGossip
      [] OTHER -> << >>

DecodeInput(harness) ==
    CASE harness = "InstrHarness" -> DecodeInstr
      [] harness \in {"SyscallHarness", "VmInterpHarness"} -> DecodeSyscall
      [] harness = "TxnHarness" -> DecodeTxn
      [] harness = "BlockHarness" -> DecodeBlock
      [] harness = "GossipHarness" -> DecodeGossip
      [] OTHER -> << >>

Rule(table, field) == IF field \in DOMAIN table THEN table[field] ELSE "plain"

HumanEncode(harness, context) ==
    [x \in DOMAIN context |-> EncodeField(Rule(EncodeInput(harness), x), context[x])]

HumanDecode(harness, text) ==
    [x \in DOMAIN text |-> DecodeField(Rule(DecodeInput(harness), x), text[x])]

Raises(context) == \E x \in DOMAIN context : context[x] = Malformed
=============================================================================
