------------------------------- MODULE Features ------------------------------
(***************************************************************************)
(* features_utils.py: the features a library says it has, which sets of    *)
(* features it can be given, and how a feature is named on a command line. *)
(*                                                                         *)
(* A library always behaves as if the features it has cleaned up were      *)
(* active, and knows how to run with or without those it supports.         *)
(***************************************************************************)
EXTENDS Integers, Sequences

TargetFeaturePool(cleaned_up, supported) ==
    [cleaned_up_features |-> cleaned_up,
     supported_features  |-> supported,
     union_features      |-> cleaned_up \cup supported]

(***************************************************************************)
(* exported is the sol_compat_features_t of a library: its size in bytes   *)
(* and two arrays with their counts, each no longer than its array.  The   *)
(* ValueError for a structure of an older layout is << >>.                 *)
(***************************************************************************)
FeaturesSize == 40

GetSolCompatFeatures(exported) ==
    LET Read(array, count) == {array[i] : i \in 1..count}
    IN IF exported.struct_size < FeaturesSize THEN << >>
       ELSE <<TargetFeaturePool(
                 Read(exported.cleaned_up_features, exported.cleaned_up_features_count),
                 Read(exported.supported_features, exported.supported_features_count))>>

IsFeaturesetCompatible(target, features) ==
    /\ target.cleaned_up_features \subseteq features
    /\ features \subseteq target.union_features

MinCompatibleFeatureset(target, features) ==
    (target.cleaned_up_features \cup features) \cap target.union_features

\* What print_featureset_compatibility_report lists.
CompatibilityReport(target, features) ==
    [missing     |-> target.cleaned_up_features \ features,
     unsupported |-> features \ target.union_features]

(***************************************************************************)
(* An id is the first eight of the 32 bytes of a public key, as a number;  *)
(* here the bytes themselves, which that number is in one-to-one           *)
(* correspondence with.                                                    *)
(***************************************************************************)
FeatureBytesToUlong(pubkey) == SubSeq(pubkey, 1, 8)
=============================================================================
