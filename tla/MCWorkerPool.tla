---------------------------- MODULE MCWorkerPool ----------------------------
(***************************************************************************)
(* Every way of calling process_items with at most MaxItems items and at   *)
(* most MaxWidth requested workers, zero included.                         *)
(***************************************************************************)
EXTENDS WorkerPool

CONSTANTS MaxItems, MaxWidth

MCCalls == [items : 0..MaxItems, num_processes : 0..MaxWidth,
            debug_mode : BOOLEAN, use_processes : BOOLEAN]
=============================================================================
