------------------------------ MODULE CreateEnv ------------------------------
(***************************************************************************)
(* The create-env command (test_suite.py create_env): after the tests of   *)
(* debug-mismatches, whose last stage is module TestRun, every saved       *)
(* failure is appended to a list of a Firedancer checkout and copied to    *)
(* the directory of test vectors its entry names.                          *)
(*                                                                         *)
(* A list is a sequence of lines, each a directory and a file name, and    *)
(* whether it ends in a newline.  What is appended to an unfinished line   *)
(* makes one line with it.  Nothing looks at what the lines say: the       *)
(* directory of the last one may be there or not.                          *)
(***************************************************************************)
EXTENDS TestRun

CONSTANTS
    Lists,      \* the lists one can select: [lines, terminated]
    Directory,  \* what dirname() of a line may be, as the place it stands for
    Vectors,    \* of these, the directories there are
    Creatable   \* those that are none, but could be a file in one

Blank == ""     \* dirname() of a blank line, or of one without a slash
Slash == "/"

ListEntry == [dir : Directory, name : (Stem \cup {Blank}) \X (Extension \cup {Blank})]

ASSUME CreateEnvAssumption ==
    /\ Slash \in Directory
    /\ Vectors \cap Creatable = {}
    /\ \A l \in Lists : l.terminated \in BOOLEAN /\ l.lines \in Seq(ListEntry)

VARIABLES
    envPhase,   \* "waiting", "adding", "done", "aborted"
    list,       \* the selected list
    before,     \* what it was before the command
    failures,   \* the saved failures still to be added
    copies,     \* test vectors copied so far: [dir, name] -> file
    stray       \* copies made in place of a directory: dir -> file

envVars == <<envPhase, list, before, failures, copies, stray>>

EnvInit ==
    /\ Init
    /\ envPhase = "waiting"
    /\ list = [lines |-> << >>, terminated |-> TRUE]
    /\ before = list
    /\ failures = {}
    /\ copies = << >>
    /\ stray = << >>

\* writes the entry over the last one
FaultyAppended(entry, shared) ==
    [lines |-> SubSeq(list.lines, 1, Len(list.lines) - 1) \o <<entry>>, terminated |-> TRUE]

-----------------------------------------------------------------------------
(***************************************************************************)
(* debug_mismatches is over.  The file is chosen before it; nothing looks  *)
(* at the file before now.                                                 *)
(***************************************************************************)
BeginAdding ==
    /\ envPhase = "waiting"
    /\ phase = "done"
    /\ ~Verdict                         \* otherwise the command exits
    /\ envPhase' = "adding"
    /\ list' \in Lists
    /\ before' = list'
    /\ failures' = DOMAIN saved["failed"]
    /\ UNCHANGED <<copies, stray, vars>>

NothingToAdd ==
    /\ envPhase = "waiting"
    /\ phase = "aborted" \/ (phase = "done" /\ Verdict)
    /\ envPhase' = IF phase = "done" THEN "done" ELSE "aborted"
    /\ UNCHANGED <<list, before, failures, copies, stray, vars>>

\* dirname(last_line) + "/": a blank one makes entries in the root.
EntryDir(dir) == IF dir = Blank THEN Slash ELSE dir

(***************************************************************************)
(* The list after file.write(failure_path + "\n").  An unfinished last     *)
(* line becomes one with the entry; shared is the directory it has then.   *)
(***************************************************************************)
Appended(entry, shared) ==
    IF list.terminated \/ list.lines = << >>
    THEN [lines |-> Append(list.lines, entry), terminated |-> TRUE]
    ELSE [lines |-> [list.lines EXCEPT ![Len(list.lines)] =
                        [dir |-> shared, name |-> entry.name]],
          terminated |-> TRUE]

(***************************************************************************)
(* One failure: the entry is written, then the file copied.  copy2 puts it *)
(* into a directory under its name; what is no directory it takes for the  *)
(* file to write, so each failure replaces the one before.  A copy may     *)
(* fail, and does where there is nothing to make a file in; what a failed  *)
(* copy leaves is left out.                                                *)
(***************************************************************************)
AddFailure(n) ==
    /\ envPhase = "adding"
    /\ n \in failures
    /\ list.lines # << >>
    /\ LET entry == [dir |-> EntryDir(Last(list.lines).dir), name |-> n]
           failure == saved["failed"][n]
       IN /\ \E shared \in Directory : list' = Appended(entry, shared)
          /\ failures' = failures \ {n}
          /\ \/ /\ entry.dir \in Vectors
                /\ copies' = Put(copies, entry, failure)
                /\ UNCHANGED <<envPhase, stray>>
             \/ /\ entry.dir \in Creatable
                /\ stray' = Put(stray, entry.dir, failure)
                /\ UNCHANGED <<envPhase, copies>>
             \/ /\ envPhase' = "aborted"
                /\ UNCHANGED <<copies, stray>>
    /\ UNCHANGED <<before, vars>>

\* lines[-1] of an empty list raises.
ListIsEmpty ==
    /\ envPhase = "adding"
    /\ failures # {}
    /\ list.lines = << >>
    /\ envPhase' = "aborted"
    /\ UNCHANGED <<list, before, failures, copies, stray, vars>>

AllAdded ==
    /\ envPhase = "adding"
    /\ failures = {}
    /\ envPhase' = "done"
    /\ UNCHANGED <<list, before, failures, copies, stray, vars>>

EnvNext ==
    \/ Next /\ UNCHANGED envVars
    \/ BeginAdding \/ NothingToAdd \/ ListIsEmpty \/ AllAdded
    \/ \E n \in Stem \X Extension : AddFailure(n)

EnvSpec == EnvInit /\ [][EnvNext]_<<vars, envVars>> /\ WF_<<vars, envVars>>(EnvNext)

-----------------------------------------------------------------------------
\* The entries of this command.
Added == Range(SubSeq(list.lines, Len(before.lines) + 1, Len(list.lines)))

\* The file of an entry is where copy2 should put it, or where it did.
CopiedInto(e) == e \in DOMAIN copies /\ copies[e] = saved["failed"][e.name]
CopiedOver(dir) ==
    dir \in DOMAIN stray /\ \E e \in Added : e.dir = dir /\ stray[dir] = saved["failed"][e.name]

(***************************************************************************)
(* test_suite.py:2290-2309.  A list that ends in a newline keeps every     *)
(* entry it had; the new ones are in the directory of its last line (the   *)
(* root, if that has none).  Where this is a directory, each is copied     *)
(* into it, save the one at which the command aborts; where it is missing, *)
(* one of their files is in its place and no other is copied; where it     *)
(* cannot even be made, the first entry ends the command.  When the        *)
(* command ends well, the entries are the failures of the run.             *)
(***************************************************************************)
ListedIsCopied ==
    before.terminated =>
        /\ IsPrefix(before.lines, list.lines)
        /\ \A e \in Added : e.dir = EntryDir(Last(before.lines).dir)
        /\ DOMAIN copies \subseteq {e \in Added : e.dir \in Vectors}
        /\ DOMAIN stray \subseteq {e.dir : e \in Added} \cap Creatable
        /\ Cardinality({e \in Added : ~CopiedInto(e) /\ ~CopiedOver(e.dir)}) <= 1
        /\ envPhase = "done" /\ ~Verdict =>
              /\ \A e \in Added : CopiedInto(e) \/ CopiedOver(e.dir)
              /\ {e.name : e \in Added} = DOMAIN saved["failed"]
=============================================================================
