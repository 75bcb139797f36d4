------------------------------ MODULE MasterKey ------------------------------
(***************************************************************************)
(* Where the process takes its master key from at start-up: the environment,  *)
(* else the key file beside the database, else a key it generates and writes  *)
(* to that file. The file is written in place and not flushed, so a crash     *)
(* may leave it unfinished and a power failure may undo it.                   *)
(***************************************************************************)
EXTENDS Naturals

CONSTANTS
    MaxKeys,        \* bound: keys that are generated
    MaxMishaps      \* bound: power failures, and changes of the environment

ASSUME MasterKeyAssumption == MaxKeys \in Nat /\ MaxMishaps \in Nat

VARIABLES
    env,            \* WDAPM_MASTER_KEY: at most one key
    file,           \* .wdapm_master_key
    flushed,        \* whether the file is on stable storage as it is
    process,        \* "down", "writing" the key file, or "serving"
    inUse,          \* the key the process works with, once it has one
    generated,      \* number of keys generated and written so far
    mishaps,        \* number of power failures and changes of the environment
    swapped,        \* history: the environment was changed
    undone          \* history: a power failure took the file, or what was in it

keyVars == <<env, file, flushed, process, inUse, generated, mishaps, swapped, undone>>

OperatorsKey == 0
MasterKeys == 0 .. MaxKeys

NoFile == [exists |-> FALSE, key |-> {}]
BrokenFile == [exists |-> TRUE, key |-> {}]
FileWith(k) == [exists |-> TRUE, key |-> {k}]
Files == {NoFile, BrokenFile} \cup {FileWith(k) : k \in MasterKeys}

Serving == process = "serving"

KeyInit ==
    /\ env \in {{}, {OperatorsKey}} /\ file = NoFile /\ flushed = TRUE
    /\ process = "down" /\ inUse = {} /\ generated = 0
    /\ mishaps = 0 /\ swapped = FALSE /\ undone = FALSE

KeyTypeOK ==
    /\ env \in {{}, {OperatorsKey}} /\ file \in Files /\ flushed \in BOOLEAN
    /\ process \in {"down", "writing", "serving"} /\ inUse \subseteq MasterKeys
    /\ generated \in 0 .. MaxKeys
    /\ mishaps \in Nat /\ swapped \in BOOLEAN /\ undone \in BOOLEAN

\* Both sources agree on what starting with key k means.
StartsWith(key) ==
    /\ process' = "serving" /\ inUse' = key
    /\ UNCHANGED <<env, file, flushed, generated, mishaps, swapped, undone>>

\* A non-empty WDAPM_MASTER_KEY comes first; the file is not looked at.
BootFromEnvironment == process = "down" /\ env # {} /\ StartsWith(env)

\* An existing file must hold 32 bytes in hex, or the process ends.
BootFromFile == process = "down" /\ env = {} /\ file.key # {} /\ StartsWith(file.key)

\* fs::write creates the file ...
CreateFile ==
    /\ process = "down" /\ env = {} /\ ~file.exists /\ generated < MaxKeys
    /\ file' = BrokenFile /\ flushed' = FALSE /\ process' = "writing"
    /\ UNCHANGED <<env, inUse, generated, mishaps, swapped, undone>>

\* Mutant: the key is used without having been stored.
WriteFileLater ==
    /\ process = "writing" /\ file' = NoFile
    /\ generated' = generated + 1 /\ inUse' = {generated'}
    /\ flushed' = FALSE /\ process' = "serving"
    /\ UNCHANGED <<env, mishaps, swapped, undone>>

\* ... and fills it; only then is the database opened.
WriteFile ==
    /\ process = "writing"
    /\ generated' = generated + 1 /\ file' = FileWith(generated') /\ inUse' = {generated'}
    /\ flushed' = FALSE /\ process' = "serving"
    /\ UNCHANGED <<env, mishaps, swapped, undone>>

\* The operating system writes the file back in its own time.
WriteBack ==
    /\ ~flushed /\ flushed' = TRUE
    /\ UNCHANGED <<env, file, process, inUse, generated, mishaps, swapped, undone>>

ProcessDies ==
    /\ process # "down" /\ process' = "down" /\ inUse' = {}
    /\ UNCHANGED <<env, file, flushed, generated, mishaps, swapped, undone>>

\* A power failure that undoes the file: what was not written back may be gone, or
\* there without its contents. Any other is the end of the process.
LosePower ==
    /\ ~flushed /\ flushed' = TRUE /\ process' = "down" /\ inUse' = {}
    /\ mishaps < MaxMishaps /\ mishaps' = mishaps + 1
    /\ file' \in {NoFile, BrokenFile} /\ undone' = TRUE
    /\ UNCHANGED <<env, generated, swapped>>

\* The operator sets the variable or takes it away, with the service stopped.
ChangeEnvironment ==
    /\ process = "down" /\ mishaps < MaxMishaps /\ mishaps' = mishaps + 1
    /\ env' = {OperatorsKey} \ env /\ swapped' = TRUE
    /\ UNCHANGED <<file, flushed, process, inUse, generated, undone>>

\* A file the service refuses has to be removed by hand.
RemoveBrokenFile ==
    /\ process = "down" /\ file = BrokenFile /\ file' = NoFile /\ flushed' = FALSE
    /\ UNCHANGED <<env, process, inUse, generated, mishaps, swapped, undone>>

Boot == BootFromEnvironment \/ BootFromFile \/ CreateFile \/ WriteFile

=============================================================================
