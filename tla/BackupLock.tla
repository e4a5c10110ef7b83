----------------------------- MODULE BackupLock -----------------------------
(***************************************************************************)
(* The database dump of an administrator (database-backup.service.ts), its *)
(* in-process lock (backup-lock.service.ts) and the middleware that turns  *)
(* mutations away while it is held (backup-write-lock.middleware.ts).      *)
(*                                                                         *)
(* A dump first runs pg_dump --version, then spawns pg_dump with its       *)
(* output piped into the response, and only then listens for the client    *)
(* going away, to kill the child.  The response of a client that left      *)
(* before that takes no more output and announces nothing.                 *)
(***************************************************************************)
EXTENDS Naturals

CONSTANTS
  Dumps,    \* requests for a backup
  Writes    \* mutations, those under /api/auth excepted

VARIABLES
  locked,   \* BackupLockService.locked
  dump,     \* phase of each backup request
  client,   \* whether its client is still there
  child,    \* its pg_dump process
  write,    \* each mutation
  earlier,  \* history: mutations under way when the lock was last taken
  fits      \* a dump nobody reads still fits into the buffers on its way

backupVars == <<locked, dump, client, child, write, earlier, fits>>

BackupInit ==
  /\ locked = FALSE
  /\ dump = [d \in Dumps |-> "idle"]
  /\ client = [d \in Dumps |-> "here"]
  /\ child = [d \in Dumps |-> "none"]
  /\ write = [w \in Writes |-> "idle"]
  /\ earlier = {}
  /\ fits \in BOOLEAN

Underway == {w \in Writes : write[w] = "running"}

-----------------------------------------------------------------------------
(* A mutation passes the middleware once, when it arrives.                 *)

\* Mutant of Admitted: the lock is not looked at.
AdmittedAlways(w) == TRUE

Admitted(w) == ~locked

Arrive(w) ==
  /\ write[w] = "idle"
  /\ write' = [write EXCEPT ![w] = IF Admitted(w) THEN "running" ELSE "refused"]
  /\ UNCHANGED <<locked, dump, client, child, earlier, fits>>

\* Answered; a refused one may be tried again.
Finish(w) ==
  /\ write[w] \in {"running", "refused"}
  /\ write' = [write EXCEPT ![w] = "idle"]
  /\ UNCHANGED <<locked, dump, client, child, earlier, fits>>

-----------------------------------------------------------------------------

Acquire(d) ==
  /\ dump[d] = "idle"
  /\ ~locked
  /\ locked' = TRUE
  /\ earlier' = Underway
  /\ dump' = [dump EXCEPT ![d] = "version"]
  /\ UNCHANGED <<client, child, write, fits>>

AlreadyInProgress(d) ==
  /\ dump[d] = "idle"
  /\ locked
  /\ dump' = [dump EXCEPT ![d] = "ended"]
  /\ UNCHANGED <<locked, client, child, write, earlier, fits>>

\* The finally block of stream().
Release(d) ==
  /\ locked' = FALSE
  /\ dump' = [dump EXCEPT ![d] = "ended"]

\* Mutant of ReleaseOnError: only a dump that ran releases the lock.
Hold(d) == dump' = [dump EXCEPT ![d] = "ended"] /\ UNCHANGED locked

ReleaseOnError(d) == Release(d)

\* pg_dump is missing, too old, or cannot be started.
VersionFails(d) ==
  /\ dump[d] = "version"
  /\ ReleaseOnError(d)
  /\ UNCHANGED <<client, child, write, earlier, fits>>

\* Only a client that is still there can be heard going away later.
StartDump(d) ==
  /\ dump[d] = "version"
  /\ dump' = [dump EXCEPT ![d] = IF client[d] = "here" THEN "listening" ELSE "deaf"]
  /\ child' = [child EXCEPT ![d] = "running"]
  /\ UNCHANGED <<locked, client, write, earlier, fits>>

\* Mutant of ClientLeaves: the listener releases the lock as it kills.
ClientLeavesReleasing(d) ==
  /\ dump[d] \in {"version", "listening"}
  /\ client[d] = "here"
  /\ client' = [client EXCEPT ![d] = "gone"]
  /\ child' = [child EXCEPT ![d] = IF dump[d] = "listening" THEN "killed" ELSE @]
  /\ locked' = (dump[d] = "version")
  /\ UNCHANGED <<dump, write, earlier, fits>>

\* Leaving kills the child if anyone listens.
ClientLeaves(d) ==
  /\ dump[d] \in {"version", "listening"}
  /\ client[d] = "here"
  /\ client' = [client EXCEPT ![d] = "gone"]
  /\ child' = [child EXCEPT ![d] = IF dump[d] = "listening" THEN "killed" ELSE @]
  /\ UNCHANGED <<locked, dump, write, earlier, fits>>

\* The output of the child is read, or thrown away, or small enough to wait.
Drains(d) == client[d] = "here" \/ fits

\* The child closes, of itself or killed, and the lock is released.
DumpEnds(d) ==
  /\ \/ child[d] = "running" /\ Drains(d)
     \/ child[d] = "killed"
  /\ child' = [child EXCEPT ![d] = "none"]
  /\ Release(d)
  /\ UNCHANGED <<client, write, earlier, fits>>

-----------------------------------------------------------------------------

DumpStep(d) == VersionFails(d) \/ StartDump(d) \/ DumpEnds(d)

BackupNext ==
  \/ \E w \in Writes : Arrive(w) \/ Finish(w)
  \/ \E d \in Dumps :
       Acquire(d) \/ AlreadyInProgress(d) \/ ClientLeaves(d) \/ DumpStep(d)

\* Child processes end when nothing holds them up; a client that stays, reads.
BackupFairness == \A d \in Dumps : WF_backupVars(DumpStep(d))

BackupSpec == BackupInit /\ [][BackupNext]_backupVars /\ BackupFairness

-----------------------------------------------------------------------------

\* Every variable has its type.
BackupTypeOK ==
  /\ locked \in BOOLEAN
  /\ dump \in [Dumps -> {"idle", "version", "listening", "deaf", "ended"}]
  /\ client \in [Dumps -> {"here", "gone"}]
  /\ child \in [Dumps -> {"none", "running", "killed"}]
  /\ write \in [Writes -> {"idle", "running", "refused"}]
  /\ earlier \subseteq Writes
  /\ fits \in BOOLEAN

\* pg_dump never runs without the lock, not even while a killed one is still
\* closing, and there is never more than one.
DumpsUnderLock ==
  \A d, e \in Dumps : child[d] # "none" =>
    locked /\ (child[e] # "none" => d = e)

\* Whoever writes during a dump was let in before it began.
WritersPredateDump == locked => Underway \subseteq earlier

\* The one way a dump can hang: its client left before anyone listened, and
\* the output does not fit into the buffers.
Stuck == \E d \in Dumps : dump[d] = "deaf" /\ ~fits

\* Mutations are turned away for a while only: the lock is released, whatever
\* pg_dump does and whenever the client leaves, unless the dump is stuck.
LockComesFree == locked ~> (~locked \/ Stuck)

=============================================================================
