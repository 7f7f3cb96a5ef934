-------------------------- MODULE PublicServerLock --------------------------
(***************************************************************************)
(* The lock file of the Public Server Wizard (cmd/road/wizard_lock.go):    *)
(* configs/.generated/public-server.lock, created with O_EXCL, holding the *)
(* pid of its owner, taken over when that pid is not running any more.     *)
(*                                                                         *)
(* The path names a file or nothing.  A file is created empty and the pid  *)
(* is written to it afterwards, and os.Remove works on the path: what it   *)
(* removes is whatever file the path names at that moment.                 *)
(***************************************************************************)
EXTENDS Naturals, FiniteSets

CONSTANTS
    Wizards,           \* processes, each with a pid of its own
    Files,             \* bound: files in use at one time, one more than Wizards
    NoFile, NoPid,
    Overlap,           \* two acquisitions may run at the same time
    Faults             \* processes may crash and writes may fail

ASSUME LockAssumption ==
    /\ IsFiniteSet(Wizards) /\ IsFiniteSet(Files)
    /\ NoFile \notin Files /\ NoPid \notin Wizards
    /\ Overlap \in BOOLEAN /\ Faults \in BOOLEAN

VARIABLES
    path,              \* the file the path names
    content,           \* the pid a file holds; NoPid while it is empty
    pc,                \* where each process is
    attempt,           \* the loop counter of acquirePublicServerLock
    handle,            \* the file a process has created and not closed yet
    seen               \* existingPID, as the process read it

lockVars == <<path, content, pc, attempt, handle, seen>>

LockTypeOK ==
    /\ path \in Files \cup {NoFile}
    /\ content \in [Files -> Wizards \cup {NoPid}]
    /\ pc \in [Wizards -> {"idle", "create", "write", "read", "check", "remove",
                           "held", "releaseRead", "releaseRemove", "dead"}]
    /\ attempt \in [Wizards -> 0 .. 1]
    /\ handle \in [Wizards -> Files \cup {NoFile}]
    /\ seen \in [Wizards -> Wizards \cup {NoPid}]
    /\ \A w \in Wizards : handle[w] # NoFile <=> pc[w] = "write"

\* The directory may hold a file left by a process that is gone: its pid is not
\* running, which is as good as no pid.
LockInit ==
    /\ path \in Files \cup {NoFile}
    /\ content = [f \in Files |-> NoPid]
    /\ pc = [w \in Wizards |-> "idle"]
    /\ attempt = [w \in Wizards |-> 0]
    /\ handle = [w \in Wizards |-> NoFile]
    /\ seen = [w \in Wizards |-> NoPid]

Moves(w, label) == pc' = [pc EXCEPT ![w] = label]
\* The call returns without the lock; its local variables are gone.
Finish(w) ==
    /\ Moves(w, "idle")
    /\ attempt' = [attempt EXCEPT ![w] = 0]
    /\ seen' = [seen EXCEPT ![w] = NoPid]
Acquiring(w) == pc[w] \in {"create", "write", "read", "check", "remove"}
PidAt(f) == IF f = NoFile THEN NoPid ELSE content[f]

-----------------------------------------------------------------------------
(* acquirePublicServerLock. *)

Acquire(w) ==
    /\ pc[w] = "idle"
    /\ Overlap \/ \A o \in Wizards : ~Acquiring(o)
    /\ Moves(w, "create")
    /\ UNCHANGED <<path, content, attempt, handle, seen>>

\* OpenFile with O_CREATE and O_EXCL: a new, empty file, or "exists".
CreateOk(w) ==
    /\ pc[w] = "create"
    /\ path = NoFile
    /\ \E f \in Files :
          /\ \A v \in Wizards : handle[v] # f
          /\ path' = f
          /\ content' = [g \in Files |-> IF \E v \in Wizards : handle[v] = g THEN content[g] ELSE NoPid]
          /\ handle' = [handle EXCEPT ![w] = f]
    /\ Moves(w, "write")
    /\ UNCHANGED <<attempt, seen>>

CreateExists(w) ==
    /\ pc[w] = "create"
    /\ path # NoFile
    /\ Moves(w, "read")
    /\ UNCHANGED <<path, content, attempt, handle, seen>>

\* The pid goes to the file that was created, whether or not the path still
\* names it.
WritePid(w) ==
    /\ pc[w] = "write"
    /\ content' = [content EXCEPT ![handle[w]] = w]
    /\ handle' = [handle EXCEPT ![w] = NoFile]
    /\ attempt' = [attempt EXCEPT ![w] = 0]
    /\ Moves(w, "held")
    /\ UNCHANGED <<path, seen>>

\* The write or the close fails: the path is removed and the lock not taken.
WriteFail(w) ==
    /\ Faults /\ pc[w] = "write"
    /\ path' = NoFile
    /\ handle' = [handle EXCEPT ![w] = NoFile]
    /\ Finish(w)
    /\ UNCHANGED content

\* readPublicServerLockPID: a missing or an empty file reads as no pid.
ReadPid(w) ==
    /\ pc[w] = "read"
    /\ seen' = [seen EXCEPT ![w] = PidAt(path)]
    /\ Moves(w, "check")
    /\ UNCHANGED <<path, content, attempt, handle>>

\* existingPID > 0 and processIsRunning (on Linux and Windows; elsewhere every
\* pid counts as running and a stale lock is never taken over).
IsRunning(pid) == pid \in Wizards /\ pc[pid] # "dead"

CheckRunning(w) ==
    /\ pc[w] = "check"
    /\ IsRunning(seen[w])
    /\ Finish(w)
    /\ UNCHANGED <<path, content, handle>>

\* Mutant: the running owner is not respected.
MutantStealLock(w) ==
    /\ pc[w] = "check"
    /\ Moves(w, "remove")
    /\ UNCHANGED <<path, content, attempt, handle, seen>>

CheckStale(w) ==
    /\ pc[w] = "check"
    /\ ~IsRunning(seen[w])
    /\ Moves(w, "remove")
    /\ UNCHANGED <<path, content, attempt, handle, seen>>

\* os.Remove(path), then the second attempt or "stale lock" for an answer.
RemoveStale(w) ==
    /\ pc[w] = "remove"
    /\ path' = NoFile
    /\ IF attempt[w] = 0
       THEN /\ attempt' = [attempt EXCEPT ![w] = 1]
            /\ seen' = [seen EXCEPT ![w] = NoPid]
            /\ Moves(w, "create")
       ELSE Finish(w)
    /\ UNCHANGED <<content, handle>>

-----------------------------------------------------------------------------
(* Release: read the pid, then remove the path if it is one's own. *)

Release(w) ==
    /\ pc[w] = "held"
    /\ Moves(w, "releaseRead")
    /\ UNCHANGED <<path, content, attempt, handle, seen>>

ReleaseRead(w) ==
    /\ pc[w] = "releaseRead"
    /\ Moves(w, IF PidAt(path) = w THEN "releaseRemove" ELSE "idle")
    /\ UNCHANGED <<path, content, attempt, handle, seen>>

ReleaseRemove(w) ==
    /\ pc[w] = "releaseRemove"
    /\ path' = NoFile
    /\ Moves(w, "idle")
    /\ UNCHANGED <<content, attempt, handle, seen>>

-----------------------------------------------------------------------------
\* A process dies where it stands; the file stays.
Dies(w) ==
    /\ Faults /\ pc[w] # "dead"
    /\ Moves(w, "dead")
    /\ handle' = [handle EXCEPT ![w] = NoFile]
    /\ attempt' = [attempt EXCEPT ![w] = 0]
    /\ seen' = [seen EXCEPT ![w] = NoPid]
    /\ UNCHANGED <<path, content>>

Continue(w) ==
    \/ CreateOk(w) \/ CreateExists(w) \/ WritePid(w)
    \/ ReadPid(w) \/ CheckRunning(w) \/ CheckStale(w) \/ RemoveStale(w)
    \/ ReleaseRead(w) \/ ReleaseRemove(w)

LockNext == \E w \in Wizards : Acquire(w) \/ Continue(w) \/ Release(w) \/ WriteFail(w) \/ Dies(w)

LockSpec == LockInit /\ [][LockNext]_lockVars

-----------------------------------------------------------------------------
(* Properties. *)

Holding(w) == pc[w] \in {"held", "releaseRead", "releaseRemove"}

\* Only one wizard runs at a time.
MutualExclusion == \A v, w \in Wizards : Holding(v) /\ Holding(w) => v = w

\* The path names the file of the wizard that holds the lock, so whoever looks
\* next sees its pid: nobody's removal has hit another's file.
HolderOnDisk == \A w \in Wizards : pc[w] = "held" => PidAt(path) = w

=============================================================================
