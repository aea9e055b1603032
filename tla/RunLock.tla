------------------------------- MODULE RunLock -------------------------------
(***************************************************************************)
(* The per-repository advisory lock of cli.py (_run_lock): processes that  *)
(* each open .codelicious/run.lock, take flock(LOCK_EX | LOCK_NB) on what  *)
(* they opened, run, and on the way out unlock and remove the file.  The   *)
(* lock belongs to the inode, the name run.lock to whichever inode is      *)
(* linked there, and a process may be killed between any two system calls. *)
(* The pid written into the file only serves a message and is left out.    *)
(***************************************************************************)
EXTENDS FiniteSets

CONSTANTS
  Procs,        \* invocations of codelicious on one repository
  Inodes,       \* bound: inodes that run.lock may become
  Nobody,       \* no process
  NoInode,      \* no file
  CleanDeletes  \* may a run's `git clean -fd` delete .codelicious/run.lock?

ASSUME NamesAssumption ==
  /\ Nobody \notin Procs
  /\ NoInode \notin Inodes
  /\ CleanDeletes \in BOOLEAN

VARIABLES
  link,      \* the inode named .codelicious/run.lock, or NoInode
  spare,     \* inodes not used yet
  owner,     \* owner[i]: the process holding flock on inode i, or Nobody
  pc,        \* pc[p]: where process p is
  fd,        \* fd[p]: the inode p has open, or NoInode
  unlinked   \* history: has run.lock ever been removed?

vars == <<link, spare, owner, pc, fd, unlinked>>

Goto(p, state) == pc' = [pc EXCEPT ![p] = state]
CloseFd(p)     == fd' = [fd EXCEPT ![p] = NoInode]
Unlink         == link' = NoInode /\ unlinked' = TRUE

Init ==
  /\ link = NoInode /\ spare = Inodes
  /\ owner = [i \in Inodes |-> Nobody]
  /\ pc = [p \in Procs |-> "new"]
  /\ fd = [p \in Procs |-> NoInode]
  /\ unlinked = FALSE

\* os.open(lock_path, O_CREAT | O_RDWR)
Open(p) ==
  /\ pc[p] = "new"
  /\ \/ link # NoInode /\ UNCHANGED <<link, spare>>
     \/ link = NoInode /\ link' \in spare /\ spare' = spare \ {link'}
  /\ fd' = [fd EXCEPT ![p] = link']
  /\ Goto(p, "opened")
  /\ UNCHANGED <<owner, unlinked>>

\* Slip: the lock is taken without asking who has it.
LockAnyway(p) ==
  /\ pc[p] = "opened"
  /\ owner' = [owner EXCEPT ![fd[p]] = p]
  /\ Goto(p, "running")
  /\ UNCHANGED <<link, spare, fd, unlinked>>

Lock(p) ==
  /\ pc[p] = "opened" /\ owner[fd[p]] = Nobody
  /\ owner' = [owner EXCEPT ![fd[p]] = p]
  /\ Goto(p, "running")
  /\ UNCHANGED <<link, spare, fd, unlinked>>

\* flock fails: a message, exit 75.
Refuse(p) ==
  /\ pc[p] = "opened" /\ owner[fd[p]] # Nobody
  /\ CloseFd(p)
  /\ Goto(p, "exit75")
  /\ UNCHANGED <<link, spare, owner, unlinked>>

\* A failed chunk is reverted while .gitignore lacks .codelicious/.
CleanDeletesLock(p) ==
  /\ CleanDeletes /\ pc[p] = "running"
  /\ Unlink
  /\ UNCHANGED <<spare, owner, pc, fd>>

\* Slip: the descriptor is not closed.
UnlockOnly(p) ==
  /\ pc[p] = "running"
  /\ owner' = [owner EXCEPT ![fd[p]] = Nobody]
  /\ Goto(p, "unlocked")
  /\ UNCHANGED <<link, spare, fd, unlinked>>

\* _release: LOCK_UN and close, at a normal exit, an exception or SIGTERM ...
Unlock(p) ==
  /\ pc[p] = "running"
  /\ owner' = [owner EXCEPT ![fd[p]] = Nobody]
  /\ CloseFd(p)
  /\ Goto(p, "unlocked")
  /\ UNCHANGED <<link, spare, unlinked>>

\* ... then unlink the path, whichever inode it names by now.
RemoveFile(p) ==
  /\ pc[p] = "unlocked"
  /\ Unlink
  /\ Goto(p, "done")
  /\ UNCHANGED <<spare, owner, fd>>

Alive(p) == pc[p] \in {"opened", "running", "unlocked"}

\* Slip: a lock that outlives its process.
KillKeepsLock(p) ==
  /\ Alive(p)
  /\ CloseFd(p)
  /\ Goto(p, "killed")
  /\ UNCHANGED <<link, spare, owner, unlinked>>

\* SIGKILL, or SIGTERM before the atexit handler is registered: the kernel
\* closes the descriptor, and with it the lock goes; the file stays.
Kill(p) ==
  /\ Alive(p)
  /\ owner' = [i \in Inodes |-> IF owner[i] = p THEN Nobody ELSE owner[i]]
  /\ CloseFd(p)
  /\ Goto(p, "killed")
  /\ UNCHANGED <<link, spare, unlinked>>

Next ==
  \E p \in Procs :
     \/ Open(p) \/ Lock(p) \/ Refuse(p)
     \/ CleanDeletesLock(p)
     \/ Unlock(p) \/ RemoveFile(p)
     \/ Kill(p)

Spec == Init /\ [][Next]_vars

-----------------------------------------------------------------------------
(* Every variable has its type, and a process has an inode open exactly     *)
(* from the open to the unlock.                                             *)
TypeOK ==
  /\ link \in Inodes \cup {NoInode}
  /\ spare \subseteq Inodes
  /\ owner \in [Inodes -> Procs \cup {Nobody}]
  /\ pc \in [Procs -> {"new", "opened", "running", "unlocked", "done", "exit75", "killed"}]
  /\ fd \in [Procs -> Inodes \cup {NoInode}]
  /\ unlinked \in BOOLEAN
  /\ \A p \in Procs : fd[p] # NoInode <=> pc[p] \in {"opened", "running"}

(* Whatever was killed and whatever file it left behind, a lock is held     *)
(* only by a process in its run: no stale lock ever refuses a later start   *)
(* (cli.py:181-197).                                                        *)
OwnersRun ==
  \A i \in Inodes : owner[i] # Nobody => pc[owner[i]] = "running" /\ fd[owner[i]] = i

(* Two runs are never in progress on one repository (cli.py:165).  The code *)
(* does not keep this: see the run doc_lock_release.                     *)
MutualExclusion ==
  \A p, q \in Procs : pc[p] = "running" /\ pc[q] = "running" => p = q

(* Until the lock file is first removed they are not, even when earlier     *)
(* runs were killed and left the file behind (cli.py:181-202).              *)
OneRunUntilRemoval == unlinked \/ MutualExclusion
=============================================================================
