--------------------------- MODULE RunLock_proofs ---------------------------
(***************************************************************************)
(* Theorems about RunLock, for any number of processes and inodes.         *)
(***************************************************************************)
EXTENDS RunLock, TLAPS

\* A process in its run holds the lock of the inode it has open.
RunnersOwn ==
  \A p \in Procs : pc[p] = "running" => owner[fd[p]] = p

\* As long as the file was never removed, it is the file everyone opened.
OneFileUntilRemoval ==
  unlinked \/ \A p \in Procs : fd[p] # NoInode => fd[p] = link

LockInv ==
  /\ TypeOK
  /\ OwnersRun
  /\ RunnersOwn
  /\ OneFileUntilRemoval

LEMMA InitLock == Init => LockInv
BY NamesAssumption
DEF Init, LockInv, TypeOK, OwnersRun, RunnersOwn, OneFileUntilRemoval

LEMMA NextLock == LockInv /\ [Next]_vars => LockInv'
<1> SUFFICES ASSUME LockInv, [Next]_vars PROVE LockInv'
  OBVIOUS
<1> USE NamesAssumption DEF LockInv
<1>1. ASSUME NEW p \in Procs, Open(p) PROVE LockInv'
  <2>1. link' \in Inodes /\ fd' = [fd EXCEPT ![p] = link'] /\ (link # NoInode => link' = link)
    BY <1>1 DEF Open, TypeOK
  <2>2. TypeOK'
    BY <1>1, <2>1 DEF Open, Goto, TypeOK
  <2>3. OwnersRun'
    BY <1>1, <2>1 DEF Open, Goto, TypeOK, OwnersRun
  <2>4. RunnersOwn'
    BY <1>1, <2>1 DEF Open, Goto, TypeOK, RunnersOwn
  <2>5. OneFileUntilRemoval'
    BY <1>1, <2>1 DEF Open, TypeOK, OneFileUntilRemoval
  <2> QED
    BY <2>2, <2>3, <2>4, <2>5
<1>2. ASSUME NEW p \in Procs, Lock(p) PROVE LockInv'
  <2>1. fd[p] \in Inodes /\ owner[fd[p]] = Nobody
    BY <1>2 DEF Lock, TypeOK
  <2>2. TypeOK'
    BY <1>2, <2>1 DEF Lock, Goto, TypeOK
  <2>3. OwnersRun'
    BY <1>2, <2>1 DEF Lock, Goto, TypeOK, OwnersRun
  <2>4. RunnersOwn'
    BY <1>2, <2>1 DEF Lock, Goto, TypeOK, RunnersOwn
  <2>5. OneFileUntilRemoval'
    BY <1>2 DEF Lock, OneFileUntilRemoval
  <2> QED
    BY <2>2, <2>3, <2>4, <2>5
<1>3. ASSUME NEW p \in Procs, Refuse(p) PROVE LockInv'
  <2>1. TypeOK'
    BY <1>3 DEF Refuse, Goto, CloseFd, TypeOK
  <2>2. OwnersRun' /\ RunnersOwn'
    BY <1>3 DEF Refuse, Goto, CloseFd, TypeOK, OwnersRun, RunnersOwn
  <2>3. OneFileUntilRemoval'
    BY <1>3 DEF Refuse, CloseFd, TypeOK, OneFileUntilRemoval
  <2> QED
    BY <2>1, <2>2, <2>3
<1>4. ASSUME NEW p \in Procs, CleanDeletesLock(p) PROVE LockInv'
  BY <1>4 DEF CleanDeletesLock, Unlink, TypeOK, OwnersRun, RunnersOwn, OneFileUntilRemoval
<1>5. ASSUME NEW p \in Procs, Unlock(p) PROVE LockInv'
  <2>1. fd[p] \in Inodes /\ owner[fd[p]] = p
    BY <1>5 DEF Unlock, TypeOK, RunnersOwn
  <2>2. TypeOK'
    BY <1>5, <2>1 DEF Unlock, Goto, CloseFd, TypeOK
  <2>3. OwnersRun'
    BY <1>5, <2>1 DEF Unlock, Goto, CloseFd, TypeOK, OwnersRun
  <2>4. RunnersOwn'
    BY <1>5, <2>1 DEF Unlock, Goto, CloseFd, TypeOK, RunnersOwn
  <2>5. OneFileUntilRemoval'
    BY <1>5 DEF Unlock, CloseFd, TypeOK, OneFileUntilRemoval
  <2> QED
    BY <2>2, <2>3, <2>4, <2>5
<1>6. ASSUME NEW p \in Procs, RemoveFile(p) PROVE LockInv'
  <2>1. TypeOK'
    BY <1>6 DEF RemoveFile, Unlink, Goto, TypeOK
  <2>2. OwnersRun' /\ RunnersOwn'
    BY <1>6 DEF RemoveFile, Unlink, Goto, TypeOK, OwnersRun, RunnersOwn
  <2> QED
    BY <1>6, <2>1, <2>2 DEF RemoveFile, Unlink, OneFileUntilRemoval
<1>7. ASSUME NEW p \in Procs, Kill(p) PROVE LockInv'
  <2>1. TypeOK'
    BY <1>7 DEF Kill, Goto, CloseFd, TypeOK
  <2>2. OwnersRun'
    BY <1>7 DEF Kill, Goto, CloseFd, TypeOK, OwnersRun
  <2>3. RunnersOwn'
    BY <1>7 DEF Kill, Goto, CloseFd, TypeOK, RunnersOwn
  <2>4. OneFileUntilRemoval'
    BY <1>7 DEF Kill, CloseFd, TypeOK, OneFileUntilRemoval
  <2> QED
    BY <2>1, <2>2, <2>3, <2>4
<1>8. CASE UNCHANGED vars
  BY <1>8 DEF vars, TypeOK, OwnersRun, RunnersOwn, OneFileUntilRemoval
<1> QED
  BY <1>1, <1>2, <1>3, <1>4, <1>5, <1>6, <1>7, <1>8 DEF Next

LEMMA LockInvariant == Spec => []LockInv
BY InitLock, NextLock, PTL DEF Spec

(* The type invariant of RunLock: in particular a process holds a           *)
(* descriptor exactly from the open to the unlock, its kill or refusal.     *)
THEOREM TypeCorrect == Spec => []TypeOK
<1>1. LockInv => TypeOK
  BY DEF LockInv
<1> QED
  BY <1>1, LockInvariant, PTL

(* A lock file left behind by a killed run never refuses a later one: every *)
(* lock is held by a process in its run.                                    *)
THEOREM NoStaleLock == Spec => []OwnersRun
<1>1. LockInv => OwnersRun
  BY DEF LockInv
<1> QED
  BY <1>1, LockInvariant, PTL

(* Only removing the lock file can let two runs in: with kills, restarts    *)
(* and refusals alone there is at most one.                                 *)
THEOREM ExclusionUntilRemoval == Spec => []OneRunUntilRemoval
<1>1. LockInv => OneRunUntilRemoval
  <2> SUFFICES ASSUME LockInv, ~unlinked,
                      NEW p \in Procs, NEW q \in Procs, pc[p] = "running", pc[q] = "running"
               PROVE  p = q
    BY DEF OneRunUntilRemoval, MutualExclusion
  <2>1. fd[p] = link /\ fd[q] = link
    BY DEF LockInv, TypeOK, OneFileUntilRemoval
  <2> QED
    BY <2>1 DEF LockInv, RunnersOwn
<1> QED
  BY <1>1, LockInvariant, PTL
=============================================================================
