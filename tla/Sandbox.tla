------------------------------- MODULE Sandbox -------------------------------
(***************************************************************************)
(* Sandbox.write_file (sandbox.py): the quota of files one sandbox may     *)
(* create.  A slot is reserved before the write and given back when the    *)
(* write fails.  Contents, permissions and symlinks are left out.          *)
(***************************************************************************)
EXTENDS Integers, FiniteSets

CONSTANTS
  Paths,        \* paths that pass the checks of name and extension
  MaxFiles      \* max_file_count

ASSUME SandboxAssumption == MaxFiles \in Nat /\ IsFiniteSet(Paths)

VARIABLES
  disk,       \* paths that exist in the working tree
  created,    \* _files_created_count
  reserved,   \* _written_paths
  made        \* history: paths this sandbox wrote where no file was

sandbox == <<disk, created, reserved, made>>

NewSandbox == created' = 0 /\ reserved' = {} /\ made' = {}

IsNew(p) == p \notin reserved /\ p \notin disk

\* Room for p: an overwrite, or a free slot.
Allowed(p) == IsNew(p) => created < MaxFiles

\* A slot is reserved for a new path, together with the check.
Reserve(p) ==
  /\ created' = IF IsNew(p) THEN created + 1 ELSE created
  /\ reserved' = IF IsNew(p) THEN reserved \cup {p} ELSE reserved

\* The file is written and renamed into place.
Written(p) ==
  /\ Allowed(p)
  /\ Reserve(p)
  /\ disk' = disk \cup {p}
  /\ made' = IF p \in disk THEN made ELSE made \cup {p}

\* mkdir fails after the reservation, outside the try block that undoes it.
MkdirFails(p) ==
  /\ Allowed(p) /\ p \notin disk
  /\ Reserve(p)
  /\ UNCHANGED <<disk, made>>

\* Slip: the slot is given back without asking whether one was taken.
WriteFailsAlwaysFrees(p) ==
  /\ Allowed(p)
  /\ created' = IF IsNew(p) THEN created ELSE created - 1
  /\ reserved' = reserved \ {p}
  /\ UNCHANGED <<disk, made>>

\* The write fails later: the slot and the path are given back if p was new.
WriteFails(p) ==
  /\ Allowed(p)
  /\ UNCHANGED sandbox

\* WriteFile: refused, failed or written.
WriteFile(p) ==
  \/ ~Allowed(p) /\ UNCHANGED sandbox
  \/ MkdirFails(p)
  \/ WriteFails(p)
  \/ Written(p)
-----------------------------------------------------------------------------
(* No sandbox creates more files than its quota, whatever fails and whatever *)
(* commands delete or create beside it (sandbox.py:283-295, 482-489).        *)
QuotaHolds == Cardinality(made) <= MaxFiles
=============================================================================
