------------------------------ MODULE LockFile ------------------------------
(***************************************************************************)
(* The operating system's side of a lock file, as the locks of             *)
(* portalocker/utils.py use it: one path that names an inode or nothing,   *)
(* the open file description of each Lock object, and the advisory flock   *)
(* of each description.  flock belongs to the inode, not to the path: two  *)
(* descriptions conflict only when they opened the same inode.             *)
(***************************************************************************)
CONSTANTS Locks,     \* the Lock objects that name this path, one per process
          Inodes,    \* the inode numbers of the file system
          None       \* no file, or no open file

ASSUME NoneAssumption == None \notin Inodes

VARIABLES path,      \* the inode the path names, or None
          fd,        \* the inode each lock has open, or None
          granted    \* the flock mode of each lock's open file

fileVars == <<path, fd, granted>>

Modes == {"none", "shared", "exclusive"}

FileTypeOK ==
    /\ path \in Inodes \cup {None}
    /\ fd \in [Locks -> Inodes \cup {None}]
    /\ granted \in [Locks -> Modes]

Conflict(m, n) == m # "none" /\ n # "none" /\ "exclusive" \in {m, n}

(* Whether flock(fd[l], m) is granted now.                                 *)
CanFlock(l, m) ==
    \A k \in Locks \ {l} : fd[k] = fd[l] => ~Conflict(m, granted[k])

(* Somebody has the file open that the path names, and flocked.            *)
PathFlocked == \E l \in Locks : fd[l] = path /\ granted[l] # "none"

(* An inode number is free for a new file once no path and no open file    *)
(* refers to it: numbers are reused.                                       *)
FreeInodes == Inodes \ ({path} \cup {fd[l] : l \in Locks})

(* open(filename, 'a'): the file the path names, created when missing.     *)
Open(l) ==
    /\ fd[l] = None
    /\ \E i \in IF path = None THEN FreeInodes ELSE {path} :
          /\ path' = i
          /\ fd' = [fd EXCEPT ![l] = i]
    /\ UNCHANGED granted

Flock(l, m) ==
    /\ CanFlock(l, m)
    /\ granted' = [granted EXCEPT ![l] = m]
    /\ UNCHANGED <<path, fd>>

Unflock(l) ==
    /\ granted' = [granted EXCEPT ![l] = "none"]
    /\ UNCHANGED <<path, fd>>

(* Closing the only descriptor of an open file drops its flock as well.    *)
CloseFile(l) ==
    /\ fd' = [fd EXCEPT ![l] = None]
    /\ granted' = [granted EXCEPT ![l] = "none"]
    /\ UNCHANGED path

UnlinkPath ==
    /\ path' = None
    /\ UNCHANGED <<fd, granted>>
=============================================================================
