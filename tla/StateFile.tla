------------------------------ MODULE StateFile ------------------------------
(***************************************************************************)
(* The state file of kbd-rpi (internal/state/state.go): one JSON document  *)
(* at a fixed path, naming the target the keyboard was last switched to.   *)
(* Nothing locks it and Save rewrites it in place, so the file is modelled *)
(* the way the kernel sees it: a directory entry that names an inode, the  *)
(* contents of the inodes, and the descriptor each process holds.  A       *)
(* process that opened the file keeps its inode when the name is removed.  *)
(*                                                                         *)
(* This module has the operations of the file.  Switcher has the processes *)
(* that call them.                                                         *)
(***************************************************************************)
EXTENDS Naturals

CONSTANTS
    Procs,      \* slots for running kbd-rpi processes
    Inodes,     \* inodes of the directory that holds the file
    Targets,    \* keys of the "targets" map of the configuration
    MACs,       \* Bluetooth addresses of the hosts
    NoInode,    \* no file: the name is absent, or the process holds none
    Broken      \* contents that do not decode: empty, cut or incomplete

\* state.go keeps a timestamp too; no code reads it but to refuse zero.
Entry == [target : Targets, mac : MACs]

ASSUME StateFileAssumption ==
    /\ NoInode \notin Inodes
    /\ Broken \notin Entry

VARIABLES
    path,       \* the inode the name stands for, or NoInode
    content,    \* what a decoder reads from the start of each inode
    fd          \* the inode each process has open, or NoInode

fileVars == <<path, content, fd>>

FileTypeOK ==
    /\ path \in Inodes \union {NoInode}
    /\ content \in [Inodes -> Entry \union {Broken}]
    /\ fd \in [Procs -> Inodes \union {NoInode}]

FileInit ==
    /\ path = NoInode
    /\ content = [i \in Inodes |-> Broken]
    /\ fd = [p \in Procs |-> NoInode]

----------------------------------------------------------------------------

\* os.Open of an existing file.
OpenFile(p) ==
    /\ path # NoInode
    /\ fd' = [fd EXCEPT ![p] = path]
    /\ UNCHANGED <<path, content>>

\* Mutant of CloseFile: the descriptor leaks.
CloseFileLeaks(p) == UNCHANGED fileVars

\* The (deferred or implied) close of the descriptor, at exit too.
CloseFile(p) ==
    /\ fd' = [fd EXCEPT ![p] = NoInode]
    /\ UNCHANGED <<path, content>>

\* os.Create: truncate the file if the name exists, else a new empty inode,
\* which is none that a process still holds open.
CreateFile(p) ==
    \E i \in Inodes :
        /\ IF path = NoInode THEN \A q \in Procs : fd[q] # i ELSE i = path
        /\ path' = i
        /\ content' = [content EXCEPT ![i] = Broken]
        /\ fd' = [fd EXCEPT ![p] = i]

\* Encode hands the document to one write at offset 0 of the inode that was
\* opened, which the name may no longer stand for.  A longer document left
\* there by another writer survives as a tail that the decoder never reads.
WriteEntry(p, e) ==
    /\ content' = [content EXCEPT ![fd[p]] = e]
    /\ fd' = [fd EXCEPT ![p] = NoInode]
    /\ UNCHANGED path

\* The write or the close after it fails: nothing, a part, or all of the
\* document is in the inode.
WriteFails(p, e) ==
    \E left \in {content[fd[p]], Broken, e} : WriteEntry(p, left)

\* Mutant of RemoveName: the file is emptied, not removed.
RemoveNameEmpties ==
    /\ content' = IF path = NoInode THEN content ELSE [content EXCEPT ![path] = Broken]
    /\ UNCHANGED <<path, fd>>

\* os.Remove: no error when the name is already absent.  Descriptors stay.
RemoveName ==
    /\ path' = NoInode
    /\ UNCHANGED <<content, fd>>

\* What a reader of the file would find now.
Recorded ==
    IF path = NoInode THEN {} ELSE {content[path]} \ {Broken}

RecordedMACs == {e.mac : e \in Recorded}

============================================================================
