------------------------------- MODULE Files -------------------------------
(***************************************************************************)
(* What the inode table promises to the rest of a file system: files with  *)
(* contents, which a process may open, change and close.  A file exists as *)
(* long as it has a name or somebody has it open.  Slots, inode locks,     *)
(* reading in and writing back are invisible.                              *)
(***************************************************************************)
CONSTANTS Proc, Inode, Data, NoFile

VARIABLES
  content,  \* of each file; NoFile when it does not exist
  named,    \* the files with a name
  open,     \* the file each process has open, or NoFile
  intact    \* the promise stands

vars == <<content, named, open, intact>>

Init ==
  /\ content \in [Inode -> Data] /\ named = Inode
  /\ open = [p \in Proc |-> NoFile]
  /\ intact = TRUE

Open(p, i) ==
  /\ open[p] = NoFile /\ content[i] # NoFile
  /\ open' = [open EXCEPT ![p] = i]
  /\ UNCHANGED <<content, named>>

Change(p, d) ==
  /\ open[p] # NoFile
  /\ content' = [content EXCEPT ![open[p]] = d]
  /\ UNCHANGED <<named, open>>

Unlink(p) ==
  /\ open[p] \in named
  /\ named' = named \ {open[p]}
  /\ UNCHANGED <<content, open>>

Close(p) ==
  /\ open[p] # NoFile
  /\ open' = [open EXCEPT ![p] = NoFile]
  /\ UNCHANGED <<content, named>>

Vanish(i) ==
  /\ i \notin named /\ \A p \in Proc : open[p] # i
  /\ content' = [content EXCEPT ![i] = NoFile]
  /\ UNCHANGED <<named, open>>

Next ==
  \/ \E p \in Proc : \/ \E i \in Inode : Open(p, i)
                     \/ \E d \in Data : Change(p, d)
                     \/ Unlink(p) \/ Close(p)
  \/ \E i \in Inode : Vanish(i)

Spec == Init /\ [][intact' => Next]_vars
=============================================================================
