---------------------------- MODULE FileCommits ----------------------------
\* What the storage server promises about a file's bytes (spec sections
\* 4.2, 4.3 and invariant 8.1), with WRITE sessions abstracted away: the
\* file changes only by a commit that applies a session's buffered updates,
\* at one sentence index, to the content the file has at that moment; a
\* commit is preceded by taking the undo backup; UNDO puts the backup back
\* once; the NM creates and deletes files.  Which index a commit uses is
\* left open (the shift is checked separately).
EXTENDS FileText, FiniteSets

CONSTANTS Files, MaxUpdates

VARIABLES
  content,   \* the file as a reader sees it, or Absent
  backup,    \* the undo backup, or Absent
  nextSid    \* the next fresh sentence identity

vars == <<content, backup, nextSid>>

Init ==
  /\ content \in [Files -> FileContent \cup {Absent}]
  /\ backup = [f \in Files |-> Absent]
  /\ nextSid \in Nat \ {0}
  /\ \A f \in Files : content[f] # Absent => \A i \in DOMAIN content[f].c : content[f].c[i] < nextSid

\* The backup is taken (or lost when it cannot be written).
Backup(f) ==
  /\ \/ backup' = [backup EXCEPT ![f] = content[f]]
     \/ /\ content[f] # Absent
        /\ backup' = [backup EXCEPT ![f] = Absent]
  /\ UNCHANGED <<content, nextSid>>

\* A session's updates, all at index r, applied to the current content.
Commit(f) ==
  \E r \in 0..Len(Load(content[f]).c), ups \in BoundedSeq(Kinds, MaxUpdates) :
    LET res == ApplyUpdates(Load(content[f]), r, ups, nextSid)
    IN /\ res.ok
       /\ content' = [content EXCEPT ![f] = res.fl]
       /\ nextSid' = FreshAbove(nextSid, ToSet(res.fl.c))
       /\ UNCHANGED backup

Undo(f) ==
  /\ backup[f] # Absent
  /\ content' = [content EXCEPT ![f] = backup[f]]
  /\ backup' = [backup EXCEPT ![f] = Absent]
  /\ UNCHANGED nextSid

Create(f) ==
  /\ content[f] = Absent
  /\ content' = [content EXCEPT ![f] = Empty]
  /\ UNCHANGED <<backup, nextSid>>

Delete(f) ==
  /\ content[f] # Absent
  /\ content' = [content EXCEPT ![f] = Absent]
  /\ backup' = [backup EXCEPT ![f] = Absent]
  /\ UNCHANGED nextSid

Next == \E f \in Files : Backup(f) \/ Commit(f) \/ Undo(f) \/ Create(f) \/ Delete(f)

Spec == Init /\ [][Next]_vars

====
