------------------------------ MODULE SSWrite ------------------------------
\* The storage server's collaborative write subsystem: WRITE sessions
\* (handle_ss_write), the sentence-lock table, the per-file commit lock,
\* the modification log that shifts a session's sentence index, UNDO
\* (handle_ss_undo, perform_undo) and the CREATE/DELETE commands that the
\* NM listener thread (ss_listen_to_nm) applies to the same files.
\*
\* File contents and what updates do to them are in FileText; the
\* promise of the commit path is the abstract specification FileCommits.
EXTENDS FileText, Functions, FiniteSets

CONSTANTS
  Workers,     \* SS worker threads, one per client connection
  Files,       \* file names
  None,        \* model value: nobody holds a file-commit lock
  InitLen,     \* number of sentences of each file when the SS starts
  ReqIdx,      \* sentence numbers a client may send in "WRITE f n"
  MaxUpdates,  \* bound: buffered updates per WRITE session
  MaxLog       \* bound: a session starts only while the log is shorter

ASSUME InitLen \in Nat /\ MaxUpdates \in Nat /\ MaxLog \in Nat
ASSUME ReqIdx \subseteq Int

VARIABLES
  disk,       \* disk[f]: content of <storage>/f, or Absent
  undo,       \* undo[f]: content of <storage>/f.undo, or Absent
  sentLocks,  \* ss->sentence_locks_head as a set of <<file, sent_num>>
  fileLock,   \* holder of the file-commit mutex of each file (or None)
  modLog,     \* ss->mod_log_head; entry i has id i-1, so next_log_id = Len
  nextSid,    \* next fresh sentence identity (model bookkeeping)
  nmDeleted,  \* files unlinked by an NM DELETE and not created since (history)
  w           \* local state of each worker thread

vars == <<disk, undo, sentLocks, fileLock, modLog, nextSid, nmDeleted, w>>

\* get_current_log_id: the id the next log entry will receive.
GetCurrentLogId == Len(modLog)

\* log_modification: append an entry (a zero delta is not logged).
LogModification(f, index, delta) ==
  IF delta = 0 THEN modLog
  ELSE Append(modLog, [file |-> f, idx |-> index, delta |-> delta])

\* get_sentence_shift: the deltas of the entries with id >= start_log_id
\* for the same file whose original_sentence_index < original_index.
GetSentenceShift(f, n, start) ==
  SumFunctionOnSet([i \in DOMAIN modLog |-> modLog[i].delta],
                   {i \in DOMAIN modLog : /\ i - 1 >= start
                                          /\ modLog[i].file = f
                                          /\ modLog[i].idx < n})

\* Worker threads

IdleW == [pc |-> "idle", op |-> "none", f |-> None, n |-> 0, start |-> 0,
          target |-> 0, ups |-> <<>>, cur |-> Empty, before |-> 0, real |-> 0,
          undone |-> FALSE]

\* Program counters between try_lock_sentence and unlock_sentence.
HoldPCs == {"validate", "recv", "acquire", "backup", "apply", "open",
            "write", "finish", "release", "unlock"}

Holding(s) == w[s].op = "write" /\ w[s].pc \in HoldPCs

Init ==
  /\ disk \in [Files -> {[c |-> [i \in 1..InitLen |-> i], done |-> d] : d \in BOOLEAN}]
  /\ undo = [f \in Files |-> Absent]
  /\ sentLocks = {}
  /\ fileLock = [f \in Files |-> None]
  /\ modLog = <<>>
  /\ nextSid = InitLen + 1
  /\ nmDeleted = {}
  /\ w = [s \in Workers |-> IdleW]

Goto(s, pc) == w' = [w EXCEPT ![s].pc = pc]

\* ss_handle_client_connection reads "WRITE f n"; handle_ss_write first
\* records start_log_id = get_current_log_id().
ReqWrite(s) ==
  /\ w[s].pc = "idle"
  /\ Len(modLog) < MaxLog
  /\ \E f \in Files, n \in ReqIdx :
       w' = [w EXCEPT ![s] = [IdleW EXCEPT !.pc = "lock", !.op = "write",
                               !.f = f, !.n = n, !.start = GetCurrentLogId,
                               !.target = TargetAt(Load(disk[f]), n)]]
  /\ UNCHANGED <<disk, undo, sentLocks, fileLock, modLog, nextSid, nmDeleted>>

\* try_lock_sentence finds <<f, n>> held: reply 423 and end the session.
TryLockBusy(s) ==
  /\ w[s].pc = "lock"
  /\ <<w[s].f, w[s].n>> \in sentLocks
  /\ w' = [w EXCEPT ![s] = IdleW]
  /\ UNCHANGED <<disk, undo, sentLocks, fileLock, modLog, nextSid, nmDeleted>>

\* try_lock_sentence adds <<f, n>> to the lock list.
TryLockTaken(s) ==
  /\ w[s].pc = "lock"
  /\ <<w[s].f, w[s].n>> \notin sentLocks
  /\ sentLocks' = sentLocks \cup {<<w[s].f, w[s].n>>}
  /\ Goto(s, "validate")
  /\ UNCHANGED <<disk, undo, fileLock, modLog, nextSid, nmDeleted>>

\* Mutant: the 400 path returns without unlock_sentence.
ValidateRejectKeepsLock(s) ==
  /\ w[s].pc = "validate"
  /\ w[s].n < 0 \/ w[s].n > MaxValidIndex(Load(disk[w[s].f]))
  /\ w' = [w EXCEPT ![s] = IdleW]
  /\ UNCHANGED <<disk, undo, sentLocks, fileLock, modLog, nextSid, nmDeleted>>

\* The index check reads the file without the commit lock; out of range:
\* reply 400 and unlock_sentence.
ValidateReject(s) ==
  /\ w[s].pc = "validate"
  /\ w[s].n < 0 \/ w[s].n > MaxValidIndex(Load(disk[w[s].f]))
  /\ sentLocks' = sentLocks \ {<<w[s].f, w[s].n>>}
  /\ w' = [w EXCEPT ![s] = IdleW]
  /\ UNCHANGED <<disk, undo, fileLock, modLog, nextSid, nmDeleted>>

\* In range: reply "202 ACK_WRITE" and start receiving updates.
ValidateAccept(s) ==
  /\ w[s].pc = "validate"
  /\ w[s].n \in 0..MaxValidIndex(Load(disk[w[s].f]))
  /\ Goto(s, "recv")
  /\ UNCHANGED <<disk, undo, sentLocks, fileLock, modLog, nextSid, nmDeleted>>

\* A line "<word_idx> <content>" is queued; nothing is acknowledged.
RecvUpdate(s) ==
  /\ w[s].pc = "recv"
  /\ Len(w[s].ups) < MaxUpdates
  /\ \E k \in Kinds : w' = [w EXCEPT ![s].ups = Append(@, k)]
  /\ UNCHANGED <<disk, undo, sentLocks, fileLock, modLog, nextSid, nmDeleted>>

\* "ETIRW", or the client closing the connection, ends phase 2.
RecvEnd(s) ==
  /\ w[s].pc = "recv"
  /\ Goto(s, "acquire")
  /\ UNCHANGED <<disk, undo, sentLocks, fileLock, modLog, nextSid, nmDeleted>>

\* Mutant: the commit proceeds without waiting for the mutex.
AcquireCommitLockNoWait(s) ==
  /\ w[s].pc = "acquire"
  /\ fileLock' = [fileLock EXCEPT ![w[s].f] = s]
  /\ Goto(s, "backup")
  /\ UNCHANGED <<disk, undo, sentLocks, modLog, nextSid, nmDeleted>>

\* pthread_mutex_lock(get_file_commit_lock(ss, filename)).
AcquireCommitLock(s) ==
  /\ w[s].pc = "acquire"
  /\ fileLock[w[s].f] = None
  /\ fileLock' = [fileLock EXCEPT ![w[s].f] = s]
  /\ Goto(s, "backup")
  /\ UNCHANGED <<disk, undo, sentLocks, modLog, nextSid, nmDeleted>>

\* create_undo_backup: unlink the old .undo, then copy the file if it
\* exists; when the copy cannot be opened the backup is simply gone.
CreateUndoBackup(s) ==
  /\ w[s].pc = "backup"
  /\ \/ undo' = [undo EXCEPT ![w[s].f] = disk[w[s].f]]
     \/ /\ disk[w[s].f] # Absent
        /\ undo' = [undo EXCEPT ![w[s].f] = Absent]
  /\ Goto(s, "apply")
  /\ UNCHANGED <<disk, sentLocks, fileLock, modLog, nextSid, nmDeleted>>

\* Load the content, count_before, the shift, and every buffered update;
\* a failed update replies 500 and skips the write.
ApplyBuffered(s) ==
  /\ w[s].pc = "apply"
  /\ LET cur0 == Load(disk[w[s].f])
         real == w[s].n + GetSentenceShift(w[s].f, w[s].n, w[s].start)
         res  == ApplyUpdates(cur0, real, w[s].ups, nextSid)
     IN /\ w' = [w EXCEPT ![s].before = Len(cur0.c), ![s].real = real,
                          ![s].cur = res.fl,
                          ![s].pc = IF res.ok THEN "open" ELSE "release"]
  /\ UNCHANGED <<disk, undo, sentLocks, fileLock, modLog, nextSid, nmDeleted>>

\* fopen(filepath, "w") truncates (or creates) the file.
OpenForWrite(s) ==
  /\ w[s].pc = "open"
  /\ disk' = [disk EXCEPT ![w[s].f] = Empty]
  /\ Goto(s, "write")
  /\ UNCHANGED <<undo, sentLocks, fileLock, modLog, nextSid, nmDeleted>>

\* fopen fails: reply 500 "Failed to write file".
OpenFails(s) ==
  /\ w[s].pc = "open"
  /\ Goto(s, "release")
  /\ UNCHANGED <<disk, undo, sentLocks, fileLock, modLog, nextSid, nmDeleted>>

\* fwrite + fclose.  The identities of new sentences are used up once
\* they reach the disk.
WriteFile(s) ==
  /\ w[s].pc = "write"
  /\ disk' = [disk EXCEPT ![w[s].f] = w[s].cur]
  /\ nextSid' = FreshAbove(nextSid, ToSet(w[s].cur.c))
  /\ Goto(s, "finish")
  /\ UNCHANGED <<undo, sentLocks, fileLock, modLog, nmDeleted>>

\* Mutant: the "delta != 0" test before log_modification is dropped.
FinishCommitLogsZero(s) ==
  /\ w[s].pc = "finish"
  /\ modLog' = Append(modLog, [file |-> w[s].f, idx |-> w[s].real,
                               delta |-> Len(w[s].cur.c) - w[s].before])
  /\ fileLock' = [fileLock EXCEPT ![w[s].f] = None]
  /\ w' = [w EXCEPT ![s] = [@ EXCEPT !.pc = "unlock", !.ups = <<>>, !.cur = Empty,
                                     !.before = 0, !.real = 0]]
  /\ UNCHANGED <<disk, undo, sentLocks, nextSid, nmDeleted>>

\* count_after; log_modification when the delta is nonzero; reply 200,
\* INFO_UPDATE to the NM, and unlock the commit mutex.
FinishCommit(s) ==
  /\ w[s].pc = "finish"
  /\ modLog' = LogModification(w[s].f, w[s].real, Len(w[s].cur.c) - w[s].before)
  /\ fileLock' = [fileLock EXCEPT ![w[s].f] = None]
  /\ w' = [w EXCEPT ![s] = [@ EXCEPT !.pc = "unlock", !.ups = <<>>, !.cur = Empty,
                                     !.before = 0, !.real = 0]]
  /\ UNCHANGED <<disk, undo, sentLocks, nextSid, nmDeleted>>

\* Mutant: an error path returns without pthread_mutex_unlock.
ReleaseAfterErrorKeepsLock(s) ==
  /\ w[s].pc = "release"
  /\ w' = [w EXCEPT ![s] = [@ EXCEPT !.pc = "unlock", !.ups = <<>>, !.cur = Empty,
                                     !.before = 0, !.real = 0]]
  /\ UNCHANGED <<disk, undo, sentLocks, fileLock, modLog, nextSid, nmDeleted>>

\* The error paths unlock the commit mutex too.
ReleaseAfterError(s) ==
  /\ w[s].pc = "release"
  /\ fileLock' = [fileLock EXCEPT ![w[s].f] = None]
  /\ w' = [w EXCEPT ![s] = [@ EXCEPT !.pc = "unlock", !.ups = <<>>, !.cur = Empty,
                                     !.before = 0, !.real = 0]]
  /\ UNCHANGED <<disk, undo, sentLocks, modLog, nextSid, nmDeleted>>

\* unlock_sentence(ss, filename, sent_num): the session's original index.
UnlockSentence(s) ==
  /\ w[s].pc = "unlock"
  /\ sentLocks' = sentLocks \ {<<w[s].f, w[s].n>>}
  /\ w' = [w EXCEPT ![s] = IdleW]
  /\ UNCHANGED <<disk, undo, fileLock, modLog, nextSid, nmDeleted>>

\* A client's "UNDO f" reaches handle_ss_undo.
ReqUndo(s) ==
  /\ w[s].pc = "idle"
  /\ \E f \in Files :
       w' = [w EXCEPT ![s] = [IdleW EXCEPT !.pc = "uacquire", !.op = "undo", !.f = f]]
  /\ UNCHANGED <<disk, undo, sentLocks, fileLock, modLog, nextSid, nmDeleted>>

AcquireUndoLock(s) ==
  /\ w[s].pc = "uacquire"
  /\ fileLock[w[s].f] = None
  /\ fileLock' = [fileLock EXCEPT ![w[s].f] = s]
  /\ Goto(s, "undo")
  /\ UNCHANGED <<disk, undo, sentLocks, modLog, nextSid, nmDeleted>>

\* perform_undo finds no .undo file: reply 404, unlock.
UndoMissing(s) ==
  /\ w[s].pc = "undo"
  /\ undo[w[s].f] = Absent
  /\ fileLock' = [fileLock EXCEPT ![w[s].f] = None]
  /\ w' = [w EXCEPT ![s] = IdleW]
  /\ UNCHANGED <<disk, undo, sentLocks, modLog, nextSid, nmDeleted>>

\* rename(f.undo, f): reply 200, INFO_UPDATE, unlock.  The log is not
\* touched; open sessions on f are marked (history) as having seen an undo.
UndoRestore(s) ==
  /\ w[s].pc = "undo"
  /\ undo[w[s].f] # Absent
  /\ disk' = [disk EXCEPT ![w[s].f] = undo[w[s].f]]
  /\ undo' = [undo EXCEPT ![w[s].f] = Absent]
  /\ fileLock' = [fileLock EXCEPT ![w[s].f] = None]
  /\ w' = [t \in Workers |->
             IF t = s THEN IdleW
             ELSE IF w[t].op = "write" /\ w[t].f = w[s].f
                  THEN [w[t] EXCEPT !.undone = TRUE] ELSE w[t]]
  /\ UNCHANGED <<sentLocks, modLog, nextSid, nmDeleted>>

\* The NM listener thread (ss_listen_to_nm); it takes no SS lock.

\* "CREATE f": fopen(filepath, "w") creates f, or truncates a file of that
\* name the SS still holds (an orphan the NM has no metadata for, or the
\* file of a racing CREATE).  A failing fopen changes nothing.
NMCreate(f) ==
  /\ disk' = [disk EXCEPT ![f] = Empty]
  /\ nmDeleted' = nmDeleted \ {f}
  /\ UNCHANGED <<undo, sentLocks, fileLock, modLog, nextSid, w>>

\* "DELETE f": unlink the file and its .undo file.
NMDelete(f) ==
  /\ disk[f] # Absent
  /\ disk' = [disk EXCEPT ![f] = Absent]
  /\ undo' = [undo EXCEPT ![f] = Absent]
  /\ nmDeleted' = nmDeleted \cup {f}
  /\ UNCHANGED <<sentLocks, fileLock, modLog, nextSid, w>>


\* The SS process dies and main() starts it again (ss_create, then the
\* directory scan): the files and .undo files survive; the sentence and
\* commit locks, the modification log and every session are gone.
SSRestart ==
  /\ sentLocks' = {}
  /\ fileLock' = [f \in Files |-> None]
  /\ modLog' = <<>>
  /\ w' = [s \in Workers |-> IdleW]
  /\ UNCHANGED <<disk, undo, nextSid, nmDeleted>>

\* Steps the server takes by itself once a request is in.
ServerStep(s) ==
  \/ TryLockBusy(s) \/ TryLockTaken(s) \/ ValidateReject(s) \/ ValidateAccept(s)
  \/ CreateUndoBackup(s) \/ ApplyBuffered(s) \/ OpenForWrite(s) \/ OpenFails(s)
  \/ WriteFile(s) \/ FinishCommit(s) \/ ReleaseAfterError(s) \/ UnlockSentence(s)
  \/ UndoMissing(s) \/ UndoRestore(s)

\* Steps driven by the client.
ClientStep(s) == ReqWrite(s) \/ RecvUpdate(s) \/ RecvEnd(s) \/ ReqUndo(s)

WorkerNext ==
  \E s \in Workers :
    ClientStep(s) \/ ServerStep(s) \/ AcquireCommitLock(s) \/ AcquireUndoLock(s)

NMNext == \E f \in Files : NMCreate(f) \/ NMDelete(f)

Next == WorkerNext \/ NMNext

\* Worker threads run once scheduled; a contended pthread mutex is
\* assumed to be granted eventually to a thread that keeps waiting for it.
Fairness ==
  \A s \in Workers :
    /\ WF_vars(ServerStep(s))
    /\ SF_vars(AcquireCommitLock(s))
    /\ SF_vars(AcquireUndoLock(s))

Spec == Init /\ [][Next]_vars /\ Fairness

\* Properties

TypeOK ==
  /\ disk \in [Files -> FileContent \cup {Absent}]
  /\ undo \in [Files -> FileContent \cup {Absent}]
  /\ sentLocks \subseteq Files \X ReqIdx
  /\ fileLock \in [Files -> Workers \cup {None}]
  /\ modLog \in Seq([file : Files, idx : Int, delta : Int \ {0}])
  /\ nextSid \in Nat
  /\ nmDeleted \subseteq Files
  /\ \A s \in Workers : w[s].pc = "idle" <=> w[s].op = "none"

\* Lock bookkeeping of try_lock_sentence / unlock_sentence over all the
\* paths out of handle_ss_write (423, 400, 500, 200): the lock table holds
\* exactly the <<file, index>> of the sessions between lock and unlock,
\* and no two such sessions share one.
LockTableMatchesSessions ==
  /\ sentLocks = {<<w[s].f, w[s].n>> : s \in {t \in Workers : Holding(t)}}
  /\ \A s, t \in Workers :
       s # t /\ Holding(s) /\ Holding(t) => <<w[s].f, w[s].n>> # <<w[t].f, w[t].n>>

\* Once a client has ended its update stream (ETIRW or disconnect), the
\* commit under the file lock finishes and the sentence lock is released.
CommitCompletes ==
  \A s \in Workers : w[s].pc = "acquire" ~> w[s].pc = "idle"

\* The index translation of the commit (get_sentence_shift): when the
\* session's target sentence still exists and no UNDO of the file happened
\* since the session began (spec section 9 accepts that case), the real
\* index sent_num + shift designates the sentence that sent_num designated
\* when the session took its start_log_id.
ShiftCorrect ==
  \A s \in Workers :
    LET fl   == Load(disk[w[s].f])
        real == w[s].n + GetSentenceShift(w[s].f, w[s].n, w[s].start)
    IN (/\ w[s].pc = "apply"
        /\ ~w[s].undone
        /\ w[s].target # 0
        /\ w[s].target \in ToSet(fl.c))
       => real \in 0..Len(fl.c) - 1 /\ fl.c[real + 1] = w[s].target

\* Sentence-level exclusion: two clients are never in their update phase
\* on the same sentence of the same file at once.
SentenceExclusive ==
  \A s, t \in Workers :
    (/\ s # t
     /\ w[s].op = "write" /\ w[t].op = "write"
     /\ w[s].pc \in {"recv", "acquire"} /\ w[t].pc \in {"recv", "acquire"}
     /\ w[s].f = w[t].f
     /\ w[s].target # 0)
    => w[s].target # w[t].target

\* An NM DELETE is final on the SS: once the listener thread has unlinked
\* f, f stays absent until the NM sends CREATE f again; a WRITE commit
\* that was in flight (it holds only the commit mutex, which the listener
\* never takes) does not bring the file back.
DeleteIsFinal == \A f \in nmDeleted : disk[f] = Absent

\* Refinement

\* The file as the holders of its commit mutex see it (commits and UNDO):
\* while a commit is between fopen("w") and fwrite, only that commit holds
\* the mutex, so the content it is writing stands for the file.  Readers
\* that take no lock (the index check, READ, GET_CONTENT) can see the
\* truncated file instead; RejectOnlyOutOfRange is about them.
Writing(f) == {s \in Workers : w[s].pc = "write" /\ w[s].f = f}

Visible(f) == IF Writing(f) = {} THEN disk[f] ELSE w[CHOOSE s \in Writing(f) : TRUE].cur

VisibleNextSid ==
  FreshAbove(nextSid, UNION {ToSet(w[s].cur.c) : s \in {t \in Workers : w[t].pc = "write"}})

Abs == INSTANCE FileCommits WITH content <- [f \in Files |-> Visible(f)],
                                 backup <- undo, nextSid <- VisibleNextSid

\* The commit path of handle_ss_write and handle_ss_undo implements
\* FileCommits for the holders of the commit mutex: every commit applies the
\* session's updates to the content the file has when it is written (no
\* lost update between ApplyBuffered's read and fwrite), the backup is
\* taken before, and UNDO restores it once.
ImplementsFileCommits == Abs!Spec

\* The index check of handle_ss_write answers from the committed file: a
\* WRITE is refused with 400 only when its index is out of range for the
\* content the file has (the visible content of FileCommits), never
\* because another session's commit has truncated the file with
\* fopen("w") and not yet written it.
RejectOnlyOutOfRange ==
  [][\A s \in Workers :
       ValidateReject(s) => w[s].n \notin 0..MaxValidIndex(Load(Visible(w[s].f)))]_vars

\* The sentence_delta values the modification log holds for f, summed.
LogDeltaSum(log, f) ==
  SumFunctionOnSet([i \in DOMAIN log |-> log[i].delta], {i \in DOMAIN log : log[i].file = f})

\* Spec 8.3: whenever a WRITE commit of f finishes, the deltas logged for f
\* sum to its sentence count after this write minus the count the file
\* had when the log began (InitLen, the files the SS starts with).  Needs
\* every change of a file's sentence count to go through a logged commit;
\* handle_ss_undo's rename of the backup changes it without a log entry.
LogSumMatchesCount ==
  [][\A s \in Workers :
       w[s].pc = "finish" /\ w'[s].pc = "unlock"
         => LogDeltaSum(modLog', w[s].f) = Len(w[s].cur.c) - InitLen]_vars

====
