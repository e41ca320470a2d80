----------------------------- MODULE NMPersist -----------------------------
\* Persistence of the name server's file table and user list
\* (name_server/persistence.c):
\* every handler that changes metadata (CREATE, DELETE, ADDACCESS,
\* REMACCESS, INFO_UPDATE) replies, then calls nm_save_files, which opens
\* files.meta with fopen("w") before taking the table lock, formats one
\* record per file under the lock, and writes the buffer at fclose.  At
\* start nm_load_files inserts the records in file order.  nm_run never
\* returns, so the NM only stops by being killed: a restart reloads
\* whatever files.meta holds.  The user list (users.dat) is saved the same
\* way by nm_register_persistent_user, and nm_load_users prepends each
\* line it reads, without a duplicate check.
\*
\* A FileMetadata is abstracted to a version: a fresh one at every change,
\* so two records are equal only when they describe the same change.  The
\* file is modelled record by record.
EXTENDS Integers, Sequences, SequencesExt, FiniteSets

CONSTANTS
  Clients,    \* NM handler threads
  Names,      \* filenames
  NameOrder,  \* the names in the order nm_save_files walks the buckets
  Users,      \* usernames
  MaxVer      \* bound: versions in use at once

ASSUME NameOrder \in Seq(Names) /\ ToSet(NameOrder) = Names /\ MaxVer \in Nat

NoMeta == 0

\* The two files the NM keeps: files.meta and users.dat.
Stores == {"files", "users"}

VARIABLES
  table,     \* nm->file_table: name -> version, NoMeta when absent
  users,     \* nm->all_users_list, head first
  disk,      \* the records in each file: <<[name, ver], ...>> or <<user, ...>>
  p,         \* local state of each handler thread
  lastSnap,  \* history: what the latest save of each file formatted
  acked      \* history: the table as acknowledged to clients

vars == <<table, users, disk, p, lastSnap, acked>>

\* The records nm_save_files formats: one per file, in bucket order.
Encode(t) ==
  LET present == SelectSeq(NameOrder, LAMBDA k : t[k] # NoMeta)
  IN [i \in 1..Len(present) |-> [name |-> present[i], ver |-> t[present[i]]]]

\* nm_load_files: each record is ht_insert-ed in file order; ht_insert
\* refuses a name already in the table, so the first record wins.
Decode(s) ==
  FoldLeft(LAMBDA t, r : IF t[r.name] = NoMeta THEN [t EXCEPT ![r.name] = r.ver] ELSE t,
           [k \in Names |-> NoMeta], s)

\* nm_load_users: every non-empty line is pushed on the head of the list.
LoadUsers(s) == Reverse(s)

\* Mutant: each save formats the other store's list.
FormattedSwapped(st) == IF st = "files" THEN users ELSE Encode(table)

\* What a save of store st formats under its lock.
Formatted(st) == IF st = "files" THEN Encode(table) ELSE users

\* write(2) of the buffer at fclose: the descriptor's offset is still 0,
\* so the records overwrite the start of the file and any longer content
\* written since the truncation survives after them.
WriteAtStart(s, buf) == buf \o SubSeq(s, Len(buf) + 1, Len(s))

Idle == [pc |-> "idle", store |-> "files", buf |-> <<>>]

\* Every change allocates a new FileMetadata; a version nothing refers to
\* any more is as good as a new one, so the least unused one is taken.
VersionsInUse ==
  LET recs == ToSet(disk["files"]) \cup ToSet(lastSnap["files"])
              \cup UNION {ToSet(p[c].buf) : c \in {d \in Clients : p[d].store = "files"}}
  IN Range(table) \cup Range(acked) \cup {r.ver : r \in recs}

FreshVersion == Min((1..MaxVer) \ VersionsInUse)

Init ==
  /\ table = [k \in Names |-> NoMeta]
  /\ users = <<>>
  /\ disk = [st \in Stores |-> <<>>]
  /\ p = [c \in Clients |-> Idle]
  /\ lastSnap = disk
  /\ acked = table

\* A handler changes one file's metadata and replies, then saves the
\* table: CREATE of a name that has none, DELETE of one that has, or an
\* access or stats update.
ChangeMeta(c) ==
  /\ p[c].pc = "idle"
  /\ (1..MaxVer) \ VersionsInUse # {}
  /\ \E k \in Names, v \in {NoMeta, FreshVersion} :
       /\ v = NoMeta => table[k] # NoMeta
       /\ table' = [table EXCEPT ![k] = v]
  /\ acked' = table'
  /\ p' = [p EXCEPT ![c] = [Idle EXCEPT !.pc = "open"]]
  /\ UNCHANGED <<users, disk, lastSnap>>

\* Mutant: the duplicate check of the user list skipped.
RegisterUserNoCheck(c) ==
  /\ p[c].pc = "idle"
  /\ \E u \in Users : users' = <<u>> \o users
  /\ p' = [p EXCEPT ![c] = [Idle EXCEPT !.pc = "open", !.store = "users"]]
  /\ UNCHANGED <<table, disk, lastSnap, acked>>

\* INIT_CLIENT of a user not yet in the list: prepend under
\* all_users_mutex, unlock, then nm_save_users.  A known user returns early.
RegisterUser(c) ==
  /\ p[c].pc = "idle"
  /\ \E u \in Users \ ToSet(users) : users' = <<u>> \o users
  /\ p' = [p EXCEPT ![c] = [Idle EXCEPT !.pc = "open", !.store = "users"]]
  /\ UNCHANGED <<table, disk, lastSnap, acked>>

\* fopen(..., "w") truncates the file, before any lock is taken.
SaveOpen(c) ==
  /\ p[c].pc = "open"
  /\ disk' = [disk EXCEPT ![p[c].store] = <<>>]
  /\ p' = [p EXCEPT ![c].pc = "format"]
  /\ UNCHANGED <<table, users, lastSnap, acked>>

\* fopen fails: the error is logged and nothing is saved.
SaveOpenFails(c) ==
  /\ p[c].pc = "open"
  /\ p' = [p EXCEPT ![c] = Idle]
  /\ UNCHANGED <<table, users, disk, lastSnap, acked>>

\* Under the table lock (all_users_mutex for users.dat) every record is
\* formatted into the FILE buffer; the lock is released before fclose.
SaveFormat(c) ==
  /\ p[c].pc = "format"
  /\ p' = [p EXCEPT ![c].pc = "close", ![c].buf = Formatted(p[c].store)]
  /\ lastSnap' = [lastSnap EXCEPT ![p[c].store] = Formatted(p[c].store)]
  /\ UNCHANGED <<table, users, disk, acked>>

\* fclose writes the buffer.
SaveClose(c) ==
  /\ p[c].pc = "close"
  /\ disk' = [disk EXCEPT ![p[c].store] = WriteAtStart(@, p[c].buf)]
  /\ p' = [p EXCEPT ![c] = Idle]
  /\ UNCHANGED <<table, users, lastSnap, acked>>

\* The NM is killed and started again: nm_create runs nm_load_files and
\* nm_load_users on an empty table and list.
NMRestart ==
  /\ table' = Decode(disk["files"])
  /\ users' = LoadUsers(disk["users"])
  /\ p' = [c \in Clients |-> Idle]
  /\ UNCHANGED <<disk, lastSnap, acked>>

HandlerNext ==
  \E c \in Clients :
    \/ ChangeMeta(c) \/ RegisterUser(c)
    \/ SaveOpen(c) \/ SaveOpenFails(c) \/ SaveFormat(c) \/ SaveClose(c)

Next == HandlerNext \/ NMRestart

Spec == Init /\ [][Next]_vars

\* Without restarts.
SpecRunning == Init /\ [][HandlerNext]_vars

\* Properties

\* The records each file holds.
StoreRecords ==
  [st \in Stores |-> IF st = "files" THEN Seq([name : Names, ver : 1..MaxVer]) ELSE Seq(Users)]

\* Type invariant.  Each file, each snapshot and each save's stdio buffer
\* holds only records of its own kind: nm_save_files formats file records
\* into files.meta and nm_save_users user names into users.dat.
TypeOK ==
  /\ table \in [Names -> 0..MaxVer]
  /\ users \in Seq(Users)
  /\ \A st \in Stores : disk[st] \in StoreRecords[st] /\ lastSnap[st] \in StoreRecords[st]
  /\ \A c \in Clients :
       /\ p[c].pc \in {"idle", "open", "format", "close"}
       /\ p[c].store \in Stores /\ p[c].buf \in StoreRecords[p[c].store]

\* Whenever no save of a file is between its truncation and its fclose,
\* the file holds exactly the records the latest save formatted: no
\* record of an earlier save survives and no later save is overwritten
\* by an older snapshot.
SavedIsLastSnapshot ==
  \A st \in Stores :
    (\A c \in Clients : p[c].store = st => p[c].pc \in {"idle", "open"})
      => disk[st] = lastSnap[st]

\* Every change acknowledged to a client (201/200) is in the table, also
\* after the NM is killed and restarted from files.meta.
AckedSurvivesRestart == table = acked

\* No user is twice in all_users_list, across registrations, saves and
\* restarts (nm_load_users does not check for duplicates).
UsersUnique == IsInjective(users)

====
