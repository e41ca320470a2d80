# TLA+ models of the distributed concurrent file system

This directory holds TLA+ models of the C code under `src/` and the TLC runs
that check them. The models cover:
- the storage server's collaborative WRITE protocol, and an abstract
  specification of its commits that it is shown to implement;
- the name server's file table and storage-server registry;
- the NM's hash table, trie and access lists;
- the NM's persistence of files and users across restarts;
- the SS's byte-level tokenizer and update application, checked against the
  sentence-level abstraction the WRITE model uses;
- a WRITE session on the wire: the client's update loop, the SS's update
  loop, and the TCP byte stream between them;
- EXEC on a client's NM connection: the client's command dispatch, the NM's
  command loop and every path of `handle_exec`.

## The system

- **Name server (NM)**, `src/src/name_server/`. It keeps the file table (a hash
  table of `FileMetadata`: owner, access list, and the storage server holding
  the bytes). It also keeps the list of connected storage servers and the
  users. Each client connection and each storage-server connection has its own
  thread. A client asks the NM to CREATE, DELETE, change access, or locate a
  file. For READ/STREAM/WRITE/UNDO the NM replies `202 OK ip:port`, and the
  client then talks to that storage server directly.
- **Storage server (SS)**, `src/src/storage_server/`. It holds the file bytes.
  Each client connection has a worker thread (`ss_handle_client_connection`).
  One listener thread (`ss_listen_to_nm`) runs the NM's CREATE, DELETE and
  GET_CONTENT commands.
- **WRITE protocol** (`handle_ss_write`). The session:
  1. snapshots the modification-log tip (`start_log_id`);
  2. locks `(file, sentence index)` (`423` if it is taken);
  3. checks the index against the file, which it reads without any lock
     (`400`);
  4. acknowledges with `202` and buffers updates until `ETIRW` or disconnect.

  The commit runs under a per-file mutex:
  1. copy the file to `.undo`;
  2. shift the index by the deltas of the log entries added since the snapshot
     at smaller indices;
  3. apply the updates (`500` on a bad word index);
  4. truncate and write the file;
  5. append a log entry if the sentence count changed;
  6. reply `200`;
  7. send `INFO_UPDATE`;
  8. unlock the file mutex, then the sentence.

  UNDO renames `.undo` over the file under the same mutex.
- **Client**, `src/src/client/`. This is an interactive front end.

How the parts interact:
- NM → SS: CREATE and DELETE on the SS's NM socket. The NM never waits for
  the ACK.
- SS → NM: INFO_UPDATE after each write or undo. At startup the SS sends
  `INIT_SS` with its directory listing. The NM then moves every listed name it
  knows to that SS, and ignores "orphans".
- Client → NM → SS: routing, as above.
- Client ↔ NM: one command line at a time. Each reply is a single message,
  except EXEC. For EXEC the NM fetches the script from the SS over a fresh
  connection (`GET_CONTENT`), runs it, sends each output line, then sends
  `201 OK: Execution finished.`.

## Modules

| Module | Models | Code |
|---|---|---|
| `SSWrite.tla` | The WRITE sessions, sentence locks, file-commit locks, modification log and shift, `apply_single_update` on sentence structure, UNDO, and the SS listener's CREATE/DELETE | `file_ops.c`, `storage_server.c`, `file_parser.c`, `undo_handler.c` |
| `MC_SSWrite.tla` | The constants for TLC and the symmetry of workers | |
| `NMFiles.tla` | The NM client-handler threads for CREATE, DELETE, routing and ADDACCESS/REMACCESS; SS registration with reconciliation, SS crash and restart, removal of a closed connection from the SS list, and round-robin placement; the SS listener applying CREATE/DELETE | `client_handler.c`, `ss_handler.c`, `data_structures.c`, `storage_server.c` |
| `MC_NMFiles.tla` | Connection-to-user maps and the symmetry of storage servers and socket descriptors | |
| `FileText.tla` | The sentence structure of a file and `apply_single_update`, shared by `SSWrite` and `FileCommits` | `file_parser.c`, `file_ops.c` |
| `FileCommits.tla` | Abstract: a file changes only by whole commits of a session's updates, by UNDO of the backup, or by the NM's CREATE/DELETE | spec 4.2, 4.3, 8.1 |
| `NMIndex.tla` | `hash_function`, the chained hash table, the trie with its recursive delete, the access lists, driven by the CREATE, DELETE and ADDACCESS/REMACCESS handler steps | `data_structures.c`, `client_handler.c` |
| `MC_NMIndex.tla` | Filenames as byte sequences, chosen for real djb2 collisions and shared prefixes | |
| `NMPersist.tla` | `nm_save_files`, `nm_save_users`, `nm_load_files`, `nm_load_users`, the handlers' save calls, and a kill and restart of the NM | `persistence.c`, `client_handler.c`, `name_server.c` |
| `MC_NMPersist.tla` | The bucket order of two filenames | |
| `CString.tla` | `split_string`, `atoi` and `strstr(buf, " ") + 1` on byte strings | `common.c`, `file_ops.c` |
| `Tokenizer.tla` | `split_into_sentences`, `split_into_words`, `join_words`, `join_sentences`, `apply_single_update`, the delimiter check, the commit loop, STREAM's messages and `get_word_count`, on file bytes | `file_parser.c`, `file_ops.c`, `common.c` |
| `MC_Tokenizer.tla` | The byte alphabet, word indices and update contents | |
| `WriteWire.tla` | `client_handle_write`'s session loop, `handle_ss_write`'s update loop and final reply, and `send_message`/`recv_message` on one TCP connection | `client_net.c`, `file_ops.c`, `common.c`, `client.c` |
| `MC_WriteWire.tla` | The lines a user may type | |
| `NMExec.tla` | `client_parse_and_execute`'s EXEC loop and one-reply commands, `nm_handle_client_request`'s dispatch, and `handle_exec` | `client.c`, `client_handler.c`, `exec_handler.c` |

### SSWrite

State:
- `disk[f]`, `undo[f]`: the file and its `.undo`, or `Absent`.
- `sentLocks`: `sentence_locks_head`.
- `fileLock`: the holder of each file-commit mutex.
- `modLog`: `mod_log_head`. Entry `i` has id `i-1`, so `next_log_id = Len(modLog)`.
- `w[s]`: the locals of each worker thread: `pc`, file, `sent_num`,
  `start_log_id`, buffered updates, working content, `count_before`,
  `real_sent_num`.

Each action is one stretch of `handle_ss_write` or `handle_ss_undo` between
points where another thread can step. `PROJECT.json` "map" gives the lines.

File bytes are abstracted to their sentence structure. A file is a sequence of
sentence *identities* plus whether its last sentence ends in a delimiter. The
code never sees the identities. They let a property say which sentence an index
designates. An update is abstracted to one of five kinds, which decide how
`apply_single_update` changes the structure:
- words inserted before the sentence's last word, with or without a delimiter;
- words appended at the end, with or without a delimiter;
- an out-of-range word index.

Fresh identities name the sentences a delimiter creates.

History (no code counterpart):
- `w[s].target`: the sentence the session's index designated when it
  snapshotted the log.
- `w[s].undone`: whether an UNDO of the file happened since.
- `nmDeleted`: the files the NM has deleted and not recreated.
- `nextSid`: fresh sentence identities.

### Refinement: SSWrite implements FileCommits

`FileCommits` says what a reader of the file may see. There are no sessions:
- a commit applies a sequence of updates at one index to the file's content at
  that moment;
- a backup is taken before;
- UNDO restores it once;
- CREATE and DELETE come from the NM.

`SSWrite` instantiates it as `Abs` with this mapping:
- `content[f]` is `Visible(f)`: the worker's `cur` while a worker is
  between `fopen("w")` and `fwrite` for `f` (the bytes it is writing), and
  `disk[f]` otherwise;
- `backup` is `undo`;
- `nextSid` is the next identity no worker has used.

`ImplementsFileCommits == Abs!Spec` is checked as a temporal property. With
restarts it fails, because a restart in that window exposes the truncated
file (see Runs).

### NMIndex

State:
- `buckets`: `file_table->buckets`. `HTSize` chains of `[name, id]`, newest
  first.
- `trie`: the set of trie nodes, named by their prefix, and the set marked
  `is_end_of_file`.
- `acl`: one file's `access_list_head` as a sequence, head first.
- `h[c]`: each handler's `pc`, name and new metadata id.
- `refTable`, `refAcl`: reference maps (history, no code counterpart). Each
  action updates them as a dictionary would.

`HashFunction` is djb2 with each step reduced mod `HTSize`. It equals the
code's `unsigned long` result mod `HT_SIZE` because `HT_SIZE` divides 2^64.
`DeleteHelper` is a `RECURSIVE` translation of `_trie_delete_helper`. It
returns whether the caller should free the node, exactly as the C code does.

CREATE is three actions: `ht_get` with the allocation, then `ht_insert`, then
`trie_insert` with the reply. DELETE is three too. The table operations and
the trie operations take their locks separately, so other threads interleave
between them.

### NMPersist

State:
- `table`: the file table, one *version* per name. A version stands for a
  `FileMetadata`, and every change allocates a fresh one.
- `users`: `all_users_list`, head first.
- `disk["files"]`, `disk["users"]`: the records in `files.meta` and
  `users.dat`.
- `p[c]`: each handler thread's position in a save, the file it saves, and its
  stdio buffer.
- `lastSnap` (history): what the latest save of each file formatted.
- `acked` (history): the table as acknowledged to clients.

A save is four steps:
1. `fopen("w")` truncates the file, before any lock is taken. `fopen` may
   also fail, and then nothing is saved.
2. Formatting happens under the table lock, or `all_users_mutex` for users.
3. The lock is released.
4. `fclose` writes the buffer at offset 0 of the save's own descriptor. A
   longer file left by another save keeps its tail.

`NMRestart` is the NM being killed and started again. `nm_run` never returns,
so `nm_free`'s final save is unreachable. Loading follows the code:
- the first record of a name wins (`ht_insert` refuses duplicates);
- users are prepended with no duplicate check.

Files are modelled at record granularity. At byte granularity a leftover tail
starts with a torn line: `nm_load_files` skips it if it has fewer than 9
fields, and `nm_load_users` reads it as a user name.

### NMFiles

State:
- `table`: `file_table`. The metadata is owner, SS, access list as a function,
  and a generation.
- `ssList`, `nextSS`: `ss_list_head` and `next_ss_index`. An entry is one
  accepted SS connection, `[ss, sock]`: the SS's address and the socket
  descriptor `add_ss` stored. Descriptors are the model values `Socks`.
- `upSock[s]`: the socket of SS `s`'s live connection, or `NoSock` while the
  SS is down.
- `chan[s]`: the commands written on SS `s`'s NM socket and not yet read.
- `ssDisk[s][f]`: the generation of `s`'s copy of `f`, or 0.
- `t[c]`: the locals of each client-handler thread.

Handlers are split where the code lets other threads in: after `ht_get`, after
`get_ss_for_new_file`, and between `check_access` and the reply.

The SS registry follows the connections:
- `SSInit(s)`: an SS starts, connects and sends `INIT_SS`. `add_ss` prepends
  an entry with a descriptor no entry, placement or thread still holds.
  `remove_ss` never closes the socket, so such a descriptor cannot be reused.
  Reconciliation then moves every listed name the NM knows to `s`.
- `SSCrash(s)`: the SS dies. Its socket is closed, and the unread commands
  are lost. Its entry stays listed: a send to it fails (`SendOn`).
- `SSReap(e)`: the connection's reader sees the close and calls
  `remove_ss(sock)`, which unlinks the entry with that socket. An SS that
  restarted first has two entries, and only the dead one goes.
- `DeleteSend` sends to the first entry of the owning address
  (`find_ss_by_address`), which may be the dead one.

Every CREATE the NM sends carries a fresh *generation*. It is a history tag
that tells apart two files of the same name. `placed` records the SSes chosen
since the SS list last changed.

The code reads `meta->...` after a concurrent DELETE may have freed the entry.
The model chooses nondeterministically between the freed memory's old location
and garbage matching no SS.

### Tokenizer

A file is a sequence of one-byte strings over a small alphabet (a letter,
space, newline and `.`). Every function of `file_parser.c` is a `FoldLeft`
over the bytes with the code's own state: the current word or sentence, and
the "skip whitespace after a delimiter" flag. `ApplyBytes` is
`apply_single_update`:
- append an empty sentence at `sent_num = count`;
- splice `split_string(content)` in at `word_idx`;
- join, then re-split and re-join.

`Write(n, ups)` is a whole commit. It checks the delimiter check
(`MaxValidBytes`), applies the buffered updates in order, stops at the first
that fails, and replies `200`. `WriteFails` is the `500` path and
`WriteRejected` the `400` path.

`Abs(C)` maps bytes to `FileText`'s sentence structure, and `KindOf` maps an
update to its kind. `AbstractionSound` states that, for every file and every
single update, the byte-level result and the sentence-level
`FileText!ApplySingleUpdate` agree on:
- success;
- the sentence count;
- the "last sentence complete" flag;
- the largest valid index.

This is what justifies using `FileText` in `SSWrite`.

`StreamMessages` is the sequence of messages `handle_ss_stream` sends: one per
word and one per space or delimiter byte. It keeps the `char c = fgetc()`
comparison with EOF (`ReadByChar` stops at a 0xFF byte, as on a signed-char
build) and the 255-byte word buffer. `WordCount` is `get_word_count`.

### WriteWire

The client (`cpc`) reads lines and sends each with `send_message` (no
delimiter). It leaves its loop after sending `ETIRW` or at end of input
(`ReadEOF`), then blocks for the final reply. The user may kill it at any
time (`Kill`), which closes its socket.

The SS thread (`spc`) runs its update loop (`RecvData`). Each
`recv_message` result is parsed by `ParseUpdate`:
- `ETIRW` ends the loop;
- fewer than two tokens: the line is skipped;
- otherwise an update `[w |-> atoi(first token), x |-> bytes after the first
  space]` is appended to the list.

`RecvClosed` is `recv` returning 0 after a close. `Commit` stands for the
commit phase, which `SSWrite` and `Tokenizer` model. Here it only sends the
reply, which is lost if the client is gone. `NewSession` is the command loop
issuing the next WRITE.

`c2s` is the sequence of sends in flight. The constant `Coalesce` chooses
what one `recv` returns:
- `FALSE`: exactly the next send, which is what the code assumes;
- `TRUE`: any non-empty prefix of the byte stream, which is what TCP allows.

`typed` is a history of the lines sent. It only serves the properties.

### NMExec

The client (`cpc`) sends a command and reads its answer from `n2c`:
- a one-reply command reads one message;
- EXEC reads messages until `ClientStops`, which is a message that starts
  with `201 OK: Execution finished.` or with 400, 401, 404, 500 or 503.

The NM's handler thread (`npc`) takes the commands from `c2n`. For EXEC it
does one of two things:
- `ExecFails`: any of the early returns of `handle_exec`, which sends one
  error;
- `ExecRun`: fetch, `mkstemp` and `popen`. Then `ExecOutput` sends one
  message per output line, and `ExecFinish` sends the 201.

Every message carries the id of the command it answers. This is a history
tag, not part of the bytes.

A message is abstracted to how the client's prefix checks classify it:
- `out`: plain output;
- `code`: output that starts with an error code;
- `err`: an error reply;
- `fin`: the final 201;
- `reply`: the reply of any other command.

What a script prints is a nondeterministic sequence of `out` and `code`
lines.

## Runs

| Run | cfg | Expect | What it shows |
|---|---|---|---|
| ss_locks | `SSWrite_locks.cfg` | pass | Over all exit paths (423, 400, 500, 200), UNDO and NM CREATE/DELETE (a CREATE truncates a file the SS still holds), the lock table holds exactly the locks of sessions between lock and unlock, and no two share one (`LockTableMatchesSessions`). Log entries never carry a zero delta (`TypeOK`). Under fairness, a session that ended its update stream always commits or fails, and releases both locks (`CommitCompletes`). |
| ss_refines | `SSWrite_refines.cfg` | pass | `ImplementsFileCommits`: without NM commands and restarts, the file as the holders of the per-file commit mutex see it changes only by whole commits, backups and undos of `FileCommits`. It catches a lost update (a commit whose working copy predates another commit). Unlocked readers, which can see the truncated file between `fopen("w")` and `fwrite`, are not covered: `SSWrite_torn.cfg` shows what they see. |
| ss_shift | `SSWrite_shift.cfg` | violation | `ShiftCorrect`: the real index can designate a sentence other than the one the session opened, with no UNDO involved. |
| ss_delete | `SSWrite_delete.cfg` | violation | `DeleteIsFinal`: a commit in flight recreates a file that the NM has deleted. |
| nm_roundrobin | `NMFiles_rr.cfg` | pass | `ListMatchesConnections`: across SS crashes, restarts before the NM reaps the dead connection, and reaps in either order, no entry is listed twice and every SS that is up has its live connection listed; `remove_ss` by socket, not by address, is what keeps it. `RoundRobin`: while the SS list is unchanged, any `Len(ssList)` consecutive placements go to distinct entries. This holds across interleaved CREATEs of two connections and `next_ss_index` values left by earlier lists. |
| ds_tables | `NMIndex_tables.cfg` | pass | With two handlers, names `a` and `wj` colliding in bucket 518, and `ab`, the hash table behaves as a map with no name twice in a chain (`HashTableMatchesMap`). Under grants and revocations the access list behaves as a map with one entry per user (`AccessListMatchesMap`). |
| nm_persist_types | `NMPersist_types.cfg` | pass | With one handler and kills and restarts of the NM at any step, each file holds only records of its own kind, and so do the snapshots and the stdio buffers (`TypeOK`): the save functions format into the store they opened. |
| exec_session | `NMExec_session.cfg` | pass | `CommandCompletes`: every command, EXEC included with every outcome of `handle_exec` and any output, brings the client back to its prompt. |
| exec_desync | `NMExec_desync.cfg` | violation | `RepliesMatchCommands`: a script prints a line starting with an error code, and the client's EXEC loop stops at it. The NM's 201 is then printed as the reply to the next command. The replies run behind the commands until a later EXEC's loop happens to read the stream back into step. |
| tok_update | `Tokenizer_update.cfg` | pass | On every file of up to 5 bytes, and every file a commit makes of it (up to 7): `split` then `join` gives the file back once it is normalized (`RoundTrip`, spec 8.4); a commit writes normalized bytes (`CommitNormalizes`); and `AbstractionSound`, as above. |
| wire_whole | `WriteWire_whole.cfg` | pass | With one send per recv, every client that sent ETIRW gets the final reply (`SessionEndsAfterETIRW`). This holds across end of input, kills, skipped lines and back-to-back sessions. |
| wire_eof | `WriteWire_eof.cfg` | violation | `SessionEnds`: the client reaches end of input, leaves its loop without ETIRW, and waits for the reply. The SS waits in `recv` with the sentence locked. Neither moves again. |

Further configurations are kept beside these runs. Each checks one property
that TLC finds violated. Every one except `Tokenizer_words.cfg`, a plain
counting divergence, is cited by a hazard in `PROJECT.json`:
- `SSWrite_torn.cfg`: `RejectOnlyOutOfRange`. The unlocked validation reads a
  file that another commit has truncated, and rejects a valid index with 400.
- `NMFiles_location.cfg`: `LocationCurrent`. After lost DELETE/CREATE
  commands, the metadata points at the deleted file's copy.
- `NMFiles_auth.cfg`: `AuthorizedRoute`. A 202 goes to a user whose grant was
  removed after `check_access`.
- `NMIndex_trierace.cfg`: `TrieMatchesTable` with two handlers and one name. A
  DELETE between a CREATE's `ht_insert` and its `trie_insert` leaves the trie
  naming a file the table lacks.
- `NMPersist_race.cfg`: `SavedIsLastSnapshot` with two handlers. (With one
  handler it holds by construction, so it is checked only here.) The snapshot
  taken before a DELETE is written last, so the deleted file is back after a
  restart.
- `NMPersist_crash.cfg`: `AckedSurvivesRestart`. CREATE replies 201 before
  `nm_save_files`, so a kill in between loses the file.
- `SSWrite_crash.cfg`: `ImplementsFileCommits` under `SSRestart`. A restart
  between `fopen("w")` and `fwrite` leaves an empty file that no commit
  produces.
- `NMPersist_userdup.cfg`: `UsersUnique`. Two registrations' saves land in
  reverse order. After a restart one user is listed twice and the other is
  lost.
- `NMFiles_delete.cfg`: `DeleteOnlyOwn`, with three connections (two of one
  user). A DELETE passes its owner check. Another connection deletes the
  file and a second user re-creates it. The first DELETE's `ht_delete` then
  removes the second user's file.
- `SSWrite_logsum.cfg`: `LogSumMatchesCount` (spec 8.3) under worker steps
  only. A commit adds a sentence, `perform_undo` renames the backup back
  without a log entry, and a later commit finds the logged deltas summing to
  1 while the count is back where it started. With UNDO removed the property
  holds.
- `SSWrite_exclusive.cfg`: `SentenceExclusive`. Two sessions are in their
  update phase on one sentence, through two index locks.
- `NMFiles_create.cfg`: `CreateReplyMeansCreated`. Two racing CREATEs of one
  name both get 201.
- `NMIndex_trie.cfg`: `TrieMatchesTable`. CREATE `ab`, CREATE `ac`, DELETE
  `ab` leaves the trie without `ac`.
- `Tokenizer_words.cfg`: `InfoWordsAsSpec`. Writing `.` into an empty file
  gives one word by the spec's count (S1 counts `.` as a word), but
  `get_word_count`, which INFO reports, counts 0: it never counts a
  delimiter.
- `Tokenizer_streamff.cfg`: `StreamCoversFile` with a 0xFF byte in the
  alphabet. STREAM stops at it, because `fgetc`'s result is stored in a
  `char` and compared with EOF. Without that byte the property holds, and
  the 255-byte word buffer is out of reach of files of 7 bytes, so
  `tok_update` does not check it.
- `WriteWire_stream.cfg`: `SessionEndsAfterETIRW` with `Coalesce = TRUE`. Two
  sends merged into one `recv` turn `ETIRW` into the tail of an update's
  content (or of a skipped line). The SS never sees the end of the session,
  and both sides wait.

The findings these violations show are in `PROJECT.json` "findings":

- **Shift double count.** `start_log_id` is taken before the lock. A session
  that starts between another commit's `fwrite` and its `log_modification`
  shifts by a delta that its view of the file already contains.
- **Index-keyed locks.** Sentence locks do not follow a sentence when it moves.
- **Delete without the commit lock.** The SS listener's DELETE takes no lock,
  so a commit in flight recreates the file.
- **CREATE race.** The result of `ht_insert` is ignored.
- **No ACKs.** DELETE and CREATE are not acknowledged, and reconciliation
  trusts whatever copy a reconnecting SS lists.
- **Route TOCTOU.** REMACCESS can land between the access check and the 202.
- **Trie delete frees a shared prefix.** `_trie_delete_helper` frees a node
  without checking its other children. The trie is never searched, so the
  damage is latent.
- **No ETIRW at end of input.** `client_handle_write` breaks out of its loop
  at EOF without sending ETIRW or closing, then waits for a reply that the SS
  only sends after ETIRW or a close. The sentence stays locked until the
  client is killed.
- **One recv, one line.** With no delimiter on the wire, merged or split
  sends corrupt updates and can hide ETIRW (`WriteWire_stream.cfg`).
- **Word count.** `get_word_count` does not count delimiters, while spec S1
  does (`Tokenizer_words.cfg`).
- **0xFF ends STREAM.** `char c = fgetc(f)` is compared with EOF
  (`Tokenizer_streamff.cfg`).
- **Truncate in place.** An SS killed between `fopen("w")` and `fwrite`
  leaves an empty file.
- **EXEC output in band.** The client ends an EXEC at any output line with an
  error-code prefix. The rest of the answer is read as the replies to later
  commands (`exec_desync`).
- **DELETE by name after the owner check.** `ht_delete(filename)` removes
  whatever entry the name has by then (`NMFiles_delete.cfg`).
- **Unordered saves.** `fopen("w")` comes before the lock, and the lock is
  released before `fclose`. Saves from two threads land in either order, and
  `users.dat` is loaded without deduplication.

## Bounds

SSWrite:
- Two workers and one file are enough for every pairwise race of the
  protocol, the shift violation included: a worker's second session starts
  between the other's `fwrite` and `log_modification`. `SSWrite_shift.cfg`
  allows two log entries.
- The violation runs and `ss_refines` use `InitLen = 2` sentences and request
  indices `-1..2`. These cover:
  - a negative index;
  - an index in range;
  - the append index;
  - past the end when the last sentence is incomplete (both values of its
    delimiter flag are initial states).
- `MaxUpdates = 1`: one update per session gives every outcome of
  `apply_single_update`.
- `MaxLog` (1 or 2) bounds the commits that change the sentence count. A
  session starts only while the log is shorter.
- `ss_locks` also checks liveness. It uses `InitLen = 1` and indices `0..1`
  to stay within minutes, and has no symmetry. Index 1 on a file whose last
  sentence is incomplete takes the same `400` branch (lines 174-178) as a
  negative index. Every exit path is therefore still taken.

Refinement: `ss_refines` runs without NM commands. With them the mapping fails
for the known DELETE race (`ss_delete`).

NMIndex:
- `HTSize = 1024`, the code's `HT_SIZE`.
- `a` and `wj` hash to the same bucket under the real djb2, so chains of two
  occur.
- `ab` and `ac` share the prefix node `a`, which the trie delete mishandles.
- `MaxId = 3` CREATEs allow create, delete, and re-create with two handlers.

NMPersist:
- Two names in a fixed bucket order, and two users.
- One handler for the passing run, with restarts at any step; two for the
  races.
- Versions are reused once nothing refers to them, so the model never stops
  for lack of a fresh one. `MaxVer = 12` exceeds the most that can be in use
  at once: table, acknowledged table, disk, last snapshot, and a buffer per
  handler.

NMFiles:
- One name and two SSes. Three socket descriptors: two SSes up, and one more
  for a restart before the dead connection is reaped.
- `nm_roundrobin`: two connections of one user, so both may place and
  delete. `MaxGen = 1` keeps crashes, restarts and reaps within minutes. It bounds
  the CREATEs sent, not the picks: `get_ss_for_new_file` has no such guard,
  so each thread may still pick after the last CREATE, and three
  placements can follow each other, more than a list of two entries needs
  to wrap `next_ss_index`.
- The violation runs: two connections of different users (three for
  `NMFiles_delete.cfg`), and `MaxGen = 2` CREATEs, which allow create,
  delete, re-create, and two racing creates.

Tokenizer:
- Every file of up to `InitLen = 5` bytes over `a`, space, `.` and newline is
  an initial state. Commits may produce files of up to `MaxLen = 7` bytes.
- Word indices are `-1..2`. Update contents are `a`, `a.`, `.`, `a a.`,
  `a.a` and `. a`:
  - with and without a delimiter;
  - a delimiter inside a word;
  - a delimiter first;
  - several words.
- One update per session (`MaxUpdates = 1`). The commit loop applies updates
  one at a time, each to the result of the one before. The files that a first
  update produces are themselves initial states (or further commits reach
  them), so every sequence of updates is a sequence of checked single steps.
  A run with two updates found no new states.

WriteWire:
- Four lines: `ETIRW`, a skipped line (`a`), an update (`0 a`), and an update
  whose content has a space (`1 a b`).
- Three lines per session. The stream violation needs two sends merged.

NMExec:
- Up to two output lines per script. This allows a `code` line followed by
  more output, and an empty output.
- Three commands per connection. A desync needs an EXEC and one later
  command. Three commands let an EXEC's leftovers meet another EXEC.
- After the last command the user stops, so the connection idles. The runs
  therefore do not check deadlock.

Symmetry:
- `ss_locks` checks liveness and uses no symmetry.
- The other SSWrite runs use symmetry over the workers. They are
  interchangeable threads, and `Abs!Spec` does not name a worker.
- NMFiles runs use symmetry over SSes and over socket descriptors. No SS is
  distinguished, and a descriptor is only compared for equality.

## Fairness

- `WF` on every worker's own server steps. A scheduled thread runs.
- `SF` on taking the file-commit mutex. This assumes that a waiting thread is
  eventually granted a pthread mutex that is released infinitely often.
  POSIX does not promise this, but Linux futex mutexes give it in practice.
- Client steps (sending updates, ending the stream) and NM commands get no
  fairness. A client may think forever, and `CommitCompletes` starts only
  after `ETIRW`.
- NMFiles, NMIndex and NMPersist are checked for safety only.
- WriteWire:
  - `WF` on the SS thread: it runs whenever it can.
  - `WF` on the client receiving the reply: a blocking `recv` returns once the
    data is there.
  - No fairness on the user: typing, end of input and killing the client are
    the user's choice. `SessionEnds` fails because nothing forces a kill.

- NMExec:
  - `WF` on the NM's handler thread: it runs while it has a command.
  - `WF` on the client's reads: a blocking `recv` returns once data is there.
  - No fairness on the user entering commands.

## Not modelled, and why

- READ/STREAM and GET_CONTENT change no state. What they observe is the
  file as `disk` holds it, including during the truncation window, which the
  validation read (`SSWrite_torn.cfg`) already exercises.
- `handle_ss_read` sends raw chunks and changes no state. Tokenizer covers
  STREAM's messages.
- EXEC's shell run is out of TLC's reach. NMExec makes the script's output
  nondeterministic. For the same reason the truncated fetch (one `recv` of
  `GET_CONTENT`, `exec_handler.c:62`) cannot be told apart from another
  script's output, and has no property. Logging has no behaviour to model.
- Connection acceptance (`nm_run`) classifies a connection by its first
  message and starts a thread. Those threads are the actors of the other
  models. It has no state of its own to check.
- The LRU cache is a set of stubs. `trie_get_all` only reads. The `*_free`
  functions run only from `nm_free`, which is unreachable.
- VIEW, INFO and LIST only read state.
- INFO_UPDATE statistics, and the framing of the NM socket shared by
  INFO_UPDATE, ACKs and GET_CONTENT. WriteWire shows the same framing flaw on
  the client connection. On `nm_sock` a merged pair of INFO_UPDATEs has more
  than 5 tokens, and `nm_handle_ss_messages` drops it.
- The other client commands send one request and print the replies. Their
  requests are the nondeterministic inputs of NMFiles and SSWrite.

## Plan for further work

1. The NM socket's framing: worker threads' INFO_UPDATEs, the listener's
   ACKs and GET_CONTENT bytes, read by `nm_handle_ss_messages`.
2. An abstract sentence-lock specification that `SSWrite` refines, through a
   refinement mapping on sessions that do not move.
3. A composition of NMIndex and NMPersist, loading the trie and the table
   from `files.meta` on restart.
4. The spec 8.3 log-sum invariant across NM DELETE/re-CREATE. The checked
   configuration leaves out the NM's commands, and the log is not keyed by
   file generation.
