------------------------------ MODULE NMIndex ------------------------------
\* The name server's in-memory indexes (common/data_structures.c) as the
\* client-handler threads use them: the file table (a chained hash table,
\* ht_insert / ht_get / ht_delete), the filename trie (trie_insert /
\* trie_search / trie_delete) and a file's access list (add_access /
\* remove_access / get_access).  Each operation runs under the lock of its
\* structure, so it is one step; a handler that touches two structures
\* takes two steps.
\*
\* A filename is a sequence of character codes.  refTable and refAcl are
\* history variables: the map that the table and the access list are
\* meant to implement, updated by the meaning of each call.
EXTENDS Integers, Sequences, SequencesExt, FiniteSets

CONSTANTS
  Clients,   \* NM client-handler threads
  Keys,      \* filenames (sequences of character codes) the clients use
  HTSize,    \* HT_SIZE
  Users,     \* usernames
  Owner,     \* owner of the file whose access list is modelled
  MaxId,     \* bound: FileMetadata records allocated by CREATE
  NoMeta     \* model value: no metadata

ASSUME Owner \in Users /\ HTSize \in {2^i : i \in 0..30} /\ MaxId \in Nat

Perms == {"R", "W"}
NoPerm == "none"   \* get_access returns '\0'

VARIABLES
  buckets,   \* nm->file_table->buckets, restricted to the buckets Keys hash to
  trie,      \* nm->file_trie: its reachable nodes (prefixes) and end marks
  acl,       \* meta->access_list_head: <<[user, perm], ...>> from the head
  nextId,    \* identity of the next FileMetadata a CREATE allocates
  refTable,  \* history: filename -> metadata identity or NoMeta
  refAcl,    \* history: user -> permission or NoPerm
  h          \* local state of each handler thread

vars == <<buckets, trie, acl, nextId, refTable, refAcl, h>>

\* Hash table

\* hash_function: djb2 over the bytes in an unsigned long (arithmetic
\* modulo 2^64), then modulo HT_SIZE.  HT_SIZE divides 2^64, so reducing
\* modulo HT_SIZE at every step gives the same bucket.
HashFunction(k) == FoldLeft(LAMBDA x, c : (x * 33 + c) % HTSize, 5381 % HTSize, k)

BucketIdx == {HashFunction(k) : k \in Keys}

\* ht_get: the metadata of the first node in k's chain named k.
HtGet(b, k) ==
  LET chain == b[HashFunction(k)]
      i     == SelectInSeq(chain, LAMBDA n : n.name = k)
  IN IF i = 0 THEN NoMeta ELSE chain[i].id

\* Mutant: the collision walk is dropped; the node is always pushed.
HtInsertNoDupCheck(b, k, id) ==
  [b EXCEPT ![HashFunction(k)] = <<[name |-> k, id |-> id]>> \o @]

\* ht_insert: fail when the chain already names k; else push at the head.
HtInsert(b, k, id) ==
  IF HtGet(b, k) # NoMeta THEN b
  ELSE [b EXCEPT ![HashFunction(k)] = <<[name |-> k, id |-> id]>> \o @]

\* ht_delete: unlink (and free) the first node named k.
HtDelete(b, k) ==
  [b EXCEPT ![HashFunction(k)] = RemoveFirstMatch(@, LAMBDA n : n.name = k)]

\* Trie.  A node is the prefix that leads to it; the root is <<>>.

Child(p, k) == Append(p, k[Len(p) + 1])

HasChildren(t, p) == \E n \in t.nodes : Len(n) = Len(p) + 1 /\ IsPrefix(p, n)

\* trie_insert: create the missing nodes along k and mark the last.
TrieInsert(t, k) == [nodes |-> t.nodes \cup Prefixes(k), ends |-> t.ends \cup {k}]

\* trie_search: walk k; found when every node exists and the last is marked.
TrieSearch(t, k) == k \in t.nodes /\ k \in t.ends

\* free(node->children[c]) frees one node; its subtree is no longer reachable.
Unlink(t, c) == [nodes |-> {n \in t.nodes : ~IsPrefix(c, n)},
                 ends  |-> {n \in t.ends : ~IsPrefix(c, n)}]

\* _trie_delete_helper(node p, key k): the trie afterwards and the value
\* returned (TRUE: the caller frees p).
RECURSIVE DeleteHelper(_, _, _)
DeleteHelper(t, p, k) ==
  IF p \notin t.nodes THEN [t |-> t, del |-> FALSE]
  ELSE IF Len(p) = Len(k)
  THEN IF p \in t.ends
       THEN LET t2 == [t EXCEPT !.ends = @ \ {p}]
            IN [t |-> t2, del |-> ~HasChildren(t2, p)]
       ELSE [t |-> t, del |-> FALSE]
  ELSE LET r == DeleteHelper(t, Child(p, k), k)
       IN IF r.del THEN [t |-> Unlink(r.t, Child(p, k)), del |-> p \notin r.t.ends]
          ELSE [t |-> r.t, del |-> FALSE]

\* trie_delete: the root is never freed.
TrieDelete(t, k) == DeleteHelper(t, <<>>, k).t

\* Access list

\* get_access: the permission of the first node for u.
GetAccess(l, u) ==
  LET i == SelectInSeq(l, LAMBDA e : e.user = u)
  IN IF i = 0 THEN NoPerm ELSE l[i].perm

\* Mutant: the search for an existing node is dropped.
AddAccessAlwaysPrepend(l, u, p) == <<[user |-> u, perm |-> p]>> \o l

\* add_access: update u's node if there is one, else push a node at the head.
AddAccess(l, u, p) ==
  LET i == SelectInSeq(l, LAMBDA e : e.user = u)
  IN IF i # 0 THEN [l EXCEPT ![i].perm = p]
     ELSE <<[user |-> u, perm |-> p]>> \o l

\* remove_access: unlink the first node for u.
RemoveAccess(l, u) == RemoveFirstMatch(l, LAMBDA e : e.user = u)

\* Handler threads (handle_create_delete, handle_access)

Idle == [pc |-> "idle", k |-> <<>>, id |-> 0]

Init ==
  /\ buckets = [i \in BucketIdx |-> <<>>]
  /\ trie = [nodes |-> {<<>>}, ends |-> {}]
  /\ acl = <<[user |-> Owner, perm |-> "W"]>>
  /\ nextId = 1
  /\ refTable = [k \in Keys |-> NoMeta]
  /\ refAcl = [u \in Users |-> IF u = Owner THEN "W" ELSE NoPerm]
  /\ h = [c \in Clients |-> Idle]

\* CREATE k: ht_get misses k (a hit replies 409 and changes nothing), a
\* FileMetadata is allocated and the handler goes on to ht_insert.
CreateLookup(c) ==
  /\ h[c].pc = "idle"
  /\ nextId <= MaxId
  /\ \E k \in Keys :
       /\ HtGet(buckets, k) = NoMeta
       /\ h' = [h EXCEPT ![c] = [pc |-> "c_ht", k |-> k, id |-> nextId]]
  /\ nextId' = nextId + 1
  /\ UNCHANGED <<buckets, trie, acl, refTable, refAcl>>

\* ht_insert(nm->file_table, meta); its result is ignored.
CreateHtInsert(c) ==
  /\ h[c].pc = "c_ht"
  /\ buckets' = HtInsert(buckets, h[c].k, h[c].id)
  /\ refTable' = [refTable EXCEPT ![h[c].k] = IF @ = NoMeta THEN h[c].id ELSE @]
  /\ h' = [h EXCEPT ![c].pc = "c_trie"]
  /\ UNCHANGED <<trie, acl, nextId, refAcl>>

\* trie_insert(nm->file_trie, filename); reply 201.
CreateTrieInsert(c) ==
  /\ h[c].pc = "c_trie"
  /\ trie' = TrieInsert(trie, h[c].k)
  /\ h' = [h EXCEPT ![c] = Idle]
  /\ UNCHANGED <<buckets, acl, nextId, refTable, refAcl>>

\* DELETE k: ht_get finds k (a miss replies 404 and changes nothing).
DeleteLookup(c) ==
  /\ h[c].pc = "idle"
  /\ \E k \in Keys :
       /\ HtGet(buckets, k) # NoMeta
       /\ h' = [h EXCEPT ![c] = [Idle EXCEPT !.pc = "d_ht", !.k = k]]
  /\ UNCHANGED <<buckets, trie, acl, nextId, refTable, refAcl>>

\* ht_delete(nm->file_table, filename).
DeleteHtDelete(c) ==
  /\ h[c].pc = "d_ht"
  /\ buckets' = HtDelete(buckets, h[c].k)
  /\ refTable' = [refTable EXCEPT ![h[c].k] = NoMeta]
  /\ h' = [h EXCEPT ![c].pc = "d_trie"]
  /\ UNCHANGED <<trie, acl, nextId, refAcl>>

\* trie_delete(nm->file_trie, filename); reply 200.
DeleteTrieDelete(c) ==
  /\ h[c].pc = "d_trie"
  /\ trie' = TrieDelete(trie, h[c].k)
  /\ h' = [h EXCEPT ![c] = Idle]
  /\ UNCHANGED <<buckets, acl, nextId, refTable, refAcl>>

\* Mutant: a flag other than -R or -W is not rejected with 400, so
\* perm stays '\0'.
AddAccessStepNoFlagCheck(c) ==
  /\ h[c].pc = "idle"
  /\ \E u \in Users, p \in Perms \cup {NoPerm} :
       /\ acl' = AddAccess(acl, u, p)
       /\ refAcl' = [refAcl EXCEPT ![u] = p]
  /\ UNCHANGED <<buckets, trie, nextId, refTable, h>>

\* ADDACCESS -R|-W f u by the owner (any other flag: 400), under meta->lock.
AddAccessStep(c) ==
  /\ h[c].pc = "idle"
  /\ \E u \in Users, p \in Perms :
       /\ acl' = AddAccess(acl, u, p)
       /\ refAcl' = [refAcl EXCEPT ![u] = p]
  /\ UNCHANGED <<buckets, trie, nextId, refTable, h>>

\* REMACCESS f u by the owner, under meta->lock.
RemAccessStep(c) ==
  /\ h[c].pc = "idle"
  /\ \E u \in Users :
       /\ acl' = RemoveAccess(acl, u)
       /\ refAcl' = [refAcl EXCEPT ![u] = NoPerm]
  /\ UNCHANGED <<buckets, trie, nextId, refTable, h>>

Next ==
  \E c \in Clients :
    \/ CreateLookup(c) \/ CreateHtInsert(c) \/ CreateTrieInsert(c)
    \/ DeleteLookup(c) \/ DeleteHtDelete(c) \/ DeleteTrieDelete(c)
    \/ AddAccessStep(c) \/ RemAccessStep(c)

Spec == Init /\ [][Next]_vars

\* Properties

TypeOK ==
  /\ buckets \in [BucketIdx -> Seq([name : Keys, id : 1..MaxId])]
  /\ trie.nodes \subseteq UNION {Prefixes(k) : k \in Keys} /\ trie.ends \subseteq Keys
  /\ acl \in Seq([user : Users, perm : Perms])
  /\ nextId \in 1..MaxId + 1
  /\ h \in [Clients -> [pc : {"idle", "c_ht", "c_trie", "d_ht", "d_trie"},
                        k : Keys \cup {<<>>}, id : 0..MaxId]]

\* The chained table behaves as a map through every interleaving of
\* CREATE (check, then ht_insert) and DELETE, including two CREATEs of a
\* name that both passed the check and names sharing a bucket: ht_get
\* returns the metadata of the first successful insert since the last
\* delete, and no chain holds a name twice.
HashTableMatchesMap ==
  /\ \A k \in Keys : HtGet(buckets, k) = refTable[k]
  /\ \A i \in BucketIdx : \A x, y \in 1..Len(buckets[i]) :
       x # y => buckets[i][x].name # buckets[i][y].name

\* After any sequence of ADDACCESS and REMACCESS, get_access answers
\* with the last permission granted since the last removal, and no user
\* has two nodes (add_access updates in place, remove_access unlinks one).
AccessListMatchesMap ==
  /\ \A u \in Users : GetAccess(acl, u) = refAcl[u]
  /\ \A x, y \in 1..Len(acl) : x # y => acl[x].user # acl[y].user

\* Whenever no handler is between its two index updates, the trie holds
\* exactly the names the file table holds (CREATE and DELETE keep both).
TrieMatchesTable ==
  (\A c \in Clients : h[c].pc = "idle")
    => \A k \in Keys : TrieSearch(trie, k) <=> HtGet(buckets, k) # NoMeta

====
