------------------------------ MODULE NMFiles ------------------------------
\* The name server's file table and storage-server registry, as used by
\* its client-handler threads (one per client connection): CREATE and
\* DELETE (handle_create_delete), the routing of READ/STREAM/WRITE/UNDO
\* (handle_read_write_stream), ADDACCESS/REMACCESS (handle_access), SS
\* registration with reconciliation (nm_handle_ss_init, add_ss), SS loss
\* (remove_ss), round-robin placement (get_ss_for_new_file), and the SS's
\* listener thread applying the CREATE/DELETE commands it receives.
\*
\* An entry of the SS list is one accepted connection: the SS's address
\* (ip and client port) and the socket.  A storage server that dies
\* leaves its entry listed until the NM thread reading that socket sees
\* recv return 0 and calls remove_ss; a restarted SS that sends INIT_SS
\* before then gets a second entry with the same address.
\*
\* Every CREATE the NM sends carries a fresh generation number, a history
\* tag that the code does not have: it tells apart two files of the same
\* name so that the properties can say which copy the metadata points at.
EXTENDS Integers, Sequences, SequencesExt, FiniteSets

CONSTANTS
  Clients,   \* NM client-handler threads (one per client connection)
  UserOf,    \* UserOf[c]: the username the connection c sent in INIT_CLIENT
  Users,     \* usernames
  Names,     \* file names
  SSes,      \* storage servers
  NoMeta,    \* model value: ht_get returns NULL
  NoSS,      \* model value: no storage server
  MaxGen,    \* bound: CREATE commands the NM may send
  Socks,     \* socket descriptors of SS connections
  NoSock     \* model value: no open connection

ASSUME UserOf \in [Clients -> Users] /\ MaxGen \in Nat

VARIABLES
  table,    \* nm->file_table: the metadata of each name, or NoMeta
  ssList,   \* nm->ss_list_head, head first: <<[ss, sock], ...>>
  upSock,   \* upSock[s]: the socket of s's open NM connection, NoSock if down
  nextSS,   \* nm->next_ss_index
  chan,     \* chan[s]: commands sent on s's NM socket, not yet read by s
  ssDisk,   \* ssDisk[s][f]: generation of s's copy of f, 0 if none
  gen,      \* generations handed out so far (history)
  placed,   \* SSes returned by get_ss_for_new_file since the list last changed (history)
  t         \* local state of each client-handler thread

vars == <<table, ssList, upSock, nextSS, chan, ssDisk, gen, placed, t>>

Perms == {"R", "W"}

\* A FileMetadata: owner, ss_ip/ss_client_port, access_list_head (a user
\* absent from the list has permission "N"), and the generation.
Meta == [owner : Users, ss : SSes, acl : [Users -> Perms \cup {"N"}], gen : Nat]

\* The SSes whose process is up, and the addresses the SS list names.
Live == {s \in SSes : upSock[s] # NoSock}
Listed == {e.ss : e \in ToSet(ssList)}

NoEntry == [ss |-> NoSS, sock |-> NoSock]

\* A send on an entry's socket reaches the SS only while that connection
\* is the SS's open one.
Open(e) == e.sock # NoSock /\ upSock[e.ss] = e.sock

SendOn(e, msg) == IF Open(e) THEN [chan EXCEPT ![e.ss] = Append(@, msg)] ELSE chan

\* The first entry of the list with address s (the newest: add_ss
\* prepends).
FirstEntry(s) == ssList[SelectInSeq(ssList, LAMBDA e : e.ss = s)]

\* check_access: the owner has every permission; otherwise R needs R or W
\* in the list, W needs W.
CheckAccess(m, u, p) ==
  \/ m.owner = u
  \/ p = "R" /\ m.acl[u] \in Perms
  \/ p = "W" /\ m.acl[u] = "W"

IdleT == [pc |-> "idle", f |-> NoMeta, p |-> "R", target |-> NoMeta,
          ss |-> NoEntry, loc |-> NoSS, g |-> 0]

Init ==
  /\ table = [f \in Names |-> NoMeta]
  /\ ssList = <<>>
  /\ upSock = [s \in SSes |-> NoSock]
  /\ nextSS = 0
  /\ chan = [s \in SSes |-> <<>>]
  /\ ssDisk = [s \in SSes |-> [f \in Names |-> 0]]
  /\ gen = 0
  /\ placed = <<>>
  /\ t = [c \in Clients |-> IdleT]

Unch == <<table, ssList, upSock, nextSS, chan, ssDisk, gen, placed>>

\* A client's command line reaches nm_handle_client_request's loop.
Request(c) ==
  /\ t[c].pc = "idle"
  /\ \E f \in Names :
       \/ t' = [t EXCEPT ![c] = [IdleT EXCEPT !.pc = "c_lookup", !.f = f]]
       \/ t' = [t EXCEPT ![c] = [IdleT EXCEPT !.pc = "d_lookup", !.f = f]]
       \/ \E p \in Perms :
            t' = [t EXCEPT ![c] = [IdleT EXCEPT !.pc = "r_lookup", !.f = f, !.p = p]]
       \/ \E p \in Perms \cup {"N"}, u \in Users :
            t' = [t EXCEPT ![c] = [IdleT EXCEPT !.pc = "a_lookup", !.f = f,
                                                !.p = p, !.target = u]]
  /\ UNCHANGED Unch

Done(c) == t' = [t EXCEPT ![c] = IdleT]

\* CREATE

\* ht_get finds the name: 409.  Otherwise go on to pick an SS.
CreateLookup(c) ==
  /\ t[c].pc = "c_lookup"
  /\ IF table[t[c].f] # NoMeta THEN Done(c)
     ELSE t' = [t EXCEPT ![c].pc = "c_pick"]
  /\ UNCHANGED Unch

\* Mutant: the wrap-around test of get_ss_for_new_file uses > for >=.
GetSSForNewFileOffByOne(c) ==
  /\ t[c].pc = "c_pick"
  /\ IF ssList = <<>> THEN Done(c) /\ UNCHANGED <<nextSS, placed>>
     ELSE LET i == IF nextSS > Len(ssList) THEN 0 ELSE nextSS
          IN /\ nextSS' = i + 1
             /\ t' = [t EXCEPT ![c].pc = "c_send",
                               ![c].ss = IF i < Len(ssList) THEN ssList[i + 1] ELSE NoEntry]
             /\ placed' = Append(placed, t'[c].ss)
  /\ UNCHANGED <<table, ssList, upSock, chan, ssDisk, gen>>

\* get_ss_for_new_file: 503 when the list is empty; else round-robin over
\* the list, wrapping next_ss_index at the count.  The pointer is returned
\* after ss_list_mutex is released.
GetSSForNewFile(c) ==
  /\ t[c].pc = "c_pick"
  /\ IF ssList = <<>> THEN Done(c) /\ UNCHANGED <<nextSS, placed>>
     ELSE LET i == IF nextSS >= Len(ssList) THEN 0 ELSE nextSS
          IN /\ nextSS' = i + 1
             /\ t' = [t EXCEPT ![c].pc = "c_send", ![c].ss = ssList[i + 1]]
             /\ placed' = Append(placed, ssList[i + 1])
  /\ UNCHANGED <<table, ssList, upSock, chan, ssDisk, gen>>

\* Send "CREATE f" on the entry's socket (lost if that connection is
\* closed), then ht_insert, whose failure on an existing name is
\* ignored; reply 201 either way.
CreateSend(c) ==
  /\ t[c].pc = "c_send"
  /\ gen < MaxGen
  /\ LET f == t[c].f
         s == t[c].ss
         g == gen + 1
     IN /\ chan' = SendOn(s, [op |-> "CREATE", f |-> f, g |-> g])
        /\ table' = IF table[f] = NoMeta
                      THEN [table EXCEPT ![f] =
                              [owner |-> UserOf[c], ss |-> s.ss, gen |-> g,
                               acl |-> [u \in Users |-> IF u = UserOf[c] THEN "W" ELSE "N"]]]
                      ELSE table
        /\ gen' = g
  /\ Done(c)
  /\ UNCHANGED <<ssList, upSock, nextSS, ssDisk, placed>>

\* DELETE

\* ht_get: 404 if absent, 401 unless the requester owns the file.
DeleteLookup(c) ==
  /\ t[c].pc = "d_lookup"
  /\ LET m == table[t[c].f]
     IN IF m = NoMeta \/ m.owner # UserOf[c] THEN Done(c)
        ELSE t' = [t EXCEPT ![c].pc = "d_send", ![c].loc = m.ss, ![c].g = m.gen]
  /\ UNCHANGED Unch

\* The location meta->ss_ip names: the live entry's, or, when the entry
\* the thread looked up has been freed meanwhile, whatever the freed
\* memory still holds (the old location) or garbage matching no SS.
MetaLoc(c) ==
  IF table[t[c].f] # NoMeta /\ table[t[c].f].gen = t[c].g
    THEN {table[t[c].f].ss} ELSE {t[c].loc, NoSS}

\* Look the location up in the SS list; send "DELETE f" on the socket of
\* the first entry with that address, if any; ht_delete(f) by name; 200.
DeleteSend(c) ==
  /\ t[c].pc = "d_send"
  /\ \E loc \in MetaLoc(c) :
       chan' = IF loc \in Listed
                 THEN SendOn(FirstEntry(loc), [op |-> "DELETE", f |-> t[c].f, g |-> 0])
                 ELSE chan
  /\ table' = [table EXCEPT ![t[c].f] = NoMeta]
  /\ Done(c)
  /\ UNCHANGED <<ssList, upSock, nextSS, ssDisk, gen, placed>>

\* READ / STREAM / WRITE / UNDO routing

\* ht_get (404) and check_access (401).
RouteLookup(c) ==
  /\ t[c].pc = "r_lookup"
  /\ LET m == table[t[c].f]
     IN IF m = NoMeta \/ ~CheckAccess(m, UserOf[c], t[c].p) THEN Done(c)
        ELSE t' = [t EXCEPT ![c].pc = "r_online", ![c].loc = m.ss, ![c].g = m.gen]
  /\ UNCHANGED Unch

\* An entry of the SS list has the address the metadata names: "202 OK
\* ip:port" (the idle thread keeps the SS it handed out); otherwise 503.
RouteReply(c) ==
  /\ t[c].pc = "r_online"
  /\ \E loc \in MetaLoc(c) :
       t' = [t EXCEPT ![c] = [IdleT EXCEPT !.loc = IF loc \in Listed THEN loc ELSE NoSS]]
  /\ UNCHANGED Unch

\* ADDACCESS / REMACCESS (p = "N" stands for REMACCESS)

\* ht_get (404); only the owner may change permissions (401).
AccessLookup(c) ==
  /\ t[c].pc = "a_lookup"
  /\ LET m == table[t[c].f]
     IN IF m = NoMeta \/ m.owner # UserOf[c] THEN Done(c)
        ELSE t' = [t EXCEPT ![c].pc = "a_apply", ![c].g = m.gen]
  /\ UNCHANGED Unch

\* add_access / remove_access under meta->lock; reply 200.  A freed entry
\* is not modelled further: the change is lost.
AccessApply(c) ==
  /\ t[c].pc = "a_apply"
  /\ LET f == t[c].f
     IN table' = IF table[f] # NoMeta /\ table[f].gen = t[c].g
                   THEN [table EXCEPT ![f].acl[t[c].target] = t[c].p]
                   ELSE table
  /\ Done(c)
  /\ UNCHANGED <<ssList, upSock, nextSS, chan, ssDisk, gen, placed>>

\* Storage servers

\* The socket numbers of the connections the model still refers to: the
\* listed entries, the open connections and the entries that threads hold.
\* remove_ss does not close the socket, so a descriptor in use here is
\* never handed out again; the others need only differ from these.
SocksInUse ==
  {e.sock : e \in ToSet(ssList) \cup ToSet(placed) \cup {t[c].ss : c \in Clients}}
    \cup Range(upSock)

\* An SS process that is down (re)starts, connects and sends INIT_SS with
\* the files in its directory: add_ss puts the new connection at the head
\* of the list, with no regard to entries of the same address; each
\* listed file the NM knows is moved to this address; the others are
\* orphans and ignored.
SSInit(s) ==
  /\ upSock[s] = NoSock
  /\ \E k \in Socks \ SocksInUse :
       /\ upSock' = [upSock EXCEPT ![s] = k]
       /\ ssList' = <<[ss |-> s, sock |-> k]>> \o ssList
  /\ table' = [f \in Names |->
                 IF table[f] # NoMeta /\ ssDisk[s][f] # 0
                   THEN [table[f] EXCEPT !.ss = s] ELSE table[f]]
  /\ placed' = <<>>
  /\ UNCHANGED <<nextSS, chan, ssDisk, gen, t>>

\* The SS process dies: its files stay on disk, what was still in its
\* socket is lost, and its entry stays listed.
SSCrash(s) ==
  /\ upSock[s] # NoSock
  /\ upSock' = [upSock EXCEPT ![s] = NoSock]
  /\ chan' = [chan EXCEPT ![s] = <<>>]
  /\ UNCHANGED <<table, ssList, nextSS, ssDisk, gen, placed, t>>

\* Mutant: remove_ss unlinks the first entry with the closed entry's
\* address instead of the one with its socket.
SSReapByAddress(e) ==
  /\ e \in ToSet(ssList) /\ ~Open(e)
  /\ ssList' = RemoveAt(ssList, SelectInSeq(ssList, LAMBDA x : x.ss = e.ss))
  /\ placed' = <<>>
  /\ UNCHANGED <<table, upSock, nextSS, chan, ssDisk, gen, t>>

\* The NM thread reading a closed connection's socket sees recv return 0:
\* remove_ss unlinks the entry with that socket.
SSReap(e) ==
  /\ e \in ToSet(ssList) /\ ~Open(e)
  /\ ssList' = SelectSeq(ssList, LAMBDA x : x.sock # e.sock)
  /\ placed' = <<>>
  /\ UNCHANGED <<table, upSock, nextSS, chan, ssDisk, gen, t>>

\* ss_listen_to_nm reads one command: CREATE is fopen(f, "w"); DELETE
\* unlinks f.
SSApply(s) ==
  /\ chan[s] # <<>>
  /\ LET m == Head(chan[s])
     IN ssDisk' = [ssDisk EXCEPT ![s][m.f] = IF m.op = "CREATE" THEN m.g ELSE 0]
  /\ chan' = [chan EXCEPT ![s] = Tail(@)]
  /\ UNCHANGED <<table, ssList, upSock, nextSS, gen, placed, t>>


Next ==
  \/ \E c \in Clients :
       \/ Request(c) \/ CreateLookup(c) \/ GetSSForNewFile(c) \/ CreateSend(c)
       \/ DeleteLookup(c) \/ DeleteSend(c) \/ RouteLookup(c) \/ RouteReply(c)
       \/ AccessLookup(c) \/ AccessApply(c)
  \/ \E s \in SSes : SSInit(s) \/ SSCrash(s) \/ SSApply(s)
  \/ \E e \in ToSet(ssList) : SSReap(e)

Spec == Init /\ [][Next]_vars

\* Properties

\* The SS list follows the connections (add_ss at INIT_SS, remove_ss by
\* socket when a connection's reader sees it closed): no entry is listed
\* twice, and every SS that is up has its open connection listed, also
\* when it restarted before the NM reaped its previous connection.
ListMatchesConnections ==
  /\ IsInjective(ssList)
  /\ \A s \in Live : [ss |-> s, sock |-> upSock[s]] \in ToSet(ssList)

\* Round-robin placement (get_ss_for_new_file): while the SS list does not
\* change, any Len(ssList) consecutive placements go to distinct entries
\* of the list (two entries may share an SS after a restart),
\* however placements of several client threads interleave and however
\* next_ss_index was left by earlier, longer or shorter, lists.
RoundRobin ==
  \A i \in 1..Len(placed) :
    /\ placed[i] \in ToSet(ssList)
    /\ \A j \in i + 1..Len(placed) : j - i < Len(ssList) => placed[i] # placed[j]

\* A "201 OK: File created" means the file created is the requester's: the
\* metadata for the name is the one this CREATE inserted.
CreateReplyMeansCreated ==
  [][\A c \in Clients :
       t[c].pc = "c_send" /\ t'[c].pc = "idle"
         => table'[t[c].f] # NoMeta /\ table'[t[c].f].gen = gen']_vars

\* Spec invariant 5: a "202 OK ip:port" for an existing file goes only to
\* its owner or to a user holding the needed grant when the reply is sent.
AuthorizedRoute ==
  [][\A c \in Clients :
       t[c].pc = "r_online" /\ t'[c].loc # NoSS
            /\ table[t[c].f] # NoMeta
         => CheckAccess(table[t[c].f], UserOf[c], t[c].p)]_vars

\* A DELETE removes only metadata its requester owns (spec: only the
\* owner can delete a file): handle_create_delete checks the owner of the
\* entry ht_get returned, then ht_delete removes whatever entry the name
\* has by then.
DeleteOnlyOwn ==
  [][\A c \in Clients :
       t[c].pc = "d_send" /\ t'[c].pc = "idle" /\ table[t[c].f] # NoMeta
         => table[t[c].f].owner = UserOf[c]]_vars

\* The metadata of a name points at the copy its own CREATE made: when the
\* SS the NM names for f holds a file f and has no command about f still
\* to read, that file is the one created for this metadata, not an older
\* one that survived a DELETE.
LocationCurrent ==
  \A f \in Names :
    LET s == table[f].ss
    IN /\ table[f] # NoMeta
       /\ ssDisk[s][f] # 0
       /\ \A i \in DOMAIN chan[s] : chan[s][i].f # f
       => ssDisk[s][f] = table[f].gen

=============================================================================
