----------------------------- MODULE WriteWire -----------------------------
\* A WRITE session on the wire: the client's interactive loop
\* (client_handle_write, client_net.c) and the storage server's update
\* loop (handle_ss_write, file_ops.c) on one TCP connection.  The client
\* sends every line it reads with send_message, which writes the bytes
\* with no delimiter; the server takes every recv_message as one line.
\* TCP keeps the bytes in order but not the boundaries between sends: a
\* recv returns any non-empty prefix of what is in flight when Coalesce
\* is TRUE, and exactly one send when it is FALSE.  The commit that
\* follows the loop is modelled in SSWrite and Tokenizer; here it is the
\* final reply.  After a session the client may start the next one.
EXTENDS Integers, Sequences, SequencesExt, CString

CONSTANTS
  Lines,     \* lines the user may type, after trim_newline (non-empty)
  MaxLines,  \* bound: lines sent in one session
  Coalesce   \* whether a recv may return part or several of the sends

ASSUME MaxLines \in Nat /\ Coalesce \in BOOLEAN

ETIRW == <<"E", "T", "I", "R", "W">>

VARIABLES
  cpc,     \* client: "typing", "waiting" (for the final reply), "done"
  typed,   \* history: the lines the client sent this session
  c2s,     \* sends in flight to the server, oldest first
  closed,  \* the client's end of the connection is closed
  spc,     \* server thread: "recv" (update loop), "commit", "done"
  queue,   \* the server's update list: <<[w, x], ...>>
  replied  \* the final reply is in flight to the client

vars == <<cpc, typed, c2s, closed, spc, queue, replied>>

\* Mutant: the count check before the ETIRW comparison.
ParseSkipFirst(buf) ==
  CASE Len(SplitString(buf)) < 2   -> [kind |-> "skip"]
    [] buf = ETIRW                 -> [kind |-> "end"]
    [] OTHER -> [kind |-> "update",
                 u |-> [w |-> Atoi(SplitString(buf)[1]), x |-> AfterFirstSpace(buf)]]

\* One line as the update loop parses it: ETIRW ends the loop, a line of
\* fewer than two tokens is skipped, any other becomes an update whose
\* word index is atoi of the first token and whose content is what
\* follows the first space.
ParseUpdate(buf) ==
  CASE buf = ETIRW                 -> [kind |-> "end"]
    [] Len(SplitString(buf)) < 2   -> [kind |-> "skip"]
    [] OTHER -> [kind |-> "update",
                 u |-> [w |-> Atoi(SplitString(buf)[1]), x |-> AfterFirstSpace(buf)]]

\* The bytes one recv_message may return: the next send, or with
\* coalescing any non-empty prefix of everything in flight.
Chunks ==
  LET flat == FlattenSeq(c2s)
  IN IF Coalesce THEN {SubSeq(flat, 1, k) : k \in 1..Len(flat)} ELSE {Head(c2s)}

\* What stays in flight once chunk is received.
Rest(chunk) ==
  IF Coalesce
  THEN LET flat == FlattenSeq(c2s)
       IN IF Len(chunk) = Len(flat) THEN <<>>
          ELSE <<SubSeq(flat, Len(chunk) + 1, Len(flat))>>
  ELSE Tail(c2s)

\* The server has sent "202 ACK_WRITE" and both sides enter their loops.
Init ==
  /\ cpc = "typing" /\ typed = <<>> /\ c2s = <<>> /\ closed = FALSE
  /\ spc = "recv" /\ queue = <<>> /\ replied = FALSE

\* The client reads a line, sends it, and leaves the loop after ETIRW.
ReadLine ==
  /\ cpc = "typing"
  /\ Len(typed) < MaxLines
  /\ \E l \in Lines :
       /\ c2s' = Append(c2s, l)
       /\ typed' = Append(typed, l)
       /\ cpc' = IF l = ETIRW THEN "waiting" ELSE "typing"
  /\ UNCHANGED <<closed, spc, queue, replied>>

\* fgets returns NULL at the end of standard input: the client leaves the
\* loop without sending anything and waits for the final reply.
ReadEOF ==
  /\ cpc = "typing"
  /\ cpc' = "waiting"
  /\ UNCHANGED <<typed, c2s, closed, spc, queue, replied>>

\* The final reply arrives; the client prints it and closes the socket.
RecvReply ==
  /\ cpc = "waiting"
  /\ replied
  /\ cpc' = "done" /\ closed' = TRUE /\ replied' = FALSE
  /\ UNCHANGED <<typed, c2s, spc, queue>>

\* The user kills the client process: the kernel closes its socket.
Kill ==
  /\ cpc \in {"typing", "waiting"}
  /\ cpc' = "done" /\ closed' = TRUE /\ replied' = FALSE
  /\ UNCHANGED <<typed, c2s, spc, queue>>

\* The list append of the update loop (update_head / update_tail).
Enqueue(q, u) == Append(q, u)

\* One pass of the update loop: recv_message returns bytes; the line is
\* parsed and ends the loop, is skipped, or is appended to the list.
RecvData ==
  /\ spc = "recv"
  /\ c2s # <<>>
  /\ \E chunk \in Chunks :
       LET r == ParseUpdate(chunk)
       IN /\ c2s' = Rest(chunk)
          /\ spc' = IF r.kind = "end" THEN "commit" ELSE "recv"
          /\ queue' = IF r.kind = "update" THEN Enqueue(queue, r.u) ELSE queue
  /\ UNCHANGED <<cpc, typed, closed, replied>>

\* recv returns 0 once the client has closed and everything it sent is
\* read: the loop ends and the updates are committed.
RecvClosed ==
  /\ spc = "recv"
  /\ c2s = <<>> /\ closed
  /\ spc' = "commit"
  /\ UNCHANGED <<cpc, typed, c2s, closed, queue, replied>>

\* The commit phase sends "200 OK" or "500 ERROR", unlocks the sentence
\* and the thread closes the socket; a send to a closed client is lost.
Commit ==
  /\ spc = "commit"
  /\ spc' = "done"
  /\ replied' = ~closed
  /\ UNCHANGED <<cpc, typed, c2s, closed, queue>>

\* The client's command loop issues the next WRITE once both sides are
\* done with this one.
NewSession ==
  /\ cpc = "done" /\ spc = "done"
  /\ cpc' = "typing" /\ typed' = <<>> /\ closed' = FALSE
  /\ spc' = "recv" /\ queue' = <<>>
  /\ UNCHANGED <<c2s, replied>>

ClientNext == ReadLine \/ ReadEOF \/ RecvReply
ServerNext == RecvData \/ RecvClosed \/ Commit

Next == ClientNext \/ ServerNext \/ Kill \/ NewSession

\* The server thread runs whenever it can; the client's blocking recv
\* returns once the reply is there.  The user types, stops or kills the
\* client when they like: no fairness.
Fairness == WF_vars(ServerNext) /\ WF_vars(RecvReply)

Spec == Init /\ [][Next]_vars /\ Fairness

\* Properties

\* A client that sent ETIRW gets the server's final reply (or is killed):
\* the update loop recognises the end of every session.
SessionEndsAfterETIRW == (cpc = "waiting" /\ ETIRW \in ToSet(typed)) ~> (cpc = "done")

\* Every client that leaves the update loop, by ETIRW or at the end of
\* its input, gets the final reply: the spec's "the session ends when the
\* client sends ETIRW or closes the connection" with the client of
\* client_net.c, which waits for the reply before it closes.
SessionEnds == (cpc = "waiting") ~> (cpc = "done")

====
