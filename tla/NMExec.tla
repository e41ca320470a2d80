------------------------------ MODULE NMExec ------------------------------
\* EXEC on a client's NM connection: the client's command dispatch
\* (client_parse_and_execute, client.c), the NM's client-handler loop
\* (nm_handle_client_request) and handle_exec (exec_handler.c).  One
\* command is in flight at a time: the client sends a line and reads the
\* reply before it reads the next command.  Every command but EXEC is
\* answered with one message; EXEC is answered with the script's output,
\* one message per line, then "201 OK: Execution finished.", or with one
\* error.  Messages arrive whole and in order, as spec section 2 assumes.
\*
\* A message is abstracted to the command it answers and its class: how
\* the client's prefix checks classify it.  A script's output is anything
\* the shell prints, chosen nondeterministically.
EXTENDS Integers, Sequences, SequencesExt

CONSTANTS
  OutLines,  \* classes of output lines a script may print
  MaxOut,    \* bound: output lines of one script
  MaxCmds    \* bound: commands the client sends on the connection

\* "out":  an output line
\* "code": an output line that starts with 400, 401, 404, 500 or 503
\* "err":  an error reply of handle_exec
\* "fin":  "201 OK: Execution finished."
\* "reply": the one reply of any other command
ASSUME OutLines \subseteq {"out", "code"} /\ MaxOut \in Nat /\ MaxCmds \in Nat

Commands == {"EXEC", "OTHER"}

VARIABLES
  c2n,   \* command lines in flight to the NM: <<[id, cmd], ...>>
  n2c,   \* messages in flight to the client: <<[id, m], ...>>
  cpc,   \* client: "idle" (prompt), or the command whose replies it reads
  cur,   \* the id of the client's current command
  sent,  \* commands sent so far (ids are 1..sent)
  npc,   \* NM handler thread: "recv", "exec" (fetching), "stream" (piping)
  job    \* the EXEC being run: [id, left], left the output still to send

vars == <<c2n, n2c, cpc, cur, sent, npc, job>>

\* The client's loop over EXEC replies stops at a message that starts with
\* "201 OK: Execution finished." or with one of the error codes it knows.
ClientStops(m) == m \in {"fin", "err", "code"}

Init ==
  /\ c2n = <<>> /\ n2c = <<>>
  /\ cpc = "idle" /\ cur = 0 /\ sent = 0
  /\ npc = "recv" /\ job = [id |-> 0, left |-> <<>>]

\* The user enters a command; the client sends the line to the NM.
Issue ==
  /\ cpc = "idle"
  /\ sent < MaxCmds
  /\ \E k \in Commands :
       /\ c2n' = Append(c2n, [id |-> sent + 1, cmd |-> k])
       /\ cpc' = k
  /\ cur' = sent + 1 /\ sent' = sent + 1
  /\ UNCHANGED <<n2c, npc, job>>

\* The EXEC loop: each message read is printed, unless it stops the loop.
ExecRead ==
  /\ cpc = "EXEC"
  /\ n2c # <<>>
  /\ cpc' = IF ClientStops(Head(n2c).m) THEN "idle" ELSE "EXEC"
  /\ n2c' = Tail(n2c)
  /\ UNCHANGED <<c2n, cur, sent, npc, job>>

\* Any other command: one recv, printed as the reply.
OtherRead ==
  /\ cpc = "OTHER"
  /\ n2c # <<>>
  /\ cpc' = "idle" /\ n2c' = Tail(n2c)
  /\ UNCHANGED <<c2n, cur, sent, npc, job>>

\* The NM reads a command line: EXEC goes to handle_exec; every other
\* handler (and the unknown-command branch) sends one reply.
NMRecv ==
  /\ npc = "recv"
  /\ c2n # <<>>
  /\ LET r == Head(c2n)
     IN IF r.cmd = "EXEC"
        THEN /\ npc' = "exec" /\ job' = [id |-> r.id, left |-> <<>>]
             /\ UNCHANGED n2c
        ELSE /\ n2c' = Append(n2c, [id |-> r.id, m |-> "reply"])
             /\ UNCHANGED <<npc, job>>
  /\ c2n' = Tail(c2n)
  /\ UNCHANGED <<cpc, cur, sent>>

\* handle_exec returns after one error: usage (400), no file (404), no
\* read access (401), SS offline or unreachable (503), no content,
\* mkstemp or popen failing (500).
ExecFails ==
  /\ npc = "exec"
  /\ n2c' = Append(n2c, [id |-> job.id, m |-> "err"])
  /\ npc' = "recv"
  /\ UNCHANGED <<c2n, cpc, cur, sent, job>>

\* The script is fetched over GET_CONTENT, written to a temporary file
\* and started with popen; what it will print is up to the script.
ExecRun ==
  /\ npc = "exec"
  /\ \E out \in BoundedSeq(OutLines, MaxOut) :
       job' = [job EXCEPT !.left = out]
  /\ npc' = "stream"
  /\ UNCHANGED <<c2n, n2c, cpc, cur, sent>>

\* Each line fgets reads from the pipe is sent to the client.
ExecOutput ==
  /\ npc = "stream"
  /\ job.left # <<>>
  /\ n2c' = Append(n2c, [id |-> job.id, m |-> Head(job.left)])
  /\ job' = [job EXCEPT !.left = Tail(@)]
  /\ UNCHANGED <<c2n, cpc, cur, sent, npc>>

\* Mutant: pclose and unlink, but no final message.
ExecFinishNoFin ==
  /\ npc = "stream"
  /\ job.left = <<>>
  /\ npc' = "recv"
  /\ UNCHANGED <<c2n, n2c, cpc, cur, sent, job>>

\* At the end of the output: pclose, unlink, and "201 OK: Execution
\* finished."
ExecFinish ==
  /\ npc = "stream"
  /\ job.left = <<>>
  /\ n2c' = Append(n2c, [id |-> job.id, m |-> "fin"])
  /\ npc' = "recv"
  /\ UNCHANGED <<c2n, cpc, cur, sent, job>>

ClientNext == Issue \/ ExecRead \/ OtherRead
NMNext == NMRecv \/ ExecFails \/ ExecRun \/ ExecOutput \/ ExecFinish

Next == ClientNext \/ NMNext

\* The NM's handler thread runs while it has work; a blocking recv in the
\* client returns once a message is there.  The user enters commands when
\* they like.
Fairness == WF_vars(NMNext) /\ WF_vars(ExecRead) /\ WF_vars(OtherRead)

Spec == Init /\ [][Next]_vars /\ Fairness

\* Properties

\* Every command the client sends, EXEC included, ends: the client gets
\* back to its prompt.  Needs every path of handle_exec to end its answer
\* with a message the client's EXEC loop stops at.
CommandCompletes == (cpc # "idle") ~> (cpc = "idle")

\* Every message the client reads and prints as the answer to a command
\* was sent by the NM for that command (spec: EXEC streams the output and
\* then 201; every other command has one reply).
RepliesMatchCommands ==
  [][(cpc # "idle" /\ n2c # <<>> /\ n2c' = Tail(n2c)) => Head(n2c).id = cur]_vars

====
