-------------------------- MODULE McpGatewayProofs --------------------------
(***************************************************************************)
(* Proofs about a gateway session for any number of request ids, tools,    *)
(* frames and messages.                                                    *)
(*                                                                         *)
(* The argument: a request is in one place at a time, on its way from the  *)
(* client's worker to the server and back, and no other with its id is on  *)
(* that way; the table of outstanding requests knows what it asked for.    *)
(* A response nobody asked for spoils that for its id, and for its id only *)
(* (`unowed`).                                                             *)
(* And what exit 0 stands for is settled before the judgement: the server  *)
(* ran when the client's worker was done, and nothing undoes that.         *)
(***************************************************************************)
EXTENDS McpGatewayProperties, FiniteSetTheorems, TLAPS

\* The client's worker is busy with a frame.
Busy(pc) == pc \notin {"read", "done", "failed"}

TypeInv == TypeOK /\ (Busy(client_pc) => frame \in FrameType)

-----------------------------------------------------------------------------
(* What exit 0 stands for.                                                 *)

\* Before the session is on record nothing happens.
Silence ==
    /\ audit = <<>> => /\ client_pc = "read" /\ upstream_pc = "read" /\ ~turned_away
                       /\ pending = [i \in Ids |-> "none"] /\ ~client_done
    /\ main_pc = "spawn" => up = "absent"
    /\ main_pc = "announce" => up # "absent"
    /\ main_pc \in {"spawn", "announce"} => audit = <<>>
    /\ main_pc \in {"watch", "recheck", "close_stdin", "wait", "join_upstream", "join_client",
                    "session_end", "judge"} => audit # <<>>
    /\ audit # <<>> => audit[1].event = "session_start" /\ up # "absent"

\* The client's worker is done with an empty inbox, the server's with no message
\* left of a dead server; a failure is noted; a frame is turned away by a dead
\* server only.
WorkersEnd ==
    /\ client_done => client_pc = "done" /\ inbox = <<>> /\ hung_up
    /\ upstream_pc = "done" => responses = <<>> /\ up # "running"
    /\ client_pc = "failed" \/ upstream_pc = "failed" => errors
    /\ turned_away => up # "running"

\* What is known of the session before its exit code is.
Verdict ==
    /\ main_pc = "recheck" => client_done \/ up # "running" \/ errors
    /\ /\ main_pc \in {"close_stdin", "wait", "join_upstream", "join_client", "session_end",
                       "judge"}
       /\ ~premature /\ ~errors
       => client_done /\ ~turned_away
    /\ main_pc = "judge" => \E k \in DOMAIN audit : audit[k].event = "session_end"
    /\ main_pc \in {"join_client", "session_end", "judge"} /\ ~outlasted => Finished(upstream_pc)
    /\ main_pc \in {"session_end", "judge"} /\ ~outlasted => Finished(client_pc)
    /\ main_pc = "judge" /\ ~outlasted => audit[Len(audit)].event = "session_end"

\* Exit 0, and what it needs to stay true.
Earned ==
    /\ exit_status = 0 =>
         /\ main_pc \in {"cleanup", "closed", "exited"} /\ up = "ended" /\ client_done
         /\ ~turned_away /\ \E k \in DOMAIN audit : audit[k].event = "session_end"
    /\ exit_status = 0 /\ ~outlasted =>
         upstream_pc = "done" /\ audit[Len(audit)].event = "session_end"

SessionInv == Silence /\ WorkersEnd /\ Verdict /\ Earned

-----------------------------------------------------------------------------
(* The way of a request.                                                   *)

Requesting(f, i) == IsRequest(f) /\ f.id = i
Responding(m, i) == m.class = "response" /\ m.id = i

InPipe(q, i) == \E k \in DOMAIN q : Requesting(q[k], i)
InServer(v, i) == \E f \in v : f.id = i
InResponses(r, i) == \E k \in DOMAIN r : Responding(r[k], i)
Held(pc, f, i) == pc \in {"decide", "allow", "forward"} /\ Requesting(f, i)

\* Each stage holds one request with an id at most.  Here and below, u is the set
\* of ids under which the server sent a response that it did not owe.
SingleRequests(q, u) ==
    \A k, l \in DOMAIN q, i \in Ids \ u : Requesting(q[k], i) /\ Requesting(q[l], i) => k = l
SingleServing(v, u) == \A f, g \in v : f.id = g.id /\ f.id \notin u => f = g
SingleResponses(r, u) ==
    \A k, l \in DOMAIN r, i \in Ids \ u : Responding(r[k], i) /\ Responding(r[l], i) => k = l

Single(u) ==
    SingleRequests(requests, u) /\ SingleServing(serving, u) /\ SingleResponses(responses, u)

\* No two stages hold requests with the same id.
Apart(q, v, r, pc, f, u) ==
    \A i \in Ids \ u :
        /\ ~(InPipe(q, i) /\ InServer(v, i)) /\ ~(InPipe(q, i) /\ InResponses(r, i))
        /\ ~(InServer(v, i) /\ InResponses(r, i))
        /\ Held(pc, f, i) => ~InPipe(q, i) /\ ~InServer(v, i) /\ ~InResponses(r, i)

\* The table of outstanding requests knows each of them.
KnownRequest(f, table, u) == IsRequest(f) /\ f.id \notin u => table[f.id] = f.class
KnownAnswer(m, table, u) ==
    /\ m.class = "response" => m.id \in u \/ (m.id \in Ids /\ table[m.id] # "none")
    /\ m.tools # {} =>
         m.class = "batch" \/ (m.class = "response" /\ (m.id \in u \/ table[m.id] = "list"))

Known(q, v, r, pc, f, table, u) ==
    /\ \A k \in DOMAIN q : KnownRequest(q[k], table, u)
    /\ \A g \in v : IsRequest(g) /\ KnownRequest(g, table, u)
    /\ \A k \in DOMAIN r : KnownAnswer(r[k], table, u)
    /\ \A i \in Ids \ u : Held(pc, f, i) => table[i] = f.class

\* No other request is outstanding while the client's worker and the server go on.
Owed ==
    up = "running" /\ client_pc # "failed" =>
        \A i \in Ids : pending[i] # "none" =>
            \/ InPipe(requests, i) \/ InServer(serving, i)
            \/ InResponses(responses, i) \/ Held(client_pc, frame, i)

\* A message that names permitted tools only, or that the gateway cannot know for
\* the answer to a list.
Filtered(m, u) ==
    m.tools \subseteq AllowedTools \/ m.class = "batch" \/ m.id \in u

\* What is about to be passed on has been filtered.
Shown == upstream_pc \in {"filtered", "deliver"} => Filtered(message, unowed)

SlotsInv ==
    /\ Single(unowed)
    /\ Apart(requests, serving, responses, client_pc, frame, unowed)
    /\ Known(requests, serving, responses, client_pc, frame, pending, unowed)
    /\ Owed

-----------------------------------------------------------------------------
(* The counts.                                                             *)

One(b) == IF b THEN 1 ELSE 0

\* Where a sequence is in a set, and how often.
Hits(s, T) == {k \in DOMAIN s : s[k] \in T}
Times(s, T) == Cardinality(Hits(s, T))

Answers(i) == {m \in Message : m.class \in {"response", "error"} /\ m.id = i}
Asks(i) == {f \in FrameType : Requesting(f, i)}

\* Answers an id may still get: to the request in the worker's hands, to the one
\* with the server, and the one about to be passed on.
InHand(i) == One(Busy(client_pc) /\ Requesting(frame, i))
OnTheWay(i) == InPipe(requests, i) \/ InServer(serving, i) \/ InResponses(responses, i)
PassedOn(i) == One(upstream_pc \in {"filtered", "deliver"} /\ Responding(message, i))

\* Errors are the gateway's own.
NoForeignErrors ==
    message.class # "error" /\ \A k \in DOMAIN responses : responses[k].class # "error"

AnswersInv ==
    /\ NoForeignErrors
    /\ \A i \in Ids \ unowed :
         Times(delivered, Answers(i)) + InHand(i) + One(OnTheWay(i)) + PassedOn(i)
            <= Times(received, Asks(i))

Allowed(f) == [event |-> "allow", about |-> f]

\* Calls about to be forwarded are on record too.
RecordsInv ==
    /\ \A k \in DOMAIN forwarded : forwarded[k].class = "call" => Permitted(forwarded[k])
    /\ client_pc \in {"allow", "forward"} /\ frame.class = "call" => Permitted(frame)
    /\ \A f \in Frames : f.class = "call" =>
         Times(forwarded, {f}) + One(client_pc = "forward" /\ frame = f)
            <= Times(audit, {Allowed(f)})

-----------------------------------------------------------------------------
(* Types.                                                                  *)

\* The messages the gateway and the server write.
LEMMA MessagesTyped ==
    /\ Idle \in Message /\ NoId \in Ids \union {NoId}
    /\ \A c \in {"response", "request", "batch", "nonjson", "error"}, i \in Ids \union {NoId},
          t \in SUBSET Tools : [class |-> c, id |-> i, tools |-> t] \in Message
    /\ \A m \in Message : /\ [m EXCEPT !.tools = @ \intersect AllowedTools] \in Message
                          /\ m.id \in Ids \union {NoId} /\ m.tools \subseteq Tools
    /\ \A f \in FrameType : f.id \in Ids \union {NoId} /\ (IsRequest(f) => f.id \in Ids)
    /\ \A f \in FrameType : IsRequest(f) => f.class \in {"call", "list", "other"}
  BY DEF Message, Idle, FrameType, IsRequest, HasMethod

\* The types hold before the server is spawned.
LEMMA TypeInit == Init => TypeInv
<1> SUFFICES ASSUME Init PROVE TypeInv
  OBVIOUS
<1>1. <<>> \in Seq(FrameType) /\ <<>> \in Seq(Message)
  OBVIOUS
<1>2. audit \in Seq([event: Events, about: FrameType \union {NoFrame}])
  BY DEF Init
<1>3. pending \in [Ids -> {"none", "call", "list", "other"}]
  BY DEF Init
<1>4. message \in Message /\ frame \in FrameType \union {NoFrame}
  BY MessagesTyped DEF Init
<1> QED  BY <1>1, <1>2, <1>3, <1>4 DEF Init, TypeInv, TypeOK, Busy

\* A record of an event is one the log may hold.
LEMMA LogTyped ==
    ASSUME TypeOK, NEW e \in Events, NEW about \in FrameType \union {NoFrame}, Log(e, about)
    PROVE  audit' \in Seq([event: Events, about: FrameType \union {NoFrame}])
<1>1. [event |-> e, about |-> about] \in [event: Events, about: FrameType \union {NoFrame}]
  OBVIOUS
<1> QED  BY <1>1 DEF Log, TypeOK

\* The client and the server write what frames and messages are made of.
LEMMA EnvironmentTyped == TypeInv /\ Environment => TypeInv'
<1> SUFFICES ASSUME TypeInv, Environment PROVE TypeInv'
  OBVIOUS
<1> USE DEF TypeInv, unaskedVars
<1>1. ASSUME NEW f \in Frames, ClientSends(f) PROVE TypeInv'
  <2>1. f \in FrameType
    BY GatewayAssumption
  <2> QED  BY <1>1, <2>1 DEF TypeOK, ClientSends, serverVars, auditVars, clientVars,
                             upstreamVars, mainVars, judgeVars
<1>2. CASE ClientCloses
  BY <1>2 DEF TypeOK, ClientCloses, serverVars, auditVars, clientVars,
              upstreamVars, mainVars, judgeVars
<1>3. CASE ServerReads
  BY <1>3 DEF TypeOK, ServerReads, pipeVars, auditVars, clientVars,
              upstreamVars, mainVars, judgeVars
<1>4. ASSUME NEW f \in serving, ServerAnswers(f) PROVE TypeInv'
  <2>1. f \in FrameType
    BY DEF TypeOK
  <2>2. [class |-> "response", id |-> f.id,
         tools |-> IF f.class = "list" THEN Tools ELSE {}] \in Message
    BY <2>1, MessagesTyped
  <2> QED  BY <1>4, <2>2 DEF TypeOK, ServerAnswers, pipeVars, auditVars, clientVars,
                             upstreamVars, mainVars, judgeVars
<1>5. ASSUME NEW m \in Unasked, ServerSpeaks(m) PROVE TypeInv'
  <2>1. m \in Message /\ m.id \in Ids \union {NoId}
    BY MessagesTyped DEF Unasked
  <2>2. spoken' \in Nat
    BY <1>5 DEF TypeOK, ServerSpeaks
  <2>3. unowed' \subseteq Ids \union {NoId}
    BY <1>5, <2>1 DEF TypeOK, ServerSpeaks
  <2> QED  BY <1>5, <2>1, <2>2, <2>3 DEF TypeOK, ServerSpeaks, pipeVars, auditVars, clientVars,
                             upstreamVars, mainVars, judgeVars
<1>6. ASSUME NEW how \in {"ended", "crashed"}, ServerExits(how) PROVE TypeInv'
  BY <1>6 DEF TypeOK, ServerExits, pipeVars, auditVars, clientVars,
              upstreamVars, mainVars, judgeVars
<1> QED  BY <1>1, <1>2, <1>3, <1>4, <1>5, <1>6 DEF Environment

\* The client's worker keeps the types.
LEMMA ClientTyped == TypeInv /\ (ClientWorker \/ ClientWorkerFails) => TypeInv'
<1> SUFFICES ASSUME TypeInv, ClientWorker \/ ClientWorkerFails PROVE TypeInv'
  OBVIOUS
<1> USE DEF TypeInv, unaskedVars, Busy
<1>1. CASE ReadFrame
  <2>1. inbox # <<>> /\ inbox \in Seq(FrameType)
    BY <1>1 DEF ReadFrame, TypeOK
  <2>2. Head(inbox) \in FrameType /\ Tail(inbox) \in Seq(FrameType)
    BY <2>1
  <2> QED  BY <1>1, <2>2 DEF TypeOK, ReadFrame, serverVars, auditVars,
                             upstreamVars, mainVars, judgeVars
<1>3. CASE NoteGarbage
  <2>1. audit' \in Seq([event: Events, about: FrameType \union {NoFrame}])
    BY <1>3, LogTyped DEF NoteGarbage, Events
  <2> QED  BY <1>3, <2>1 DEF TypeOK, NoteGarbage, pipeVars, serverVars, auditVars,
                             upstreamVars, mainVars, judgeVars
<1>4. CASE PollServer
  BY <1>4 DEF TypeOK, PollServer, Answer, pipeVars, serverVars, auditVars,
              upstreamVars, mainVars, judgeVars
<1>5. CASE Register
  <2>1. frame \in FrameType
    BY <1>5 DEF Register
  <2>2. pending' \in [Ids -> {"none", "call", "list", "other"}]
    BY <1>5, <2>1, MessagesTyped DEF TypeOK, Register
  <2> QED  BY <1>5, <2>1, <2>2 DEF TypeOK, Register, pipeVars, serverVars, auditVars,
                                   upstreamVars, mainVars, judgeVars
<1>6. CASE Decide
  <2>1. frame \in FrameType
    BY <1>6 DEF Decide
  <2>2. pending' \in [Ids -> {"none", "call", "list", "other"}]
    BY <1>6, <2>1, MessagesTyped DEF TypeOK, Decide, Unregister
  <2> QED  BY <1>6, <2>1, <2>2 DEF TypeOK, Decide, Answer, pipeVars, serverVars, auditVars,
                                   upstreamVars, mainVars, judgeVars
<1>7. CASE AuditDeny \/ AuditAllow
  <2>1. frame \in FrameType
    BY <1>7 DEF AuditDeny, AuditAllow
  <2>2. audit' \in Seq([event: Events, about: FrameType \union {NoFrame}])
    BY <1>7, <2>1, LogTyped DEF AuditDeny, AuditAllow, Events
  <2> QED  BY <1>7, <2>1, <2>2 DEF TypeOK, AuditDeny, AuditAllow, Answer, pipeVars,
                                   serverVars, auditVars, upstreamVars, mainVars, judgeVars
<1>8. CASE Forward
  <2>1. frame \in FrameType
    BY <1>8 DEF Forward
  <2> QED  BY <1>8, <2>1 DEF TypeOK, Forward, pipeVars, auditVars, upstreamVars, mainVars,
                             judgeVars
<1>9. CASE AnswerError
  <2>1. frame \in FrameType
    BY <1>9 DEF AnswerError
  <2>2. delivered' \in Seq(Message)
    <3> DEFINE e == [class |-> "error", tools |-> {},
                     id |-> IF IsRequest(frame) THEN frame.id ELSE NoId]
    <3>1. e \in Message
      BY <2>1 DEF Message, FrameType
    <3> QED  BY <1>9, <3>1 DEF AnswerError, TypeOK
  <2> QED  BY <1>9, <2>2 DEF TypeOK, AnswerError, pipeVars, serverVars, auditVars,
                             upstreamVars, mainVars, judgeVars
<1>10. CASE EndOfInput
  BY <1>10 DEF TypeOK, EndOfInput, pipeVars, serverVars, auditVars, upstreamVars, mainVars,
               judgeVars
<1>11. CASE ClientWorkerFails
  BY <1>11 DEF TypeOK, ClientWorkerFails, pipeVars, serverVars, auditVars, upstreamVars,
               mainVars, judgeVars, unaskedVars
<1> QED  BY <1>1, <1>3, <1>4, <1>5, <1>6, <1>7, <1>8, <1>9, <1>10, <1>11 DEF ClientWorker, ClientWorkerMoves

\* The server's worker keeps the types.
LEMMA UpstreamTyped == TypeInv /\ (UpstreamWorker \/ UpstreamWorkerFails) => TypeInv'
<1> SUFFICES ASSUME TypeInv, UpstreamWorker \/ UpstreamWorkerFails PROVE TypeInv'
  OBVIOUS
<1> USE DEF TypeInv, unaskedVars
<1>1. CASE ReadMessage
  <2> DEFINE m == Head(responses)
  <2>1. m \in Message /\ Tail(responses) \in Seq(Message)
    BY <1>1 DEF ReadMessage, TypeOK
  <2>2. message' \in Message
    BY <1>1, <2>1, MessagesTyped DEF ReadMessage
  <2>3. pending' \in [Ids -> {"none", "call", "list", "other"}]
    BY <1>1, <2>1, MessagesTyped DEF ReadMessage, TypeOK
  <2>4. upstream_pc' \in {"noise", "filtered", "deliver"}
    BY <1>1 DEF ReadMessage
  <2>5. responses' \in Seq(Message)
    BY <1>1, <2>1 DEF ReadMessage
  <2>6. UNCHANGED <<pipeVars, delivered, up, stdin_open, requests, forwarded, serving, unaskedVars,
                    auditVars, clientVars, errors, mainVars>>
    BY <1>1 DEF ReadMessage
  <2> QED  BY <2>2, <2>3, <2>4, <2>5, <2>6 DEF TypeOK, pipeVars, auditVars, clientVars,
                                               mainVars, judgeVars
<1>2. CASE RecordMessage
  <2>1. audit' \in Seq([event: Events, about: FrameType \union {NoFrame}])
    BY <1>2, LogTyped DEF RecordMessage, Events
  <2>2. upstream_pc' \in {"read", "deliver"}
    BY <1>2 DEF RecordMessage
  <2>3. UNCHANGED <<pipeVars, delivered, serverVars, pending, audit_open, clientVars,
                    message, errors, mainVars>>
    BY <1>2 DEF RecordMessage
  <2> QED  BY <2>1, <2>2, <2>3 DEF TypeOK, pipeVars, serverVars, clientVars, mainVars,
                                   judgeVars
<1>3. CASE Deliver
  BY <1>3 DEF TypeOK, Deliver, pipeVars, serverVars, auditVars, clientVars, mainVars, judgeVars
<1>4. CASE EndOfOutput
  BY <1>4 DEF TypeOK, EndOfOutput, pipeVars, serverVars, auditVars, clientVars, mainVars,
              judgeVars
<1>5. CASE UpstreamWorkerFails
  BY <1>5 DEF TypeOK, UpstreamWorkerFails, pipeVars, serverVars, auditVars, clientVars,
              mainVars, judgeVars, unaskedVars
<1> QED  BY <1>1, <1>2, <1>3, <1>4, <1>5 DEF UpstreamWorker

\* The main thread keeps the types.
LEMMA MainTyped == TypeInv /\ (Main \/ StartOrLogFails) => TypeInv'
<1> SUFFICES ASSUME TypeInv, Main \/ StartOrLogFails PROVE TypeInv'
  OBVIOUS
<1> USE DEF TypeInv, unaskedVars
<1>1. CASE Spawn
  BY <1>1 DEF TypeOK, Spawn, pipeVars, auditVars, clientVars, upstreamVars, judgeVars
<1>2. CASE CloseStdin
  <2>1. stdin_open' \in BOOLEAN
    BY <1>2 DEF CloseStdin
  <2>2. main_pc' = "wait" /\ UNCHANGED <<pipeVars, delivered, up, requests, forwarded, serving,
                                        responses, unaskedVars, pending, auditVars, clientVars,
                                        upstreamVars, errors, judgeVars>>
    BY <1>2 DEF CloseStdin
  <2> QED  BY <2>1, <2>2 DEF TypeOK, pipeVars, auditVars, clientVars, upstreamVars, judgeVars
<1>3. CASE WaitForServer
  BY <1>3 DEF TypeOK, WaitForServer, pipeVars, auditVars, clientVars, upstreamVars, judgeVars
<1>4. CASE Announce \/ EndSession
  <2>1. audit' \in Seq([event: Events, about: FrameType \union {NoFrame}])
    BY <1>4, LogTyped DEF Announce, EndSession, Events
  <2>2. main_pc' \in {"watch", "judge"}
    BY <1>4 DEF Announce, EndSession
  <2>3. UNCHANGED <<pipeVars, delivered, serverVars, pending, audit_open, clientVars,
                    upstreamVars, errors, judgeVars>>
    BY <1>4 DEF Announce, EndSession
  <2> QED  BY <2>1, <2>2, <2>3 DEF TypeOK, pipeVars, serverVars, clientVars, upstreamVars,
                                   judgeVars
<1>5. CASE LeaveWatch
  BY <1>5 DEF TypeOK, LeaveWatch, pipeVars, serverVars, auditVars, clientVars, upstreamVars,
              judgeVars
<1>6. CASE Recheck
  BY <1>6 DEF TypeOK, Recheck, pipeVars, serverVars, auditVars, clientVars, upstreamVars,
              judgeVars
<1>7. CASE JoinUpstream
  BY <1>7 DEF TypeOK, JoinUpstream, pipeVars, serverVars, auditVars, clientVars, upstreamVars,
              judgeVars
<1>8. CASE JoinClient
  BY <1>8 DEF TypeOK, JoinClient, pipeVars, serverVars, auditVars, clientVars, upstreamVars,
              judgeVars
<1>9. CASE Judge
  BY <1>9 DEF TypeOK, Judge, pipeVars, serverVars, auditVars, clientVars, upstreamVars,
              judgeVars
<1>10. CASE Exit
  BY <1>10 DEF TypeOK, Exit, pipeVars, serverVars, auditVars, clientVars, upstreamVars,
              judgeVars
<1>11. CASE StartOrLogFails
  BY <1>11 DEF TypeOK, StartOrLogFails, pipeVars, serverVars, auditVars, clientVars, upstreamVars,
              judgeVars
<1>12. CASE Cleanup
  <2>1. stdin_open' \in BOOLEAN /\ audit_open' \in BOOLEAN
    BY <1>12 DEF Cleanup
  <2>2. up' \in {"absent", "running", "ended", "crashed"} /\ main_pc' = "closed"
    BY <1>12 DEF Cleanup, TypeOK
  <2>3. UNCHANGED <<pipeVars, delivered, requests, forwarded, serving, responses, unaskedVars,
                    pending, audit, clientVars, upstreamVars, errors, judgeVars>>
    BY <1>12 DEF Cleanup
  <2> QED  BY <2>1, <2>2, <2>3 DEF TypeOK, pipeVars, clientVars, upstreamVars, judgeVars
<1> QED  BY <1>1, <1>2, <1>3, <1>4, <1>5, <1>6, <1>7, <1>8, <1>9, <1>10, <1>11, <1>12
         DEF Main

\* Every step keeps the types.
LEMMA TypeStep == TypeInv /\ [Next]_vars => TypeInv'
<1>1. TypeInv /\ UNCHANGED vars => TypeInv'
  BY DEF TypeInv, TypeOK, vars, pipeVars, serverVars, auditVars, clientVars, upstreamVars,
         mainVars, judgeVars, unaskedVars
<1> QED  BY <1>1, EnvironmentTyped, ClientTyped, UpstreamTyped, MainTyped
         DEF Next, Failure

-----------------------------------------------------------------------------
(* Who changes what.                                                       *)

\* The log grows at its end.
Logged == \E e \in Events, about \in FrameType \union {NoFrame} : Log(e, about)

\* A record is appended, and the others stay where they are.
LEMMA LogGrows ==
    ASSUME TypeOK, NEW e \in Events, NEW about \in FrameType \union {NoFrame}, Log(e, about)
    PROVE  /\ Len(audit) \in Nat /\ Len(audit') = Len(audit) + 1 /\ audit' # <<>>
           /\ DOMAIN audit = 1..Len(audit) /\ DOMAIN audit' = 1..Len(audit')
           /\ \A k \in DOMAIN audit : k \in DOMAIN audit' /\ audit'[k] = audit[k]
           /\ Len(audit') \in DOMAIN audit' /\ audit'[Len(audit')] = [event |-> e, about |-> about]
<1> DEFINE x == [event |-> e, about |-> about]
           S == [event: Events, about: FrameType \union {NoFrame}]
<1>1. audit \in Seq(S) /\ x \in S /\ audit' = Append(audit, x)
  BY DEF TypeOK, Log
<1> HIDE DEF x, S
<1>2. /\ Len(audit) \in Nat /\ Len(audit') = Len(audit) + 1 /\ audit' \in Seq(S)
      /\ DOMAIN audit = 1..Len(audit) /\ DOMAIN audit' = 1..Len(audit')
      /\ \A k \in 1..Len(audit) : audit'[k] = audit[k]
      /\ audit'[Len(audit) + 1] = x
  BY <1>1
<1>3. audit' # <<>>
  BY <1>2
<1> QED  BY <1>2, <1>3 DEF x

\* The client and the server.
LEMMA EnvironmentFrame ==
    Environment =>
        /\ UNCHANGED <<delivered, pending, auditVars, clientVars, upstreamVars, errors, mainVars,
                       received, stdin_open, forwarded>>
        /\ unowed \subseteq unowed'
        /\ hung_up => hung_up' /\ UNCHANGED inbox
        /\ UNCHANGED up \/ (up = "running" /\ up' \in {"ended", "crashed"})
        /\ up # "running" => UNCHANGED <<requests, serving, responses>>
<1> SUFFICES ASSUME Environment
             PROVE  /\ UNCHANGED <<delivered, pending, auditVars, clientVars, upstreamVars, errors,
                                   mainVars, received, stdin_open, forwarded>>
                    /\ unowed \subseteq unowed'
                    /\ hung_up => hung_up' /\ UNCHANGED inbox
                    /\ UNCHANGED up \/ (up = "running" /\ up' \in {"ended", "crashed"})
                    /\ up # "running" => UNCHANGED <<requests, serving, responses>>
  OBVIOUS
<1> USE DEF unaskedVars
<1>1. CASE ClientCloses \/ \E f \in Frames : ClientSends(f)
  BY <1>1 DEF ClientCloses, ClientSends, serverVars
<1>2. CASE ServerReads
  BY <1>2 DEF ServerReads, pipeVars
<1>3. CASE \E f \in serving : ServerAnswers(f)
  BY <1>3 DEF ServerAnswers, pipeVars
<1>5. ASSUME NEW m \in Unasked, ServerSpeaks(m)
      PROVE  /\ UNCHANGED <<delivered, pending, auditVars, clientVars, upstreamVars, errors,
                            mainVars, received, stdin_open, forwarded, up, pipeVars>>
             /\ up = "running" /\ unowed \subseteq unowed'
  BY <1>5 DEF ServerSpeaks, pipeVars
<1>6. CASE \E how \in {"ended", "crashed"} : ServerExits(how)
  BY <1>6 DEF ServerExits, pipeVars
<1> QED  BY <1>1, <1>2, <1>3, <1>5, <1>6 DEF Environment, pipeVars

\* The client's worker.
LEMMA ClientFrame ==
    ASSUME TypeInv, ClientWorker \/ ClientWorkerFails
    PROVE  /\ Threads /\ client_pc \notin {"done", "failed"} /\ client_pc' # client_pc
           /\ UNCHANGED <<hung_up, up, stdin_open, serving, responses, unowed, audit_open,
                          upstreamVars, mainVars>>
           /\ UNCHANGED audit \/ Logged
           /\ UNCHANGED errors \/ errors' = TRUE
           /\ client_pc' = "failed" => errors' = TRUE
           /\ client_pc # "forward" => UNCHANGED <<requests, forwarded>>
           /\ client_pc \notin {"register", "decide"} => UNCHANGED pending
           /\ turned_away' # turned_away => up # "running"
           /\ client_done' # client_done => client_done' /\ client_pc' = "done" /\ inbox' = <<>>
                                            /\ hung_up
           /\ client_pc \notin {"answer", "answer_locked"} => UNCHANGED delivered
           /\ client_pc # "read" => UNCHANGED <<inbox, received, frame>>
<1> USE DEF TypeInv, Busy, unaskedVars
<1>1. CASE ReadFrame
  BY <1>1 DEF ReadFrame, serverVars, auditVars
<1>2. CASE NoteGarbage \/ AuditDeny \/ AuditAllow
  <2>1. Logged
    BY <1>2 DEF NoteGarbage, AuditDeny, AuditAllow, Logged, Events
  <2> QED  BY <1>2, <2>1 DEF NoteGarbage, AuditDeny, AuditAllow, pipeVars, serverVars, Answer
<1>3. CASE PollServer
  <2>1. turned_away' # turned_away => up # "running"
    BY <1>3 DEF PollServer, TypeOK
  <2>2. client_pc' \in {"register", "answer", "read"} /\ client_pc = "poll" /\ Threads
    BY <1>3 DEF PollServer, Answer
  <2>3. UNCHANGED <<pipeVars, delivered, serverVars, pending, auditVars, frame, client_done,
                    upstreamVars, errors, mainVars>>
    BY <1>3 DEF PollServer
  <2> QED  BY <2>1, <2>2, <2>3 DEF pipeVars, serverVars, auditVars
<1>4. CASE Register \/ Decide
  BY <1>4 DEF Register, Decide, Answer, pipeVars, serverVars, auditVars
<1>5. CASE Forward
  BY <1>5 DEF Forward, pipeVars, auditVars
<1>6. CASE AnswerError \/ ClientWorkerFails
  BY <1>6 DEF AnswerError, ClientWorkerFails, pipeVars, serverVars, auditVars
<1>7. CASE EndOfInput
  BY <1>7 DEF EndOfInput, pipeVars, serverVars, auditVars
<1> QED  BY <1>1, <1>2, <1>3, <1>4, <1>5, <1>6, <1>7 DEF ClientWorker, ClientWorkerMoves

\* The server's worker.
LEMMA UpstreamFrame ==
    ASSUME TypeInv, UpstreamWorker \/ UpstreamWorkerFails
    PROVE  /\ Threads /\ upstream_pc \notin {"done", "failed"} /\ upstream_pc' # upstream_pc
           /\ UNCHANGED <<pipeVars, up, stdin_open, requests, forwarded, serving, unowed,
                          audit_open, clientVars, mainVars>>
           /\ UNCHANGED audit \/ Logged
           /\ UNCHANGED errors \/ errors' = TRUE
           /\ upstream_pc' = "failed" => errors' = TRUE
           /\ upstream_pc' = "done" => responses' = <<>> /\ up # "running"
           /\ upstream_pc # "read" => UNCHANGED <<responses, pending, message>>
           /\ upstream_pc # "deliver" => UNCHANGED delivered
<1> USE DEF unaskedVars
<1>1. CASE ReadMessage
  BY <1>1 DEF ReadMessage, auditVars
<1>2. CASE RecordMessage
  <2>1. Logged
    BY <1>2 DEF RecordMessage, Logged, Events
  <2> QED  BY <1>2, <2>1 DEF RecordMessage, serverVars
<1>3. CASE Deliver
  BY <1>3 DEF Deliver, serverVars, auditVars
<1>4. CASE EndOfOutput \/ UpstreamWorkerFails
  BY <1>4 DEF EndOfOutput, UpstreamWorkerFails, serverVars, auditVars
<1> QED  BY <1>1, <1>2, <1>3, <1>4 DEF UpstreamWorker

\* The main thread.
LEMMA MainFrame ==
    Main \/ StartOrLogFails =>
        /\ UNCHANGED <<pipeVars, delivered, requests, forwarded, serving, responses, unowed,
                       pending, clientVars, upstreamVars, errors>>
        /\ main_pc \notin {"announce", "session_end"} => UNCHANGED audit
        /\ \/ UNCHANGED up \/ (main_pc = "spawn" /\ up' = "running" /\ main_pc' = "announce")
           \/ (up = "running" /\ up' = "crashed")
<1> SUFFICES ASSUME Main \/ StartOrLogFails
             PROVE  /\ UNCHANGED <<pipeVars, delivered, requests, forwarded, serving, responses,
                                   unowed, pending, clientVars, upstreamVars, errors>>
                    /\ main_pc \notin {"announce", "session_end"} => UNCHANGED audit
                    /\ \/ UNCHANGED up
                       \/ (main_pc = "spawn" /\ up' = "running" /\ main_pc' = "announce")
                       \/ (up = "running" /\ up' = "crashed")
  OBVIOUS
<1> USE DEF unaskedVars
<1>1. CASE Spawn \/ CloseStdin \/ WaitForServer
  BY <1>1 DEF Spawn, CloseStdin, WaitForServer, auditVars
<1>2. CASE Announce \/ EndSession
  BY <1>2 DEF Announce, EndSession, serverVars
<1>3. CASE LeaveWatch \/ Recheck \/ JoinUpstream \/ JoinClient
  BY <1>3 DEF LeaveWatch, Recheck, JoinUpstream, JoinClient, serverVars, auditVars
<1>4. CASE Judge \/ Exit \/ StartOrLogFails
  BY <1>4 DEF Judge, Exit, StartOrLogFails, serverVars, auditVars
<1>5. CASE Cleanup
  BY <1>5 DEF Cleanup
<1> QED  BY <1>1, <1>2, <1>3, <1>4, <1>5 DEF Main

\* What is in the log stays where it is.
LEMMA LogStays ==
    ASSUME TypeOK, UNCHANGED audit \/ Logged
    PROVE  /\ audit # <<>> => audit' # <<>> /\ audit'[1] = audit[1]
           /\ \A k \in DOMAIN audit : k \in DOMAIN audit' /\ audit'[k] = audit[k]
<1>1. audit # <<>> => 1 \in DOMAIN audit
  BY DEF TypeOK
<1>2. CASE UNCHANGED audit
  BY <1>2
<1>3. CASE Logged
  <2>1. PICK e \in Events, about \in FrameType \union {NoFrame} : Log(e, about)
    BY <1>3 DEF Logged
  <2> QED  BY <1>1, <2>1, LogGrows
<1> QED  BY <1>2, <1>3

\* The records of the main thread are of the session's start and end.
LEMMA MainLogs ==
    ASSUME TypeInv, Main \/ StartOrLogFails
    PROVE  /\ UNCHANGED audit \/ Logged
           /\ main_pc = "announce" /\ main_pc' = "watch" =>
                /\ audit' # <<>> /\ (audit = <<>> => audit'[1].event = "session_start")
           /\ main_pc = "session_end" /\ main_pc' = "judge" =>
                /\ Len(audit') \in DOMAIN audit' /\ audit'[Len(audit')].event = "session_end"
<1>1. CASE Announce
  <2>1. Log("session_start", NoFrame) /\ main_pc' = "watch" /\ main_pc = "announce"
    BY <1>1 DEF Announce
  <2>2. Logged
    BY <2>1 DEF Logged, Events
  <2>3. "session_start" \in Events /\ TypeOK
    BY DEF Events, TypeInv
  <2>4. /\ Len(audit') = Len(audit) + 1 /\ audit' # <<>>
        /\ audit'[Len(audit')] = [event |-> "session_start", about |-> NoFrame]
    BY <2>1, <2>3, LogGrows
  <2> QED  BY <2>1, <2>2, <2>4
<1>2. CASE EndSession
  <2>1. Log("session_end", NoFrame) /\ main_pc' = "judge" /\ main_pc = "session_end"
    BY <1>2 DEF EndSession
  <2>2. Logged
    BY <2>1 DEF Logged, Events
  <2>3. "session_end" \in Events /\ TypeOK
    BY DEF Events, TypeInv
  <2>4. /\ Len(audit') \in DOMAIN audit'
        /\ audit'[Len(audit')] = [event |-> "session_end", about |-> NoFrame]
    BY <2>1, <2>3, LogGrows
  <2> QED  BY <2>1, <2>2, <2>4
<1>3. CASE ~Announce /\ ~EndSession
  <2>1. CASE main_pc \notin {"announce", "session_end"}
    BY <2>1, MainFrame
  <2>2. CASE main_pc \in {"announce", "session_end"}
    <3>1. StartOrLogFails
      BY <1>3, <2>2 DEF Main, Spawn, LeaveWatch, Recheck, CloseStdin, WaitForServer,
                        JoinUpstream, JoinClient, Judge, Cleanup, Exit
    <3> QED  BY <3>1 DEF StartOrLogFails, auditVars
  <2> QED  BY <2>1, <2>2
<1> QED  BY <1>1, <1>2, <1>3

-----------------------------------------------------------------------------
(* The session.                                                            *)

\* Nothing is decided before the session begins.
LEMMA SessionInit == Init => SessionInv
  BY DEF Init, SessionInv, Silence, WorkersEnd, Verdict, Earned, Finished, NoExit

\* The workers start once the session is on record.
LEMMA SilenceStep == ASSUME TypeInv, Silence, [Next]_vars PROVE Silence'
<1>1. CASE Environment
  BY <1>1, EnvironmentFrame DEF Silence, auditVars, clientVars, upstreamVars, mainVars
<1>2. CASE ClientWorker \/ ClientWorkerFails
  <2>1. /\ audit # <<>> /\ UNCHANGED <<up, main_pc>> /\ audit' # <<>>
        /\ audit'[1] = audit[1]
    BY <1>2, ClientFrame, LogStays DEF Threads, TypeInv, mainVars
  <2> QED  BY <2>1 DEF Silence
<1>3. CASE UpstreamWorker \/ UpstreamWorkerFails
  <2>1. /\ audit # <<>> /\ UNCHANGED <<up, main_pc>> /\ audit' # <<>>
        /\ audit'[1] = audit[1]
    BY <1>3, UpstreamFrame, LogStays DEF Threads, TypeInv, mainVars
  <2> QED  BY <2>1 DEF Silence
<1>4. CASE Main \/ StartOrLogFails
  <2>1. /\ UNCHANGED <<pending, client_pc, upstream_pc, turned_away, client_done>>
        /\ main_pc \notin {"announce", "session_end"} => UNCHANGED audit
        /\ audit # <<>> => audit' # <<>> /\ audit'[1] = audit[1]
        /\ main_pc = "announce" /\ main_pc' = "watch" => audit' # <<>> /\ audit'[1].event = "session_start"
        /\ \/ UNCHANGED up \/ (main_pc = "spawn" /\ up' = "running" /\ main_pc' = "announce")
           \/ (up = "running" /\ up' = "crashed")
    BY <1>4, MainFrame, MainLogs, LogStays DEF TypeInv, Silence, clientVars, upstreamVars
  <2>2. \/ main_pc = "spawn" /\ main_pc' = "announce" /\ up' = "running"
        \/ main_pc = "announce" /\ main_pc' = "watch"
        \/ main_pc \in {"spawn", "announce", "session_end"} /\ main_pc' = "cleanup" /\ UNCHANGED audit
        \/ /\ main_pc \notin {"spawn", "announce"} /\ main_pc' \notin {"spawn", "announce"}
           /\ main_pc' \in {"watch", "recheck", "close_stdin", "wait", "join_upstream",
                            "join_client", "session_end", "judge"} =>
              main_pc \in {"watch", "recheck", "close_stdin", "wait", "join_upstream",
                           "join_client", "session_end", "judge"}
    <3>1. CASE Spawn \/ Announce \/ StartOrLogFails
      BY <3>1 DEF Spawn, Announce, StartOrLogFails, auditVars
    <3>2. CASE LeaveWatch \/ Recheck \/ CloseStdin \/ WaitForServer \/ JoinUpstream
      BY <3>2 DEF LeaveWatch, Recheck, CloseStdin, WaitForServer, JoinUpstream
    <3>3. CASE JoinClient \/ EndSession \/ Judge \/ Cleanup \/ Exit
      BY <3>3 DEF JoinClient, EndSession, Judge, Cleanup, Exit
    <3> QED  BY <1>4, <3>1, <3>2, <3>3 DEF Main
  <2>3. CASE main_pc = "spawn" /\ main_pc' = "announce" /\ up' = "running"
    BY <2>1, <2>3 DEF Silence
  <2>4. CASE main_pc = "announce" /\ main_pc' = "watch"
    BY <2>1, <2>4 DEF Silence
  <2>5. CASE main_pc' = "cleanup"
    BY <2>1, <2>2, <2>5 DEF Silence
  <2>6. CASE main_pc \notin {"spawn", "announce"} /\ main_pc' \notin {"spawn", "announce"}
    BY <2>1, <2>2, <2>6 DEF Silence
  <2> QED  BY <2>2, <2>3, <2>4, <2>5, <2>6
<1>5. CASE UNCHANGED vars
  BY <1>5 DEF Silence, vars, serverVars, auditVars, clientVars, upstreamVars, mainVars
<1> QED  BY <1>1, <1>2, <1>3, <1>4, <1>5 DEF Next, Failure

\* A worker that has ended stays so, with what it ended on.
LEMMA WorkersEndStep == ASSUME TypeInv, Silence, WorkersEnd, [Next]_vars PROVE WorkersEnd'
<1>1. CASE Environment
  BY <1>1, EnvironmentFrame DEF WorkersEnd, auditVars, clientVars, upstreamVars, mainVars
<1>2. CASE ClientWorker \/ ClientWorkerFails
  <2>1. client_pc \notin {"done", "failed"} /\ UNCHANGED <<responses, up, upstream_pc, hung_up>>
    BY <1>2, ClientFrame DEF upstreamVars
  <2>2. client_done' => client_pc' = "done" /\ inbox' = <<>> /\ hung_up'
    BY <1>2, <2>1, ClientFrame DEF WorkersEnd, TypeInv, TypeOK
  <2>3. turned_away' => up' # "running"
    BY <1>2, <2>1, ClientFrame DEF WorkersEnd, TypeInv, TypeOK
  <2>4. client_pc' = "failed" \/ upstream_pc' = "failed" => errors'
    BY <1>2, <2>1, ClientFrame DEF WorkersEnd
  <2> QED  BY <2>1, <2>2, <2>3, <2>4 DEF WorkersEnd
<1>3. CASE UpstreamWorker \/ UpstreamWorkerFails
  <2>1. /\ UNCHANGED <<up, client_pc, client_done, turned_away, inbox, hung_up>>
        /\ upstream_pc' = "failed" => errors' = TRUE
        /\ UNCHANGED errors \/ errors' = TRUE
        /\ upstream_pc' = "done" => responses' = <<>> /\ up # "running"
    BY <1>3, UpstreamFrame DEF pipeVars, clientVars
  <2> QED  BY <2>1 DEF WorkersEnd
<1>4. CASE Main \/ StartOrLogFails
  <2>1. /\ UNCHANGED <<inbox, hung_up, responses, client_pc, client_done, turned_away,
                       upstream_pc, errors>>
        /\ UNCHANGED up \/ main_pc = "spawn" \/ up' = "crashed"
    BY <1>4, MainFrame DEF pipeVars, clientVars, upstreamVars
  <2> QED  BY <2>1 DEF WorkersEnd, Silence
<1>5. CASE UNCHANGED vars
  BY <1>5 DEF WorkersEnd, vars, pipeVars, serverVars, clientVars, upstreamVars
<1> QED  BY <1>1, <1>2, <1>3, <1>4, <1>5 DEF Next, Failure

\* The main thread finds out about the end of the session before it judges it.
LEMMA VerdictStep ==
    ASSUME TypeInv, Silence, WorkersEnd, Verdict, Earned, [Next]_vars
    PROVE  Verdict' /\ Earned'
<1> USE DEF Finished
<1>1. CASE Environment
  <2>1. /\ UNCHANGED <<audit, client_pc, client_done, turned_away, upstream_pc, errors, main_pc,
                       premature, exit_status, outlasted>>
        /\ UNCHANGED up \/ (up = "running" /\ up' \in {"ended", "crashed"})
    <3>1. UNCHANGED <<auditVars, clientVars, upstreamVars, errors, mainVars>>
      BY <1>1, EnvironmentFrame
    <3>2. UNCHANGED up \/ (up = "running" /\ up' \in {"ended", "crashed"})
      BY <1>1, EnvironmentFrame
    <3> QED  BY <3>1, <3>2 DEF auditVars, clientVars, upstreamVars, mainVars, judgeVars
  <2>2. Verdict'
    BY <2>1 DEF Verdict
  <2>3. Earned'
    BY <2>1 DEF Earned
  <2> QED  BY <2>2, <2>3
<1>2. CASE ClientWorker \/ ClientWorkerFails
  <2>1. /\ UNCHANGED <<up, upstream_pc, main_pc, premature, exit_status, outlasted>>
        /\ UNCHANGED errors \/ errors' = TRUE
        /\ ~Finished(client_pc) /\ ~client_done
    BY <1>2, ClientFrame DEF upstreamVars, mainVars, judgeVars, WorkersEnd
  <2>2. (\E k \in DOMAIN audit : audit[k].event = "session_end")
        => \E k \in DOMAIN audit' : audit'[k].event = "session_end"
    BY <1>2, ClientFrame, LogStays DEF TypeInv
  <2>3. main_pc = "recheck" => up # "running" \/ errors'
    BY <2>1 DEF Verdict
  <2>4. exit_status # 0
    BY <2>1 DEF Earned
  <2>5. Earned'
    BY <2>1, <2>4 DEF Earned
  <2>6. /\ main_pc \in {"close_stdin", "wait", "join_upstream", "join_client", "session_end",
                        "judge"}
        /\ ~premature
        => errors'
    BY <2>1 DEF Verdict
  <2>7. Verdict'
    BY <2>1, <2>2, <2>3, <2>6 DEF Verdict
  <2> QED  BY <2>5, <2>7
<1>3. CASE UpstreamWorker \/ UpstreamWorkerFails
  <2>1. /\ UNCHANGED <<up, client_pc, client_done, turned_away, main_pc, premature, exit_status,
                       outlasted>>
        /\ UNCHANGED errors \/ errors' = TRUE
        /\ ~Finished(upstream_pc)
    BY <1>3, UpstreamFrame DEF clientVars, mainVars, judgeVars
  <2>2. (\E k \in DOMAIN audit : audit[k].event = "session_end")
        => \E k \in DOMAIN audit' : audit'[k].event = "session_end"
    BY <1>3, UpstreamFrame, LogStays DEF TypeInv
  <2> QED  BY <2>1, <2>2 DEF Verdict, Earned
<1>4. CASE Main \/ StartOrLogFails
  <2>1. UNCHANGED <<client_pc, client_done, turned_away, upstream_pc, errors>>
    BY <1>4, MainFrame DEF clientVars, upstreamVars
  <2>2. ASSUME exit_status' # 0, Verdict' PROVE Verdict' /\ Earned'
    BY <2>2 DEF Earned
  <2>3. main_pc \notin {"cleanup", "closed", "exited"} => exit_status # 0
    BY DEF Earned
  <2>4. CASE Spawn \/ Announce \/ LeaveWatch
    BY <2>1, <2>2, <2>3, <2>4 DEF Spawn, Announce, LeaveWatch, Verdict, judgeVars, serverVars
  <2>5. CASE StartOrLogFails
    BY <2>1, <2>2, <2>5 DEF StartOrLogFails, Verdict
  <2>6. CASE Recheck
    <3>1. ~premature' /\ ~errors => client_done /\ ~turned_away
      BY <2>6 DEF Recheck, Verdict, WorkersEnd
    <3>2. main_pc' = "close_stdin" /\ exit_status' # 0
      BY <2>3, <2>6 DEF Recheck
    <3> QED  BY <2>1, <2>2, <3>1, <3>2 DEF Verdict
  <2>7. CASE CloseStdin \/ WaitForServer
    BY <2>1, <2>2, <2>3, <2>7 DEF CloseStdin, WaitForServer, Verdict, judgeVars
  <2>8. CASE JoinUpstream
    <3>1. main_pc' = "join_client" /\ exit_status' # 0 /\ outlasted' = ~Finished(upstream_pc)
      BY <2>3, <2>8 DEF JoinUpstream
    <3>2. ~premature' /\ ~errors' => client_done' /\ ~turned_away'
      BY <2>1, <2>8 DEF JoinUpstream, Verdict
    <3>3. Verdict'
      BY <2>1, <3>1, <3>2 DEF Verdict
    <3> QED  BY <2>2, <3>1, <3>3
  <2>9. CASE JoinClient
    <3>1. /\ main_pc = "join_client" /\ main_pc' = "session_end" /\ exit_status' # 0
          /\ outlasted' = (outlasted \/ ~Finished(client_pc))
      BY <2>3, <2>9 DEF JoinClient
    <3>2. ~premature' /\ ~errors' => client_done' /\ ~turned_away'
      BY <2>1, <2>9 DEF JoinClient, Verdict
    <3>3. Verdict'
      BY <2>1, <3>1, <3>2 DEF Verdict
    <3> QED  BY <2>2, <3>1, <3>3
  <2>10. CASE EndSession
    <3>1. /\ main_pc = "session_end" /\ main_pc' = "judge" /\ exit_status' # 0
          /\ UNCHANGED <<outlasted, premature>>
      BY <2>3, <2>10 DEF EndSession, judgeVars
    <3>2. Len(audit') \in DOMAIN audit' /\ audit'[Len(audit')].event = "session_end"
      BY <1>4, <3>1, MainLogs
    <3>3. Verdict'
      BY <2>1, <3>1, <3>2 DEF Verdict
    <3> QED  BY <2>2, <3>1, <3>3
  <2>11. CASE Judge
    <3>1. /\ main_pc = "judge" /\ main_pc' = "cleanup"
          /\ UNCHANGED <<audit, up, outlasted, premature>>
          /\ exit_status' = 0 => Clean
      BY <2>11 DEF Judge, auditVars, serverVars
    <3>2. Verdict'
      BY <3>1 DEF Verdict
    <3>3. exit_status' = 0 => client_done /\ ~turned_away /\ up = "ended"
      BY <3>1 DEF Verdict, Clean
    <3>4. exit_status' = 0 /\ ~outlasted => upstream_pc = "done"
      BY <3>1 DEF Verdict, Clean, WorkersEnd
    <3>5. Earned'
      BY <2>1, <3>1, <3>3, <3>4 DEF Earned, Verdict
    <3> QED  BY <3>2, <3>5
  <2>12. CASE Cleanup \/ Exit
    <3>1. /\ main_pc' \in {"closed", "exited"}
          /\ UNCHANGED <<audit, outlasted, exit_status>>
          /\ up = "ended" => up' = "ended"
      BY <2>12 DEF Cleanup, Exit, judgeVars, auditVars, serverVars
    <3>2. Verdict'
      BY <3>1 DEF Verdict
    <3>3. Earned'
      BY <2>1, <3>1 DEF Earned
    <3> QED  BY <3>2, <3>3
  <2> QED  BY <1>4, <2>4, <2>5, <2>6, <2>7, <2>8, <2>9, <2>10, <2>11, <2>12 DEF Main
<1>5. CASE UNCHANGED vars
  BY <1>5 DEF Verdict, Earned, vars, serverVars, auditVars, clientVars, upstreamVars, mainVars,
              judgeVars
<1> QED  BY <1>1, <1>2, <1>3, <1>4, <1>5 DEF Next, Failure

-----------------------------------------------------------------------------
(* Queues.                                                                 *)

\* The indices of a queue after its head is read and after it grows.
LEMMA TailFacts ==
    ASSUME NEW S, NEW q \in Seq(S), q # <<>>
    PROVE  /\ 1 \in DOMAIN q /\ Head(q) = q[1] /\ Head(q) \in S /\ Tail(q) \in Seq(S)
           /\ \A k \in DOMAIN Tail(q) : k + 1 \in DOMAIN q /\ Tail(q)[k] = q[k + 1] /\ k + 1 # 1
           /\ \A k \in DOMAIN q : k # 1 => k - 1 \in DOMAIN Tail(q) /\ Tail(q)[k - 1] = q[k]
           /\ \A k \in DOMAIN Tail(q) : k \in Int
           /\ \A k \in DOMAIN q : k \in Int
  OBVIOUS

\* A queue grows at its end.
LEMMA AppendFacts ==
    ASSUME NEW S, NEW q \in Seq(S), NEW e \in S, NEW n, n = Len(q) + 1
    PROVE  /\ DOMAIN Append(q, e) = DOMAIN q \union {n} /\ n \notin DOMAIN q
           /\ Append(q, e)[n] = e /\ \A k \in DOMAIN q : Append(q, e)[k] = q[k]
  OBVIOUS

\* What the pipe to the server holds after a frame is read from it.
LEMMA PipeTail ==
    ASSUME NEW q \in Seq(FrameType), q # <<>>, NEW u
    PROVE  /\ \A i : InPipe(q, i) <=> Requesting(Head(q), i) \/ InPipe(Tail(q), i)
           /\ SingleRequests(q, u) =>
                SingleRequests(Tail(q), u) /\ \A i \in Ids \ u : ~(Requesting(Head(q), i) /\ InPipe(Tail(q), i))
           /\ \A t : (\A k \in DOMAIN q : KnownRequest(q[k], t, u))
                     => KnownRequest(Head(q), t, u) /\ \A k \in DOMAIN Tail(q) : KnownRequest(Tail(q)[k], t, u)
<1> DEFINE tl == Tail(q)
<1>1. /\ 1 \in DOMAIN q /\ Head(q) = q[1]
      /\ \A k \in DOMAIN tl : k + 1 \in DOMAIN q /\ tl[k] = q[k + 1] /\ k + 1 # 1 /\ k \in Int
      /\ \A k \in DOMAIN q : k # 1 => k - 1 \in DOMAIN tl /\ tl[k - 1] = q[k]
  BY TailFacts
<1> HIDE DEF tl
<1>2. \A i : InPipe(q, i) <=> Requesting(Head(q), i) \/ InPipe(tl, i)
  BY <1>1 DEF InPipe
<1>3. ASSUME SingleRequests(q, u) PROVE SingleRequests(tl, u)
  <2> SUFFICES ASSUME NEW k \in DOMAIN tl, NEW l \in DOMAIN tl, NEW i \in Ids \ u,
                      Requesting(tl[k], i), Requesting(tl[l], i)
               PROVE  k = l
    BY DEF SingleRequests
  <2>1. k + 1 = l + 1
    BY <1>1, <1>3 DEF SingleRequests
  <2> QED  BY <1>1, <2>1
<1>4. ASSUME SingleRequests(q, u), NEW i \in Ids \ u, Requesting(Head(q), i), InPipe(tl, i) PROVE FALSE
  BY <1>1, <1>4 DEF SingleRequests, InPipe
<1>5. ASSUME NEW t, \A k \in DOMAIN q : KnownRequest(q[k], t, u)
      PROVE  KnownRequest(Head(q), t, u) /\ \A k \in DOMAIN tl : KnownRequest(tl[k], t, u)
  BY <1>1, <1>5
<1> QED  BY <1>2, <1>3, <1>4, <1>5 DEF tl

\* What the pipe from the server holds after a message is read from it.
LEMMA ResponsesTail ==
    ASSUME NEW q \in Seq(Message), q # <<>>, NEW u
    PROVE  /\ \A i : InResponses(q, i) <=> Responding(Head(q), i) \/ InResponses(Tail(q), i)
           /\ SingleResponses(q, u) =>
                /\ SingleResponses(Tail(q), u)
                /\ \A i \in Ids \ u : ~(Responding(Head(q), i) /\ InResponses(Tail(q), i))
           /\ \A t : (\A k \in DOMAIN q : KnownAnswer(q[k], t, u))
                     => KnownAnswer(Head(q), t, u) /\ \A k \in DOMAIN Tail(q) : KnownAnswer(Tail(q)[k], t, u)
<1> DEFINE tl == Tail(q)
<1>1. /\ 1 \in DOMAIN q /\ Head(q) = q[1]
      /\ \A k \in DOMAIN tl : k + 1 \in DOMAIN q /\ tl[k] = q[k + 1] /\ k + 1 # 1 /\ k \in Int
      /\ \A k \in DOMAIN q : k # 1 => k - 1 \in DOMAIN tl /\ tl[k - 1] = q[k]
  BY TailFacts
<1> HIDE DEF tl
<1>2. \A i : InResponses(q, i) <=> Responding(Head(q), i) \/ InResponses(tl, i)
  BY <1>1 DEF InResponses
<1>3. ASSUME SingleResponses(q, u) PROVE SingleResponses(tl, u)
  <2> SUFFICES ASSUME NEW k \in DOMAIN tl, NEW l \in DOMAIN tl, NEW i \in Ids \ u,
                      Responding(tl[k], i), Responding(tl[l], i)
               PROVE  k = l
    BY DEF SingleResponses
  <2>1. k + 1 = l + 1
    BY <1>1, <1>3 DEF SingleResponses
  <2> QED  BY <1>1, <2>1
<1>4. ASSUME SingleResponses(q, u), NEW i \in Ids \ u, Responding(Head(q), i), InResponses(tl, i)
      PROVE FALSE
  BY <1>1, <1>4 DEF SingleResponses, InResponses
<1>5. ASSUME NEW t, \A k \in DOMAIN q : KnownAnswer(q[k], t, u)
      PROVE  KnownAnswer(Head(q), t, u) /\ \A k \in DOMAIN tl : KnownAnswer(tl[k], t, u)
  BY <1>1, <1>5
<1> QED  BY <1>2, <1>3, <1>4, <1>5 DEF tl

\* What the pipe to the server holds after a frame is written to it.
LEMMA PipeAppend ==
    ASSUME NEW q \in Seq(FrameType), NEW f \in FrameType, NEW u
    PROVE  /\ \A i : InPipe(Append(q, f), i) <=> InPipe(q, i) \/ Requesting(f, i)
           /\ SingleRequests(q, u) /\ (\A i \in Ids \ u : Requesting(f, i) => ~InPipe(q, i))
              => SingleRequests(Append(q, f), u)
           /\ \A t : (\A k \in DOMAIN q : KnownRequest(q[k], t, u)) /\ KnownRequest(f, t, u)
                     => \A k \in DOMAIN Append(q, f) : KnownRequest(Append(q, f)[k], t, u)
<1> DEFINE n == Len(q) + 1  w == Append(q, f)
<1>1. /\ DOMAIN w = DOMAIN q \union {n} /\ n \notin DOMAIN q
      /\ w[n] = f /\ \A k \in DOMAIN q : w[k] = q[k]
  BY AppendFacts
<1> HIDE DEF n, w
<1>2. \A i : InPipe(w, i) <=> InPipe(q, i) \/ Requesting(f, i)
  BY <1>1 DEF InPipe
<1>3. ASSUME SingleRequests(q, u), \A i \in Ids \ u : Requesting(f, i) => ~InPipe(q, i)
      PROVE  SingleRequests(w, u)
  BY <1>1, <1>3 DEF SingleRequests, InPipe
<1>4. ASSUME NEW t, \A k \in DOMAIN q : KnownRequest(q[k], t, u), KnownRequest(f, t, u)
      PROVE  \A k \in DOMAIN w : KnownRequest(w[k], t, u)
  BY <1>1, <1>4
<1> QED  BY <1>2, <1>3, <1>4 DEF w

\* What the pipe from the server holds after a message is written to it.
LEMMA ResponsesAppend ==
    ASSUME NEW q \in Seq(Message), NEW m \in Message, NEW u
    PROVE  /\ \A i : InResponses(Append(q, m), i) <=> InResponses(q, i) \/ Responding(m, i)
           /\ SingleResponses(q, u) /\ (\A i \in Ids \ u : Responding(m, i) => ~InResponses(q, i))
              => SingleResponses(Append(q, m), u)
           /\ \A t : (\A k \in DOMAIN q : KnownAnswer(q[k], t, u)) /\ KnownAnswer(m, t, u)
                     => \A k \in DOMAIN Append(q, m) : KnownAnswer(Append(q, m)[k], t, u)
<1> DEFINE n == Len(q) + 1  w == Append(q, m)
<1>1. /\ DOMAIN w = DOMAIN q \union {n} /\ n \notin DOMAIN q
      /\ w[n] = m /\ \A k \in DOMAIN q : w[k] = q[k]
  BY AppendFacts
<1> HIDE DEF n, w
<1>2. \A i : InResponses(w, i) <=> InResponses(q, i) \/ Responding(m, i)
  BY <1>1 DEF InResponses
<1>3. ASSUME SingleResponses(q, u), \A i \in Ids \ u : Responding(m, i) => ~InResponses(q, i)
      PROVE  SingleResponses(w, u)
  BY <1>1, <1>3 DEF SingleResponses, InResponses
<1>4. ASSUME NEW t, \A k \in DOMAIN q : KnownAnswer(q[k], t, u), KnownAnswer(m, t, u)
      PROVE  \A k \in DOMAIN w : KnownAnswer(w[k], t, u)
  BY <1>1, <1>4
<1> QED  BY <1>2, <1>3, <1>4 DEF w

-----------------------------------------------------------------------------
(* The way of a request, step by step.                                     *)

\* No request is under way at the start.
LEMMA SlotsInit == Init => SlotsInv
  BY DEF Init, SlotsInv, Single, SingleRequests, SingleServing, SingleResponses, Apart, Known,
         Owed, InPipe, InServer, InResponses, Held

\* A step that leaves the pipes and the table alone, and lets go of the request
\* in the worker's hands only by failing.
LEMMA SlotsKept ==
    ASSUME SlotsInv, UNCHANGED <<requests, serving, responses, pending, unowed>>,
           \A i \in Ids : Held(client_pc', frame', i) => Held(client_pc, frame, i) /\ frame' = frame,
           \A i \in Ids : Held(client_pc, frame, i)
                            => Held(client_pc', frame', i) \/ client_pc' = "failed",
           client_pc = "failed" => client_pc' = "failed",
           up' = "running" => up = "running" \/ \A i \in Ids : pending[i] = "none"
    PROVE  SlotsInv'
<1>1. Single(unowed)'
  BY DEF SlotsInv, Single, SingleRequests, SingleServing, SingleResponses
<1>2. Apart(requests, serving, responses, client_pc', frame', unowed)
  BY DEF SlotsInv, Apart
<1>3. Known(requests, serving, responses, client_pc', frame', pending, unowed)
  BY DEF SlotsInv, Known
<1>4. Owed'
  BY DEF SlotsInv, Owed
<1> QED  BY <1>1, <1>2, <1>3, <1>4 DEF SlotsInv

\* A frame the server reads is a request it now serves, or gone.
LEMMA SlotsServerReads == ASSUME TypeInv, SlotsInv, ServerReads PROVE SlotsInv'
<1> DEFINE h == Head(requests)
<1>1. /\ requests \in Seq(FrameType) /\ requests # <<>> /\ h \in FrameType
      /\ requests' = Tail(requests)
      /\ serving' = IF IsRequest(h) THEN serving \union {h} ELSE serving
      /\ UNCHANGED <<responses, pending, client_pc, frame, up, unowed>>
  BY DEF TypeInv, TypeOK, ServerReads, clientVars, unaskedVars
<1>2. /\ \A i \in Ids : InPipe(requests, i) <=> Requesting(h, i) \/ InPipe(requests', i)
      /\ SingleRequests(requests', unowed)
      /\ \A i \in Ids \ unowed : ~(Requesting(h, i) /\ InPipe(requests', i))
      /\ KnownRequest(h, pending, unowed)
      /\ \A k \in DOMAIN requests' : KnownRequest(requests'[k], pending, unowed)
  BY <1>1, PipeTail DEF SlotsInv, Single, Known
<1> HIDE DEF h
<1>3. \A i \in Ids : InServer(serving', i) <=> InServer(serving, i) \/ Requesting(h, i)
  BY <1>1 DEF InServer, Requesting
<1>4. SingleServing(serving', unowed)
  <2>1. CASE ~IsRequest(h)
    BY <1>1, <2>1 DEF SlotsInv, Single
  <2>2. CASE IsRequest(h)
    <3>1. h.id \in Ids /\ InPipe(requests, h.id)
      BY <1>1, <1>2, <2>2, MessagesTyped DEF Requesting
    <3>2. h.id \notin unowed => \A f \in serving : f.id # h.id
      BY <3>1 DEF SlotsInv, Apart, InServer
    <3>3. SingleServing(serving, unowed) /\ serving' = serving \union {h}
      BY <1>1, <2>2 DEF SlotsInv, Single
    <3> QED  BY <3>2, <3>3 DEF SingleServing
  <2> QED  BY <2>1, <2>2
<1>5. Single(unowed)'
  BY <1>1, <1>2, <1>4 DEF SlotsInv, Single
<1>6. Apart(requests', serving', responses, client_pc, frame, unowed)
  BY <1>2, <1>3 DEF SlotsInv, Apart
<1>7. Known(requests', serving', responses, client_pc, frame, pending, unowed)
  BY <1>1, <1>2 DEF SlotsInv, Known
<1>8. Owed'
  BY <1>1, <1>2, <1>3 DEF SlotsInv, Owed
<1> QED  BY <1>1, <1>5, <1>6, <1>7, <1>8 DEF SlotsInv

\* An answer takes the place of the request.
LEMMA SlotsServerAnswers ==
    ASSUME TypeInv, SlotsInv, NEW f \in serving, ServerAnswers(f) PROVE SlotsInv'
<1> DEFINE m == [class |-> "response", id |-> f.id,
                 tools |-> IF f.class = "list" THEN Tools ELSE {}]
<1>1. /\ responses \in Seq(Message) /\ f \in FrameType
      /\ serving' = serving \ {f} /\ responses' = Append(responses, m)
      /\ UNCHANGED <<requests, pending, client_pc, frame, up, unowed>>
  BY DEF TypeInv, TypeOK, ServerAnswers, clientVars, unaskedVars
<1>2. IsRequest(f) /\ f.id \in Ids /\ (f.id \notin unowed => pending[f.id] = f.class)
  BY <1>1, MessagesTyped DEF SlotsInv, Known, KnownRequest
<1>3. m \in Message
  BY <1>1, MessagesTyped
<1>4. m.class = "response" /\ m.id = f.id /\ (m.tools # {} => f.class = "list")
  OBVIOUS
<1>5. KnownAnswer(m, pending, unowed)
  BY <1>2, <1>4 DEF KnownAnswer, IsRequest, HasMethod
<1> HIDE DEF m
<1>6. /\ \A i \in Ids : InServer(serving, i) <=> InServer(serving', i) \/ i = f.id
      /\ f.id \notin unowed => ~InServer(serving', f.id)
      /\ SingleServing(serving', unowed)
  BY <1>1, <1>2 DEF SlotsInv, Single, SingleServing, InServer
<1>7. f.id \notin unowed => ~InResponses(responses, f.id)
  BY <1>2, <1>6 DEF SlotsInv, Apart
<1>8. /\ \A i \in Ids : InResponses(responses', i) <=> InResponses(responses, i) \/ i = f.id
      /\ SingleResponses(responses', unowed)
      /\ \A k \in DOMAIN responses' : KnownAnswer(responses'[k], pending, unowed)
  <2>1. \A i \in Ids : Responding(m, i) <=> i = f.id
    BY <1>4 DEF Responding
  <2>2. SingleResponses(responses, unowed) /\ \A k \in DOMAIN responses : KnownAnswer(responses[k], pending, unowed)
    BY DEF SlotsInv, Single, Known
  <2> QED  BY <1>1, <1>3, <1>5, <1>7, <2>1, <2>2, ResponsesAppend
<1>9. Single(unowed)'
  BY <1>1, <1>6, <1>8 DEF SlotsInv, Single
<1>10. Apart(requests, serving', responses', client_pc, frame, unowed)
  BY <1>2, <1>6, <1>8 DEF SlotsInv, Apart
<1>11. Known(requests, serving', responses', client_pc, frame, pending, unowed)
  BY <1>1, <1>8 DEF SlotsInv, Known
<1>12. Owed'
  BY <1>1, <1>6, <1>8 DEF SlotsInv, Owed
<1> QED  BY <1>1, <1>9, <1>10, <1>11, <1>12 DEF SlotsInv

\* What the server says unasked spoils its id and no other.
LEMMA SlotsServerSpeaks ==
    ASSUME TypeInv, SlotsInv, NEW m \in Unasked, ServerSpeaks(m) PROVE SlotsInv'
<1>1. /\ responses \in Seq(Message) /\ m \in Message
      /\ responses' = Append(responses, m)
      /\ UNCHANGED <<requests, serving, pending, client_pc, frame, up>>
  BY DEF TypeInv, TypeOK, ServerSpeaks, clientVars, Unasked
<1>2. unowed \subseteq unowed' /\ (m.class = "response" => m.id \in unowed')
  BY DEF ServerSpeaks
<1>3. /\ KnownAnswer(m, pending, unowed')
      /\ \A i \in Ids \ unowed' : ~Responding(m, i)
  BY <1>2 DEF KnownAnswer, Responding, Unasked
<1>4. /\ SingleRequests(requests, unowed') /\ SingleServing(serving, unowed')
      /\ SingleResponses(responses, unowed')
  BY <1>2 DEF SlotsInv, Single, SingleRequests, SingleServing, SingleResponses
<1>5. \A k \in DOMAIN responses : KnownAnswer(responses[k], pending, unowed')
  BY <1>2 DEF SlotsInv, Known, KnownAnswer
<1>6. /\ \A i : InResponses(responses', i) <=> InResponses(responses, i) \/ Responding(m, i)
      /\ SingleResponses(responses', unowed')
      /\ \A k \in DOMAIN responses' : KnownAnswer(responses'[k], pending, unowed')
  BY <1>1, <1>3, <1>4, <1>5, ResponsesAppend
<1>7. Single(unowed)'
  BY <1>1, <1>4, <1>6 DEF Single
<1>8. Apart(requests, serving, responses', client_pc, frame, unowed')
  BY <1>2, <1>3, <1>6 DEF SlotsInv, Apart
<1>9. Known(requests, serving, responses', client_pc, frame, pending, unowed')
  <2>1. /\ \A k \in DOMAIN requests : KnownRequest(requests[k], pending, unowed')
        /\ \A g \in serving : IsRequest(g) /\ KnownRequest(g, pending, unowed')
        /\ \A i \in Ids \ unowed' : Held(client_pc, frame, i) => pending[i] = frame.class
    BY <1>2 DEF SlotsInv, Known, KnownRequest
  <2> QED  BY <1>6, <2>1 DEF Known
<1>10. Owed'
  BY <1>1, <1>6 DEF SlotsInv, Owed
<1> QED  BY <1>1, <1>7, <1>8, <1>9, <1>10 DEF SlotsInv

\* A response gives its slot back, and it was the last of its request.
LEMMA SlotsReadMessage == ASSUME TypeInv, SlotsInv, ReadMessage PROVE SlotsInv'
<1> DEFINE h == Head(responses)
<1>1. /\ responses \in Seq(Message) /\ responses # <<>> /\ h \in Message
      /\ responses' = Tail(responses)
      /\ pending' = IF IsResponse(h) /\ h.id # NoId
                    THEN [pending EXCEPT ![h.id] = "none"] ELSE pending
      /\ UNCHANGED <<requests, serving, client_pc, frame, up, unowed>>
  BY DEF TypeInv, TypeOK, ReadMessage, clientVars, unaskedVars
<1>2. /\ \A i \in Ids : InResponses(responses, i) <=> Responding(h, i) \/ InResponses(responses', i)
      /\ SingleResponses(responses', unowed)
      /\ \A i \in Ids \ unowed : ~(Responding(h, i) /\ InResponses(responses', i))
      /\ KnownAnswer(h, pending, unowed)
      /\ \A k \in DOMAIN responses' : KnownAnswer(responses'[k], pending, unowed)
  BY <1>1, ResponsesTail DEF SlotsInv, Single, Known
<1> HIDE DEF h
<1>3. Single(unowed)'
  BY <1>1, <1>2 DEF SlotsInv, Single
<1>4. Apart(requests, serving, responses', client_pc, frame, unowed)
  BY <1>2 DEF SlotsInv, Apart
<1>5. CASE ~IsResponse(h) \/ h.id = NoId
  <2>1. pending' = pending /\ \A i \in Ids : ~Responding(h, i)
    BY <1>1, <1>5, GatewayAssumption DEF IsResponse, Responding
  <2>2. Known(requests, serving, responses', client_pc, frame, pending, unowed)
    BY <1>2 DEF SlotsInv, Known
  <2>3. Owed'
    BY <1>1, <1>2, <2>1 DEF SlotsInv, Owed
  <2> QED  BY <1>1, <1>3, <1>4, <2>1, <2>2, <2>3 DEF SlotsInv
<1>6. CASE IsResponse(h) /\ h.id # NoId
  <2>1. h.id \in Ids /\ Responding(h, h.id)
    BY <1>1, <1>6, MessagesTyped DEF IsResponse, Responding
  <2>2. /\ pending' \in [Ids -> {"none", "call", "list", "other"}]
        /\ \A i \in Ids : pending'[i] = IF i = h.id THEN "none" ELSE pending[i]
    BY <1>1, <1>6, <2>1, GatewayAssumption DEF TypeInv, TypeOK
  <2>3. h.id \notin unowed =>
          /\ ~InPipe(requests, h.id) /\ ~InServer(serving, h.id)
          /\ ~InResponses(responses', h.id) /\ ~Held(client_pc, frame, h.id)
    BY <1>2, <2>1 DEF SlotsInv, Apart
  <2>4. \A k \in DOMAIN requests : KnownRequest(requests[k], pending', unowed)
    <3> SUFFICES ASSUME NEW k \in DOMAIN requests, IsRequest(requests[k]),
                        requests[k].id \notin unowed
                 PROVE  pending'[requests[k].id] = requests[k].class
      BY DEF KnownRequest
    <3>1. requests[k].id \in Ids
      BY MessagesTyped DEF TypeInv, TypeOK
    <3>2. requests[k].id # h.id
      BY <2>3 DEF InPipe, Requesting
    <3>3. pending[requests[k].id] = requests[k].class
      BY DEF SlotsInv, Known, KnownRequest
    <3> QED  BY <2>2, <3>1, <3>2, <3>3
  <2>5. \A g \in serving : IsRequest(g) /\ KnownRequest(g, pending', unowed)
    <3> SUFFICES ASSUME NEW g \in serving
                 PROVE  IsRequest(g) /\ (g.id \notin unowed => pending'[g.id] = g.class)
      BY DEF KnownRequest
    <3>1. IsRequest(g) /\ (g.id \notin unowed => pending[g.id] = g.class)
      BY DEF SlotsInv, Known, KnownRequest
    <3>2. g.id \in Ids
      BY <3>1, MessagesTyped DEF TypeInv, TypeOK
    <3>3. g.id \notin unowed => g.id # h.id
      BY <2>3 DEF InServer
    <3> QED  BY <2>2, <3>1, <3>2, <3>3
  <2>6. \A k \in DOMAIN responses' : KnownAnswer(responses'[k], pending', unowed)
    <3> SUFFICES ASSUME NEW k \in DOMAIN responses'
                 PROVE  KnownAnswer(responses'[k], pending', unowed)
      OBVIOUS
    <3>1. KnownAnswer(responses'[k], pending, unowed)
      BY <1>2
    <3>2. responses'[k].class = "response" /\ responses'[k].id \notin unowed
            => responses'[k].id # h.id
      BY <2>3 DEF InResponses, Responding
    <3> QED  BY <2>2, <3>1, <3>2 DEF KnownAnswer
  <2>7. \A i \in Ids \ unowed : Held(client_pc, frame, i) => pending'[i] = frame.class
    BY <2>2, <2>3 DEF SlotsInv, Known
  <2>8. Known(requests, serving, responses', client_pc, frame, pending', unowed)
    BY <2>4, <2>5, <2>6, <2>7 DEF Known
  <2>9. Owed'
    <3>1. \A i \in Ids : pending'[i] # "none" => pending[i] # "none" /\ ~Responding(h, i)
      BY <2>2 DEF Responding
    <3> QED  BY <1>1, <1>2, <3>1 DEF SlotsInv, Owed
  <2> QED  BY <1>1, <1>3, <1>4, <2>8, <2>9 DEF SlotsInv
<1> QED  BY <1>5, <1>6

\* A request is registered only when none with its id is under way.
LEMMA SlotsRegister == ASSUME TypeInv, SlotsInv, Register PROVE SlotsInv'
<1>1. /\ client_pc = "register" /\ frame \in FrameType
      /\ UNCHANGED <<requests, serving, responses, frame, up, unowed>>
  BY DEF Register, TypeInv, Busy, serverVars, unaskedVars
<1>2. \A i \in Ids : ~Held(client_pc, frame, i)
  BY <1>1 DEF Held
<1>3. CASE UNCHANGED pending /\ (~IsRequest(frame) \/ client_pc' = "answer_locked")
  <2>1. \A i \in Ids : ~Held(client_pc', frame', i)
    BY <1>1, <1>3 DEF Held, Requesting
  <2> QED  BY <1>1, <1>2, <1>3, <2>1, SlotsKept
<1>4. CASE /\ IsRequest(frame) /\ Accepts(frame) /\ client_pc' = "decide"
           /\ pending' = [pending EXCEPT ![frame.id] = frame.class]
  <2> DEFINE j == frame.id
  <2>1. j \in Ids /\ pending[j] = "none"
    BY <1>1, <1>4, MessagesTyped DEF Accepts
  <2>2. /\ pending' \in [Ids -> {"none", "call", "list", "other"}]
        /\ \A i \in Ids : pending'[i] = IF i = j THEN frame.class ELSE pending[i]
    BY <1>1, <1>4, <2>1, MessagesTyped DEF TypeInv, TypeOK
  <2>3. \A i \in Ids : Held(client_pc', frame', i) <=> i = j
    BY <1>1, <1>4 DEF Held, Requesting
  <2>4. j \notin unowed =>
        /\ \A k \in DOMAIN requests : IsRequest(requests[k]) => requests[k].id # j
        /\ \A g \in serving : g.id # j
        /\ \A k \in DOMAIN responses : responses[k].class = "response" => responses[k].id # j
    BY <2>1 DEF SlotsInv, Known, KnownRequest, KnownAnswer, IsRequest, HasMethod
  <2>5. j \notin unowed =>
          ~InPipe(requests, j) /\ ~InServer(serving, j) /\ ~InResponses(responses, j)
    BY <2>4 DEF InPipe, InServer, InResponses, Requesting, Responding
  <2>6. Apart(requests, serving, responses, client_pc', frame', unowed)
    BY <2>3, <2>5 DEF SlotsInv, Apart
  <2>7. \A k \in DOMAIN requests : KnownRequest(requests[k], pending', unowed)
    <3>1. \A k \in DOMAIN requests : KnownRequest(requests[k], pending, unowed)
      BY DEF SlotsInv, Known
    <3>2. \A k \in DOMAIN requests : IsRequest(requests[k]) => requests[k].id \in Ids
      BY MessagesTyped DEF TypeInv, TypeOK
    <3> QED  BY <2>2, <2>4, <3>1, <3>2 DEF KnownRequest
  <2>8. \A g \in serving : IsRequest(g) /\ KnownRequest(g, pending', unowed)
    <3>1. \A g \in serving : IsRequest(g) /\ KnownRequest(g, pending, unowed)
      BY DEF SlotsInv, Known
    <3>2. \A g \in serving : IsRequest(g) => g.id \in Ids
      BY MessagesTyped DEF TypeInv, TypeOK
    <3> QED  BY <2>2, <2>4, <3>1, <3>2 DEF KnownRequest
  <2>9. \A k \in DOMAIN responses : KnownAnswer(responses[k], pending', unowed)
    <3>1. \A k \in DOMAIN responses : KnownAnswer(responses[k], pending, unowed)
      BY DEF SlotsInv, Known
    <3> QED  BY <2>2, <2>4, <3>1 DEF KnownAnswer
  <2>10. \A i \in Ids \ unowed : Held(client_pc', frame', i) => pending'[i] = frame'.class
    BY <1>1, <2>2, <2>3
  <2>11. Known(requests, serving, responses, client_pc', frame', pending', unowed)
    BY <2>7, <2>8, <2>9, <2>10 DEF Known
  <2>12. Owed'
    BY <1>1, <1>2, <2>2, <2>3 DEF SlotsInv, Owed
  <2>13. Single(unowed)'
    BY <1>1 DEF SlotsInv, Single
  <2> QED  BY <1>1, <2>6, <2>11, <2>12, <2>13 DEF SlotsInv
<1> QED  BY <1>3, <1>4 DEF Register

\* A refused call gives its slot back.
LEMMA SlotsDecide == ASSUME TypeInv, SlotsInv, Decide PROVE SlotsInv'
<1>1. /\ client_pc = "decide" /\ frame \in FrameType
      /\ UNCHANGED <<requests, serving, responses, frame, up, unowed>>
  BY DEF Decide, TypeInv, Busy, serverVars, unaskedVars
<1>2. CASE UNCHANGED pending /\ client_pc' \in {"forward", "allow"}
  <2>1. \A i \in Ids : Held(client_pc', frame', i) <=> Held(client_pc, frame, i)
    BY <1>1, <1>2 DEF Held
  <2> QED  BY <1>1, <1>2, <2>1, SlotsKept
<1>3. CASE UNCHANGED pending /\ ~IsRequest(frame)
  <2>1. \A i \in Ids : ~Held(client_pc', frame', i) /\ ~Held(client_pc, frame, i)
    BY <1>1, <1>3 DEF Held, Requesting
  <2> QED  BY <1>1, <1>3, <2>1, SlotsKept
<1>4. CASE /\ IsRequest(frame) /\ client_pc' \in {"deny", "answer"}
           /\ pending' = [pending EXCEPT ![frame.id] = "none"]
  <2> DEFINE j == frame.id
  <2>1. j \in Ids
    BY <1>1, <1>4, MessagesTyped
  <2>2. /\ pending' \in [Ids -> {"none", "call", "list", "other"}]
        /\ \A i \in Ids : pending'[i] = IF i = j THEN "none" ELSE pending[i]
    BY <1>1, <1>4, <2>1 DEF TypeInv, TypeOK
  <2>3. /\ \A i \in Ids : Held(client_pc, frame, i) <=> i = j
        /\ \A i \in Ids : ~Held(client_pc', frame', i)
    BY <1>1, <1>4 DEF Held, Requesting
  <2>4. j \notin unowed =>
          ~InPipe(requests, j) /\ ~InServer(serving, j) /\ ~InResponses(responses, j)
    BY <2>1, <2>3 DEF SlotsInv, Apart
  <2>5. j \notin unowed =>
        /\ \A k \in DOMAIN requests : IsRequest(requests[k]) => requests[k].id # j
        /\ \A g \in serving : g.id # j
        /\ \A k \in DOMAIN responses : responses[k].class = "response" => responses[k].id # j
    BY <2>4 DEF InPipe, InServer, InResponses, Requesting, Responding
  <2>6. Apart(requests, serving, responses, client_pc', frame', unowed)
    BY <2>3 DEF SlotsInv, Apart
  <2>7. \A k \in DOMAIN requests : KnownRequest(requests[k], pending', unowed)
    <3>1. \A k \in DOMAIN requests : KnownRequest(requests[k], pending, unowed)
      BY DEF SlotsInv, Known
    <3>2. \A k \in DOMAIN requests : IsRequest(requests[k]) => requests[k].id \in Ids
      BY MessagesTyped DEF TypeInv, TypeOK
    <3> QED  BY <2>2, <2>5, <3>1, <3>2 DEF KnownRequest
  <2>8. \A g \in serving : IsRequest(g) /\ KnownRequest(g, pending', unowed)
    <3>1. \A g \in serving : IsRequest(g) /\ KnownRequest(g, pending, unowed)
      BY DEF SlotsInv, Known
    <3>2. \A g \in serving : IsRequest(g) => g.id \in Ids
      BY MessagesTyped DEF TypeInv, TypeOK
    <3> QED  BY <2>2, <2>5, <3>1, <3>2 DEF KnownRequest
  <2>9. \A k \in DOMAIN responses : KnownAnswer(responses[k], pending', unowed)
    <3>1. \A k \in DOMAIN responses : KnownAnswer(responses[k], pending, unowed)
      BY DEF SlotsInv, Known
    <3> QED  BY <2>2, <2>5, <3>1 DEF KnownAnswer
  <2>10. Known(requests, serving, responses, client_pc', frame', pending', unowed)
    BY <2>3, <2>7, <2>8, <2>9 DEF Known
  <2>11. Owed'
    BY <1>1, <1>4, <2>2, <2>3 DEF SlotsInv, Owed
  <2>12. Single(unowed)'
    BY <1>1 DEF SlotsInv, Single
  <2> QED  BY <1>1, <2>6, <2>10, <2>11, <2>12 DEF SlotsInv
<1> QED  BY <1>2, <1>3, <1>4 DEF Decide, Unregister, Answer

\* A frame forwarded is in the pipe and no longer in the worker's hands.
LEMMA SlotsForward == ASSUME TypeInv, SlotsInv, Forward PROVE SlotsInv'
<1>1. /\ client_pc = "forward" /\ frame \in FrameType /\ requests \in Seq(FrameType)
      /\ requests' = Append(requests, frame) /\ client_pc' = "read"
      /\ UNCHANGED <<serving, responses, pending, frame, up, unowed>>
  BY DEF Forward, TypeInv, TypeOK, Busy, unaskedVars
<1>2. /\ \A i \in Ids : Held(client_pc, frame, i) <=> Requesting(frame, i)
      /\ \A i \in Ids : ~Held(client_pc', frame', i)
  BY <1>1 DEF Held
<1>3. \A i \in Ids \ unowed : Requesting(frame, i)
                       => /\ ~InPipe(requests, i) /\ ~InServer(serving, i)
                          /\ ~InResponses(responses, i) /\ pending[i] = frame.class
  BY <1>2 DEF SlotsInv, Apart, Known
<1>4. KnownRequest(frame, pending, unowed)
  BY <1>1, <1>3, MessagesTyped DEF KnownRequest, Requesting
<1>5. SingleRequests(requests, unowed) /\ \A k \in DOMAIN requests : KnownRequest(requests[k], pending, unowed)
  BY DEF SlotsInv, Single, Known
<1>6. /\ \A i \in Ids : InPipe(requests', i) <=> InPipe(requests, i) \/ Requesting(frame, i)
      /\ SingleRequests(requests', unowed)
      /\ \A k \in DOMAIN requests' : KnownRequest(requests'[k], pending, unowed)
  BY <1>1, <1>3, <1>4, <1>5, PipeAppend
<1>7. Single(unowed)'
  BY <1>1, <1>6 DEF SlotsInv, Single
<1>8. Apart(requests', serving, responses, client_pc', frame', unowed)
  BY <1>2, <1>3, <1>6 DEF SlotsInv, Apart
<1>9. Known(requests', serving, responses, client_pc', frame', pending, unowed)
  BY <1>2, <1>6 DEF SlotsInv, Known
<1>10. Owed'
  BY <1>1, <1>2, <1>6 DEF SlotsInv, Owed
<1> QED  BY <1>1, <1>7, <1>8, <1>9, <1>10 DEF SlotsInv

\* The client's worker keeps the slots in order.
LEMMA SlotsClient ==
    ASSUME TypeInv, SlotsInv, ClientWorker \/ ClientWorkerFails PROVE SlotsInv'
<1>1. UNCHANGED <<serving, responses, up, unowed>> /\ client_pc # "failed"
  BY ClientFrame
<1>2. CASE Register
  BY <1>2, SlotsRegister
<1>3. CASE Decide
  BY <1>3, SlotsDecide
<1>4. CASE Forward
  BY <1>4, SlotsForward
<1>5. CASE ReadFrame \/ NoteGarbage \/ PollServer \/ AuditDeny \/ AnswerError \/ EndOfInput
  <2>1. client_pc \notin {"decide", "allow", "forward", "register"}
    BY <1>5 DEF ReadFrame, NoteGarbage, PollServer, AuditDeny, AnswerError, EndOfInput
  <2>2. client_pc' \notin {"decide", "allow", "forward"}
    BY <1>5 DEF ReadFrame, NoteGarbage, PollServer, AuditDeny, AnswerError, EndOfInput, Answer
  <2>3. UNCHANGED <<requests, pending>>
    BY <2>1, ClientFrame
  <2>4. \A i \in Ids : ~Held(client_pc, frame, i) /\ ~Held(client_pc', frame', i)
    BY <2>1, <2>2 DEF Held
  <2> QED  BY <1>1, <2>3, <2>4, SlotsKept
<1>6. CASE AuditAllow
  <2>1. /\ client_pc = "allow" /\ client_pc' = "forward"
        /\ UNCHANGED <<requests, pending, frame>>
    BY <1>6 DEF AuditAllow, serverVars
  <2>2. \A i \in Ids : Held(client_pc, frame, i) <=> Held(client_pc', frame', i)
    BY <2>1 DEF Held
  <2> QED  BY <1>1, <2>1, <2>2, SlotsKept
<1>7. CASE ClientWorkerFails
  <2>1. client_pc' = "failed" /\ UNCHANGED <<requests, pending>>
    BY <1>7 DEF ClientWorkerFails, serverVars
  <2>2. \A i \in Ids : ~Held(client_pc', frame', i)
    BY <2>1 DEF Held
  <2> QED  BY <1>1, <2>1, <2>2, SlotsKept
<1> QED  BY <1>2, <1>3, <1>4, <1>5, <1>6, <1>7 DEF ClientWorker, ClientWorkerMoves

\* So do the client and the server.
LEMMA SlotsEnvironment == ASSUME TypeInv, SlotsInv, Environment PROVE SlotsInv'
<1>1. CASE ServerReads
  BY <1>1, SlotsServerReads
<1>2. CASE \E f \in serving : ServerAnswers(f)
  BY <1>2, SlotsServerAnswers
<1>3. CASE \E m \in Unasked : ServerSpeaks(m)
  BY <1>3, SlotsServerSpeaks
<1>4. CASE \/ ClientCloses \/ \E f \in Frames : ClientSends(f)
           \/ \E how \in {"ended", "crashed"} : ServerExits(how)
  <2>1. UNCHANGED <<requests, serving, responses, pending, client_pc, frame, unowed>>
    BY <1>4 DEF ClientCloses, ClientSends, ServerExits, serverVars, clientVars, unaskedVars
  <2>2. up' = "running" => up = "running"
    BY <1>4 DEF ClientCloses, ClientSends, ServerExits, serverVars
  <2> QED  BY <2>1, <2>2, SlotsKept
<1> QED  BY <1>1, <1>2, <1>3, <1>4 DEF Environment

\* And so does everybody.
LEMMA SlotsStep == ASSUME TypeInv, Silence, SlotsInv, [Next]_vars PROVE SlotsInv'
<1>1. CASE Environment
  BY <1>1, SlotsEnvironment
<1>2. CASE ClientWorker \/ ClientWorkerFails
  BY <1>2, SlotsClient
<1>3. CASE ReadMessage
  BY <1>3, SlotsReadMessage
<1>4. CASE RecordMessage \/ Deliver \/ EndOfOutput \/ UpstreamWorkerFails
  <2>1. UNCHANGED <<requests, serving, responses, pending, client_pc, frame, up, unowed>>
    BY <1>4 DEF RecordMessage, Deliver, EndOfOutput, UpstreamWorkerFails, serverVars, clientVars,
           unaskedVars
  <2> QED  BY <2>1, SlotsKept
<1>5. CASE Main \/ StartOrLogFails
  <2>1. UNCHANGED <<requests, serving, responses, pending, client_pc, frame, unowed>>
    BY <1>5, MainFrame DEF clientVars
  <2>2. up' = "running" => up = "running" \/ main_pc = "spawn"
    BY <1>5, MainFrame
  <2>3. main_pc = "spawn" => \A i \in Ids : pending[i] = "none"
    BY DEF Silence
  <2> QED  BY <2>1, <2>2, <2>3, SlotsKept
<1>6. CASE UNCHANGED vars
  <2>1. UNCHANGED <<requests, serving, responses, pending, client_pc, frame, up, unowed>>
    BY <1>6 DEF vars, serverVars, clientVars,
           unaskedVars
  <2> QED  BY <2>1, SlotsKept
<1> QED  BY <1>1, <1>2, <1>3, <1>4, <1>5, <1>6 DEF Next, Failure, UpstreamWorker

-----------------------------------------------------------------------------
(* What the client is shown.                                               *)

ShownInv == Shown /\ ListsFiltered

\* Nothing has been shown at the start.
LEMMA ShownInit == Init => ShownInv
  BY DEF Init, ShownInv, Shown, ListsFiltered

\* A filtered message may be delivered, and what is filtered stays so.
LEMMA DeliveredFiltered ==
    ASSUME TypeOK, ListsFiltered, NEW m \in Message, Filtered(m, unowed),
           delivered' = Append(delivered, m), UNCHANGED unowed
    PROVE  ListsFiltered'
<1>1. delivered \in Seq(Message)
  BY DEF TypeOK
<1>2. \A k \in DOMAIN delivered' :
        delivered'[k] = m \/ (k \in DOMAIN delivered /\ delivered'[k] = delivered[k])
  BY <1>1, AppendFacts
<1> QED  BY <1>2 DEF ListsFiltered, Filtered

\* What lists tools is an array, a response nobody asked for, or the response to a
\* request registered as a list.
LEMMA ShownStep == ASSUME TypeInv, SlotsInv, ShownInv, [Next]_vars PROVE ShownInv'
<1> USE DEF ShownInv
<1>1. CASE UNCHANGED <<delivered, upstream_pc, message>> /\ unowed \subseteq unowed'
  BY <1>1 DEF Shown, ListsFiltered, Filtered
<1>2. CASE Environment \/ Main \/ StartOrLogFails \/ UNCHANGED vars
  BY <1>1, <1>2, EnvironmentFrame, MainFrame DEF vars, upstreamVars, serverVars, unaskedVars
<1>3. CASE ClientWorker \/ ClientWorkerFails
  <2>1. UNCHANGED <<upstream_pc, message, unowed>>
    BY <1>3, ClientFrame DEF upstreamVars
  <2>2. CASE AnswerError
    <3> DEFINE e == [class |-> "error", tools |-> {},
                     id |-> IF IsRequest(frame) THEN frame.id ELSE NoId]
    <3>1. frame \in FrameType
      BY <2>2 DEF AnswerError, TypeInv, Busy
    <3>2. e \in Message
      BY <3>1 DEF Message, FrameType
    <3>3. delivered' = Append(delivered, e) /\ e.tools = {}
      BY <2>2 DEF AnswerError
    <3> HIDE DEF e
    <3>4. ListsFiltered'
      BY <2>1, <3>2, <3>3, DeliveredFiltered DEF TypeInv, Filtered
    <3> QED  BY <2>1, <3>4 DEF Shown, Filtered
  <2>3. CASE ~AnswerError
    <3>1. UNCHANGED delivered
      BY <1>3, <2>3 DEF ClientWorker, ClientWorkerMoves, ClientWorkerFails, ReadFrame, NoteGarbage, PollServer,
                        Register, Decide, AuditDeny, AuditAllow, Forward, EndOfInput
    <3> QED  BY <1>1, <2>1, <3>1
  <2> QED  BY <2>2, <2>3
<1>4. CASE ReadMessage
  <2> DEFINE h == Head(responses)
             listed == IsResponse(h) /\ h.id # NoId /\ pending[h.id] = "list"
             drops == listed /\ ~(h.tools \subseteq AllowedTools)
  <2>1. h \in Message /\ KnownAnswer(h, pending, unowed)
    <3>1. responses \in Seq(Message) /\ responses # <<>>
      BY <1>4 DEF ReadMessage, TypeInv, TypeOK
    <3>2. 1 \in DOMAIN responses /\ h = responses[1] /\ h \in Message
      BY <3>1, TailFacts
    <3> QED  BY <3>2 DEF SlotsInv, Known
  <2>2. /\ message' = IF drops THEN [h EXCEPT !.tools = @ \intersect AllowedTools] ELSE h
        /\ UNCHANGED <<delivered, unowed>>
    BY <1>4 DEF ReadMessage, unaskedVars
  <2>3. h.tools # {} => listed \/ h.class = "batch" \/ h.id \in unowed
    BY <2>1, GatewayAssumption DEF KnownAnswer, IsResponse
  <2>4. Filtered(message', unowed)
    <3>1. CASE drops
      <4>1. message'.tools = h.tools \intersect AllowedTools
        BY <2>1, <2>2, <3>1 DEF Message
      <4> QED  BY <4>1 DEF Filtered
    <3>2. CASE ~drops
      BY <2>2, <2>3, <3>2 DEF Filtered
    <3> QED  BY <3>1, <3>2
  <2> QED  BY <2>2, <2>4 DEF Shown, ListsFiltered, Filtered
<1>5. CASE RecordMessage \/ EndOfOutput \/ UpstreamWorkerFails
  <2>1. UNCHANGED <<delivered, message, unowed>>
    BY <1>5, UpstreamFrame DEF RecordMessage, EndOfOutput, UpstreamWorkerFails, UpstreamWorker
  <2>2. upstream_pc' \in {"filtered", "deliver"} => upstream_pc = "filtered"
    BY <1>5 DEF RecordMessage, EndOfOutput, UpstreamWorkerFails
  <2> QED  BY <2>1, <2>2 DEF Shown, ListsFiltered, Filtered
<1>6. CASE Deliver
  <2>1. /\ upstream_pc = "deliver" /\ upstream_pc' = "read" /\ message \in Message
        /\ delivered' = Append(delivered, message) /\ UNCHANGED unowed
    BY <1>6 DEF Deliver, TypeInv, TypeOK, serverVars, unaskedVars
  <2>2. ListsFiltered'
    BY <2>1, DeliveredFiltered DEF Shown, TypeInv
  <2> QED  BY <2>1, <2>2 DEF Shown
<1> QED  BY <1>2, <1>3, <1>4, <1>5, <1>6 DEF Next, Failure, UpstreamWorker

-----------------------------------------------------------------------------
(* Counting.                                                               *)

\* What is counted in a sequence is finite.
LEMMA HitsFinite ==
    ASSUME NEW S, NEW s \in Seq(S), NEW T
    PROVE  IsFiniteSet(Hits(s, T)) /\ Cardinality(Hits(s, T)) \in Nat
<1>1. IsFiniteSet(1..Len(s)) /\ Hits(s, T) \subseteq 1..Len(s)
  BY FS_Interval DEF Hits
<1> QED  BY <1>1, FS_Subset, FS_CardinalityType

\* A count grows by one with every hit.
LEMMA HitsAppend ==
    ASSUME NEW S, NEW s \in Seq(S), NEW e \in S, NEW T
    PROVE  Cardinality(Hits(Append(s, e), T)) = Cardinality(Hits(s, T)) + One(e \in T)
<1> DEFINE n == Len(s) + 1  w == Append(s, e)
<1>1. /\ DOMAIN w = DOMAIN s \union {n} /\ n \notin DOMAIN s
      /\ w[n] = e /\ \A k \in DOMAIN s : w[k] = s[k]
  BY AppendFacts
<1> HIDE DEF n, w
<1>2. CASE e \in T
  <2>1. Hits(w, T) = Hits(s, T) \union {n} /\ n \notin Hits(s, T)
    BY <1>1, <1>2 DEF Hits
  <2>2. Cardinality(Hits(w, T)) = Cardinality(Hits(s, T)) + 1
    BY <2>1, HitsFinite, FS_AddElement
  <2> QED  BY <1>2, <2>2 DEF One, w
<1>3. CASE e \notin T
  <2>1. Hits(w, T) = Hits(s, T)
    BY <1>1, <1>3 DEF Hits
  <2>2. Cardinality(Hits(s, T)) \in Nat
    BY HitsFinite
  <2> QED  BY <1>3, <2>1, <2>2 DEF One, w
<1> QED  BY <1>2, <1>3


\* The same of the numbers, which are naturals.
LEMMA TimesGrow ==
    ASSUME NEW S, NEW s \in Seq(S), NEW e \in S, NEW T
    PROVE  /\ Times(Append(s, e), T) = Times(s, T) + One(e \in T)
           /\ Times(s, T) \in Nat /\ Times(Append(s, e), T) \in Nat
<1>1. Append(s, e) \in Seq(S)
  OBVIOUS
<1> QED  BY <1>1, HitsFinite, HitsAppend DEF Times

\* The properties count what the invariants count.
LEMMA AnswersCounted ==
    ASSUME TypeOK, NEW i
    PROVE  /\ Count(delivered, LAMBDA m : m.class \in {"response", "error"} /\ m.id = i)
                = Times(delivered, Answers(i))
           /\ Count(received, LAMBDA f : IsRequest(f) /\ f.id = i) = Times(received, Asks(i))
<1>1. \A k \in DOMAIN delivered : delivered[k] \in Message
  BY DEF TypeOK
<1>2. {k \in DOMAIN delivered : delivered[k].class \in {"response", "error"} /\ delivered[k].id = i}
        = Hits(delivered, Answers(i))
  BY <1>1 DEF Hits, Answers
<1>3. \A k \in DOMAIN received : received[k] \in FrameType
  BY DEF TypeOK
<1>4. {k \in DOMAIN received : IsRequest(received[k]) /\ received[k].id = i}
        = Hits(received, Asks(i))
  BY <1>3 DEF Hits, Asks, Requesting
<1> QED  BY <1>2, <1>4 DEF Count, Times

\* The property of the log counts what the invariant counts.
LEMMA RecordsCounted ==
    ASSUME NEW f
    PROVE  /\ Count(forwarded, LAMBDA g : g = f) = Times(forwarded, {f})
           /\ Count(audit, LAMBDA r : r = [event |-> "allow", about |-> f])
                = Times(audit, {Allowed(f)})
<1>1. {k \in DOMAIN forwarded : forwarded[k] = f} = Hits(forwarded, {f})
  BY DEF Hits
<1>2. {k \in DOMAIN audit : audit[k] = [event |-> "allow", about |-> f]} = Hits(audit, {Allowed(f)})
  BY DEF Hits, Allowed
<1> QED  BY <1>1, <1>2 DEF Count, Times

-----------------------------------------------------------------------------
(* Answers.                                                                *)

\* An empty sequence has no hits.
LEMMA TimesOfNothing == ASSUME NEW T PROVE Times(<<>>, T) = 0
<1>1. Hits(<<>>, T) = {}
  BY DEF Hits
<1> QED  BY <1>1, FS_EmptySet DEF Times

\* Nothing has been asked or answered at the start.
LEMMA AnswersInit == Init => AnswersInv
<1> SUFFICES ASSUME Init PROVE AnswersInv
  OBVIOUS
<1>1. NoForeignErrors
  BY DEF Init, NoForeignErrors, Idle
<1>2. \A i \in Ids : /\ InHand(i) = 0 /\ ~OnTheWay(i) /\ PassedOn(i) = 0
                     /\ Times(delivered, Answers(i)) = 0 /\ Times(received, Asks(i)) = 0
  <2>1. \A i : Times(<<>>, Answers(i)) = 0 /\ Times(<<>>, Asks(i)) = 0
    BY TimesOfNothing
  <2>2. delivered = <<>> /\ received = <<>>
    BY DEF Init
  <2>3. \A i \in Ids : InHand(i) = 0 /\ ~OnTheWay(i) /\ PassedOn(i) = 0
    BY DEF Init, InHand, OnTheWay, PassedOn, One, Busy, InPipe, InServer, InResponses
  <2> QED  BY <2>1, <2>2, <2>3
<1> QED  BY <1>1, <1>2 DEF AnswersInv, One

\* What is counted is a number.
LEMMA AnswersNumbers ==
    ASSUME TypeOK
    PROVE  \A i : /\ Times(delivered, Answers(i)) \in Nat /\ Times(received, Asks(i)) \in Nat
                  /\ InHand(i) \in {0, 1} /\ One(OnTheWay(i)) \in {0, 1}
                  /\ PassedOn(i) \in {0, 1}
<1>1. \A i : Times(delivered, Answers(i)) \in Nat /\ Times(received, Asks(i)) \in Nat
  BY HitsFinite DEF TypeOK, Times
<1> QED  BY <1>1 DEF InHand, PassedOn, One

\* A step that answers nothing and reads nothing, and leaves a request where it
\* is or moves it on.
LEMMA AnswersKept ==
    ASSUME TypeInv, TypeInv', AnswersInv, NoForeignErrors', UNCHANGED <<delivered, received>>,
           unowed \subseteq unowed',
           \A i \in Ids \ unowed' : InHand(i)' + One(OnTheWay(i))' + PassedOn(i)'
                            <= InHand(i) + One(OnTheWay(i)) + PassedOn(i)
    PROVE  AnswersInv'
<1> SUFFICES ASSUME NEW i \in Ids \ unowed'
             PROVE  Times(delivered', Answers(i)) + InHand(i)' + One(OnTheWay(i))' + PassedOn(i)'
                      <= Times(received', Asks(i))
  BY DEF AnswersInv
<1>1. Times(delivered', Answers(i)) = Times(delivered, Answers(i))
      /\ Times(received', Asks(i)) = Times(received, Asks(i))
  OBVIOUS
<1>2. /\ Times(delivered, Answers(i)) \in Nat /\ Times(received, Asks(i)) \in Nat
      /\ InHand(i) \in {0, 1} /\ One(OnTheWay(i)) \in {0, 1} /\ PassedOn(i) \in {0, 1}
  BY AnswersNumbers DEF TypeInv
<1>3. InHand(i)' \in {0, 1} /\ One(OnTheWay(i))' \in {0, 1} /\ PassedOn(i)' \in {0, 1}
  BY DEF InHand, PassedOn, One
<1>4. Times(delivered, Answers(i)) + InHand(i) + One(OnTheWay(i)) + PassedOn(i)
        <= Times(received, Asks(i))
  BY DEF AnswersInv
<1> QED  BY <1>1, <1>2, <1>3, <1>4

\* The server answers what it has been asked, and never with an error.
LEMMA AnswersEnvironment ==
    ASSUME TypeInv, TypeInv', AnswersInv, Environment PROVE AnswersInv'
<1>1. /\ UNCHANGED <<delivered, received, client_pc, frame, upstream_pc, message>>
      /\ unowed \subseteq unowed'
      /\ \A i \in Ids : InHand(i)' = InHand(i) /\ PassedOn(i)' = PassedOn(i)
  <2>1. /\ UNCHANGED <<delivered, received, client_pc, frame, upstream_pc, message>>
        /\ unowed \subseteq unowed'
    BY EnvironmentFrame DEF clientVars, upstreamVars
  <2> QED  BY <2>1 DEF InHand, PassedOn
<1>2. ASSUME NoForeignErrors', \A i \in Ids \ unowed' : OnTheWay(i)' => OnTheWay(i) PROVE AnswersInv'
  <2>1. \A i \in Ids : InHand(i) \in {0, 1} /\ PassedOn(i) \in {0, 1}
    BY DEF InHand, PassedOn, One
  <2>2. \A i \in Ids \ unowed' : One(OnTheWay(i))' <= One(OnTheWay(i))
    BY <1>2 DEF One
  <2>3. \A i \in Ids : One(OnTheWay(i))' \in {0, 1} /\ One(OnTheWay(i)) \in {0, 1}
    BY DEF One
  <2>4. \A i \in Ids \ unowed' : InHand(i)' + One(OnTheWay(i))' + PassedOn(i)'
                         <= InHand(i) + One(OnTheWay(i)) + PassedOn(i)
    BY <1>1, <2>1, <2>2, <2>3
  <2> QED  BY <1>1, <1>2, <2>4, AnswersKept
<1>3. CASE ServerReads
  <2> DEFINE h == Head(requests)
  <2>1. /\ requests \in Seq(FrameType) /\ requests # <<>> /\ requests' = Tail(requests)
        /\ serving' = IF IsRequest(h) THEN serving \union {h} ELSE serving
        /\ UNCHANGED responses
    BY <1>3 DEF TypeInv, TypeOK, ServerReads
  <2>2. \A i \in Ids : InPipe(requests, i) <=> Requesting(h, i) \/ InPipe(requests', i)
    BY <2>1, PipeTail
  <2> HIDE DEF h
  <2>3. \A i \in Ids : InServer(serving', i) => InServer(serving, i) \/ Requesting(h, i)
    BY <2>1 DEF InServer, Requesting
  <2>4. \A i \in Ids : OnTheWay(i)' => OnTheWay(i)
    BY <2>1, <2>2, <2>3 DEF OnTheWay
  <2>5. NoForeignErrors'
    BY <1>1, <2>1 DEF AnswersInv, NoForeignErrors
  <2> QED  BY <1>2, <2>4, <2>5
<1>4. ASSUME NEW m \in Message, m.class # "error", responses' = Append(responses, m)
      PROVE  NoForeignErrors'
  <2>1. responses \in Seq(Message)
    BY DEF TypeInv, TypeOK
  <2>2. \A k \in DOMAIN responses' :
          responses'[k] = m \/ (k \in DOMAIN responses /\ responses'[k] = responses[k])
    BY <1>4, <2>1, AppendFacts
  <2> QED  BY <1>1, <1>4, <2>2 DEF AnswersInv, NoForeignErrors
<1>5. ASSUME NEW f \in serving, ServerAnswers(f) PROVE AnswersInv'
  <2> DEFINE m == [class |-> "response", id |-> f.id,
                   tools |-> IF f.class = "list" THEN Tools ELSE {}]
  <2>1. /\ responses \in Seq(Message) /\ f \in FrameType /\ serving' \subseteq serving
        /\ responses' = Append(responses, m) /\ UNCHANGED requests
    BY <1>5 DEF TypeInv, TypeOK, ServerAnswers
  <2>2. m \in Message /\ m.class # "error" /\ m.id = f.id
    BY <2>1, MessagesTyped
  <2> HIDE DEF m
  <2>3. \A i \in Ids : InResponses(responses', i) <=> InResponses(responses, i) \/ Responding(m, i)
    BY <2>1, <2>2, ResponsesAppend
  <2>4. \A i \in Ids : Responding(m, i) => InServer(serving, i)
    BY <1>5, <2>2 DEF Responding, InServer
  <2>5. \A i \in Ids : InServer(serving', i) => InServer(serving, i)
    BY <2>1 DEF InServer
  <2>6. \A i \in Ids : OnTheWay(i)' => OnTheWay(i)
    BY <2>1, <2>3, <2>4, <2>5 DEF OnTheWay
  <2>7. NoForeignErrors'
    BY <1>4, <2>1, <2>2
  <2> QED  BY <1>2, <2>6, <2>7
<1>6. ASSUME NEW m \in Unasked, ServerSpeaks(m) PROVE AnswersInv'
  <2>1. /\ responses \in Seq(Message) /\ m \in Message /\ m.class # "error"
        /\ responses' = Append(responses, m) /\ UNCHANGED <<requests, serving>>
        /\ m.class = "response" => m.id \in unowed'
    BY <1>6 DEF TypeInv, TypeOK, ServerSpeaks, Unasked
  <2>2. \A i : InResponses(responses', i) <=> InResponses(responses, i) \/ Responding(m, i)
    BY <2>1, ResponsesAppend
  <2>3. \A i \in Ids \ unowed' : OnTheWay(i)' => OnTheWay(i)
    BY <2>1, <2>2 DEF OnTheWay, Responding
  <2>4. NoForeignErrors'
    BY <1>4, <2>1
  <2> QED  BY <1>2, <2>3, <2>4
<1>7. CASE \/ ClientCloses \/ \E f \in Frames : ClientSends(f)
           \/ \E how \in {"ended", "crashed"} : ServerExits(how)
  <2>1. UNCHANGED <<requests, serving, responses>>
    BY <1>7 DEF ClientCloses, ClientSends, ServerExits, serverVars
  <2>2. NoForeignErrors' /\ \A i \in Ids : OnTheWay(i)' => OnTheWay(i)
    BY <1>1, <2>1 DEF OnTheWay, AnswersInv, NoForeignErrors
  <2> QED  BY <1>2, <2>2
<1> QED  BY <1>3, <1>5, <1>6, <1>7 DEF Environment

\* The client's worker answers a request, forwards it, or drops what is none.
LEMMA AnswersClient ==
    ASSUME TypeInv, TypeInv', AnswersInv, ClientWorker \/ ClientWorkerFails
    PROVE  AnswersInv'
<1>1. /\ UNCHANGED <<serving, responses, upstream_pc, message, unowed>>
      /\ client_pc \notin {"answer", "answer_locked"} => UNCHANGED delivered
      /\ client_pc # "read" => UNCHANGED <<received, frame>>
      /\ client_pc # "forward" => UNCHANGED requests
  BY ClientFrame DEF upstreamVars
<1>2. NoForeignErrors' /\ \A i \in Ids : PassedOn(i)' = PassedOn(i)
  BY <1>1 DEF AnswersInv, NoForeignErrors, PassedOn
<1>3. ASSUME NEW i \in Ids \ unowed
      PROVE  /\ Times(delivered, Answers(i)) \in Nat /\ Times(received, Asks(i)) \in Nat
             /\ InHand(i) \in {0, 1} /\ One(OnTheWay(i)) \in {0, 1} /\ PassedOn(i) \in {0, 1}
             /\ InHand(i)' \in {0, 1} /\ One(OnTheWay(i))' \in {0, 1}
             /\ Times(delivered, Answers(i)) + InHand(i) + One(OnTheWay(i)) + PassedOn(i)
                  <= Times(received, Asks(i))
  <2>1. InHand(i)' \in {0, 1} /\ One(OnTheWay(i))' \in {0, 1}
    BY DEF InHand, One
  <2>2. /\ Times(delivered, Answers(i)) \in Nat /\ Times(received, Asks(i)) \in Nat
        /\ InHand(i) \in {0, 1} /\ One(OnTheWay(i)) \in {0, 1} /\ PassedOn(i) \in {0, 1}
    BY AnswersNumbers DEF TypeInv
  <2> QED  BY <2>1, <2>2 DEF AnswersInv
<1>4. CASE ReadFrame
  <2> DEFINE h == Head(inbox)
  <2>1. /\ client_pc = "read" /\ frame' = h /\ received' = Append(received, h)
        /\ inbox # <<>> /\ UNCHANGED <<delivered, requests>>
    BY <1>1, <1>4 DEF ReadFrame
  <2>2. h \in FrameType /\ received \in Seq(FrameType)
    BY <2>1 DEF TypeInv, TypeOK
  <2> HIDE DEF h
  <2> SUFFICES ASSUME NEW i \in Ids \ unowed
               PROVE  Times(delivered, Answers(i)) + InHand(i)' + One(OnTheWay(i))' + PassedOn(i)
                        <= Times(received', Asks(i))
    BY <1>1, <1>2, <2>1 DEF AnswersInv
  <2>3. Times(received', Asks(i)) = Times(received, Asks(i)) + One(h \in Asks(i))
    BY <2>1, <2>2, TimesGrow
  <2>4. InHand(i) = 0 /\ InHand(i)' <= One(h \in Asks(i)) /\ One(h \in Asks(i)) \in {0, 1}
    BY <2>1, <2>2 DEF InHand, Busy, One, Asks
  <2>5. One(OnTheWay(i))' = One(OnTheWay(i))
    BY <1>1, <2>1 DEF OnTheWay
  <2> QED  BY <1>3, <2>3, <2>4, <2>5
<1>5. CASE Forward
  <2>1. /\ client_pc = "forward" /\ client_pc' = "read" /\ frame \in FrameType
        /\ requests \in Seq(FrameType) /\ requests' = Append(requests, frame)
    BY <1>5 DEF Forward, TypeInv, TypeOK, Busy
  <2>2. UNCHANGED <<delivered, received>>
    BY <1>1, <2>1
  <2>3. \A i \in Ids : InPipe(requests', i) <=> InPipe(requests, i) \/ Requesting(frame, i)
    BY <2>1, PipeAppend
  <2>4. \A i \in Ids : OnTheWay(i)' => OnTheWay(i) \/ Requesting(frame, i)
    BY <1>1, <2>3 DEF OnTheWay
  <2>5. \A i \in Ids : InHand(i)' = 0 /\ InHand(i) = One(Requesting(frame, i))
    BY <2>1 DEF InHand, Busy, One
  <2>6. ASSUME NEW i \in Ids \ unowed
        PROVE  InHand(i)' + One(OnTheWay(i))' + PassedOn(i)'
                 <= InHand(i) + One(OnTheWay(i)) + PassedOn(i)
    <3>1. One(OnTheWay(i))' <= One(OnTheWay(i)) + One(Requesting(frame, i))
      BY <2>4 DEF One
    <3> QED  BY <1>2, <1>3, <2>5, <3>1
  <2> QED  BY <1>1, <1>2, <2>2, <2>6, AnswersKept
<1>6. CASE AnswerError
  <2> DEFINE e == [class |-> "error", tools |-> {},
                   id |-> IF IsRequest(frame) THEN frame.id ELSE NoId]
  <2>1. /\ client_pc \in {"answer", "answer_locked"} /\ client_pc' = "read"
        /\ delivered' = Append(delivered, e) /\ frame \in FrameType
    BY <1>6 DEF AnswerError, TypeInv, Busy
  <2>2. /\ delivered \in Seq(Message) /\ e \in Message
        /\ \A i \in Ids : e.id = i => Requesting(frame, i)
    BY <2>1, GatewayAssumption DEF Message, FrameType, TypeInv, TypeOK, Requesting
  <2> HIDE DEF e
  <2>3. UNCHANGED <<requests, received>>
    BY <1>1, <2>1
  <2> SUFFICES ASSUME NEW i \in Ids \ unowed
               PROVE  Times(delivered', Answers(i)) + InHand(i)' + One(OnTheWay(i))' + PassedOn(i)
                        <= Times(received, Asks(i))
    BY <1>1, <1>2, <2>3 DEF AnswersInv
  <2>4. Times(delivered', Answers(i)) = Times(delivered, Answers(i)) + One(e \in Answers(i))
    BY <2>1, <2>2, TimesGrow
  <2>5. InHand(i)' = 0 /\ One(e \in Answers(i)) <= InHand(i) /\ One(e \in Answers(i)) \in {0, 1}
    BY <2>1, <2>2 DEF InHand, Busy, One, Answers
  <2>6. One(OnTheWay(i))' = One(OnTheWay(i))
    BY <1>1, <2>3 DEF OnTheWay
  <2> QED  BY <1>3, <2>4, <2>5, <2>6
<1>7. CASE \/ NoteGarbage \/ PollServer \/ Register \/ Decide \/ AuditDeny \/ AuditAllow
           \/ EndOfInput \/ ClientWorkerFails
  <2>1. /\ UNCHANGED <<delivered, received, requests, frame>>
        /\ Busy(client_pc') => Busy(client_pc)
    <3>1. CASE NoteGarbage \/ PollServer \/ Register \/ Decide \/ AuditDeny \/ AuditAllow
      <4>1. client_pc \in {"garbage", "poll", "register", "decide", "deny", "allow"}
        BY <3>1 DEF NoteGarbage, PollServer, Register, Decide, AuditDeny, AuditAllow
      <4> QED  BY <1>1, <4>1 DEF Busy
    <3>2. CASE EndOfInput \/ ClientWorkerFails
      BY <3>2 DEF EndOfInput, ClientWorkerFails, Busy, pipeVars, serverVars
    <3> QED  BY <1>7, <3>1, <3>2
  <2>2. ASSUME NEW i \in Ids \ unowed
        PROVE  InHand(i)' + One(OnTheWay(i))' + PassedOn(i)'
                 <= InHand(i) + One(OnTheWay(i)) + PassedOn(i)
    <3>1. InHand(i)' <= InHand(i)
      BY <2>1 DEF InHand, One
    <3>2. One(OnTheWay(i))' = One(OnTheWay(i))
      BY <1>1, <2>1 DEF OnTheWay
    <3> QED  BY <1>2, <1>3, <3>1, <3>2
  <2> QED  BY <1>1, <1>2, <2>1, <2>2, AnswersKept
<1> QED  BY <1>4, <1>5, <1>6, <1>7 DEF ClientWorker, ClientWorkerMoves

\* A response that has been read was the only one with its id.
LEMMA AnswersUpstream ==
    ASSUME TypeInv, TypeInv', SlotsInv, AnswersInv, UpstreamWorker \/ UpstreamWorkerFails
    PROVE  AnswersInv'
<1>1. /\ UNCHANGED <<received, requests, serving, client_pc, frame, unowed>>
      /\ upstream_pc # "read" => UNCHANGED <<responses, message>>
      /\ upstream_pc # "deliver" => UNCHANGED delivered
      /\ \A i \in Ids : InHand(i)' = InHand(i)
  <2>1. /\ UNCHANGED <<received, requests, serving, client_pc, frame, unowed>>
        /\ upstream_pc # "read" => UNCHANGED <<responses, message>>
        /\ upstream_pc # "deliver" => UNCHANGED delivered
    BY UpstreamFrame DEF pipeVars, clientVars
  <2> QED  BY <2>1 DEF InHand
<1>2. ASSUME NEW i \in Ids \ unowed
      PROVE  /\ Times(delivered, Answers(i)) \in Nat /\ Times(received, Asks(i)) \in Nat
             /\ InHand(i) \in {0, 1} /\ One(OnTheWay(i)) \in {0, 1} /\ PassedOn(i) \in {0, 1}
             /\ PassedOn(i)' \in {0, 1} /\ One(OnTheWay(i))' \in {0, 1}
             /\ Times(delivered, Answers(i)) + InHand(i) + One(OnTheWay(i)) + PassedOn(i)
                  <= Times(received, Asks(i))
  <2>1. PassedOn(i)' \in {0, 1} /\ One(OnTheWay(i))' \in {0, 1}
    BY DEF PassedOn, One
  <2>2. /\ Times(delivered, Answers(i)) \in Nat /\ Times(received, Asks(i)) \in Nat
        /\ InHand(i) \in {0, 1} /\ One(OnTheWay(i)) \in {0, 1} /\ PassedOn(i) \in {0, 1}
    BY AnswersNumbers DEF TypeInv
  <2> QED  BY <2>1, <2>2 DEF AnswersInv
<1>3. CASE ReadMessage
  <2> DEFINE h == Head(responses)
  <2>1. /\ responses \in Seq(Message) /\ responses # <<>> /\ h \in Message
        /\ responses' = Tail(responses) /\ UNCHANGED delivered
        /\ upstream_pc = "read" /\ message'.class = h.class /\ message'.id = h.id
    <3>1. /\ responses \in Seq(Message) /\ responses # <<>> /\ h \in Message
          /\ responses' = Tail(responses) /\ upstream_pc = "read"
      BY <1>3 DEF ReadMessage, TypeInv, TypeOK
    <3>2. message' \in {h, [h EXCEPT !.tools = @ \intersect AllowedTools]}
      BY <1>3 DEF ReadMessage
    <3>3. message'.class = h.class /\ message'.id = h.id
      BY <3>1, <3>2 DEF Message
    <3> QED  BY <1>1, <3>1, <3>3
  <2>2. /\ \A i \in Ids : InResponses(responses, i) <=> Responding(h, i) \/ InResponses(responses', i)
        /\ \A i \in Ids \ unowed : ~(Responding(h, i) /\ InResponses(responses', i))
    BY <2>1, ResponsesTail DEF SlotsInv, Single
  <2>3. 1 \in DOMAIN responses /\ h = responses[1]
        /\ \A k \in DOMAIN responses' : k + 1 \in DOMAIN responses /\ responses'[k] = responses[k + 1]
    BY <2>1, TailFacts
  <2> HIDE DEF h
  <2>4. NoForeignErrors'
    BY <2>1, <2>3 DEF AnswersInv, NoForeignErrors
  <2>5. ASSUME NEW i \in Ids \ unowed
        PROVE  InHand(i)' + One(OnTheWay(i))' + PassedOn(i)'
                 <= InHand(i) + One(OnTheWay(i)) + PassedOn(i)
    <3>1. CASE Responding(h, i)
      <4>1. OnTheWay(i) /\ ~InPipe(requests, i) /\ ~InServer(serving, i)
        BY <2>2, <3>1 DEF OnTheWay, SlotsInv, Apart
      <4>2. ~OnTheWay(i)'
        BY <1>1, <2>2, <3>1, <4>1 DEF OnTheWay
      <4>3. One(OnTheWay(i)) = 1 /\ One(OnTheWay(i))' = 0
        BY <4>1, <4>2 DEF One
      <4> QED  BY <1>1, <1>2, <4>3
    <3>2. CASE ~Responding(h, i)
      <4>1. PassedOn(i)' = 0
        BY <2>1, <3>2 DEF PassedOn, Responding, One
      <4>2. OnTheWay(i)' <=> OnTheWay(i)
        BY <1>1, <2>2, <3>2 DEF OnTheWay
      <4>3. One(OnTheWay(i))' = One(OnTheWay(i))
        BY <4>2 DEF One
      <4> QED  BY <1>1, <1>2, <4>1, <4>3
    <3> QED  BY <3>1, <3>2
  <2> QED  BY <1>1, <2>1, <2>4, <2>5, AnswersKept
<1>4. CASE RecordMessage \/ EndOfOutput \/ UpstreamWorkerFails
  <2>1. UNCHANGED <<delivered, responses, message>>
    BY <1>4 DEF RecordMessage, EndOfOutput, UpstreamWorkerFails, serverVars
  <2>2. upstream_pc' \in {"filtered", "deliver"} => upstream_pc \in {"filtered", "deliver"}
    BY <1>4 DEF RecordMessage, EndOfOutput, UpstreamWorkerFails
  <2>3. NoForeignErrors'
    BY <2>1 DEF AnswersInv, NoForeignErrors
  <2>4. ASSUME NEW i \in Ids \ unowed
        PROVE  InHand(i)' + One(OnTheWay(i))' + PassedOn(i)'
                 <= InHand(i) + One(OnTheWay(i)) + PassedOn(i)
    <3>1. PassedOn(i)' <= PassedOn(i)
      BY <2>1, <2>2 DEF PassedOn, One
    <3>2. One(OnTheWay(i))' = One(OnTheWay(i))
      BY <1>1, <2>1 DEF OnTheWay
    <3> QED  BY <1>1, <1>2, <3>1, <3>2
  <2> QED  BY <1>1, <2>1, <2>3, <2>4, AnswersKept
<1>5. CASE Deliver
  <2>1. /\ upstream_pc = "deliver" /\ upstream_pc' = "read" /\ message \in Message
        /\ delivered \in Seq(Message) /\ delivered' = Append(delivered, message)
    BY <1>5 DEF Deliver, TypeInv, TypeOK
  <2>2. UNCHANGED <<responses, message>>
    BY <1>1, <2>1
  <2>3. NoForeignErrors'
    BY <2>2 DEF AnswersInv, NoForeignErrors
  <2> SUFFICES ASSUME NEW i \in Ids \ unowed
               PROVE  Times(delivered', Answers(i)) + InHand(i) + One(OnTheWay(i))' + PassedOn(i)'
                        <= Times(received, Asks(i))
    BY <1>1, <2>3 DEF AnswersInv
  <2>4. Times(delivered', Answers(i)) = Times(delivered, Answers(i)) + One(message \in Answers(i))
    BY <2>1, TimesGrow
  <2>5. /\ PassedOn(i)' = 0 /\ One(message \in Answers(i)) <= PassedOn(i)
        /\ One(message \in Answers(i)) \in {0, 1}
    BY <2>1 DEF PassedOn, One, Answers, Responding, AnswersInv, NoForeignErrors
  <2>6. One(OnTheWay(i))' = One(OnTheWay(i))
    BY <1>1, <2>2 DEF OnTheWay
  <2> QED  BY <1>2, <2>4, <2>5, <2>6
<1> QED  BY <1>3, <1>4, <1>5 DEF UpstreamWorker

\* No step answers what is not due.
LEMMA AnswersStep ==
    ASSUME TypeInv, TypeInv', SlotsInv, AnswersInv, [Next]_vars PROVE AnswersInv'
<1>1. CASE Environment
  BY <1>1, AnswersEnvironment
<1>2. CASE ClientWorker \/ ClientWorkerFails
  BY <1>2, AnswersClient
<1>3. CASE UpstreamWorker \/ UpstreamWorkerFails
  BY <1>3, AnswersUpstream
<1>4. CASE Main \/ StartOrLogFails \/ UNCHANGED vars
  <2>1. UNCHANGED <<delivered, received, requests, serving, responses, client_pc, frame,
                    upstream_pc, message, unowed>>
    BY <1>4, MainFrame DEF vars, pipeVars, serverVars, clientVars, upstreamVars,
                           unaskedVars
  <2>2. \A i \in Ids : /\ InHand(i)' = InHand(i) /\ PassedOn(i)' = PassedOn(i)
                       /\ One(OnTheWay(i))' = One(OnTheWay(i))
    BY <2>1 DEF InHand, PassedOn, OnTheWay
  <2>3. NoForeignErrors'
    BY <2>1 DEF AnswersInv, NoForeignErrors
  <2> QED  BY <2>1, <2>2, <2>3 DEF AnswersInv
<1> QED  BY <1>1, <1>2, <1>3, <1>4 DEF Next, Failure

-----------------------------------------------------------------------------
(* Records.                                                                *)

\* Nothing is forwarded or recorded at the start.
LEMMA RecordsInit == Init => RecordsInv
<1> SUFFICES ASSUME Init PROVE RecordsInv
  OBVIOUS
<1>1. \A f : Times(<<>>, {f}) = 0 /\ Times(<<>>, {Allowed(f)}) = 0
  BY TimesOfNothing
<1>2. forwarded = <<>> /\ audit = <<>> /\ client_pc = "read"
  BY DEF Init
<1>3. \A f : One(client_pc = "forward" /\ frame = f) = 0
  BY <1>2 DEF One
<1>4. \A f : Times(forwarded, {f}) = 0 /\ Times(audit, {Allowed(f)}) = 0
  BY <1>1, <1>2
<1>5. DOMAIN forwarded = {}
  BY <1>2
<1>6. ASSUME NEW f \in Frames
      PROVE  Times(forwarded, {f}) + One(client_pc = "forward" /\ frame = f)
                <= Times(audit, {Allowed(f)})
  <2> DEFINE sent == Times(forwarded, {f})
             held == One(client_pc = "forward" /\ frame = f)
             recorded == Times(audit, {Allowed(f)})
  <2>1. sent = 0 /\ held = 0 /\ recorded = 0
    BY <1>3, <1>4
  <2> HIDE DEF sent, held, recorded
  <2>2. sent + held <= recorded
    BY <2>1
  <2> QED  BY <2>2 DEF sent, held, recorded
<1> QED  BY <1>2, <1>5, <1>6 DEF RecordsInv

\* A record is never taken back.
LEMMA RecordsGrow ==
    ASSUME TypeOK, UNCHANGED audit \/ Logged
    PROVE  \A x : /\ Times(audit, {x}) \in Nat /\ Times(audit', {x}) \in Nat
                  /\ Times(audit, {x}) <= Times(audit', {x})
<1> DEFINE S == [event: Events, about: FrameType \union {NoFrame}]
<1>1. audit \in Seq(S)
  BY DEF TypeOK
<1>2. \A x : Times(audit, {x}) \in Nat
  BY <1>1, HitsFinite DEF Times
<1>3. CASE UNCHANGED audit
  BY <1>2, <1>3
<1>4. CASE Logged
  <2>1. PICK e \in Events, about \in FrameType \union {NoFrame} : Log(e, about)
    BY <1>4 DEF Logged
  <2> DEFINE r == [event |-> e, about |-> about]
  <2>2. r \in S /\ audit' = Append(audit, r)
    BY <2>1 DEF Log
  <2> HIDE DEF r, S
  <2>3. \A x : /\ Times(audit', {x}) = Times(audit, {x}) + One(r \in {x})
               /\ Times(audit', {x}) \in Nat
    BY <1>1, <2>2, TimesGrow
  <2>4. ASSUME NEW x PROVE Times(audit, {x}) <= Times(audit', {x})
    <3> DEFINE old == Times(audit, {x})  new == Times(audit', {x})  one == One(r \in {x})
    <3>1. one = 0 \/ one = 1
      BY DEF One
    <3>2. new = old + one /\ old \in Nat
      BY <1>2, <2>3
    <3> HIDE DEF old, new, one
    <3>3. old <= new
      BY <3>1, <3>2
    <3> QED  BY <3>3 DEF old, new
  <2> QED  BY <1>2, <2>3, <2>4
<1> QED  BY <1>3, <1>4

\* A step that forwards nothing and brings no call nearer to the server.
LEMMA RecordsKept ==
    ASSUME TypeOK, RecordsInv, UNCHANGED forwarded, UNCHANGED audit \/ Logged,
           \/ client_pc' \notin {"allow", "forward"}
           \/ client_pc' = client_pc /\ frame' = frame
           \/ client_pc' = "forward" /\ frame'.class # "call"
    PROVE  RecordsInv'
<1>1. \A k \in DOMAIN forwarded' : forwarded'[k].class = "call" => Permitted(forwarded'[k])
  BY DEF RecordsInv
<1>2. client_pc' \in {"allow", "forward"} /\ frame'.class = "call" => Permitted(frame')
  BY DEF RecordsInv
<1>3. ASSUME NEW f \in Frames, f.class = "call"
      PROVE  Times(forwarded', {f}) + One(client_pc' = "forward" /\ frame' = f)
               <= Times(audit', {Allowed(f)})
  <2>1. One(client_pc' = "forward" /\ frame' = f) <= One(client_pc = "forward" /\ frame = f)
    BY <1>3 DEF One
  <2>2. /\ One(client_pc' = "forward" /\ frame' = f) \in {0, 1}
        /\ One(client_pc = "forward" /\ frame = f) \in {0, 1}
    BY DEF One
  <2>3. Times(forwarded, {f}) \in Nat /\ Times(forwarded', {f}) = Times(forwarded, {f})
    BY HitsFinite DEF Times, TypeOK
  <2>4. /\ Times(audit, {Allowed(f)}) \in Nat /\ Times(audit', {Allowed(f)}) \in Nat
        /\ Times(audit, {Allowed(f)}) <= Times(audit', {Allowed(f)})
    BY RecordsGrow
  <2>5. Times(forwarded, {f}) + One(client_pc = "forward" /\ frame = f)
          <= Times(audit, {Allowed(f)})
    BY <1>3 DEF RecordsInv
  <2> QED  BY <2>1, <2>2, <2>3, <2>4, <2>5
<1> QED  BY <1>1, <1>2, <1>3 DEF RecordsInv

\* The record of a call comes before the call.
LEMMA RecordsAllow == ASSUME TypeInv, RecordsInv, AuditAllow PROVE RecordsInv'
<1>1. /\ client_pc = "allow" /\ client_pc' = "forward" /\ frame \in FrameType
      /\ UNCHANGED <<forwarded, frame>> /\ audit' = Append(audit, Allowed(frame))
  BY DEF AuditAllow, TypeInv, Busy, serverVars, Log, Allowed
<1>2. /\ audit \in Seq([event: Events, about: FrameType \union {NoFrame}])
      /\ Allowed(frame) \in [event: Events, about: FrameType \union {NoFrame}]
  BY <1>1 DEF TypeInv, TypeOK, Allowed, Events
<1>3. ASSUME NEW f \in Frames, f.class = "call"
      PROVE  Times(forwarded', {f}) + One(client_pc' = "forward" /\ frame' = f)
               <= Times(audit', {Allowed(f)})
  <2>1. /\ Times(audit', {Allowed(f)}) = Times(audit, {Allowed(f)})
                                          + One(Allowed(frame) \in {Allowed(f)})
        /\ Times(audit, {Allowed(f)}) \in Nat
    BY <1>1, <1>2, TimesGrow
  <2>2. /\ One(frame = f) <= One(Allowed(frame) \in {Allowed(f)}) /\ One(frame = f) \in {0, 1}
        /\ One(Allowed(frame) \in {Allowed(f)}) \in {0, 1}
    BY DEF One
  <2>3. One(client_pc' = "forward" /\ frame' = f) = One(frame = f)
    BY <1>1 DEF One
  <2>4. One(client_pc = "forward" /\ frame = f) = 0
    BY <1>1 DEF One
  <2>5. Times(forwarded, {f}) \in Nat /\ Times(forwarded', {f}) = Times(forwarded, {f})
    BY <1>1, HitsFinite DEF Times, TypeInv, TypeOK
  <2>6. Times(forwarded, {f}) + One(client_pc = "forward" /\ frame = f)
          <= Times(audit, {Allowed(f)})
    BY <1>3 DEF RecordsInv
  <2> QED  BY <2>1, <2>2, <2>3, <2>4, <2>5, <2>6
<1>4. /\ \A k \in DOMAIN forwarded' : forwarded'[k].class = "call" => Permitted(forwarded'[k])
      /\ frame'.class = "call" => Permitted(frame')
  BY <1>1 DEF RecordsInv
<1> QED  BY <1>3, <1>4 DEF RecordsInv

\* A call forwarded uses up its record.
LEMMA RecordsForward == ASSUME TypeInv, RecordsInv, Forward PROVE RecordsInv'
<1>1. /\ client_pc = "forward" /\ client_pc' = "read" /\ frame \in FrameType
      /\ forwarded \in Seq(FrameType) /\ forwarded' = Append(forwarded, frame)
      /\ UNCHANGED audit
  BY DEF Forward, TypeInv, TypeOK, Busy, auditVars
<1>2. ASSUME NEW f \in Frames, f.class = "call"
      PROVE  Times(forwarded', {f}) + One(client_pc' = "forward" /\ frame' = f)
               <= Times(audit', {Allowed(f)})
  <2>1. /\ Times(forwarded', {f}) = Times(forwarded, {f}) + One(frame \in {f})
        /\ Times(forwarded, {f}) \in Nat
    BY <1>1, TimesGrow
  <2>2. /\ One(client_pc = "forward" /\ frame = f) = One(frame \in {f})
        /\ One(client_pc' = "forward" /\ frame' = f) = 0 /\ One(frame \in {f}) \in {0, 1}
    BY <1>1 DEF One
  <2>3. Times(forwarded, {f}) + One(client_pc = "forward" /\ frame = f)
          <= Times(audit, {Allowed(f)})
    BY <1>2 DEF RecordsInv
  <2>4. Times(audit', {Allowed(f)}) = Times(audit, {Allowed(f)})
    BY <1>1
  <2> QED  BY <2>1, <2>2, <2>3, <2>4
<1>3. \A k \in DOMAIN forwarded' :
        forwarded'[k] = frame \/ (k \in DOMAIN forwarded /\ forwarded'[k] = forwarded[k])
  BY <1>1, AppendFacts
<1>4. \A k \in DOMAIN forwarded' : forwarded'[k].class = "call" => Permitted(forwarded'[k])
  BY <1>1, <1>3 DEF RecordsInv
<1> QED  BY <1>1, <1>2, <1>4 DEF RecordsInv

\* A call is permitted first and recorded next.
LEMMA RecordsDecide == ASSUME TypeInv, RecordsInv, Decide PROVE RecordsInv'
<1>1. UNCHANGED <<forwarded, audit, frame>> /\ client_pc = "decide"
  BY DEF Decide, serverVars, auditVars
<1>2. CASE client_pc' # "allow"
  <2>1. client_pc' = "forward" => frame.class # "call"
    BY <1>2 DEF Decide, Answer
  <2>2. \/ client_pc' \notin {"allow", "forward"}
        \/ client_pc' = "forward" /\ frame'.class # "call"
    BY <1>1, <1>2, <2>1
  <2> QED  BY <1>1, <2>2, RecordsKept DEF TypeInv
<1>3. CASE client_pc' = "allow"
  <2>1. Permitted(frame)
    BY <1>3 DEF Decide, Answer
  <2>2. \A f : /\ One(client_pc' = "forward" /\ frame' = f) = 0
               /\ One(client_pc = "forward" /\ frame = f) = 0
    BY <1>1, <1>3 DEF One
  <2> QED  BY <1>1, <1>3, <2>1, <2>2 DEF RecordsInv
<1> QED  BY <1>2, <1>3

\* No step brings a call to the server without its record.
LEMMA RecordsStep == ASSUME TypeInv, RecordsInv, [Next]_vars PROVE RecordsInv'
<1>1. CASE AuditAllow
  BY <1>1, RecordsAllow
<1>2. CASE Forward
  BY <1>2, RecordsForward
<1>3. CASE Decide
  BY <1>3, RecordsDecide
<1>4. CASE \/ ReadFrame \/ NoteGarbage \/ PollServer \/ Register \/ AuditDeny \/ AnswerError
           \/ EndOfInput \/ ClientWorkerFails
  <2>1. client_pc' \notin {"allow", "forward"} /\ UNCHANGED forwarded
    BY <1>4 DEF ReadFrame, NoteGarbage, PollServer, Register, AuditDeny, AnswerError, EndOfInput,
                ClientWorkerFails, Answer, serverVars
  <2>2. UNCHANGED audit \/ Logged
    BY <1>4, ClientFrame DEF ClientWorker, ClientWorkerMoves
  <2> QED  BY <2>1, <2>2, RecordsKept DEF TypeInv
<1>5. CASE \/ Environment \/ UpstreamWorker \/ UpstreamWorkerFails \/ Main \/ StartOrLogFails
           \/ UNCHANGED vars
  <2>1. UNCHANGED <<forwarded, client_pc, frame>>
    BY <1>5, EnvironmentFrame, UpstreamFrame, MainFrame DEF vars, serverVars, clientVars
  <2>2. UNCHANGED audit \/ Logged
    BY <1>5, EnvironmentFrame, UpstreamFrame, MainLogs DEF vars, auditVars
  <2> QED  BY <2>1, <2>2, RecordsKept DEF TypeInv
<1> QED  BY <1>1, <1>2, <1>3, <1>4, <1>5 DEF Next, Failure, ClientWorker, ClientWorkerMoves

-----------------------------------------------------------------------------
(* The theorems.                                                           *)

\* What every reachable state of a session satisfies.
GatewayInv == TypeInv /\ SessionInv /\ SlotsInv /\ ShownInv /\ AnswersInv /\ RecordsInv

\* The invariants hold at the start.
LEMMA GatewayInvInit == Init => GatewayInv
  BY TypeInit, SessionInit, SlotsInit, ShownInit, AnswersInit, RecordsInit DEF GatewayInv

\* And every step keeps them, each with the help of those before it.
LEMMA GatewayInvStep == GatewayInv /\ [Next]_vars => GatewayInv'
<1> SUFFICES ASSUME GatewayInv, [Next]_vars PROVE GatewayInv'
  OBVIOUS
<1>1. /\ TypeInv /\ Silence /\ WorkersEnd /\ Verdict /\ Earned /\ SlotsInv /\ ShownInv
      /\ AnswersInv /\ RecordsInv
  BY DEF GatewayInv, SessionInv
<1>2. TypeInv'
  BY <1>1, TypeStep
<1>3. Silence' /\ WorkersEnd' /\ Verdict' /\ Earned'
  BY <1>1, SilenceStep, WorkersEndStep, VerdictStep
<1>4. SlotsInv' /\ ShownInv'
  BY <1>1, SlotsStep, ShownStep
<1>5. AnswersInv' /\ RecordsInv'
  BY <1>1, <1>2, AnswersStep, RecordsStep
<1> QED  BY <1>2, <1>3, <1>4, <1>5 DEF GatewayInv, SessionInv

\* They hold in every reachable state of a session: what the theorems below
\* are read off.
THEOREM GatewayInvHolds == Spec => []GatewayInv
  BY GatewayInvInit, GatewayInvStep, PTL DEF Spec

\* The locals of _pump, its workers and the pipes keep their types, whatever
\* the client sends and the server answers.
THEOREM GatewayTypesHold == Spec => []TypeOK
<1>1. GatewayInv => TypeOK
  BY DEF GatewayInv, TypeInv
<1> QED  BY <1>1, GatewayInvHolds, PTL

\* Exit 0 is earned: the server ended by itself after the client did, no frame
\* was turned away, and the log holds the session's start and its end.
THEOREM CleanExitIsEarned == Spec => []CleanExit
<1>1. GatewayInv => CleanExit
  <2> SUFFICES ASSUME GatewayInv, exit_status = 0 PROVE CleanExit
    BY DEF CleanExit
  <2>1. /\ up = "ended" /\ client_done /\ ~turned_away
        /\ \E k \in DOMAIN audit : audit[k].event = "session_end"
    BY DEF GatewayInv, SessionInv, Earned
  <2>2. inbox = <<>>
    BY <2>1 DEF GatewayInv, SessionInv, WorkersEnd
  <2>3. audit # <<>>
    BY <2>1
  <2>4. audit[1].event = "session_start"
    BY <2>3 DEF GatewayInv, SessionInv, Silence
  <2> QED  BY <2>1, <2>2, <2>4 DEF CleanExit
<1> QED  BY <1>1, GatewayInvHolds, PTL

\* When no worker outlasted its join, exit 0 also means that all the server
\* wrote has been dealt with, and nothing was recorded after the session's end.
THEOREM NothingIsLost == Spec => []NothingLost
<1>1. GatewayInv => NothingLost
  BY DEF GatewayInv, SessionInv, Earned, WorkersEnd, NothingLost
<1> QED  BY <1>1, GatewayInvHolds, PTL

\* No list of tools that answers a request of the client names one the policy
\* withholds: the table of requests outstanding still says "list" when the answer
\* is read, unless the server has sent a response it did not owe under that id.
\* Arrays are excepted: the gateway does not look into them.
THEOREM ListsAreFiltered == Spec => []ListsFiltered
<1>1. GatewayInv => ListsFiltered
  BY DEF GatewayInv, ShownInv
<1> QED  BY <1>1, GatewayInvHolds, PTL

\* A slot of the table is held, between two frames, only for a request that is
\* in the pipe, with the server, or answered and not yet read.
THEOREM SlotsOwed == Spec => []SlotsAreOwed
<1>1. GatewayInv => SlotsAreOwed
  <2> SUFFICES ASSUME GatewayInv, client_pc = "read", up = "running", NEW i \in Outstanding
               PROVE  \/ \E k \in DOMAIN requests : requests[k].id = i /\ HasMethod(requests[k])
                      \/ \E f \in serving : f.id = i
                      \/ \E k \in DOMAIN responses : IsResponse(responses[k]) /\ responses[k].id = i
    BY DEF SlotsAreOwed
  <2>1. InPipe(requests, i) \/ InServer(serving, i) \/ InResponses(responses, i)
    BY DEF GatewayInv, SlotsInv, Owed, Held, Outstanding
  <2> QED  BY <2>1 DEF InPipe, InServer, InResponses, Requesting, Responding, IsRequest,
                       IsResponse
<1> QED  BY <1>1, GatewayInvHolds, PTL

\* Every call that reached the server was permitted, and is on record as often
\* as it was forwarded.
THEOREM CallsAreRecorded == Spec => []CallsRecorded
<1>1. GatewayInv => CallsRecorded
  <2> SUFFICES ASSUME GatewayInv, NEW f \in Frames, f.class = "call", Times(forwarded, {f}) > 0
               PROVE  /\ f.tool \in AllowedTools /\ f.args
                      /\ Times(forwarded, {f}) <= Times(audit, {Allowed(f)})
    BY RecordsCounted DEF CallsRecorded
  <2>1. PICK k \in DOMAIN forwarded : forwarded[k] = f
    <3>1. Hits(forwarded, {f}) # {}
      BY FS_EmptySet DEF Times
    <3> QED  BY <3>1 DEF Hits
  <2>2. Permitted(f)
    BY <2>1 DEF GatewayInv, RecordsInv
  <2>3. /\ Times(forwarded, {f}) \in Nat /\ Times(audit, {Allowed(f)}) \in Nat
    BY HitsFinite DEF Times, GatewayInv, TypeInv, TypeOK
  <2>4. Times(forwarded, {f}) + One(client_pc = "forward" /\ frame = f)
          <= Times(audit, {Allowed(f)})
    BY DEF GatewayInv, RecordsInv
  <2>5. One(client_pc = "forward" /\ frame = f) \in {0, 1}
    BY DEF One
  <2> QED  BY <2>2, <2>3, <2>4, <2>5 DEF Permitted
<1> QED  BY <1>1, GatewayInvHolds, PTL

\* No id is answered more often than the client has used it to ask, by the
\* server and the gateway together, unless the server has sent a response under
\* it that it did not owe.
THEOREM NoAnswerIsExtra == Spec => []NoExtraAnswer
<1>1. GatewayInv => NoExtraAnswer
  <2> SUFFICES ASSUME GatewayInv, NEW i \in Ids \ unowed
               PROVE  Times(delivered, Answers(i)) <= Times(received, Asks(i))
    BY AnswersCounted DEF NoExtraAnswer, GatewayInv, TypeInv
  <2>1. /\ Times(delivered, Answers(i)) \in Nat /\ Times(received, Asks(i)) \in Nat
        /\ InHand(i) \in {0, 1} /\ One(OnTheWay(i)) \in {0, 1} /\ PassedOn(i) \in {0, 1}
    BY AnswersNumbers DEF GatewayInv, TypeInv
  <2>2. Times(delivered, Answers(i)) + InHand(i) + One(OnTheWay(i)) + PassedOn(i)
          <= Times(received, Asks(i))
    BY DEF GatewayInv, AnswersInv
  <2> QED  BY <2>1, <2>2
<1> QED  BY <1>1, GatewayInvHolds, PTL
=============================================================================
