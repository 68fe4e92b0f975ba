----------------------------- MODULE McpGateway -----------------------------
(***************************************************************************)
(* One session of the stdio MCP gateway (plugin-mcp-gateway, `_serve` and  *)
(* `_pump`): a worker thread per direction between a client and an         *)
(* upstream server process, and the main thread, which watches for the end *)
(* of the session, shuts the server down and judges the exit code.         *)
(*                                                                         *)
(* The client and the server are the environment: the client sends any     *)
(* frames, reuses ids and may stay silent forever; the server answers the  *)
(* requests it has read, or sends what nobody asked for: requests of its   *)
(* own, noise, responses under any id, whole arrays.  It may stop reading, *)
(* and die at any moment.  Threads interleave between any two of the       *)
(* gateway's reads and writes, and a write may block.                      *)
(***************************************************************************)
EXTENDS Naturals, Sequences, FiniteSets

CONSTANTS
  Ids,           (* JSON-RPC request ids                                    *)
  Tools,         (* the tools the server offers                             *)
  AllowedTools,  (* those the policy's allow and deny patterns let through  *)
  Frames,        (* the frames a client may send                            *)
  NoId, NoTool, NoFrame, (* an absent id, tool name, message                *)
  MaxPending,    (* outstanding requests (1024 in the code)                 *)
  MaxFrames, MaxSpoken   (* bounds on what client and server send unasked   *)

\* What a client's line parses to; args says whether the argument rules of
\* the tool accept the call.
FrameType == [class: {"garbage", "badid", "call", "list", "other", "reply"},
              id: Ids \union {NoId}, tool: Tools \union {NoTool}, args: BOOLEAN]

\* What the gateway writes to the client and the server writes to the gateway:
\* a response with the tools it lists, the server's own request, a JSON array of
\* messages with the tools its lists name, or an error.
Message == [class: {"response", "request", "batch", "nonjson", "error"},
            id: Ids \union {NoId}, tools: SUBSET Tools]

\* What a server may send unasked.
Unasked ==
    {m \in Message :
        /\ m.class # "error"
        /\ m.class \in {"nonjson", "batch"} => m.id = NoId
        /\ m.class = "request" => m.id # NoId
        /\ m.tools = IF m.class \in {"response", "batch"} THEN Tools ELSE {}}

ASSUME GatewayAssumption ==
    /\ AllowedTools \subseteq Tools
    /\ Frames \subseteq FrameType
    /\ NoId \notin Ids /\ NoTool \notin Tools /\ NoFrame \notin Frames
    /\ MaxPending \in Nat /\ MaxFrames \in Nat /\ MaxSpoken \in Nat

VARIABLES
  inbox,        (* frames the client has written and nobody has read        *)
  received,     (* history: the frames read by the client's worker          *)
  hung_up,      (* the client has closed its end                            *)
  delivered,    (* what the client has been written                         *)
  up,           (* the server process                                       *)
  stdin_open,   (* its stdin, as far as the gateway is concerned            *)
  requests,     (* frames in the pipe to the server                         *)
  forwarded,    (* history: every frame ever written to it                  *)
  serving,      (* requests the server has read and not answered            *)
  responses,    (* messages in the pipe from the server                     *)
  spoken,       (* messages the server has sent unasked                     *)
  unowed,       (* history: the ids of responses among these                *)
  pending,      (* the gateway's outstanding requests, by id                *)
  audit,        (* the audit log                                            *)
  audit_open,
  client_pc, frame,      (* the client's worker and the frame it handles    *)
  upstream_pc, message,  (* the server's worker and its message             *)
  client_done,  (* the event the client's worker sets at end of file        *)
  errors,       (* a worker has failed                                      *)
  turned_away,  (* history: a frame met a dead server                       *)
  main_pc, premature, exit_status,
  outlasted     (* history: a worker was still at work when its join timed out *)

pipeVars == <<inbox, received, hung_up>>
unaskedVars == <<spoken, unowed>>
serverVars == <<up, stdin_open, requests, forwarded, serving, responses, unaskedVars>>
auditVars == <<audit, audit_open>>
clientVars == <<client_pc, frame, client_done, turned_away>>
upstreamVars == <<upstream_pc, message>>
judgeVars == <<premature, exit_status, outlasted>>
mainVars == <<main_pc, judgeVars>>
vars == <<pipeVars, delivered, serverVars, pending, auditVars, clientVars,
          upstreamVars, errors, mainVars>>

NoExit == 3
Idle == [class |-> "nonjson", id |-> NoId, tools |-> {}]

Init ==
    /\ inbox = <<>> /\ received = <<>> /\ hung_up = FALSE /\ delivered = <<>>
    /\ up = "absent" /\ stdin_open = FALSE
    /\ requests = <<>> /\ forwarded = <<>> /\ serving = {} /\ responses = <<>>
    /\ spoken = 0 /\ unowed = {}
    /\ pending = [i \in Ids |-> "none"]
    /\ audit = <<>> /\ audit_open = TRUE
    /\ client_pc = "read" /\ frame = NoFrame
    /\ upstream_pc = "read" /\ message = Idle
    /\ client_done = FALSE /\ errors = FALSE /\ turned_away = FALSE
    /\ main_pc = "spawn" /\ premature = FALSE /\ exit_status = NoExit
    /\ outlasted = FALSE

\* The workers are started once the session is on record, and exist until the
\* process exits.
Threads == audit # <<>> /\ main_pc # "exited"

Log(event, about) == audit' = Append(audit, [event |-> event, about |-> about])

-----------------------------------------------------------------------------
(* The client and the server.                                              *)

ClientSends(f) ==
    /\ ~hung_up /\ Len(received) + Len(inbox) < MaxFrames
    /\ inbox' = Append(inbox, f)
    /\ UNCHANGED <<received, hung_up, delivered, serverVars, pending, auditVars,
                   clientVars, upstreamVars, errors, mainVars>>

ClientCloses ==
    /\ ~hung_up /\ hung_up' = TRUE
    /\ UNCHANGED <<inbox, received, delivered, serverVars, pending, auditVars, clientVars,
                   upstreamVars, errors, mainVars>>

HasMethod(f) == f.class \in {"call", "list", "other"}
IsRequest(f) == HasMethod(f) /\ f.id # NoId

ServerReads ==
    /\ up = "running" /\ requests # <<>>
    /\ requests' = Tail(requests)
    /\ serving' = IF IsRequest(Head(requests)) THEN serving \union {Head(requests)}
                  ELSE serving
    /\ UNCHANGED <<pipeVars, delivered, up, stdin_open, forwarded, responses, unaskedVars,
                   pending, auditVars, clientVars, upstreamVars, errors, mainVars>>

ServerAnswers(f) ==
    /\ up = "running" /\ f \in serving
    /\ serving' = serving \ {f}
    /\ responses' = Append(responses, [class |-> "response", id |-> f.id,
                                       tools |-> IF f.class = "list" THEN Tools ELSE {}])
    /\ UNCHANGED <<pipeVars, delivered, up, stdin_open, requests, forwarded, unaskedVars,
                   pending, auditVars, clientVars, upstreamVars, errors, mainVars>>

\* A request of its own, whose id may be one the client is using, noise, a
\* response that it does not owe, now or any more, or an array.
ServerSpeaks(m) ==
    /\ up = "running" /\ spoken < MaxSpoken
    /\ spoken' = spoken + 1
    /\ responses' = Append(responses, m)
    /\ unowed' = IF m.class = "response" THEN unowed \union {m.id} ELSE unowed
    /\ UNCHANGED <<pipeVars, delivered, up, stdin_open, requests, forwarded, serving,
                   pending, auditVars, clientVars, upstreamVars, errors, mainVars>>

\* "ended" is exit code 0, "crashed" any other.
ServerExits(how) ==
    /\ up = "running" /\ up' = how
    /\ UNCHANGED <<pipeVars, delivered, stdin_open, requests, forwarded, serving,
                   responses, unaskedVars, pending, auditVars, clientVars, upstreamVars,
                   errors, mainVars>>

-----------------------------------------------------------------------------
(* pump_client and _handle_client_line.                                    *)

ReadFrame ==
    /\ Threads /\ client_pc = "read" /\ inbox # <<>>
    /\ frame' = Head(inbox)
    /\ inbox' = Tail(inbox) /\ received' = Append(received, Head(inbox))
    /\ client_pc' = CASE Head(inbox).class = "garbage" -> "garbage"
                      [] Head(inbox).class = "badid" -> "answer"
                      [] OTHER -> "poll"
    /\ UNCHANGED <<hung_up, delivered, serverVars, pending, auditVars, client_done,
                   turned_away, upstreamVars, errors, mainVars>>

NoteGarbage ==
    /\ Threads /\ client_pc = "garbage" /\ audit_open
    /\ Log("parse_error", NoFrame)
    /\ client_pc' = "answer"
    /\ UNCHANGED <<pipeVars, delivered, serverVars, pending, audit_open, frame,
                   client_done, turned_away, upstreamVars, errors, mainVars>>

\* Only a request is answered; anything else is dropped without a word.
Answer(f) == IF IsRequest(f) THEN "answer" ELSE "read"

\* Fault: a dead server is answered for and written to.
PollServerAndGoOn ==
    /\ Threads /\ client_pc = "poll"
    /\ client_pc' = "register"
    /\ IF up # "running" /\ IsRequest(frame)
       THEN delivered' = Append(delivered, [class |-> "error", id |-> frame.id, tools |-> {}])
       ELSE UNCHANGED delivered
    /\ turned_away' = (turned_away \/ up # "running")
    /\ UNCHANGED <<pipeVars, serverVars, pending, auditVars, frame,
                   client_done, upstreamVars, errors, mainVars>>

PollServer ==
    /\ Threads /\ client_pc = "poll"
    /\ client_pc' = IF up = "running" THEN "register" ELSE Answer(frame)
    /\ turned_away' = (turned_away \/ up # "running")
    /\ UNCHANGED <<pipeVars, delivered, serverVars, pending, auditVars, frame,
                   client_done, upstreamVars, errors, mainVars>>

Outstanding == {i \in Ids : pending[i] # "none"}

\* Fault: an id already in flight is registered again.
AcceptsAnyId(f) == Cardinality(Outstanding) < MaxPending

Accepts(f) == pending[f.id] = "none" /\ Cardinality(Outstanding) < MaxPending

\* A refused id is answered before the lock is given back.
Register ==
    /\ Threads /\ client_pc = "register"
    /\ \/ /\ ~IsRequest(frame)
          /\ client_pc' = "decide" /\ UNCHANGED pending
       \/ /\ IsRequest(frame) /\ Accepts(frame)
          /\ pending' = [pending EXCEPT ![frame.id] = frame.class]
          /\ client_pc' = "decide"
       \/ /\ IsRequest(frame) /\ ~Accepts(frame)
          /\ client_pc' = "answer_locked" /\ UNCHANGED pending
    /\ UNCHANGED <<pipeVars, delivered, serverVars, auditVars, frame, client_done,
                   turned_away, upstreamVars, errors, mainVars>>

\* Fault: a refused call keeps its slot.
KeepRegistered(f) == UNCHANGED pending

Unregister(f) ==
    IF IsRequest(f) THEN pending' = [pending EXCEPT ![f.id] = "none"]
    ELSE UNCHANGED pending

\* Fault: the argument rules are not consulted.
PermittedByName(f) == f.tool \in AllowedTools

\* Deny wins over allow; the argument rules are consulted last.
Permitted(f) == f.tool \in AllowedTools /\ f.args

Decide ==
    /\ Threads /\ client_pc = "decide"
    /\ \/ /\ frame.class # "call"
          /\ client_pc' = "forward" /\ UNCHANGED pending
       \/ /\ frame.class = "call" /\ frame.tool = NoTool
          /\ Unregister(frame) /\ client_pc' = Answer(frame)
       \/ /\ frame.class = "call" /\ frame.tool # NoTool /\ ~Permitted(frame)
          /\ Unregister(frame) /\ client_pc' = "deny"
       \/ /\ frame.class = "call" /\ frame.tool # NoTool /\ Permitted(frame)
          /\ client_pc' = "allow" /\ UNCHANGED pending
    /\ UNCHANGED <<pipeVars, delivered, serverVars, auditVars, frame, client_done,
                   turned_away, upstreamVars, errors, mainVars>>

AuditDeny ==
    /\ Threads /\ client_pc = "deny" /\ audit_open
    /\ Log("deny", frame)
    /\ client_pc' = Answer(frame)
    /\ UNCHANGED <<pipeVars, delivered, serverVars, pending, audit_open, frame,
                   client_done, turned_away, upstreamVars, errors, mainVars>>

\* Fault: the call is forwarded without a record.
AllowUnrecorded ==
    /\ Threads /\ client_pc = "allow" /\ audit_open
    /\ client_pc' = "forward"
    /\ UNCHANGED <<pipeVars, delivered, serverVars, pending, auditVars, frame,
                   client_done, turned_away, upstreamVars, errors, mainVars>>

AuditAllow ==
    /\ Threads /\ client_pc = "allow" /\ audit_open
    /\ Log("allow", frame)
    /\ client_pc' = "forward"
    /\ UNCHANGED <<pipeVars, delivered, serverVars, pending, audit_open, frame,
                   client_done, turned_away, upstreamVars, errors, mainVars>>

\* A server that died, or a pipe already closed, fails the worker instead.  The
\* write has no timeout: it may block for as long as a living server does not
\* read, and so may the answers to a client that does not.
Forward ==
    /\ Threads /\ client_pc = "forward" /\ stdin_open /\ up = "running"
    /\ requests' = Append(requests, frame) /\ forwarded' = Append(forwarded, frame)
    /\ client_pc' = "read"
    /\ UNCHANGED <<pipeVars, delivered, up, stdin_open, serving, responses, unaskedVars,
                   pending, auditVars, frame, client_done, turned_away, upstreamVars,
                   errors, mainVars>>

\* The error answer to the frame at hand.
AnswerError ==
    /\ Threads /\ client_pc \in {"answer", "answer_locked"}
    /\ delivered' = Append(delivered, [class |-> "error", tools |-> {},
                                       id |-> IF IsRequest(frame) THEN frame.id ELSE NoId])
    /\ client_pc' = "read"
    /\ UNCHANGED <<pipeVars, serverVars, pending, auditVars, frame, client_done,
                   turned_away, upstreamVars, errors, mainVars>>

\* Fault: the end of the client's input is not announced.
EndOfInputUnnoticed ==
    /\ Threads /\ client_pc = "read" /\ inbox = <<>> /\ hung_up
    /\ client_pc' = "done"
    /\ UNCHANGED <<pipeVars, delivered, serverVars, pending, auditVars, frame, client_done,
                   turned_away, upstreamVars, errors, mainVars>>

EndOfInput ==
    /\ Threads /\ client_pc = "read" /\ inbox = <<>> /\ hung_up
    /\ client_pc' = "done" /\ client_done' = TRUE
    /\ UNCHANGED <<pipeVars, delivered, serverVars, pending, auditVars, frame, turned_away,
                   upstreamVars, errors, mainVars>>

\* An oversized frame, a failed read or write, a log already closed.
ClientWorkerFails ==
    /\ Threads
    /\ client_pc \in {"read", "garbage", "deny", "allow", "forward", "answer",
                      "answer_locked"}
    /\ client_pc' = "failed" /\ errors' = TRUE
    /\ UNCHANGED <<pipeVars, delivered, serverVars, pending, auditVars, frame, client_done,
                   turned_away, upstreamVars, mainVars>>

-----------------------------------------------------------------------------
(* pump_upstream.                                                          *)

\* Fault: whatever carries an id is taken for a response.
IsResponseById(m) == m.id # NoId

\* The server's own requests reuse the client's ids and settle nothing.
IsResponse(m) == m.class = "response"

ReadMessage ==
    /\ Threads /\ upstream_pc = "read" /\ responses # <<>>
    /\ client_pc # "answer_locked"
    /\ responses' = Tail(responses)
    /\ LET m == Head(responses)
           listed == IsResponse(m) /\ m.id # NoId /\ pending[m.id] = "list"
           drops == listed /\ ~(m.tools \subseteq AllowedTools)
       IN /\ message' = IF drops THEN [m EXCEPT !.tools = @ \intersect AllowedTools] ELSE m
          /\ pending' = IF IsResponse(m) /\ m.id # NoId
                        THEN [pending EXCEPT ![m.id] = "none"] ELSE pending
          /\ upstream_pc' = CASE m.class = "nonjson" -> "noise" [] drops -> "filtered"
                              [] OTHER -> "deliver"
    /\ UNCHANGED <<pipeVars, delivered, up, stdin_open, requests, forwarded, serving, unaskedVars,
                   auditVars, clientVars, errors, mainVars>>

\* Noise is recorded and dropped; a shortened list is recorded and passed on.
RecordMessage ==
    /\ Threads /\ audit_open
    /\ \/ /\ upstream_pc = "noise" /\ Log("upstream_nonjson", NoFrame)
          /\ upstream_pc' = "read"
       \/ /\ upstream_pc = "filtered" /\ Log("tools_filtered", NoFrame)
          /\ upstream_pc' = "deliver"
    /\ UNCHANGED <<pipeVars, delivered, serverVars, pending, audit_open, clientVars,
                   message, errors, mainVars>>

Deliver ==
    /\ Threads /\ upstream_pc = "deliver"
    /\ delivered' = Append(delivered, message)
    /\ upstream_pc' = "read"
    /\ UNCHANGED <<pipeVars, serverVars, pending, auditVars, clientVars, message, errors,
                   mainVars>>

EndOfOutput ==
    /\ Threads /\ upstream_pc = "read" /\ responses = <<>> /\ up # "running"
    /\ upstream_pc' = "done"
    /\ UNCHANGED <<pipeVars, delivered, serverVars, pending, auditVars, clientVars, message,
                   errors, mainVars>>

UpstreamWorkerFails ==
    /\ Threads /\ upstream_pc \in {"read", "noise", "filtered", "deliver"}
    /\ upstream_pc' = "failed" /\ errors' = TRUE
    /\ UNCHANGED <<pipeVars, delivered, serverVars, pending, auditVars, clientVars, message,
                   mainVars>>

-----------------------------------------------------------------------------
(* _serve and the main thread of _pump.                                    *)

Spawn ==
    /\ main_pc = "spawn"
    /\ up' = "running" /\ stdin_open' = TRUE
    /\ main_pc' = "announce"
    /\ UNCHANGED <<pipeVars, delivered, requests, forwarded, serving, responses, unaskedVars,
                   pending, auditVars, clientVars, upstreamVars, errors, judgeVars>>

Announce ==
    /\ main_pc = "announce"
    /\ Log("session_start", NoFrame)
    /\ main_pc' = "watch"
    /\ UNCHANGED <<pipeVars, delivered, serverVars, pending, audit_open, clientVars,
                   upstreamVars, errors, judgeVars>>

\* The server cannot be spawned, or a record of the session cannot be written.
StartOrLogFails ==
    /\ main_pc \in {"spawn", "announce", "session_end"}
    /\ exit_status' = 2 /\ main_pc' = "cleanup"
    /\ UNCHANGED <<pipeVars, delivered, serverVars, pending, auditVars, clientVars,
                   upstreamVars, errors, premature, outlasted>>

LeaveWatch ==
    /\ main_pc = "watch"
    /\ client_done \/ up # "running" \/ errors
    /\ main_pc' = "recheck"
    /\ UNCHANGED <<pipeVars, delivered, serverVars, pending, auditVars, clientVars,
                   upstreamVars, errors, judgeVars>>

\* Fault: the end of the client's input hides the server's.
RecheckUnlessClientDone ==
    /\ main_pc = "recheck"
    /\ premature' = (up # "running" /\ ~client_done)
    /\ main_pc' = "close_stdin"
    /\ UNCHANGED <<pipeVars, delivered, serverVars, pending, auditVars, clientVars,
                   upstreamVars, errors, exit_status, outlasted>>

\* "A client-EOF win can still hide an upstream that died first."
Recheck ==
    /\ main_pc = "recheck"
    /\ premature' = (up # "running")
    /\ main_pc' = "close_stdin"
    /\ UNCHANGED <<pipeVars, delivered, serverVars, pending, auditVars, clientVars,
                   upstreamVars, errors, exit_status, outlasted>>

CloseStdin ==
    /\ main_pc = "close_stdin"
    /\ stdin_open' = FALSE
    /\ main_pc' = "wait"
    /\ UNCHANGED <<pipeVars, delivered, up, requests, forwarded, serving, responses, unaskedVars,
                   pending, auditVars, clientVars, upstreamVars, errors, judgeVars>>

\* The server exits by itself within the timeout, or is killed.
WaitForServer ==
    /\ main_pc = "wait"
    /\ \/ up # "running" /\ UNCHANGED up
       \/ up = "running" /\ up' = "crashed"
    /\ main_pc' = "join_upstream"
    /\ UNCHANGED <<pipeVars, delivered, stdin_open, requests, forwarded, serving, responses,
                   unaskedVars, pending, auditVars, clientVars, upstreamVars, errors, judgeVars>>

Finished(pc) == pc \in {"done", "failed"}

\* Fault: the server's worker is not waited for.
SkipJoinUpstream ==
    /\ main_pc = "join_upstream"
    /\ main_pc' = "join_client"
    /\ UNCHANGED <<pipeVars, delivered, serverVars, pending, auditVars, clientVars,
                   upstreamVars, errors, judgeVars>>

JoinUpstream ==
    /\ main_pc = "join_upstream"
    /\ outlasted' = ~Finished(upstream_pc)
    /\ main_pc' = "join_client"
    /\ UNCHANGED <<pipeVars, delivered, serverVars, pending, auditVars, clientVars,
                   upstreamVars, errors, premature, exit_status>>

\* Fault: the join has no timeout.
JoinClientForever ==
    /\ main_pc = "join_client"
    /\ Finished(client_pc)
    /\ main_pc' = "session_end"
    /\ UNCHANGED <<pipeVars, delivered, serverVars, pending, auditVars, clientVars,
                   upstreamVars, errors, judgeVars>>

\* Each join has a timeout; a worker may outlast it, and one blocked on a silent
\* client always does.
JoinClient ==
    /\ main_pc = "join_client"
    /\ outlasted' = (outlasted \/ ~Finished(client_pc))
    /\ main_pc' = "session_end"
    /\ UNCHANGED <<pipeVars, delivered, serverVars, pending, auditVars, clientVars,
                   upstreamVars, errors, premature, exit_status>>

EndSession ==
    /\ main_pc = "session_end"
    /\ Log("session_end", NoFrame)
    /\ main_pc' = "judge"
    /\ UNCHANGED <<pipeVars, delivered, serverVars, pending, audit_open, clientVars,
                   upstreamVars, errors, judgeVars>>

Clean == ~errors /\ ~premature /\ up = "ended"

\* Fault: the server's exit code becomes the gateway's.
JudgeWithServerCode ==
    /\ main_pc = "judge"
    /\ exit_status' = IF Clean THEN 0 ELSE IF up = "crashed" THEN 1 ELSE 2
    /\ main_pc' = "cleanup"
    /\ UNCHANGED <<pipeVars, delivered, serverVars, pending, auditVars, clientVars,
                   upstreamVars, errors, premature, outlasted>>

Judge ==
    /\ main_pc = "judge"
    /\ exit_status' = IF Clean THEN 0 ELSE 2
    /\ main_pc' = "cleanup"
    /\ UNCHANGED <<pipeVars, delivered, serverVars, pending, auditVars, clientVars,
                   upstreamVars, errors, premature, outlasted>>

\* The pipes are closed and a server still running is killed, then the log.
Cleanup ==
    /\ main_pc = "cleanup"
    /\ up' = IF up = "running" THEN "crashed" ELSE up
    /\ stdin_open' = FALSE /\ audit_open' = FALSE
    /\ main_pc' = "closed"
    /\ UNCHANGED <<pipeVars, delivered, requests, forwarded, serving, responses, unaskedVars,
                   pending, audit, clientVars, upstreamVars, errors, judgeVars>>

\* The daemon threads die with the process.
Exit ==
    /\ main_pc = "closed"
    /\ main_pc' = "exited"
    /\ UNCHANGED <<pipeVars, delivered, serverVars, pending, auditVars, clientVars,
                   upstreamVars, errors, judgeVars>>

-----------------------------------------------------------------------------
Environment ==
    \/ \E f \in Frames : ClientSends(f)
    \/ ClientCloses \/ ServerReads
    \/ \E f \in serving : ServerAnswers(f)
    \/ \E m \in Unasked : ServerSpeaks(m)
    \/ \E how \in {"ended", "crashed"} : ServerExits(how)

\* What the client's worker does without writing into a pipe.
ClientWorkerMoves ==
    \/ ReadFrame \/ NoteGarbage \/ PollServer \/ Register \/ Decide \/ AuditDeny
    \/ AuditAllow \/ EndOfInput

ClientWorker == ClientWorkerMoves \/ Forward \/ AnswerError

UpstreamWorker == ReadMessage \/ RecordMessage \/ Deliver \/ EndOfOutput

Main ==
    \/ Spawn \/ Announce \/ LeaveWatch \/ Recheck \/ CloseStdin \/ WaitForServer
    \/ JoinUpstream \/ JoinClient \/ EndSession \/ Judge \/ Cleanup \/ Exit

Failure == StartOrLogFails \/ ClientWorkerFails \/ UpstreamWorkerFails

Next == Environment \/ ClientWorker \/ UpstreamWorker \/ Main \/ Failure

Spec == Init /\ [][Next]_vars

\* The main thread only ever waits with a timeout.  The client's worker is
\* scheduled; a write of its own into a pipe may block for good.
FairSpec == Spec /\ WF_vars(Main) /\ WF_vars(ClientWorkerMoves)
=============================================================================
