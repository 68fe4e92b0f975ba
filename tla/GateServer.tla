----------------------------- MODULE GateServer -----------------------------
(***************************************************************************)
(* `exitzero plugin mcp-gate` (plugin-mcp-gate): an agent asks over stdio  *)
(* whether its work is complete.  One loop reads a frame, answers it and   *)
(* flushes; the one tool runs the gate.  The client may stop listening at  *)
(* any time.                                                               *)
(***************************************************************************)
EXTENDS Checkout

CONSTANT MaxFrames   (* bound on what the client sends *)

ASSUME ServerAssumption == MaxFrames \in Nat

VARIABLES
  sent,      (* the classes of the frames the client has written            *)
  closed,    (* it has closed stdin                                         *)
  taken,     (* frames the loop has read                                    *)
  asked,     (* history: receipts there were when it read the last one      *)
  answers,   (* what it has written: the frame, the kind, the verdict       *)
  server     (* its step or its exit code                                   *)

serverVars == <<sent, closed, taken, asked, answers, server>>

\* junk: no JSON, or no object; note: no id; plain: initialize, ping and
\* tools/list; refused: ill-typed ids and methods, unknown methods and tools;
\* check: a call of check_completion; huge: above the frame limit.
FrameClasses == {"junk", "note", "plain", "refused", "check", "huge"}

ServerInit ==
    /\ sent = <<>> /\ closed = FALSE
    /\ taken = 0 /\ asked = 0 /\ answers = <<>> /\ server = "reading"

-----------------------------------------------------------------------------
(* The client.                                                             *)

Send(class) ==
    /\ ~closed /\ Len(sent) < MaxFrames
    /\ sent' = Append(sent, class)
    /\ UNCHANGED <<checkoutVars, closed, taken, asked, answers, server>>

CloseStdin ==
    /\ ~closed /\ closed' = TRUE
    /\ UNCHANGED <<checkoutVars, sent, taken, asked, answers, server>>

-----------------------------------------------------------------------------
(* The server.                                                             *)

\* A frame too long ends the session; a notification is accepted and ignored;
\* a check starts a run; the rest is answered as it is.
ReadFrame ==
    /\ server = "reading" /\ taken < Len(sent)
    /\ taken' = taken + 1
    /\ asked' = Len(runs)
    /\ LET class == sent[taken']
       IN /\ server' = CASE class = "huge" -> "exit2"
                         [] class = "note" -> "reading"
                         [] class = "check" -> "calling"
                         [] OTHER -> "answering"
          /\ gate' = IF class = "check" THEN [NoRun EXCEPT !.stage = "called"] ELSE gate
    /\ UNCHANGED <<sourceVars, runs, pruned, sync, edits, sent, closed, answers>>

\* Written and flushed; a client that no longer reads is a broken pipe, which
\* nothing on the way up to main takes for anything but an error.
Write(answer) ==
    \/ answers' = Append(answers, answer) /\ server' = "reading"
    \/ server' = "exit2" /\ UNCHANGED answers

Plain(kind) == [frame |-> taken, kind |-> kind, code |-> 0, ref |-> 0, asked |-> asked]

Answer ==
    /\ server = "answering"
    /\ Write(Plain(IF sent[taken] = "plain" THEN "result" ELSE "error"))
    /\ UNCHANGED <<checkoutVars, sent, closed, taken, asked>>

\* Fault: the verdict is sent before the run has stored its receipt.
ToolResultEarly ==
    /\ server = "calling" /\ gate.stage \in {"checked", "done"}
    /\ Write([Plain(IF gate.code = 2 THEN "tool_error" ELSE "verdict")
                 EXCEPT !.code = gate.code, !.ref = gate.ref])
    /\ gate' = NoRun
    /\ UNCHANGED <<sourceVars, runs, pruned, sync, edits, sent, closed, taken, asked>>

\* Only an operational error, a lost receipt included, is a tool error.
ToolResult ==
    /\ server = "calling" /\ gate.stage = "done"
    /\ Write([Plain(IF gate.code = 2 THEN "tool_error" ELSE "verdict")
                 EXCEPT !.code = gate.code, !.ref = gate.ref])
    /\ gate' = NoRun
    /\ UNCHANGED <<sourceVars, runs, pruned, sync, edits, sent, closed, taken, asked>>

\* A run that raises before it has a receipt is answered too.
GateRaises ==
    /\ server = "calling" /\ gate.stage # "done"
    /\ Write(Plain("error"))
    /\ gate' = NoRun
    /\ UNCHANGED <<sourceVars, runs, pruned, sync, edits, sent, closed, taken, asked>>

EndOfInput ==
    /\ server = "reading" /\ closed /\ taken = Len(sent)
    /\ server' = "exit0"
    /\ UNCHANGED <<checkoutVars, sent, closed, taken, asked, answers>>

ServerSteps == ReadFrame \/ Answer \/ ToolResult \/ GateRaises \/ EndOfInput

ClientSteps == (\E c \in FrameClasses : Send(c)) \/ CloseStdin

ServerTypes ==
    /\ \A n \in DOMAIN sent : sent[n] \in FrameClasses
    /\ Len(sent) <= MaxFrames
    /\ closed \in BOOLEAN
    /\ taken \in 0..Len(sent) /\ asked \in 0..Len(runs)
    /\ \A n \in DOMAIN answers :
          /\ answers[n].frame \in 1..taken /\ answers[n].code \in 0..2
          /\ answers[n].kind \in {"result", "error", "verdict", "tool_error"}
    /\ server \in {"reading", "answering", "calling", "exit0", "exit2"}
    /\ (server = "calling") = (gate.stage # "idle")
=============================================================================
