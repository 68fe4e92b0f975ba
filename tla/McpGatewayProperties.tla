------------------------ MODULE McpGatewayProperties ------------------------
(***************************************************************************)
(* What a gateway session guarantees its client, its operator and the      *)
(* reader of its audit log.                                                *)
(***************************************************************************)
EXTENDS McpGateway

Events == {"session_start", "session_end", "parse_error", "allow", "deny",
           "tools_filtered", "upstream_nonjson"}

\* The types of _pump's locals, its two workers and the pipes between them.
TypeOK ==
    /\ inbox \in Seq(FrameType) /\ received \in Seq(FrameType) /\ hung_up \in BOOLEAN
    /\ delivered \in Seq(Message)
    /\ up \in {"absent", "running", "ended", "crashed"} /\ stdin_open \in BOOLEAN
    /\ requests \in Seq(FrameType) /\ forwarded \in Seq(FrameType)
    /\ serving \subseteq FrameType /\ responses \in Seq(Message) /\ spoken \in Nat
    /\ unowed \subseteq Ids \union {NoId}
    /\ pending \in [Ids -> {"none", "call", "list", "other"}]
    /\ audit \in Seq([event: Events, about: FrameType \union {NoFrame}])
    /\ audit_open \in BOOLEAN
    /\ client_pc \in {"read", "garbage", "poll", "register", "decide", "deny", "allow",
                      "forward", "answer", "answer_locked", "done", "failed"}
    /\ frame \in FrameType \union {NoFrame}
    /\ upstream_pc \in {"read", "noise", "filtered", "deliver", "done", "failed"}
    /\ message \in Message
    /\ client_done \in BOOLEAN /\ errors \in BOOLEAN /\ turned_away \in BOOLEAN
    /\ main_pc \in {"spawn", "announce", "watch", "recheck", "close_stdin", "wait",
                    "join_upstream", "join_client", "session_end", "judge", "cleanup",
                    "closed", "exited"}
    /\ premature \in BOOLEAN /\ outlasted \in BOOLEAN /\ exit_status \in {0, 2, NoExit}

\* How often P holds along a sequence.
Count(s, P(_)) == Cardinality({k \in DOMAIN s : P(s[k])})

\* Every tools/call that reached the server was permitted, and was recorded as
\* allowed before it got there, once for every time it was forwarded.
CallsRecorded ==
    \A f \in Frames : f.class = "call" =>
        LET sent == Count(forwarded, LAMBDA g : g = f)
        IN sent > 0 => /\ f.tool \in AllowedTools /\ f.args
                       /\ sent <= Count(audit, LAMBDA r : r = [event |-> "allow",
                                                              about |-> f])

\* A list the client asked for names no tool it may not call, whatever ids it
\* reuses while requests are in flight and whatever requests the server makes
\* under the same ids.  Not covered: an array, which is passed on as it is, and
\* an id under which the server sent a response that it did not owe: the first
\* response settles the request, and a later one is taken for none
\* (__init__.py:354-363).
ListsFiltered ==
    \A k \in DOMAIN delivered :
        \/ delivered[k].tools \subseteq AllowedTools
        \/ delivered[k].class = "batch" \/ delivered[k].id \in unowed

\* A client that counts its requests is never answered more often than it asked
\* by the gateway and a server that sends no response it does not owe.
NoExtraAnswer ==
    \A i \in Ids \ unowed :
        Count(delivered, LAMBDA m : m.class \in {"response", "error"} /\ m.id = i)
            <= Count(received, LAMBDA f : IsRequest(f) /\ f.id = i)

\* Between two frames, an id is outstanding only for a request the server still
\* owes an answer, or whose answer is on its way: refused calls and settled
\* requests give their slot back, so MaxPending bounds requests really in flight.
SlotsAreOwed ==
    client_pc = "read" /\ up = "running" =>
        \A i \in Outstanding :
            \/ \E k \in DOMAIN requests : requests[k].id = i /\ HasMethod(requests[k])
            \/ \E f \in serving : f.id = i
            \/ \E k \in DOMAIN responses : IsResponse(responses[k]) /\ responses[k].id = i

\* Exit 0 is earned: the server exited cleanly and only after the client had
\* closed its end, no frame met a dead server, and both ends of the session are
\* on record.
CleanExit ==
    exit_status = 0 =>
        /\ up = "ended" /\ client_done /\ inbox = <<>> /\ ~turned_away
        /\ audit[1].event = "session_start"
        /\ \E k \in DOMAIN audit : audit[k].event = "session_end"

\* Unless a worker outlasts its join, exit 0 also means that everything the
\* server wrote has been dealt with, and that the log ends with the session.
NothingLost ==
    exit_status = 0 /\ ~outlasted =>
        /\ responses = <<>> /\ upstream_pc = "done"
        /\ audit[Len(audit)].event = "session_end"

\* The session ends when the server does or a worker fails, even if the client
\* stays silent or the worker is stuck in a write (__init__.py:389-411).
EndsWithServer ==
    (main_pc = "watch" /\ (up # "running" \/ errors)) ~> main_pc = "exited"

\* The client's worker is writing to the server or the client.
Writing == client_pc \in {"forward", "answer", "answer_locked"}

\* The session ends when the client hangs up, even if the server goes on and
\* stays silent, unless a write of the client's worker blocks for good.
EndsWithClient ==
    []<>~Writing => ((main_pc = "watch" /\ hung_up) ~> main_pc = "exited")

-----------------------------------------------------------------------------
\* __init__.py:408 "Join the workers before audit.close() so no worker writes
\* or fails into a closing log".
NoWriteIntoClosedLog ==
    [][(client_pc \in {"garbage", "deny", "allow"} /\ client_pc' = "failed")
        => audit_open]_vars
=============================================================================
