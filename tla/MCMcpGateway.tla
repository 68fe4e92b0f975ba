---------------------------- MODULE MCMcpGateway ----------------------------
(***************************************************************************)
(* Small instances of the gateway: two tools, one of them allowed, and a   *)
(* client that reuses its ids.                                             *)
(***************************************************************************)
EXTENDS McpGatewayProperties

CONSTANTS read_file, exec, no_id, no_tool, no_frame

MCTools == {read_file, exec}
MCAllowed == {read_file}
OneId == {1}
TwoIds == {1, 2}

Call(i, tool, args) == [class |-> "call", id |-> i, tool |-> tool, args |-> args]
Plain(class, i) == [class |-> class, id |-> i, tool |-> no_tool, args |-> TRUE]

\* Calls and a list that fight over one id.
Frames1 ==
    {Call(1, read_file, TRUE), Call(1, exec, TRUE), Plain("call", 1), Plain("list", 1)}

\* What is never answered, and what only the argument rules, the type of its id
\* or its form turn away.
Frames2 ==
    {Call(no_id, exec, TRUE), Call(no_id, read_file, TRUE), Call(1, read_file, FALSE),
     Plain("other", no_id), Plain("reply", 1), Plain("list", 1), Plain("badid", no_id),
     Plain("garbage", no_id)}

\* The same with a call under a second id, to fill the table of outstanding
\* requests.
Frames3 == (Frames2 \ {Plain("list", 1)}) \union {Call(2, read_file, TRUE)}

\* A call that passes, one that does not, and a line that is no message.
FewFrames == {Call(1, read_file, TRUE), Call(1, exec, TRUE), Plain("garbage", no_id)}
=============================================================================
