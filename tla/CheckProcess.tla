---------------------------- MODULE CheckProcess ----------------------------
(***************************************************************************)
(* A check that runs a program: plugin-verify's `command`, and its         *)
(* `agentwarden.audit` and `agentwarden.scan`, which first ask the program *)
(* for its version and then for a report that must cover, item by item,    *)
(* what is selected once the program is gone.                              *)
(*                                                                         *)
(* The program is the environment: it writes what it likes for as long as  *)
(* it likes, closes its ends early, leaves a helper behind that keeps them *)
(* open, exits with any code or never, and others edit the selection while *)
(* it runs.  Output is counted in chunks, and a pipe holds one.            *)
(***************************************************************************)
EXTENDS Naturals, FiniteSets

CONSTANTS
  Items,      (* files a scan may select, or entries a lock may have        *)
  Initial,    (* selections a behaviour may start from                      *)
  MaxOutput,  (* chunks of a stream that are accepted (1 MiB in the code)   *)
  MaxEdits    (* bound on changes of the selection                          *)

ASSUME ProcessAssumption ==
    Initial \subseteq SUBSET Items /\ MaxOutput \in Nat \ {0} /\ MaxEdits \in Nat

Kinds == {"command", "audit", "scan"}
Streams == {"stdout", "stderr"}

\* What the output reads as so far; a report names the items it covers and says
\* whether all of them passed.  Whatever else it may be is garbled, a report
\* about nothing included, since there is never nothing to cover.
Reports == [form: {"report"}, covers: SUBSET Items \ {{}}, passed: BOOLEAN]
Plain(form) == [form |-> form, covers |-> {}, passed |-> FALSE]
Texts == {Plain(form) : form \in {"empty", "partial", "garbled", "version"}} \union Reports

VARIABLES
  selection,  (* what the patterns select, or the lock lists, at this moment *)
  edits,
  kind,       (* the kind of the check                                      *)
  pc,         (* where the check is                                         *)
  round,      (* what the program was started for                           *)
  targets,    (* the items named on its command line                        *)
  streams,    (* the pipes still watched                                    *)
  total,      (* per pipe, the chunks read                                  *)
  timed_out, output_overflow,
  expired,    (* the deadline has passed                                    *)
  grace_over, (* and so has the second granted after a kill                 *)
  outcome,    (* the check's verdict, "none" before there is one            *)
  child,      (* the program: "none", "running", "exited", "killed"         *)
  code,       (* its exit status, as far as it exited by itself             *)
  reaped,     (* its status was collected, and its process id is free       *)
  helper,     (* a process of its group that it started is alive            *)
  doomed,     (* those of the group to whom SIGKILL was sent                *)
  holders,    (* per pipe, which of them may still write to it              *)
  unread,     (* per pipe, the chunks in it                                 *)
  text,       (* what the program has written to stdout                     *)
  stray       (* history: a signal was sent to a group no longer its own    *)

childVars == <<child, code, helper, holders, unread, text>>
signalVars == <<doomed, reaped, stray>>
clockVars == <<expired, grace_over>>
readVars == <<streams, total, timed_out, output_overflow>>
vars == <<selection, edits, kind, pc, round, targets, readVars, outcome, clockVars,
          childVars, signalVars>>

Nothing == [s \in Streams |-> 0]

Init ==
    /\ selection \in Initial /\ edits = 0
    /\ kind \in Kinds /\ pc = "validate" /\ round = "none" /\ targets = {}
    /\ streams = {} /\ total = Nothing /\ timed_out = FALSE /\ output_overflow = FALSE
    /\ expired = FALSE /\ grace_over = FALSE /\ outcome = "none"
    /\ child = "none" /\ code = 0 /\ reaped = FALSE /\ helper = FALSE /\ doomed = {}
    /\ holders = [s \in Streams |-> {}] /\ unread = Nothing /\ text = Plain("empty")
    /\ stray = FALSE

-----------------------------------------------------------------------------
(* The program, the clock, and everybody else.                             *)

programVars == <<selection, edits, kind, pc, round, targets, readVars, outcome, clockVars>>

\* What the output may read as once it is all written.
Answers == IF round = "report" THEN Reports ELSE {Plain("version")}

\* More output after a complete answer spoils it; what is written once nobody
\* reads any more is of no consequence.  A command's output goes nowhere.
Write(s, what) ==
    /\ pc = "pump" /\ s \in streams /\ holders[s] # {} /\ unread[s] = 0
    /\ unread' = [unread EXCEPT ![s] = 1]
    /\ text' = IF s = "stderr" THEN text
               ELSE IF text.form \in {"empty", "partial"} THEN what ELSE Plain("garbled")
    /\ UNCHANGED <<programVars, child, code, helper, holders, signalVars>>

CloseEnd(s) ==
    /\ "child" \in holders[s]
    /\ holders' = [holders EXCEPT ![s] = @ \ {"child"}]
    /\ UNCHANGED <<programVars, child, code, helper, unread, text, signalVars>>

\* The helper keeps what it inherits.
Fork ==
    /\ child = "running" /\ ~helper /\ doomed = {}
    /\ helper' = TRUE
    /\ holders' = [s \in Streams |->
                     IF "child" \in holders[s] THEN holders[s] \union {"helper"} ELSE holders[s]]
    /\ UNCHANGED <<programVars, child, code, unread, text, signalVars>>

Without(who) == [s \in Streams |-> holders[s] \ {who}]

ChildExits(status) ==
    /\ child = "running" /\ child' = "exited" /\ code' = status
    /\ holders' = Without("child")
    /\ UNCHANGED <<programVars, helper, unread, text, signalVars>>

\* By somebody else's signal, or out of memory.
ChildDies ==
    /\ child = "running" /\ child' = "killed"
    /\ holders' = Without("child")
    /\ UNCHANGED <<programVars, code, helper, unread, text, signalVars>>

HelperExits ==
    /\ helper /\ helper' = FALSE
    /\ holders' = Without("helper")
    /\ UNCHANGED <<programVars, child, code, unread, text, signalVars>>

\* SIGKILL takes effect.
KillChild ==
    /\ "child" \in doomed /\ child = "running" /\ child' = "killed"
    /\ holders' = Without("child")
    /\ UNCHANGED <<programVars, code, helper, unread, text, signalVars>>

KillHelper ==
    /\ "helper" \in doomed /\ helper /\ helper' = FALSE
    /\ holders' = Without("helper")
    /\ UNCHANGED <<programVars, child, code, unread, text, signalVars>>

\* Nothing looks at the selection between its validation and the second start,
\* nor after the verdict.
Select(items) ==
    /\ round = "report" /\ pc # "done" /\ edits < MaxEdits /\ items # selection
    /\ selection' = items /\ edits' = edits + 1
    /\ UNCHANGED <<kind, pc, round, targets, readVars, outcome, clockVars, childVars, signalVars>>

\* Nobody looks at the clock at any other time.
Expire ==
    /\ pc \in {"pump", "wait", "communicate"} /\ ~expired
    /\ expired' = TRUE
    /\ UNCHANGED <<selection, edits, kind, pc, round, targets, readVars, outcome, grace_over,
                   childVars, signalVars>>

GraceEnds ==
    /\ pc = "wait_killed" /\ ~grace_over
    /\ grace_over' = TRUE
    /\ UNCHANGED <<selection, edits, kind, pc, round, targets, readVars, outcome, expired,
                   childVars, signalVars>>

-----------------------------------------------------------------------------
(* The supervisor.                                                         *)

End(verdict) == pc' = "done" /\ outcome' = verdict

Ours == UNCHANGED <<selection, edits, kind, childVars>>

\* Options, configuration, lock and selection must be sound, and not empty.
Validate ==
    /\ pc = "validate" /\ (kind # "command" => selection # {})
    /\ pc' = "spawn" /\ round' = IF kind = "command" THEN "command" ELSE "version"
    /\ UNCHANGED <<targets, readVars, outcome, clockVars, signalVars>> /\ Ours

\* An audit reads the lock itself; a scan is told which files to read.
Spawn ==
    /\ pc = "spawn" /\ (round = "report" /\ kind = "scan" => selection # {})
    /\ targets' = IF round = "report" /\ kind = "scan" THEN selection ELSE {}
    /\ child' = "running" /\ code' = 0 /\ helper' = FALSE /\ text' = Plain("empty")
    /\ unread' = Nothing /\ total' = Nothing
    /\ LET piped == IF kind = "command" THEN {} ELSE Streams IN
       /\ holders' = [s \in Streams |-> IF s \in piped THEN {"child"} ELSE {}]
       /\ streams' = piped
    /\ doomed' = {} /\ reaped' = FALSE
    /\ expired' = FALSE /\ grace_over' = FALSE
    /\ pc' = IF kind = "command" THEN "communicate" ELSE "pump"
    /\ UNCHANGED <<selection, edits, kind, round, timed_out, output_overflow, outcome, stray>>

\* A setup that is unsound, a program that does not start, or any other error.
Fail ==
    /\ pc \in {"validate", "spawn", "judge"}
    /\ End("broken")
    /\ UNCHANGED <<round, targets, readVars, clockVars, signalVars>> /\ Ours

\* Fault: the signal is sent to the program and not to its group.
TerminateAlone == doomed' = doomed \union {"child"} /\ stray' = (stray \/ reaped)

\* killpg(process.pid, SIGKILL).
Terminate == doomed' = {"child", "helper"} /\ stray' = (stray \/ reaped)

\* Fault: too much output ends the program, and not the reading.
ReadChunkAndGoOn(s) ==
    /\ pc = "pump" /\ s \in streams /\ unread[s] > 0
    /\ unread' = [unread EXCEPT ![s] = 0]
    /\ total' = [total EXCEPT ![s] = @ + 1]
    /\ IF total'[s] <= MaxOutput THEN UNCHANGED <<output_overflow, signalVars>>
       ELSE output_overflow' = TRUE /\ Terminate /\ UNCHANGED reaped
    /\ UNCHANGED <<selection, edits, kind, pc, round, targets, streams, timed_out, outcome,
                   clockVars, child, code, helper, holders, text>>

\* A pipe has a chunk; one chunk too many ends the program.
ReadChunk(s) ==
    /\ pc = "pump" /\ s \in streams /\ unread[s] > 0
    /\ unread' = [unread EXCEPT ![s] = 0]
    /\ total' = [total EXCEPT ![s] = @ + 1]
    /\ \/ /\ total'[s] <= MaxOutput
          /\ UNCHANGED <<output_overflow, streams, pc, signalVars>>
       \/ /\ total'[s] > MaxOutput
          /\ output_overflow' = TRUE /\ streams' = {} /\ pc' = "finish"
          /\ Terminate /\ UNCHANGED reaped
    /\ UNCHANGED <<selection, edits, kind, round, targets, timed_out, outcome, clockVars,
                   child, code, helper, holders, text>>

EndOfStream(s) ==
    /\ pc = "pump" /\ s \in streams /\ unread[s] = 0 /\ holders[s] = {}
    /\ streams' = streams \ {s}
    /\ UNCHANGED <<pc, round, targets, total, timed_out, output_overflow, outcome, clockVars,
                   signalVars>> /\ Ours

LeavePump ==
    /\ pc = "pump" /\ streams = {}
    /\ pc' = "finish"
    /\ UNCHANGED <<round, targets, readVars, outcome, clockVars, signalVars>> /\ Ours

PumpTimeout ==
    /\ pc = "pump" /\ streams # {} /\ expired
    /\ timed_out' = TRUE /\ pc' = "finish"
    /\ Terminate
    /\ UNCHANGED <<round, targets, streams, total, output_overflow, outcome, clockVars,
                   reaped>> /\ Ours

Gone == child \in {"exited", "killed"}

\* Fault: the status is collected before the group is signalled again.
FinishReapingFirst ==
    /\ pc = "finish"
    /\ reaped' = Gone
    /\ IF timed_out \/ output_overflow
       THEN doomed' = {"child", "helper"} /\ stray' = (stray \/ Gone)
       ELSE UNCHANGED <<doomed, stray>>
    /\ pc' = "poll"
    /\ UNCHANGED <<round, targets, readVars, outcome, clockVars>> /\ Ours

\* The finally block signals the group once more.
Finish ==
    /\ pc = "finish"
    /\ IF timed_out \/ output_overflow THEN Terminate ELSE UNCHANGED <<doomed, stray>>
    /\ pc' = "poll"
    /\ UNCHANGED <<round, targets, readVars, outcome, clockVars, reaped>> /\ Ours

Poll ==
    /\ pc = "poll"
    /\ reaped' = Gone
    /\ pc' = IF Gone THEN "close" ELSE "wait"
    /\ UNCHANGED <<round, targets, readVars, outcome, clockVars, doomed, stray>> /\ Ours

\* Fault: a program that closed its pipes is waited for without a limit.
WaitForever ==
    /\ pc = "wait" /\ Gone
    /\ reaped' = TRUE /\ pc' = "close" /\ UNCHANGED <<doomed, stray>>
    /\ UNCHANGED <<round, targets, readVars, outcome, clockVars>> /\ Ours

\* A program that closed its pipes and lingers is killed at the deadline.
Wait ==
    /\ pc = "wait"
    /\ \/ Gone /\ reaped' = TRUE /\ pc' = "close" /\ UNCHANGED <<doomed, stray>>
       \/ ~Gone /\ expired /\ Terminate /\ pc' = "wait_killed" /\ UNCHANGED reaped
    /\ UNCHANGED <<round, targets, readVars, outcome, clockVars>> /\ Ours

WaitKilled ==
    /\ pc = "wait_killed"
    /\ Gone \/ grace_over
    /\ reaped' = Gone /\ pc' = "close"
    /\ UNCHANGED <<round, targets, readVars, outcome, clockVars, doomed, stray>> /\ Ours

\* Its exit status, when the program ended by itself and was waited for.
Exited(status) == reaped /\ child = "exited" /\ code = status

\* The gateway's ends are closed; a timeout or too much output is an error.
Close ==
    /\ pc = "close"
    /\ IF timed_out \/ output_overflow THEN End("broken") /\ UNCHANGED round
       ELSE IF round = "report" THEN pc' = "judge" /\ UNCHANGED <<outcome, round>>
       ELSE IF Exited(0) /\ text = Plain("version")
            THEN pc' = "spawn" /\ round' = "report" /\ UNCHANGED outcome
            ELSE End("broken") /\ UNCHANGED round
    /\ UNCHANGED <<targets, readVars, clockVars, signalVars>> /\ Ours

\* Fault: the report is held against the files named on the command line.
CoversTargets(report) == report.covers = IF kind = "scan" THEN targets ELSE selection

\* The report covers what is selected, or locked, after the program has ended.
Covers(report) == report.covers = selection

\* Fault: the report alone decides.
AgreesWithoutCode(report) == TRUE

\* The exit status says the same as the report.
Agrees(report) == Exited(IF report.passed THEN 0 ELSE 1)

Judge ==
    /\ pc = "judge"
    /\ End(IF /\ text.form = "report" /\ selection # {}
              /\ Covers(text) /\ Agrees(text)
           THEN IF text.passed THEN "clean" ELSE "violated"
           ELSE "broken")
    /\ UNCHANGED <<round, targets, readVars, clockVars, signalVars>> /\ Ours

\* Fault: death by a signal is a failed command like any other.
VerdictOfAnyStatus == IF child = "exited" /\ code = 0 THEN "clean" ELSE "violated"

\* A signal's status is negative.
CommandVerdict ==
    IF child = "killed" THEN "broken" ELSE IF code = 0 THEN "clean" ELSE "violated"

Communicate ==
    /\ pc = "communicate"
    /\ \/ Gone /\ reaped' = TRUE /\ End(CommandVerdict) /\ UNCHANGED <<doomed, stray, timed_out>>
       \/ ~Gone /\ expired /\ timed_out' = TRUE /\ pc' = "collect"
          /\ Terminate /\ UNCHANGED <<reaped, outcome>>
    /\ UNCHANGED <<round, targets, streams, total, output_overflow, clockVars>> /\ Ours

\* process.wait() after the kill has no limit.
Collect ==
    /\ pc = "collect" /\ Gone
    /\ reaped' = TRUE /\ End("broken")
    /\ UNCHANGED <<round, targets, readVars, clockVars, doomed, stray>> /\ Ours

-----------------------------------------------------------------------------
Program ==
    \/ \E s \in Streams, what \in Answers \union {Plain("partial")} : Write(s, what)
    \/ \E s \in Streams : CloseEnd(s)
    \/ Fork \/ (\E status \in 0..2 : ChildExits(status)) \/ ChildDies \/ HelperExits

Supervisor ==
    \/ Validate \/ Spawn \/ Fail
    \/ \E s \in Streams : ReadChunk(s) \/ EndOfStream(s)
    \/ LeavePump \/ PumpTimeout \/ Finish \/ Poll \/ Wait \/ WaitKilled \/ Close \/ Judge
    \/ Communicate \/ Collect

Clock == Expire \/ GraceEnds

Kill == KillChild \/ KillHelper

Next == Program \/ Kill \/ Clock \/ Supervisor \/ \E items \in SUBSET Items : Select(items)

Spec == Init /\ [][Next]_vars

\* The supervisor is scheduled and time passes.  The program owes nothing; only a
\* command check relies on SIGKILL to take effect.
FairSpec ==
    /\ Spec
    /\ WF_vars(Supervisor) /\ WF_vars(Clock)
    /\ WF_vars(kind = "command" /\ KillChild)
=============================================================================
