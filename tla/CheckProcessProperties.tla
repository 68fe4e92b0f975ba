----------------------- MODULE CheckProcessProperties -----------------------
(***************************************************************************)
(* What a check that runs a program makes of it, whatever the program does *)
(* and whatever is edited meanwhile.                                       *)
(***************************************************************************)
EXTENDS CheckProcess

Signalled == SUBSET {"child", "helper"}

\* The types of agentwarden.py _run's locals and of the process it supervises.
TypeOK ==
    /\ selection \in SUBSET Items /\ edits \in 0..MaxEdits
    /\ kind \in Kinds
    /\ pc \in {"validate", "spawn", "pump", "finish", "poll", "wait", "wait_killed", "close",
               "judge", "communicate", "collect", "done"}
    /\ round \in {"none", "command", "version", "report"} /\ targets \in SUBSET Items
    /\ streams \in SUBSET Streams /\ total \in [Streams -> 0..(MaxOutput + 1)]
    /\ timed_out \in BOOLEAN /\ output_overflow \in BOOLEAN
    /\ expired \in BOOLEAN /\ grace_over \in BOOLEAN
    /\ outcome \in {"none", "clean", "violated", "broken"}
    /\ child \in {"none", "running", "exited", "killed"} /\ code \in 0..2
    /\ reaped \in BOOLEAN /\ helper \in BOOLEAN /\ doomed \in Signalled
    /\ holders \in [Streams -> Signalled] /\ unread \in [Streams -> 0..1]
    /\ text \in Texts /\ stray \in BOOLEAN

\* A report is believed only of a program that ended by itself, with the exit
\* status its report calls for, and from all it wrote: nothing is unread, nobody
\* can add to it, and nothing was cut off (agentwarden.py:466-489, :599-612).
ReportIsWhole ==
    kind # "command" /\ outcome \in {"clean", "violated"} =>
        /\ round = "report" /\ text \in Reports
        /\ child = "exited" /\ code = (IF outcome = "clean" THEN 0 ELSE 1)
        /\ \A s \in Streams : holders[s] = {} /\ unread[s] = 0 /\ total[s] <= MaxOutput

\* Neither a timeout nor a death by signal is ever a mere violation, which an
\* advisory check could pass with (README.md:305, __init__.py:729-742).
NeverAdvisory ==
    kind = "command" /\ outcome \in {"clean", "violated"} =>
        child = "exited" /\ ~timed_out /\ (outcome = "clean" <=> code = 0)

\* Whatever kind of check: a verdict is drawn from a program that ended by itself,
\* with the status the verdict calls for, and from everything it said.
VerdictIsWhole == ReportIsWhole /\ NeverAdvisory

\* A pass covers what is selected, or locked, when it is given, whatever was
\* added or taken away while the program ran (agentwarden.py:604, :609).
PassIsCurrent ==
    [][kind # "command" /\ outcome' = "clean" /\ outcome # "clean"
       => text = [form |-> "report", covers |-> selection, passed |-> TRUE]]_vars

\* No signal is ever sent to a process group whose leader was already waited
\* for, and whose id may by then be somebody else's (agentwarden.py:402-409).
KillsOwn == ~stray

\* After a timeout or too much output nobody of the program's group escapes,
\* helpers that only inherited its pipes included, and the program's status was
\* collected unless SIGKILL itself took longer than the grace.
NothingEscapes ==
    pc = "done" /\ child # "none" =>
        /\ reaped \/ (grace_over /\ "child" \in doomed)
        /\ (timed_out \/ output_overflow) /\ helper => "helper" \in doomed

\* Every check returns, whatever its program does: a gate run waits for it.
CheckReturns == <>(pc = "done")
=============================================================================
