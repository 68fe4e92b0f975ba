------------------------- MODULE CheckProcessProofs -------------------------
(***************************************************************************)
(* What a check makes of its program, for every set of items, limit and    *)
(* number of edits: the types, that no signal strays, that a verdict is    *)
(* drawn from the whole of what the program wrote and from what is         *)
(* selected then, and that nobody of its group is forgotten.               *)
(***************************************************************************)
EXTENDS CheckProcessProperties, TLAPS

\* Before and during the reading, and at the verdict, nothing has gone wrong.
Fresh ==
    pc \in {"validate", "spawn", "pump", "communicate", "judge"} =>
        ~timed_out /\ ~output_overflow

\* The limit is noticed with the first chunk beyond it.
Bounded == ~output_overflow => \A s \in Streams : total[s] <= MaxOutput

\* A pipe is given up unread only after a timeout or too much output.
Drained ==
    ~timed_out /\ ~output_overflow =>
        \A s \in Streams \ streams : holders[s] = {} /\ unread[s] = 0

\* Reading stops early only then, too.
ReadOut ==
    /\ pc \in {"finish", "poll", "wait", "wait_killed", "close", "judge"}
    /\ ~timed_out /\ ~output_overflow
    => streams = {}

\* The rounds a check goes through, and when it has a verdict.
Course ==
    /\ pc \in {"communicate", "collect"} => kind = "command"
    /\ pc = "judge" => round = "report"
    /\ pc # "done" => outcome = "none"

\* Once its status is collected the group is not signalled any more.
Reaping == reaped => pc \in {"spawn", "close", "judge", "done"}

\* Everything but the types.
Account == Fresh /\ Bounded /\ Drained /\ ReadOut /\ Course /\ Reaping /\ KillsOwn

\* Steps of everybody but the supervisor.
Outside == Program \/ Kill \/ Clock \/ \E items \in SUBSET Items : Select(items)

CheckInv == TypeOK /\ Account /\ ReportIsWhole

\* A command check has no rounds and no pipes.
Commands ==
    kind = "command" =>
        /\ pc \in {"validate", "spawn", "communicate", "collect", "done"}
        /\ round \in {"none", "command"}

\* Whoever is given up on has been sent the signal.
Killed ==
    /\ timed_out \/ output_overflow => "helper" \in doomed
    /\ pc = "wait_killed" => "child" \in doomed

\* A program is left behind uncollected only when the signal took too long.
Settled ==
    /\ pc = "validate" => child = "none"
    /\ pc \in {"spawn", "close", "judge", "done"} /\ child # "none"
       => reaped \/ (grace_over /\ "child" \in doomed)

EndInv == Commands /\ Killed /\ Settled /\ NeverAdvisory

\* The types in two parts, since the provers take truth values apart.
Flags ==
    /\ timed_out \in BOOLEAN /\ output_overflow \in BOOLEAN
    /\ expired \in BOOLEAN /\ grace_over \in BOOLEAN
    /\ reaped \in BOOLEAN /\ helper \in BOOLEAN /\ stray \in BOOLEAN

Shapes ==
    /\ selection \in SUBSET Items /\ edits \in 0..MaxEdits
    /\ kind \in Kinds
    /\ pc \in {"validate", "spawn", "pump", "finish", "poll", "wait", "wait_killed", "close",
               "judge", "communicate", "collect", "done"}
    /\ round \in {"none", "command", "version", "report"} /\ targets \in SUBSET Items
    /\ streams \in SUBSET Streams /\ total \in [Streams -> 0..(MaxOutput + 1)]
    /\ outcome \in {"none", "clean", "violated", "broken"}
    /\ child \in {"none", "running", "exited", "killed"} /\ code \in 0..2
    /\ doomed \in Signalled
    /\ holders \in [Streams -> Signalled] /\ unread \in [Streams -> 0..1]
    /\ text \in Texts

\* The types are their two parts, now and after a step.
LEMMA TypeParts == TypeOK <=> Shapes /\ Flags
BY Zenon DEF TypeOK, Shapes, Flags

\* The same after a step, which the provers do not derive by themselves.
LEMMA TypePartsPrimed == TypeOK' <=> Shapes' /\ Flags'
BY Zenon DEF TypeOK, Shapes, Flags

\* Every flag stays a truth value.
LEMMA FlagsStep == Flags /\ Next => Flags'
<1> SUFFICES ASSUME Flags, Next PROVE Flags'
  OBVIOUS
<1> USE DEF Flags, Ours, programVars, childVars, signalVars, clockVars, readVars
<1>1. CASE Program
  <2>1. CASE \E s \in Streams, what \in Answers \union {Plain("partial")} : Write(s, what)
    BY <2>1, Zenon DEF Write
  <2>2. CASE (\E s \in Streams : CloseEnd(s)) \/ Fork
    BY <2>2, Zenon DEF CloseEnd, Fork
  <2>3. CASE (\E status \in 0..2 : ChildExits(status)) \/ ChildDies \/ HelperExits
    BY <2>3, Zenon DEF ChildExits, ChildDies, HelperExits
  <2> QED  BY <1>1, <2>1, <2>2, <2>3, Zenon DEF Program
<1>2. CASE Kill \/ Clock \/ \E items \in SUBSET Items : Select(items)
  <2>1. CASE Kill
    BY <2>1, Zenon DEF Kill, KillChild, KillHelper
  <2>2. CASE Clock
    BY <2>2, Zenon DEF Clock, Expire, GraceEnds
  <2>3. CASE \E items \in SUBSET Items : Select(items)
    BY <2>3, Zenon DEF Select
  <2> QED  BY <1>2, <2>1, <2>2, <2>3
<1>3. CASE Validate \/ Spawn \/ Fail
  BY <1>3, Zenon DEF Validate, Spawn, Fail
<1>4. CASE \E s \in Streams : ReadChunk(s) \/ EndOfStream(s)
  BY <1>4, Zenon DEF ReadChunk, EndOfStream, Terminate
<1>5. CASE LeavePump \/ PumpTimeout \/ Finish
  BY <1>5, Zenon DEF LeavePump, PumpTimeout, Finish, Terminate
<1>6. CASE Poll \/ Wait \/ WaitKilled
  <2>1. Gone \in BOOLEAN
    BY DEF Gone
  <2>2. CASE Poll
    BY <2>1, <2>2, Zenon DEF Poll
  <2>3. CASE Wait
    BY <2>3, Zenon DEF Wait, Terminate
  <2>4. CASE WaitKilled
    BY <2>1, <2>4, Zenon DEF WaitKilled
  <2> QED BY <1>6, <2>2, <2>3, <2>4
<1>7. CASE Close \/ Judge
  BY <1>7, Zenon DEF Close, Judge
<1>8. CASE Communicate \/ Collect
  BY <1>8, Zenon DEF Communicate, Collect, Terminate
<1> QED BY <1>1, <1>2, <1>3, <1>4, <1>5, <1>6, <1>7, <1>8 DEF Next, Supervisor

\* What a report is told by.
LEMMA ReportForm == \A t \in Texts : t.form = "report" => t \in Reports
BY DEF Texts, Plain, Reports

\* A text the program may leave behind.
LEMMA PlainTexts == \A form \in {"empty", "partial", "garbled", "version"} : Plain(form) \in Texts
BY DEF Texts

\* A check starts with no program and no verdict.
LEMMA CheckInit == Init => CheckInv
<1> SUFFICES ASSUME Init PROVE CheckInv
  OBVIOUS
<1> USE ProcessAssumption DEF ProcessAssumption, Init
<1>1. TypeOK
  <2>1. Nothing \in [Streams -> 0..1] /\ Nothing \in [Streams -> 0..(MaxOutput + 1)]
    BY DEF Nothing
  <2>2. holders \in [Streams -> Signalled] /\ doomed \in Signalled
    BY DEF Signalled
  <2>3. text \in Texts
    BY PlainTexts
  <2>4. Shapes
    BY <2>1, <2>2, <2>3 DEF Shapes
  <2>5. Flags
    BY Zenon DEF Flags
  <2> QED BY <2>4, <2>5, TypeParts
<1>2. Account
  BY DEF Account, Fresh, Bounded, Drained, ReadOut, Course, Reaping, KillsOwn, Nothing
<1>3. ReportIsWhole
  BY DEF ReportIsWhole
<1> QED BY <1>1, <1>2, <1>3 DEF CheckInv

\* The program, the kernel, the clock and other processes keep the types.
LEMMA OutsideTypes == Shapes /\ Outside => Shapes'
<1> SUFFICES ASSUME Shapes, Outside PROVE Shapes'
  OBVIOUS
<1> USE DEF Shapes, programVars, childVars, signalVars, clockVars, readVars
<1>1. ASSUME NEW s \in Streams, NEW what \in Answers \union {Plain("partial")}, Write(s, what)
      PROVE Shapes'
  <2>1. what \in Texts /\ Plain("garbled") \in Texts
    BY PlainTexts DEF Answers, Texts
  <2>2. text' \in Texts
    BY <1>1, <2>1 DEF Write
  <2> QED BY <1>1, <2>2 DEF Write
<1>2. ASSUME NEW s \in Streams, CloseEnd(s) PROVE Shapes'
  BY <1>2 DEF CloseEnd, Signalled
<1>3. CASE Fork
  BY <1>3 DEF Fork, Signalled
<1>4. ASSUME NEW status \in 0..2, ChildExits(status) PROVE Shapes'
  BY <1>4 DEF ChildExits, Without, Signalled
<1>5. CASE ChildDies
  BY <1>5 DEF ChildDies, Without, Signalled
<1>6. CASE HelperExits
  BY <1>6 DEF HelperExits, Without, Signalled
<1>7. CASE KillChild
  BY <1>7 DEF KillChild, Without, Signalled
<1>8. CASE KillHelper
  BY <1>8 DEF KillHelper, Without, Signalled
<1>9. CASE Clock
  BY <1>9 DEF Clock, Expire, GraceEnds
<1>10. ASSUME NEW items \in SUBSET Items, Select(items) PROVE Shapes'
  BY <1>10, ProcessAssumption DEF Select, ProcessAssumption
<1> QED
  BY <1>1, <1>2, <1>3, <1>4, <1>5, <1>6, <1>7, <1>8, <1>9, <1>10 DEF Outside, Program, Kill

\* The supervisor keeps them; its total needs to know that it was within bounds.
LEMMA SupervisorTypes == Shapes /\ Account /\ Supervisor => Shapes'
<1> SUFFICES ASSUME Shapes, Account, Supervisor PROVE Shapes'
  OBVIOUS
<1> USE DEF Shapes, Ours, End, childVars, signalVars, clockVars, readVars
<1>1. CASE Validate \/ Fail
  BY <1>1 DEF Validate, Fail
<1>2. CASE Spawn
  <2>1. Nothing \in [Streams -> 0..1] /\ Nothing \in [Streams -> 0..(MaxOutput + 1)]
    BY ProcessAssumption DEF Nothing, ProcessAssumption
  <2>2. text' \in Texts
    BY <1>2, PlainTexts DEF Spawn
  <2>3. holders' \in [Streams -> Signalled] /\ streams' \in SUBSET Streams
    BY <1>2 DEF Spawn, Signalled
  <2>4. doomed' \in Signalled /\ targets' \in SUBSET Items
    BY <1>2 DEF Spawn, Signalled
  <2> QED BY <1>2, <2>1, <2>2, <2>3, <2>4 DEF Spawn
<1>3. ASSUME NEW s \in Streams, ReadChunk(s) PROVE Shapes'
  <2>1. total[s] + 1 \in 0..(MaxOutput + 1)
    BY <1>3, ProcessAssumption DEF ReadChunk, Account, Fresh, Bounded, ProcessAssumption
  <2>2. total' \in [Streams -> 0..(MaxOutput + 1)] /\ unread' \in [Streams -> 0..1]
    BY <1>3, <2>1 DEF ReadChunk
  <2>3. doomed' \in Signalled
    BY <1>3 DEF ReadChunk, Terminate, Signalled
  <2>4. streams' \in SUBSET Streams /\ pc' \in {"pump", "finish"}
    BY <1>3 DEF ReadChunk
  <2> QED BY <1>3, <2>2, <2>3, <2>4 DEF ReadChunk
<1>4. ASSUME NEW s \in Streams, EndOfStream(s) PROVE Shapes'
  BY <1>4 DEF EndOfStream
<1>5. CASE LeavePump \/ PumpTimeout
  BY <1>5 DEF LeavePump, PumpTimeout, Terminate, Signalled
<1>6. CASE Finish
  BY <1>6 DEF Finish, Terminate, Signalled
<1>7. CASE Poll \/ WaitKilled
  BY <1>7 DEF Poll, WaitKilled, Gone
<1>8. CASE Wait
  BY <1>8 DEF Wait, Terminate, Signalled
<1>9. CASE Close
  BY <1>9 DEF Close
<1>10. CASE Judge
  BY <1>10 DEF Judge
<1>11. CASE Communicate \/ Collect
  BY <1>11 DEF Communicate, Collect, CommandVerdict, Terminate, Signalled
<1> QED
  BY <1>1, <1>2, <1>3, <1>4, <1>5, <1>6, <1>7, <1>8, <1>9, <1>10, <1>11 DEF Supervisor

\* A pipe nobody holds gets no new holder and nothing more to read.
LEMMA OutsideAccount == TypeOK /\ Account /\ Outside => Account'
<1> SUFFICES ASSUME TypeOK, Account, Outside PROVE Account'
  OBVIOUS
<1> USE DEF programVars, childVars, signalVars, clockVars, readVars
<1>1. /\ UNCHANGED <<kind, pc, round, readVars, outcome, reaped, stray>>
      /\ \A s \in Streams : holders[s] = {} => holders'[s] = {}
      /\ \A s \in Streams \ streams : unread'[s] = unread[s]
  <2>1. CASE \E s \in Streams, what \in Answers \union {Plain("partial")} : Write(s, what)
    BY <2>1 DEF Write, TypeOK
  <2>2. CASE \E s \in Streams : CloseEnd(s)
    BY <2>2 DEF CloseEnd, TypeOK
  <2>3. CASE Fork \/ \E status \in 0..2 : ChildExits(status)
    BY <2>3 DEF Fork, ChildExits, Without
  <2>4. CASE ChildDies \/ HelperExits \/ Kill
    BY <2>4 DEF ChildDies, HelperExits, Kill, KillChild, KillHelper, Without
  <2>5. CASE Clock \/ \E items \in SUBSET Items : Select(items)
    BY <2>5 DEF Clock, Expire, GraceEnds, Select
  <2> QED BY <2>1, <2>2, <2>3, <2>4, <2>5 DEF Outside, Program
<1> QED
  BY <1>1 DEF Account, Fresh, Bounded, Drained, ReadOut, Course, Reaping, KillsOwn

\* A signal to a group whose leader is uncollected does not stray.
LEMMA TerminateOwn == ~reaped /\ ~stray /\ Terminate => ~stray'
BY Zenon DEF Terminate

\* The supervisor gives up a pipe at its end, or says why not.
LEMMA SupervisorAccount == TypeOK /\ Account /\ Supervisor => Account'
<1> SUFFICES ASSUME TypeOK, Account, Supervisor PROVE Account'
  OBVIOUS
<1> USE DEF Account, Fresh, Bounded, Drained, ReadOut, Course, Reaping, KillsOwn, Ours, End,
            childVars, signalVars, clockVars, readVars
<1>1. CASE Validate \/ Fail
  BY <1>1 DEF Validate, Fail
<1>2. CASE Spawn
  BY <1>2, ProcessAssumption DEF Spawn, Nothing, ProcessAssumption
<1>3. ASSUME NEW s \in Streams, ReadChunk(s) PROVE Account'
  <2>1. \A r \in Streams \ {s} : total'[r] = total[r] /\ unread'[r] = unread[r]
    BY <1>3 DEF ReadChunk, TypeOK
  <2>2. pc = "pump" /\ ~reaped /\ ~stray /\ ~timed_out /\ ~output_overflow
    BY <1>3 DEF ReadChunk
  <2>3. total'[s] \in Nat /\ MaxOutput \in Nat
    BY <1>3, ProcessAssumption DEF ReadChunk, TypeOK, ProcessAssumption
  <2>4. CASE total'[s] <= MaxOutput
    <3>1. ~output_overflow' /\ ~reaped' /\ ~stray' /\ streams' = streams /\ pc' = "pump"
      BY <1>3, <2>2, <2>3, <2>4 DEF ReadChunk
    <3> QED BY <1>3, <2>1, <2>2, <2>4, <3>1 DEF ReadChunk
  <2>5. CASE total'[s] > MaxOutput
    <3>1. output_overflow' /\ ~reaped' /\ ~stray' /\ pc' = "finish"
      BY <1>3, <2>2, <2>3, <2>5, TerminateOwn DEF ReadChunk
    <3> QED BY <1>3, <3>1 DEF ReadChunk
  <2> QED BY <2>3, <2>4, <2>5
<1>4. ASSUME NEW s \in Streams, EndOfStream(s) PROVE Account'
  BY <1>4 DEF EndOfStream
<1>5. CASE LeavePump
  BY <1>5 DEF LeavePump
<1>6. CASE PumpTimeout
  <2>1. ~reaped /\ ~stray
    BY <1>6 DEF PumpTimeout
  <2>2. ~stray' /\ timed_out' /\ ~reaped' /\ pc' = "finish"
    BY <1>6, <2>1, TerminateOwn DEF PumpTimeout
  <2> QED BY <1>6, <2>2 DEF PumpTimeout
<1>7. CASE Finish
  <2>1. ~reaped /\ ~stray
    BY <1>7 DEF Finish
  <2>2. ~stray'
    BY <1>7, <2>1, TerminateOwn DEF Finish
  <2> QED BY <1>7, <2>2 DEF Finish
<1>8. CASE Poll \/ WaitKilled
  <2>1. ~stray'
    BY <1>8 DEF Poll, WaitKilled
  <2>2. reaped' => pc' = "close"
    BY <1>8 DEF Poll, WaitKilled, Gone
  <2> QED BY <1>8, <2>1, <2>2 DEF Poll, WaitKilled
<1>9. CASE Wait
  <2>1. ~reaped /\ ~stray
    BY <1>9 DEF Wait
  <2>2. ~stray' /\ (reaped' => pc' = "close")
    BY <1>9, <2>1, TerminateOwn DEF Wait
  <2> QED BY <1>9, <2>2 DEF Wait
<1>10. CASE Close
  BY <1>10 DEF Close
<1>11. CASE Judge
  BY <1>11 DEF Judge
<1>12. CASE Communicate \/ Collect
  <2>1. ~reaped /\ ~stray
    BY <1>12 DEF Communicate, Collect
  <2>2. ~stray' /\ (reaped' => pc' = "done")
    BY <1>12, <2>1, TerminateOwn DEF Communicate, Collect
  <2> QED BY <1>12, <2>2 DEF Communicate, Collect
<1> QED
  BY <1>1, <1>2, <1>3, <1>4, <1>5, <1>6, <1>7, <1>8, <1>9, <1>10, <1>11, <1>12
  DEF Supervisor

\* A verdict once given stays true of what it was drawn from.
LEMMA OutsideVerdict == TypeOK /\ Account /\ ReportIsWhole /\ Outside => ReportIsWhole'
<1> SUFFICES ASSUME TypeOK, Account, ReportIsWhole, Outside,
                    kind' # "command", outcome' \in {"clean", "violated"}
             PROVE ReportIsWhole'
  BY DEF ReportIsWhole
<1> USE DEF programVars, childVars, signalVars, clockVars, readVars
<1>1. UNCHANGED <<kind, pc, round, outcome, total>>
  BY DEF Outside, Program, Kill, Clock, Write, CloseEnd, Fork, ChildExits, ChildDies,
         HelperExits, KillChild, KillHelper, Expire, GraceEnds, Select
<1>2. /\ pc = "done" /\ child = "exited" /\ \A s \in Streams : holders[s] = {}
  BY <1>1 DEF ReportIsWhole, Account, Course
<1>3. CASE Program
  BY <1>2, <1>3 DEF Program, Write, CloseEnd, Fork, ChildExits, ChildDies, HelperExits,
                    Without, ReportIsWhole
<1>4. CASE Kill
  BY <1>2, <1>4 DEF Kill, KillChild, KillHelper, Without, ReportIsWhole
<1>5. CASE Clock \/ \E items \in SUBSET Items : Select(items)
  BY <1>5 DEF Clock, Expire, GraceEnds, Select, ReportIsWhole
<1> QED BY <1>3, <1>4, <1>5 DEF Outside

\* A verdict is given by Judge and CommandVerdict, and nowhere else.
LEMMA SupervisorVerdict == TypeOK /\ Account /\ Supervisor => ReportIsWhole'
<1> SUFFICES ASSUME TypeOK, Account, Supervisor PROVE ReportIsWhole'
  OBVIOUS
<1> USE DEF Account, Course, ReportIsWhole, Ours, End
<1>1. CASE Validate \/ Spawn \/ Fail
  BY <1>1 DEF Validate, Spawn, Fail
<1>2. CASE \E s \in Streams : ReadChunk(s) \/ EndOfStream(s)
  BY <1>2 DEF ReadChunk, EndOfStream
<1>3. CASE LeavePump \/ PumpTimeout \/ Finish \/ Poll \/ Wait \/ WaitKilled
  BY <1>3 DEF LeavePump, PumpTimeout, Finish, Poll, Wait, WaitKilled
<1>4. CASE Close
  BY <1>4 DEF Close
<1>5. CASE Judge
  <2> SUFFICES ASSUME outcome' \in {"clean", "violated"} PROVE ReportIsWhole'
    OBVIOUS
  <2>1. /\ text.form = "report" /\ Agrees(text)
        /\ outcome' = IF text.passed THEN "clean" ELSE "violated"
    BY <1>5 DEF Judge
  <2>2. text \in Reports
    BY <2>1, ReportForm DEF TypeOK
  <2>3. child = "exited" /\ code = IF text.passed THEN 0 ELSE 1
    BY <2>1 DEF Agrees, Exited
  <2>4. ~timed_out /\ ~output_overflow /\ streams = {}
    BY <1>5 DEF Judge, Fresh, ReadOut
  <2>5. \A s \in Streams : holders[s] = {} /\ unread[s] = 0 /\ total[s] <= MaxOutput
    BY <2>4 DEF Drained, Bounded
  <2> QED BY <1>5, <2>1, <2>2, <2>3, <2>5 DEF Judge, childVars, readVars
<1>6. CASE Communicate \/ Collect
  BY <1>6 DEF Communicate, Collect
<1> QED BY <1>1, <1>2, <1>3, <1>4, <1>5, <1>6 DEF Supervisor

\* Every step of anybody keeps the account.
LEMMA CheckStep == CheckInv /\ [Next]_vars => CheckInv'
<1> SUFFICES ASSUME CheckInv, [Next]_vars PROVE CheckInv'
  OBVIOUS
<1>1. CASE Outside
  <2>1. TypeOK'
    BY <1>1, OutsideTypes, FlagsStep, TypeParts, TypePartsPrimed DEF CheckInv, Next, Outside
  <2> QED BY <1>1, <2>1, OutsideAccount, OutsideVerdict DEF CheckInv
<1>2. CASE Supervisor
  <2>1. TypeOK'
    BY <1>2, SupervisorTypes, FlagsStep, TypeParts, TypePartsPrimed DEF CheckInv, Next
  <2> QED BY <1>2, <2>1, SupervisorAccount, SupervisorVerdict DEF CheckInv
<1>3. CASE UNCHANGED vars
  <2> USE <1>3 DEF vars, childVars, signalVars, clockVars, readVars
  <2>1. TypeOK'
    BY DEF CheckInv, TypeOK
  <2>2. Account'
    BY DEF CheckInv, Account, Fresh, Bounded, Drained, ReadOut, Course, Reaping, KillsOwn
  <2>3. ReportIsWhole'
    BY DEF CheckInv, ReportIsWhole
  <2> QED BY <2>1, <2>2, <2>3 DEF CheckInv
<1> QED BY <1>1, <1>2, <1>3 DEF Next, Outside

\* The account holds in every reachable state.
LEMMA CheckInvariant == Spec => []CheckInv
BY CheckInit, CheckStep, PTL DEF Spec

\* The locals of agentwarden.py _run keep their types; a total exceeds the limit
\* by one chunk at the most, however much the program writes.
THEOREM CheckTypeCorrect == Spec => []TypeOK
<1>1. CheckInv => TypeOK
  BY DEF CheckInv
<1> QED BY <1>1, CheckInvariant, PTL

\* _terminate signals a group only while its leader's status is uncollected.
THEOREM NoStrayKill == Spec => []KillsOwn
<1>1. CheckInv => KillsOwn
  BY DEF CheckInv, Account
<1> QED BY <1>1, CheckInvariant, PTL

-----------------------------------------------------------------------------
(* How a check ends.                                                       *)

\* Before it starts, a check has no program.
LEMMA EndInit == Init => EndInv
BY DEF Init, EndInv, Commands, Killed, Settled, NeverAdvisory

\* Nobody else collects a program or takes a signal back; one that exited stays so.
LEMMA OutsideEnd == CheckInv /\ EndInv /\ Outside => EndInv'
<1> SUFFICES ASSUME CheckInv, EndInv, Outside PROVE EndInv'
  OBVIOUS
<1>1. /\ UNCHANGED <<kind, pc, round, outcome, timed_out, output_overflow, reaped, doomed>>
      /\ grace_over => grace_over'
      /\ child = "none" <=> child' = "none"
      /\ child = "exited" => child' = "exited" /\ code' = code
  <2> USE DEF programVars, childVars, signalVars, clockVars, readVars
  <2>1. CASE Program
    BY <2>1 DEF Program, Write, CloseEnd, Fork, ChildExits, ChildDies, HelperExits
  <2>2. CASE Kill \/ Clock \/ \E items \in SUBSET Items : Select(items)
    BY <2>2 DEF Kill, Clock, KillChild, KillHelper, Expire, GraceEnds, Select
  <2> QED BY <2>1, <2>2 DEF Outside
<1>2. Commands' /\ Killed' /\ Settled'
  BY <1>1 DEF EndInv, Commands, Killed, Settled
<1>3. NeverAdvisory'
  BY <1>1 DEF EndInv, NeverAdvisory
<1> QED BY <1>2, <1>3 DEF EndInv

\* The supervisor signals the group before it gives up on it, and collects its
\* leader before it goes on, or has waited out the grace.
LEMMA SupervisorEnd == CheckInv /\ EndInv /\ Supervisor => EndInv'
<1> SUFFICES ASSUME CheckInv, EndInv, Supervisor PROVE EndInv'
  OBVIOUS
<1> USE DEF EndInv, Commands, Killed, Settled, NeverAdvisory, Ours, End,
            childVars, signalVars, clockVars, readVars
<1>1. /\ pc # "done" => outcome = "none"
      /\ pc = "judge" => round = "report"
      /\ pc \in {"communicate", "collect"} => kind = "command"
      /\ pc \in {"validate", "spawn", "pump", "communicate", "judge"}
           => ~timed_out /\ ~output_overflow
      /\ kind \in Kinds /\ child \in {"none", "running", "exited", "killed"}
  BY DEF CheckInv, Account, Course, Fresh, TypeOK
<1>2. CASE Validate
  BY <1>1, <1>2 DEF Validate
<1>3. CASE Spawn
  <2>1. /\ pc = "spawn" /\ pc' \in {"pump", "communicate"} /\ UNCHANGED <<kind, round, outcome>>
        /\ UNCHANGED <<timed_out, output_overflow>>
        /\ kind = "command" => pc' = "communicate"
    BY <1>3 DEF Spawn
  <2> QED BY <1>1, <2>1
<1>4. CASE Fail
  BY <1>1, <1>4 DEF Fail
<1>5. ASSUME NEW s \in Streams, ReadChunk(s) PROVE EndInv'
  <2>1. /\ pc = "pump" /\ pc' \in {"pump", "finish"}
        /\ UNCHANGED <<kind, round, outcome, timed_out>>
    BY <1>5 DEF ReadChunk
  <2>2. output_overflow' => "helper" \in doomed'
    BY <1>1, <1>5 DEF ReadChunk, Terminate
  <2> QED BY <1>1, <2>1, <2>2
<1>6. ASSUME NEW s \in Streams, EndOfStream(s) PROVE EndInv'
  BY <1>1, <1>6 DEF EndOfStream
<1>7. CASE LeavePump
  BY <1>1, <1>7 DEF LeavePump
<1>8. CASE PumpTimeout
  <2>1. /\ pc = "pump" /\ pc' = "finish" /\ "helper" \in doomed'
        /\ UNCHANGED <<kind, round, outcome>>
    BY <1>8 DEF PumpTimeout, Terminate
  <2> QED BY <1>1, <2>1
<1>9. CASE Finish
  <2>1. /\ pc = "finish" /\ pc' = "poll" /\ doomed \subseteq doomed'
        /\ UNCHANGED <<kind, round, outcome, timed_out, output_overflow>>
    BY <1>9 DEF Finish, Terminate, CheckInv, TypeOK, Signalled
  <2> QED BY <1>1, <2>1
<1>10. CASE Poll \/ WaitKilled
  <2>1. /\ pc \in {"poll", "wait_killed"} /\ pc' \in {"close", "wait"}
        /\ UNCHANGED <<kind, round, outcome, timed_out, output_overflow, doomed, child>>
    BY <1>10 DEF Poll, WaitKilled
  <2>2. pc' = "close" => reaped' \/ (grace_over' /\ "child" \in doomed')
    BY <1>10 DEF Poll, WaitKilled
  <2> QED BY <1>1, <2>1, <2>2
<1>11. CASE Wait
  <2>1. /\ pc = "wait" /\ pc' \in {"close", "wait_killed"}
        /\ UNCHANGED <<kind, round, outcome, timed_out, output_overflow>>
        /\ pc' = "close" => reaped' /\ UNCHANGED doomed
        /\ pc' = "wait_killed" => doomed' = {"child", "helper"}
    BY <1>11 DEF Wait, Terminate
  <2> QED BY <1>1, <2>1
<1>12. CASE Close
  BY <1>1, <1>12 DEF Close
<1>13. CASE Judge
  <2>1. kind # "command"
    BY <1>13 DEF Judge
  <2> QED BY <1>1, <1>13, <2>1 DEF Judge
<1>14. CASE Communicate
  <2>1. CASE outcome' = "none"
    <3>1. /\ pc = "communicate" /\ pc' = "collect" /\ doomed' = {"child", "helper"}
          /\ UNCHANGED <<kind, round>>
      BY <1>1, <1>14, <2>1 DEF Communicate, CommandVerdict, Terminate
    <3> QED BY <1>1, <2>1, <3>1
  <2>2. CASE outcome' # "none"
    <3>1. /\ pc = "communicate" /\ pc' = "done" /\ reaped' /\ outcome' = CommandVerdict /\ Gone
          /\ UNCHANGED <<kind, round, doomed, timed_out, output_overflow, child, code>>
      BY <1>1, <1>14, <2>2 DEF Communicate
    <3>2. outcome' \in {"clean", "violated"} => child = "exited" /\ (outcome' = "clean" <=> code = 0)
      BY <3>1 DEF CommandVerdict, Gone
    <3> QED BY <1>1, <3>1, <3>2
  <2> QED BY <2>1, <2>2
<1>15. CASE Collect
  BY <1>1, <1>15 DEF Collect
<1> QED
  BY <1>2, <1>3, <1>4, <1>5, <1>6, <1>7, <1>8, <1>9, <1>10, <1>11, <1>12, <1>13, <1>14, <1>15
  DEF Supervisor

\* How a check ends is inductive beside what it makes of its program.
LEMMA EndInvariant == Spec => []EndInv
<1>1. EndInv /\ UNCHANGED vars => EndInv'
  BY DEF EndInv, Commands, Killed, Settled, NeverAdvisory, vars, childVars, signalVars,
         clockVars, readVars
<1>2. CheckInv /\ EndInv /\ [Next]_vars => EndInv'
  BY <1>1, OutsideEnd, SupervisorEnd DEF Next, Outside
<1> QED BY <1>2, EndInit, CheckInvariant, PTL DEF Spec

\* check_agentwarden decides only on complete output and an agreeing exit status;
\* to check_command a timeout or a signal is an error, never a violation that an
\* advisory check would pass with.
THEOREM VerdictOnWholeOutput == Spec => []VerdictIsWhole
<1>1. CheckInv /\ EndInv => VerdictIsWhole
  BY DEF CheckInv, EndInv, VerdictIsWhole
<1> QED BY <1>1, CheckInvariant, EndInvariant, PTL

\* When a check returns, its program has been collected unless the grace ran out,
\* and after a timeout or too much output its helpers have been signalled too.
THEOREM GroupIsAccountedFor == Spec => []NothingEscapes
<1>1. EndInv => NothingEscapes
  BY DEF EndInv, Killed, Settled, NothingEscapes
<1> QED BY <1>1, EndInvariant, PTL

\* check_agentwarden passes a report only for what is selected at that moment.
THEOREM PassIsForCurrent == Spec => PassIsCurrent
<1>1. ASSUME CheckInv, [Next]_vars, kind # "command", outcome' = "clean", outcome # "clean"
      PROVE  text = [form |-> "report", covers |-> selection, passed |-> TRUE]
  <2>1. Judge
    <3>1. ~Outside /\ ~UNCHANGED vars
      BY <1>1 DEF Outside, Program, Kill, Clock, Write, CloseEnd, Fork, ChildExits, ChildDies,
                  HelperExits, KillChild, KillHelper, Expire, GraceEnds, Select, programVars, vars
    <3>2. ~Validate /\ ~Spawn /\ ~Fail /\ ~LeavePump /\ ~PumpTimeout /\ ~Finish
      BY <1>1 DEF Validate, Spawn, Fail, LeavePump, PumpTimeout, Finish, readVars, End
    <3>3. ~Poll /\ ~Wait /\ ~WaitKilled /\ ~Close
      BY <1>1 DEF Poll, Wait, WaitKilled, Close, End
    <3>4. \A s \in Streams : ~ReadChunk(s) /\ ~EndOfStream(s)
      BY <1>1 DEF ReadChunk, EndOfStream
    <3>5. ~Communicate /\ ~Collect
      BY <1>1 DEF Communicate, Collect, CheckInv, Account, Course
    <3> QED BY <1>1, <3>1, <3>2, <3>3, <3>4, <3>5 DEF Next, Outside, Supervisor
  <2>2. text.form = "report" /\ text.passed /\ Covers(text)
    BY <1>1, <2>1 DEF Judge, End
  <2>3. text \in Reports
    BY <1>1, <2>2, ReportForm DEF CheckInv, TypeOK
  <2> QED BY <2>2, <2>3 DEF Reports, Covers
<1>2. CheckInv /\ [Next]_vars =>
        [kind # "command" /\ outcome' = "clean" /\ outcome # "clean"
         => text = [form |-> "report", covers |-> selection, passed |-> TRUE]]_vars
  BY <1>1
<1> QED BY <1>2, CheckInvariant, PTL DEF Spec, PassIsCurrent
=============================================================================
