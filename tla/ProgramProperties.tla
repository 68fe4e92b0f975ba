------------------------- MODULE ProgramProperties -------------------------
(***************************************************************************)
(* What the programs of the checkout promise one another, and what a trial *)
(* that passes, or fails, is worth.                                        *)
(***************************************************************************)
EXTENDS Programs

\* Every variable keeps its type.
TypeOK ==
    /\ CheckoutTypes /\ KitTypes /\ ServerTypes /\ LedgerTypes
    /\ TrialTypes /\ planted \in {"nothing", "link", "folder"} /\ outside \in BOOLEAN
    /\ PilotTypes

\* A run that had read the policy before another wrote it has since written its
\* own copy, or stopped.
Overwritten(k) == \E j \in raced \ {k} : kit[j].step \in {"agents", "ended"}

\* Existing files are never overwritten: the files of one incident directory
\* have one author, or the user's test beside one author's files, and a real
\* test is never a placeholder again.  A kit that reports success has its
\* checks in the policy, unless a run that had read the policy before wrote
\* its own copy over them (incident.py:76-78, 190-196).
KitsKept ==
    /\ \A i \in Ids :
          Cardinality({kits_dir[i].by[f] : f \in Written} \ {User, None}) <= 1
    /\ \A k \in Kits : LET by == kits_dir[incident[k]].by IN
          kit[k].exit = 0 =>
             /\ by["test"] \in {k, User} /\ by["manifest"] = k /\ by["readme"] = k
             /\ incident[k] \in policy \/ Overwritten(k)

\* Unfinished work blocks and only blocks: whatever kits, edits and syncs were
\* under way, a stored receipt passes only if every incident its policy listed
\* had a real test when the run began (not only when the check looked), and no
\* half-written kit makes a run an operational error (incident.py:191).
UnfinishedBlocks ==
    \A n \in DOMAIN runs : LET read == runs[n].read IN
       /\ runs[n].code # 2
       /\ runs[n].code = 0 => \A i \in read.listed : read.tests[i] = User

\* An agent told a verdict can look it up: the receipt it was given is one
\* stored after it asked, with that verdict.  Frames are answered at most once,
\* in order, and all but notifications before the next is read (_serve).
VerdictBacked ==
    /\ \A n \in DOMAIN answers : answers[n].kind = "verdict" =>
          LET ref == answers[n].ref IN
          /\ ref \in DOMAIN runs /\ ref > answers[n].asked
          /\ runs[ref].code = answers[n].code
    /\ \A m, n \in DOMAIN answers : m < n => answers[m].frame < answers[n].frame
    /\ server \in {"reading", "exit0"} =>
          {answers[n].frame : n \in DOMAIN answers} = {f \in 1..taken : sent[f] # "note"}

\* What is posted is the record that was written, whoever rewrote its file in
\* between; it accounts for every receipt listed, and implicates exactly the
\* counted runs that did not pass (_publish_to_pr, _build_record).
RecordFaithful ==
    /\ comment # None => json # None /\ body # None /\ comment = json
    /\ json # None =>
          /\ json.receipts \union json.corrupt = listing
          /\ json.corrupt \subseteq pruned
          /\ json.implicated = {n \in json.receipts : runs[n].code # 0}

-----------------------------------------------------------------------------
\* "Every write must resolve inside the temp copy; a symlink planted by an earlier
\* turn [...] must never redirect an overlay to a file outside it": said of the
\* turns of a scenario in plugin-harness __init__.py:243-245.
TurnsStayInside == ~outside

\* The launches of a case, and that nothing was wrong with any.
Of(i) == {n \in DOMAIN launches : launches[n].ws = i}
AllGood(count) == Cardinality(DOMAIN launches) = count
                  /\ \A n \in DOMAIN launches : Good(launches[n].outcome)

\* A trial that ends with 0 was earned: no case is missing, failed or in error,
\* and every run of the gate in it left a receipt and did what was expected of
\* it; only reviewed bytes got into a pilot case, and the archive is what it was.
\* (run_fixtures.py ends with 0 over no fixtures; the others want a case.)
Earned ==
    exit_code = 0 =>
       /\ \A i \in DOMAIN results : results[i] \in {"PASS", "SKIP"}
       /\ trial \in {"eval", "fixtures"} => Len(results) = Items
       /\ trial = "eval" =>
             /\ \A i \in DOMAIN results : results[i] = "PASS" => Cardinality(Of(i)) = Turns
             /\ \A n \in DOMAIN launches : Good(launches[n].outcome)
       /\ trial = "fixtures" =>
             /\ \A i \in DOMAIN results : results[i] = "PASS" => Cardinality(Of(i)) = 2
             /\ \A n \in DOMAIN launches : Good(launches[n].outcome)
       /\ trial = "release" =>
             /\ Len(launches) = Len(Plan) /\ kept = DOMAIN launches
             /\ \A n \in DOMAIN launches :
                   Good([launches[n].outcome EXCEPT
                            !.printed = @ \/ Plan[n].how = "hook"])
       /\ trial = "pilot" =>
             /\ AllGood(Cases) /\ preserved
             /\ \A f \in Archived : template[f] = "reviewed"

\* Evidence outlives its workspace, above all of what went wrong: a receipt that
\* a fixture's run named and left readable has been copied before anything else
\* happens, whatever the second run comes to and also when the runner aborts, or
\* the copying of that very receipt failed and the case with it (a run killed for
\* its time names none); when the release check has ended, so has every sound
\* receipt of the first two repositories, or the run failed because one could not
\* be read.
EvidenceKept ==
    /\ trial = "fixtures" =>
          \A n \in DOMAIN launches : LET o == launches[n].outcome  ws == launches[n].ws IN
             o.code # "timeout" /\ Readable(o) /\ ~(phase = "score" /\ n = Len(launches)) =>
                n \in kept \/ (n \in trouble /\ ws \in DOMAIN results /\ results[ws] = "FAIL")
    /\ trial = "release" /\ phase = "ended" =>
          \A ws \in {"main", "node"} : \A n \in Whole(ws) :
             n \in kept \/ (ws \in trouble /\ report # "passed")
=============================================================================
