--------------------------- MODULE ProgramProofs ---------------------------
(***************************************************************************)
(* Proofs about the programs around the gate, for any number of incidents, *)
(* kits, frames and receipts, and for trials of any length.                *)
(***************************************************************************)
EXTENDS ProgramProperties, FiniteSetTheorems, TLAPS

KitStepNames == Written \union {"validate", "policy_text", "agents_text", "mkdir", "policy",
                                "agents", "ended"}
Authors == Kits \union {User, None}
Readings == [listed: SUBSET Ids, section: SUBSET Ids, tests: [Ids -> Authors]]
Stored == [code: 0..2, read: Readings]
GateStates == [stage: {"idle", "called", "read", "checked", "done"}, read: Readings,
               code: 0..2, ref: Nat]
KitStates == [step: KitStepNames, policy: SUBSET Ids, section: SUBSET Ids, exit: {0, 2, 3}]
Replies == [frame: Nat, kind: {"result", "error", "verdict", "tool_error"}, code: 0..2,
            ref: Nat, asked: Nat]

\* The types of the checkout's programs, with what the sequences hold.
SharedTyped == CheckoutTypes /\ runs \in Seq(Stored) /\ gate \in GateStates
KitTyped == KitTypes /\ kit \in [Kits -> KitStates]
ServerTyped ==
    /\ ServerTypes /\ sent \in Seq(FrameClasses) /\ answers \in Seq(Replies)
    /\ server \in {"answering", "calling"} => taken # 0
LedgerTyped ==
    LedgerTypes /\ (publisher \in {"parse", "list"} => counted = {} /\ corrupt = {})
ToolsTyped == SharedTyped /\ KitTyped /\ ServerTyped /\ LedgerTyped

\* Appending a member of S to a sequence over S.
LEMMA Appended ==
    ASSUME NEW S, NEW s \in Seq(S), NEW e \in S
    PROVE  /\ Append(s, e) \in Seq(S) /\ Len(Append(s, e)) = Len(s) + 1
           /\ DOMAIN Append(s, e) = DOMAIN s \union {Len(s) + 1} /\ Len(s) + 1 \notin DOMAIN s
           /\ DOMAIN s = 1..Len(s) /\ Len(s) \in Nat
           /\ Append(s, e)[Len(s) + 1] = e /\ \A n \in DOMAIN s : Append(s, e)[n] = s[n]
           /\ \A n \in DOMAIN s : s[n] \in S
<1>1. Len(Append(s, e)) = Len(s) + 1 /\ Len(s) \in Nat /\ Append(s, e) \in Seq(S)
  OBVIOUS
<1>2. DOMAIN s = 1..Len(s) /\ DOMAIN Append(s, e) = 1..(Len(s) + 1)
  BY <1>1
<1> QED  BY <1>1, <1>2

\* What is looked at is typed.
LEMMA SourcesTyped == CheckoutTypes => Sources \in Readings /\ Tests \in [Ids -> Authors]
<1> SUFFICES ASSUME CheckoutTypes PROVE Sources \in Readings /\ Tests \in [Ids -> Authors]
  OBVIOUS
<1>1. \A i \in Ids : kits_dir[i].by["test"] \in Authors
  BY DEF CheckoutTypes, Written, Authors
<1>2. Tests \in [Ids -> Authors]
  BY <1>1 DEF Tests
<1> QED  BY <1>2 DEF CheckoutTypes, Sources, Readings

\* The gate's part in the types.
GatePart ==
    /\ runs \in Seq(Stored) /\ gate \in GateStates /\ gate.ref \in 0..Len(runs)
    /\ pruned \subseteq DOMAIN runs
SourcePart ==
    /\ policy \subseteq Ids /\ agents \subseteq Ids
    /\ kits_dir \in [Ids -> [made: BOOLEAN, by: [Written -> Authors]]]
    /\ sync = None \/ sync \subseteq Ids
    /\ edits \in 0..MaxEdits

\* What programs share is the gate's side and the files' side of it.
LEMMA SharedParts == SharedTyped <=> GatePart /\ SourcePart
<1>1. ASSUME GatePart, SourcePart PROVE SharedTyped
  <2>1. \A n \in DOMAIN runs : runs[n] \in Stored
    BY <1>1 DEF GatePart
  <2>2. \A n \in DOMAIN runs : runs[n].code \in 0..2 /\ runs[n].read.listed \subseteq Ids
    BY <2>1 DEF Stored, Readings
  <2> QED  BY <1>1, <2>2 DEF GatePart, SourcePart, SharedTyped, CheckoutTypes, GateStates, Authors
<1>2. ASSUME SharedTyped PROVE GatePart /\ SourcePart
  BY <1>2 DEF GatePart, SourcePart, SharedTyped, CheckoutTypes, Authors
<1> QED  BY <1>1, <1>2

\* Verdicts are codes, and a run that has not begun has read nothing.
LEMMA GateValues ==
    /\ \A listed, section, tests : Verdicts(listed, section, tests) \subseteq 0..2
    /\ CheckoutAssumption => NoRun \in GateStates
<1>1. \A listed, section, tests : Verdicts(listed, section, tests) \subseteq 0..2
  BY DEF Verdicts
<1>2. [i \in Ids |-> None] \in [Ids -> Authors]
  BY DEF Authors
<1> QED  BY <1>1, <1>2 DEF NoRun, GateStates, Readings

\* Receipts are only ever added.
RunsGrow ==
    /\ runs' \in Seq(Stored) /\ DOMAIN runs \subseteq DOMAIN runs' /\ Len(runs) <= Len(runs')
    /\ \A n \in DOMAIN runs : runs'[n] = runs[n]

\* A step of the gate's run reads, checks and stores, and changes nothing else.
LEMMA GateRunsTyped ==
    ASSUME SharedTyped, GateRuns PROVE GatePart' /\ SourcePart' /\ RunsGrow
<1>1. GatePart /\ SourcePart
  BY SharedParts
<1>2. /\ runs \in Seq(Stored) /\ gate \in GateStates /\ gate.ref \in 0..Len(runs)
      /\ pruned \subseteq DOMAIN runs /\ Len(runs) \in Nat
  BY <1>1 DEF GatePart
<1>3. SourcePart'
  BY <1>1 DEF SourcePart, GateRuns, GateReads, GateChecks, GateStores, GateStoresNothing, sourceVars
<1>4. CASE GateReads
  <2>1. gate' \in GateStates /\ gate'.ref = gate.ref /\ UNCHANGED <<runs, pruned>>
    <3>1. Sources \in Readings
      BY SourcesTyped DEF SharedTyped
    <3> QED  BY <1>2, <1>4, <3>1 DEF GateReads, GateStates
  <2> QED  BY <1>2, <1>3, <2>1 DEF GatePart, RunsGrow
<1>5. CASE GateChecks
  <2>1. PICK v \in 0..2 : gate' = [gate EXCEPT !.stage = "checked", !.code = v]
    BY <1>5, GateValues DEF GateChecks
  <2>2. gate' \in GateStates /\ gate'.ref = gate.ref /\ UNCHANGED <<runs, pruned>>
    BY <1>2, <1>5, <2>1 DEF GateChecks, GateStates
  <2> QED  BY <1>2, <1>3, <2>2 DEF GatePart, RunsGrow
<1>6. CASE GateStores
  <2> DEFINE code == IF Sources # gate.read /\ gate.code = 0 THEN 1 ELSE gate.code
             e == [code |-> code, read |-> gate.read]
  <2>1. /\ runs' = Append(runs, e) /\ UNCHANGED pruned
        /\ gate' = [gate EXCEPT !.stage = "done", !.code = code, !.ref = Len(runs')]
    BY <1>6 DEF GateStores
  <2>2. code \in 0..2 /\ gate.read \in Readings
    BY <1>2 DEF GateStates
  <2>3. e \in Stored
    BY <2>2 DEF Stored
  <2> HIDE DEF e, code
  <2>4. RunsGrow /\ Len(runs') = Len(runs) + 1
    BY <1>2, <2>1, <2>3, Appended DEF RunsGrow
  <2>5. gate' \in GateStates /\ gate'.ref = Len(runs')
    <3> DEFINE n == Len(runs')
    <3>1. n \in Nat /\ gate' = [gate EXCEPT !.stage = "done", !.code = code, !.ref = n]
      BY <1>2, <2>1, <2>4
    <3> HIDE DEF n
    <3>2. gate' \in GateStates /\ gate'.ref = n
      BY <1>2, <2>2, <3>1 DEF GateStates
    <3> QED  BY <3>2 DEF n
  <2> QED  BY <1>2, <1>3, <2>1, <2>4, <2>5 DEF GatePart, RunsGrow
<1>7. CASE GateStoresNothing
  <2>1. gate' \in GateStates /\ gate'.ref = 0 /\ UNCHANGED <<runs, pruned>>
    <3> DEFINE c == 2  n == 0
    <3>1. c \in 0..2 /\ n \in Nat /\ gate' = [gate EXCEPT !.stage = "done", !.code = c, !.ref = n]
      BY <1>7 DEF GateStoresNothing
    <3> HIDE DEF c, n
    <3>2. gate' \in GateStates /\ gate'.ref = n
      BY <1>2, <3>1 DEF GateStates
    <3> QED  BY <1>7, <3>2 DEF GateStoresNothing, n
  <2> QED  BY <1>2, <1>3, <2>1 DEF GatePart, RunsGrow
<1> QED  BY <1>4, <1>5, <1>6, <1>7 DEF GateRuns

\* Others and the kits leave the receipts and the gate alone.
LEMMA OthersTyped ==
    ASSUME SharedTyped, Others PROVE GatePart' /\ SourcePart' /\ RunsGrow
<1>1. GatePart /\ SourcePart /\ MaxEdits \in Nat
  BY SharedParts, CheckoutAssumption DEF CheckoutAssumption
<1>2. UNCHANGED <<runs, gate>> /\ pruned' \subseteq DOMAIN runs
  BY <1>1 DEF Others, Replace, SyncLoads, SyncWrites, Prune, GatePart
<1>3. GatePart' /\ RunsGrow
  BY <1>1, <1>2 DEF GatePart, RunsGrow
<1>4. edits' \in 0..MaxEdits
  BY <1>1 DEF Others, Replace, SyncLoads, SyncWrites, Prune, Edit, SourcePart
<1>5. ASSUME NEW i \in Ids, Replace(i) PROVE SourcePart'
  <2>1. kits_dir' = [kits_dir EXCEPT ![i].by["test"] = User] /\ User \in Authors
    BY <1>5 DEF Replace, Authors
  <2>2. kits_dir' \in [Ids -> [made: BOOLEAN, by: [Written -> Authors]]]
    BY <1>1, <2>1 DEF SourcePart
  <2> QED  BY <1>1, <1>4, <1>5, <2>2 DEF Replace, SourcePart
<1>6. CASE SyncLoads \/ SyncWrites \/ \E n \in DOMAIN runs : Prune(n)
  <2>1. kits_dir' = kits_dir /\ policy' = policy
    BY <1>6 DEF SyncLoads, SyncWrites, Prune, sourceVars
  <2>2. (sync' = None \/ sync' \subseteq Ids) /\ agents' \subseteq Ids
    BY <1>1, <1>6 DEF SyncLoads, SyncWrites, Prune, SourcePart, sourceVars
  <2> QED  BY <1>1, <1>3, <1>4, <2>1, <2>2 DEF SourcePart
<1> QED  BY <1>3, <1>5, <1>6 DEF Others

\* The server starts and forgets runs.
LEMMA ServerShared ==
    ASSUME SharedTyped, ServerSteps \/ ClientSteps PROVE GatePart' /\ SourcePart' /\ RunsGrow
<1>1. GatePart /\ SourcePart /\ NoRun \in GateStates
  BY SharedParts, GateValues, CheckoutAssumption
<1>2. UNCHANGED <<sourceVars, runs, pruned, sync, edits>>
  BY DEF ServerSteps, ClientSteps, ReadFrame, Answer, ToolResult, GateRaises, EndOfInput, Send,
         CloseStdin, checkoutVars
<1>3. gate' \in {gate, NoRun, [NoRun EXCEPT !.stage = "called"]}
  BY DEF ServerSteps, ClientSteps, ReadFrame, Answer, ToolResult, GateRaises, EndOfInput, Send,
         CloseStdin, checkoutVars
<1>4. [NoRun EXCEPT !.stage = "called"] \in GateStates /\ NoRun.ref = 0
      /\ [NoRun EXCEPT !.stage = "called"].ref = 0
  BY <1>1 DEF NoRun, GateStates
<1>5. GatePart' /\ RunsGrow
  <2>1. runs' = runs /\ pruned' = pruned
    BY <1>2
  <2>2. gate' \in GateStates /\ gate'.ref \in 0..Len(runs)
    <3>1. gate.ref \in 0..Len(runs) /\ gate \in GateStates /\ 0 \in 0..Len(runs)
      BY <1>1 DEF GatePart
    <3> QED  BY <1>1, <1>3, <1>4, <3>1
  <2> QED  BY <1>1, <2>1, <2>2 DEF GatePart, RunsGrow
<1> QED  BY <1>1, <1>2, <1>5 DEF SourcePart, sourceVars

\* The ledger reads receipts and changes no input of the gate.
LEMMA PublisherShared ==
    ASSUME SharedTyped, PublisherSteps \/ Swap PROVE GatePart' /\ SourcePart' /\ RunsGrow
<1>1. GatePart /\ SourcePart
  BY SharedParts
<1>2. UNCHANGED <<sourceVars, runs, pruned, gate, sync>>
  BY DEF PublisherSteps, ParseArgs, ListReceipts, LoadReceipt, SuspectCommits, PersistJson,
         PersistMarkdown, PublishToPr, PublisherKilled, Swap, checkoutVars
<1>3. edits' \in 0..MaxEdits
  BY <1>1, CheckoutAssumption DEF CheckoutAssumption, PublisherSteps, ParseArgs, ListReceipts,
         LoadReceipt, SuspectCommits, PersistJson, PersistMarkdown, PublishToPr, PublisherKilled,
         Swap, Edit, checkoutVars, SourcePart
<1> QED  BY <1>1, <1>2, <1>3 DEF SourcePart, GatePart, RunsGrow, sourceVars


\* The order of the writes, step by step.
LEMMA WriteOrder ==
    /\ After("mkdir") = "test" /\ After("test") = "manifest" /\ After("manifest") = "readme"
    /\ After("readme") = "policy" /\ After("policy") = "agents"
<1>1. /\ Order[1] = "mkdir" /\ Order[2] = "test" /\ Order[3] = "manifest" /\ Order[4] = "readme"
      /\ Order[5] = "policy" /\ Order[6] = "agents"
  BY DEF Order
<1>2. ASSUME NEW m \in 1..5 PROVE (CHOOSE n \in 1..5 : Order[n] = Order[m]) = m
  <2>1. \A n \in 1..5 : Order[n] = Order[m] => n = m
    BY <1>1
  <2> QED  BY <2>1
<1>3. \A m \in 1..5 : After(Order[m]) = Order[1 + m]
  BY <1>2 DEF After
<1> QED  BY <1>1, <1>3

\* A kit goes on, or ends, and the others stay where they are.
LEMMA KitGoes ==
    ASSUME kit \in [Kits -> KitStates], NEW k \in Kits, NEW s \in KitStepNames, Go(k, s)
    PROVE  /\ kit' \in [Kits -> KitStates] /\ \A j \in Kits \ {k} : kit'[j] = kit[j]
           /\ kit'[k].step = s /\ kit'[k].policy = kit[k].policy
           /\ kit'[k].section = kit[k].section /\ kit'[k].exit = kit[k].exit
BY DEF Go, KitStates

\* A kit that ends keeps everything but its step and its exit code.
LEMMA KitEnds ==
    ASSUME kit \in [Kits -> KitStates], NEW k \in Kits, NEW c \in {0, 2}, End(k, c)
    PROVE  /\ kit' \in [Kits -> KitStates] /\ \A j \in Kits \ {k} : kit'[j] = kit[j]
           /\ kit'[k].step = "ended" /\ kit'[k].policy = kit[k].policy
           /\ kit'[k].section = kit[k].section /\ kit'[k].exit = c
BY DEF End, KitStates, KitStepNames

\* What a step of a kit does to the kits: it moves one of them on.
KitMove(k, step, text, section, exit) ==
    /\ kit' \in [Kits -> KitStates] /\ \A j \in Kits \ {k} : kit'[j] = kit[j]
    /\ kit'[k].step = step /\ kit'[k].policy = text /\ kit'[k].section = section
    /\ kit'[k].exit = exit

Kept(k, step) == KitMove(k, step, kit[k].policy, kit[k].section, kit[k].exit)
Ended(k, code) == KitMove(k, "ended", kit[k].policy, kit[k].section, code)

\* What one step of a kit does to its locals and to nobody else's.
LEMMA KitMoves ==
    ASSUME SharedTyped, KitTyped, NEW k \in Kits
    PROVE  /\ Validate(k) => Ended(k, 2) \/ Kept(k, "policy_text")
           /\ PolicyText(k) =>
                \/ Ended(k, 2)
                \/ KitMove(k, "agents_text", policy \union {incident[k]}, kit[k].section, kit[k].exit)
           /\ AgentsText(k) => KitMove(k, "mkdir", kit[k].policy, kit[k].policy, kit[k].exit)
           /\ MakeDirectory(k) =>
                \/ Ended(k, 2) /\ UNCHANGED kits_dir
                \/ Kept(k, "test") /\ ~kits_dir[incident[k]].made
           /\ WriteFile(k) =>
                \/ kit[k].step = "test" /\ Kept(k, "manifest")
                \/ kit[k].step = "manifest" /\ Kept(k, "readme")
                \/ kit[k].step = "readme" /\ Kept(k, "policy")
           /\ WritePolicy(k) => Kept(k, "agents")
           /\ WriteAgents(k) => Ended(k, 0)
           /\ Stops(k) => Ended(k, 2)
<1> USE DEF KitMove, Kept, Ended
<1>1. /\ kit \in [Kits -> KitStates] /\ incident[k] \in Ids /\ policy \subseteq Ids
      /\ kit[k].step \in KitStepNames /\ kit[k].policy \subseteq Ids
  BY DEF KitTyped, KitTypes, SharedTyped, CheckoutTypes, KitStepNames
<1>2. {"validate", "policy_text", "agents_text", "mkdir", "test", "manifest", "readme",
       "policy", "agents", "ended"} = KitStepNames
  BY DEF KitStepNames, Written
<1>3. Validate(k) => Ended(k, 2) \/ Kept(k, "policy_text")
  BY <1>1, <1>2, KitGoes, KitEnds DEF Validate
<1>4. ASSUME PolicyText(k)
      PROVE  \/ Ended(k, 2)
             \/ KitMove(k, "agents_text", policy \union {incident[k]}, kit[k].section, kit[k].exit)
  <2>1. CASE incident[k] \in policy
    BY <1>1, <1>4, <2>1, KitEnds DEF PolicyText
  <2>2. CASE incident[k] \notin policy
    <3> DEFINE text == policy \union {incident[k]}
    <3>1. text \subseteq Ids
      BY <1>1
    <3>2. kit' = [kit EXCEPT ![k].step = "agents_text", ![k].policy = text]
      BY <1>4, <2>2 DEF PolicyText
    <3> HIDE DEF text
    <3>3. /\ kit' \in [Kits -> KitStates] /\ \A j \in Kits \ {k} : kit'[j] = kit[j]
          /\ kit'[k].step = "agents_text" /\ kit'[k].policy = text
          /\ kit'[k].section = kit[k].section /\ kit'[k].exit = kit[k].exit
      BY <1>1, <1>2, <3>1, <3>2 DEF KitStates
    <3> QED  BY <3>3 DEF text
  <2> QED  BY <2>1, <2>2
<1>5. ASSUME AgentsText(k)
      PROVE  KitMove(k, "mkdir", kit[k].policy, kit[k].policy, kit[k].exit)
  <2> DEFINE text == kit[k].policy
  <2>1. kit' = [kit EXCEPT ![k].step = "mkdir", ![k].section = text]
    BY <1>5 DEF AgentsText
  <2>2. text \subseteq Ids
    BY <1>1
  <2> HIDE DEF text
  <2>3. /\ kit' \in [Kits -> KitStates] /\ \A j \in Kits \ {k} : kit'[j] = kit[j]
        /\ kit'[k].step = "mkdir" /\ kit'[k].policy = kit[k].policy
        /\ kit'[k].section = text /\ kit'[k].exit = kit[k].exit
    BY <1>1, <1>2, <2>1, <2>2 DEF KitStates
  <2> QED  BY <2>3 DEF text
<1>6. MakeDirectory(k) => \/ Ended(k, 2) /\ UNCHANGED kits_dir
                          \/ Kept(k, "test") /\ ~kits_dir[incident[k]].made
  BY <1>1, <1>2, WriteOrder, KitGoes, KitEnds DEF MakeDirectory
<1>7. WriteFile(k) => \/ kit[k].step = "test" /\ Kept(k, "manifest")
                      \/ kit[k].step = "manifest" /\ Kept(k, "readme")
                      \/ kit[k].step = "readme" /\ Kept(k, "policy")
  BY <1>1, <1>2, WriteOrder, KitGoes DEF WriteFile, Written
<1>8. WritePolicy(k) => Kept(k, "agents")
  BY <1>1, <1>2, WriteOrder, KitGoes DEF WritePolicy
<1>9. (WriteAgents(k) => Ended(k, 0)) /\ (Stops(k) => Ended(k, 2))
  BY <1>1, KitEnds DEF WriteAgents, Stops
<1> QED  BY <1>3, <1>4, <1>5, <1>6, <1>7, <1>8, <1>9

\* The kits write the sources and keep their types.
LEMMA KitsTyped ==
    ASSUME SharedTyped, KitTyped, KitSteps
    PROVE  GatePart' /\ SourcePart' /\ RunsGrow /\ KitTyped'
<1>1. /\ GatePart /\ SourcePart /\ kit \in [Kits -> KitStates] /\ incident \in [Kits -> Ids]
      /\ raced \subseteq Kits
  BY SharedParts DEF KitTyped, KitTypes
<1>2. PICK k \in Kits : \/ Validate(k) \/ PolicyText(k) \/ AgentsText(k) \/ MakeDirectory(k)
                        \/ WriteFile(k) \/ WritePolicy(k) \/ WriteAgents(k) \/ Stops(k)
  BY DEF KitSteps
<1>3. UNCHANGED <<runs, pruned, gate, sync, edits, incident>>
  BY <1>2 DEF Validate, PolicyText, AgentsText, MakeDirectory, WriteFile, WritePolicy,
              WriteAgents, Stops, elsewhere
<1>4. GatePart' /\ RunsGrow
  BY <1>1, <1>3 DEF GatePart, RunsGrow
<1>5. policy' \subseteq Ids /\ agents' \subseteq Ids
  <2>1. kit[k].policy \subseteq Ids /\ kit[k].section \subseteq Ids /\ policy \subseteq Ids
        /\ agents \subseteq Ids
    BY <1>1 DEF KitStates, SourcePart
  <2> QED  BY <1>2, <2>1 DEF Validate, PolicyText, AgentsText, MakeDirectory, WriteFile,
              WritePolicy, WriteAgents, Stops, sourceVars
<1>6. kits_dir' \in [Ids -> [made: BOOLEAN, by: [Written -> Authors]]]
  <2>1. kits_dir \in [Ids -> [made: BOOLEAN, by: [Written -> Authors]]] /\ k \in Authors
        /\ incident[k] \in Ids
    BY <1>1 DEF SourcePart, Authors
  <2>2. CASE MakeDirectory(k)
    <3>1. \/ UNCHANGED kits_dir
          \/ kits_dir' = [kits_dir EXCEPT ![incident[k]].made = TRUE]
      BY <2>2 DEF MakeDirectory
    <3> QED  BY <2>1, <3>1
  <2>3. CASE WriteFile(k)
    <3> DEFINE i == incident[k]  f == kit[k].step
    <3>1. kits_dir' = [kits_dir EXCEPT ![i].by[f] = k] /\ f \in Written /\ i \in Ids
      BY <2>1, <2>3 DEF WriteFile
    <3> HIDE DEF i, f
    <3> QED  BY <2>1, <3>1
  <2>4. CASE ~(MakeDirectory(k) \/ WriteFile(k))
    BY <1>2, <2>1, <2>4 DEF Validate, PolicyText, AgentsText, WritePolicy, WriteAgents, Stops,
              sourceVars
  <2> QED  BY <2>2, <2>3, <2>4
<1>7. SourcePart'
  BY <1>1, <1>3, <1>5, <1>6 DEF SourcePart
<1>8. raced' \subseteq Kits /\ incident' \in [Kits -> Ids]
  BY <1>1, <1>2, <1>3 DEF Validate, PolicyText, AgentsText, MakeDirectory, WriteFile, WritePolicy,
              WriteAgents, Stops, Stale
<1>9. \E s \in KitStepNames : \E t, u, e :
        KitMove(k, s, t, u, e) /\ (s = "ended" <=> e # 3)
  <2>1. (kit[k].exit = 3) = (kit[k].step # "ended")
    BY DEF KitTyped, KitTypes
  <2>2. \A s \in KitStepNames : Kept(k, s) /\ kit[k].step # "ended" /\ s # "ended" =>
          \E t, u, e : KitMove(k, s, t, u, e) /\ (s = "ended" <=> e # 3)
    BY <2>1 DEF Kept
  <2>3. Ended(k, 0) \/ Ended(k, 2) =>
          \E t, u, e : KitMove(k, "ended", t, u, e) /\ e # 3
    BY DEF Ended
  <2>4. {"validate", "policy_text", "agents_text", "mkdir", "test", "manifest", "readme",
         "policy", "agents", "ended"} = KitStepNames
    BY DEF KitStepNames, Written
  <2> USE KitMoves
  <2>5. CASE Validate(k) \/ MakeDirectory(k) \/ WriteFile(k) \/ WritePolicy(k)
    <3>1. kit[k].step # "ended"
      BY <2>5 DEF Validate, MakeDirectory, WriteFile, WritePolicy, Written
    <3> QED  BY <2>2, <2>3, <2>4, <2>5, <3>1
  <2>6. CASE PolicyText(k) \/ AgentsText(k)
    <3>1. kit[k].step # "ended"
      BY <2>6 DEF PolicyText, AgentsText
    <3>2. kit[k].exit = 3
      BY <2>1, <3>1
    <3> QED  BY <2>3, <2>4, <2>6, <3>2
  <2>7. CASE WriteAgents(k) \/ Stops(k)
    BY <2>3, <2>4, <2>7
  <2> QED  BY <1>2, <2>5, <2>6, <2>7
<1>10. KitTyped'
  <2>1. kit' \in [Kits -> KitStates]
    BY <1>9 DEF KitMove
  <2>2. ASSUME NEW j \in Kits PROVE (kit'[j].exit = 3) = (kit'[j].step # "ended")
    <3>1. (kit[j].exit = 3) = (kit[j].step # "ended")
      BY DEF KitTyped, KitTypes
    <3>2. CASE j = k
      BY <1>9, <3>2 DEF KitMove
    <3>3. CASE j # k
      BY <1>9, <3>1, <3>3 DEF KitMove
    <3> QED  BY <3>2, <3>3
  <2>3. \A j \in Kits : /\ kit'[j].step \in KitStepNames /\ kit'[j].policy \subseteq Ids
                        /\ kit'[j].section \subseteq Ids /\ kit'[j].exit \in {0, 2, 3}
    BY <2>1 DEF KitStates
  <2> QED  BY <1>8, <2>1, <2>2, <2>3 DEF KitTyped, KitTypes, KitStepNames
<1> QED  BY <1>4, <1>7, <1>10


\* The server's types without the receipts and the run.
ServerPart ==
    /\ sent \in Seq(FrameClasses) /\ Len(sent) <= MaxFrames /\ closed \in BOOLEAN
    /\ taken \in 0..Len(sent) /\ answers \in Seq(Replies)
    /\ \A n \in DOMAIN answers : answers[n].frame \in 1..taken
    /\ server \in {"reading", "answering", "calling", "exit0", "exit2"}
    /\ server \in {"answering", "calling"} => taken # 0

\* The server's types, apart from what ties them to the receipts and to the run.
LEMMA ServerParts ==
    ServerTyped <=> ServerPart /\ asked \in 0..Len(runs) /\ (server = "calling" <=> gate.stage # "idle")
<1>1. ASSUME ServerPart
      PROVE  /\ \A n \in DOMAIN sent : sent[n] \in FrameClasses
             /\ \A n \in DOMAIN answers :
                  /\ answers[n].frame \in 1..taken /\ answers[n].code \in 0..2
                  /\ answers[n].kind \in {"result", "error", "verdict", "tool_error"}
  <2>1. /\ \A n \in DOMAIN sent : sent[n] \in FrameClasses
        /\ \A n \in DOMAIN answers : answers[n] \in Replies
    BY <1>1 DEF ServerPart
  <2> QED  BY <1>1, <2>1 DEF ServerPart, Replies
<1>2. ASSUME ServerTyped
      PROVE  ServerPart /\ asked \in 0..Len(runs) /\ (server = "calling" <=> gate.stage # "idle")
  BY <1>2 DEF ServerPart, ServerTyped, ServerTypes
<1>3. ASSUME ServerPart, asked \in 0..Len(runs), server = "calling" <=> gate.stage # "idle"
      PROVE  ServerTyped
  <2>1. (server = "calling") = (gate.stage # "idle")
    BY <1>3
  <2> QED  BY <1>1, <1>3, <2>1 DEF ServerPart, ServerTyped, ServerTypes
<1> QED  BY <1>2, <1>3

\* Receipts stored meanwhile do not concern the server.
LEMMA ServerWaits ==
    ASSUME SharedTyped, ServerTyped, RunsGrow, runs' \in Seq(Stored), UNCHANGED serverVars,
           gate'.stage # "idle" <=> gate.stage # "idle"
    PROVE  ServerTyped'
<1>1. ServerPart /\ asked \in 0..Len(runs) /\ (server = "calling" <=> gate.stage # "idle")
  BY ServerParts
<1>2. ServerPart'
  BY <1>1 DEF ServerPart, serverVars
<1>3. asked' \in 0..Len(runs') /\ (server' = "calling" <=> gate'.stage # "idle")
  <2>1. Len(runs') \in Nat /\ Len(runs) \in Nat /\ Len(runs) <= Len(runs')
    BY DEF RunsGrow, SharedTyped
  <2> QED  BY <1>1, <2>1 DEF serverVars
<1>4. (ServerPart /\ asked \in 0..Len(runs) /\ (server = "calling" <=> gate.stage # "idle"))'
      => ServerTyped'
  BY ServerParts, PTL
<1> QED  BY <1>2, <1>3, <1>4

\* An answer, or a client that has stopped listening.
LEMMA WriteTyped ==
    ASSUME ServerPart, NEW a \in Replies, a.frame \in 1..taken, Write(a), UNCHANGED <<sent, closed, taken>>
    PROVE  ServerPart'
<1>1. CASE answers' = Append(answers, a) /\ server' = "reading"
  <2>1. answers' \in Seq(Replies) /\ \A n \in DOMAIN answers' : answers'[n].frame \in 1..taken
    BY <1>1, Appended DEF ServerPart
  <2> QED  BY <1>1, <2>1 DEF ServerPart
<1>2. CASE server' = "exit2" /\ UNCHANGED answers
  BY <1>2 DEF ServerPart
<1> QED  BY <1>1, <1>2 DEF Write

\* The server and its client keep their types.
LEMMA ServerStep ==
    ASSUME SharedTyped, ServerTyped, ServerSteps \/ ClientSteps PROVE ServerTyped'
<1>0. (ServerPart /\ asked \in 0..Len(runs) /\ (server = "calling" <=> gate.stage # "idle"))'
      => ServerTyped'
  BY ServerParts, PTL
<1>1. ServerPart /\ asked \in 0..Len(runs) /\ (server = "calling" <=> gate.stage # "idle")
  BY ServerParts
<1>2. /\ sent \in Seq(FrameClasses) /\ Len(sent) \in Nat /\ taken \in 0..Len(sent)
      /\ Len(runs) \in Nat /\ gate \in GateStates /\ gate.ref \in Nat /\ gate.code \in 0..2
  BY <1>1, SharedParts DEF ServerPart, GatePart, GateStates
<1>3. runs' = runs
  BY DEF ServerSteps, ClientSteps, ReadFrame, Answer, ToolResult, GateRaises, EndOfInput, Send,
         CloseStdin, checkoutVars
<1>4. ASSUME NEW c \in FrameClasses, Send(c) PROVE ServerPart' /\ UNCHANGED <<asked, server, gate>>
  <2>1. /\ sent' \in Seq(FrameClasses) /\ Len(sent') = Len(sent) + 1 /\ Len(sent) < MaxFrames
        /\ UNCHANGED <<closed, taken, asked, answers, server, gate>>
    BY <1>2, <1>4, Appended DEF Send, checkoutVars
  <2>2. Len(sent') <= MaxFrames /\ taken' \in 0..Len(sent')
    BY <1>2, <2>1, ServerAssumption DEF ServerAssumption
  <2> QED  BY <1>1, <2>1, <2>2 DEF ServerPart
<1>5. CASE CloseStdin \/ EndOfInput
  <2>1. /\ ServerPart' /\ UNCHANGED <<asked, gate>>
        /\ server' = server \/ (server = "reading" /\ server' = "exit0")
    BY <1>1, <1>5 DEF CloseStdin, EndOfInput, ServerPart, checkoutVars
  <2>2. asked' \in 0..Len(runs') /\ (server' = "calling" <=> gate'.stage # "idle")
    BY <1>1, <1>3, <2>1
  <2> QED  BY <1>0, <2>1, <2>2
<1>6. CASE ReadFrame
  <2>1. /\ taken' = taken + 1 /\ taken < Len(sent) /\ asked' = Len(runs) /\ server = "reading"
        /\ UNCHANGED <<sent, closed, answers>>
    BY <1>6 DEF ReadFrame
  <2>2. /\ server' \in {"reading", "answering", "calling", "exit0", "exit2"}
        /\ server' = "calling" => gate' = [NoRun EXCEPT !.stage = "called"]
        /\ server' # "calling" => gate' = gate
    BY <1>6 DEF ReadFrame
  <2>3. [NoRun EXCEPT !.stage = "called"].stage = "called"
    BY DEF NoRun
  <2>4. \A n \in DOMAIN answers : answers[n].frame \in 1..taken'
    <3>1. \A n \in DOMAIN answers : answers[n].frame \in 1..taken
      BY <1>1 DEF ServerPart
    <3> QED  BY <1>2, <2>1, <3>1
  <2>5. ServerPart'
    BY <1>1, <1>2, <2>1, <2>2, <2>4 DEF ServerPart
  <2>6. asked' \in 0..Len(runs')
    BY <1>2, <1>3, <2>1
  <2>7. gate.stage = "idle"
    BY <1>1, <2>1
  <2>8. server' = "calling" <=> gate'.stage # "idle"
    <3>1. CASE server' = "calling"
      BY <2>2, <2>3, <3>1
    <3>2. CASE server' # "calling"
      BY <2>2, <2>7, <3>2
    <3> QED  BY <3>1, <3>2
  <2> QED  BY <1>0, <2>5, <2>6, <2>8
<1>7. CASE Answer \/ ToolResult \/ GateRaises
  <2>1. /\ taken # 0 /\ server # "reading" /\ UNCHANGED <<sent, closed, taken, asked>>
        /\ (server = "answering" /\ gate' = gate) \/ (server = "calling" /\ gate' = NoRun)
    BY <1>1, <1>7 DEF Answer, ToolResult, GateRaises, ServerPart, checkoutVars
  <2>2. \A kind \in {"result", "error", "verdict", "tool_error"} :
          Plain(kind) \in Replies /\ Plain(kind).frame = taken
    BY <1>1, <1>2 DEF Plain, Replies
  <2>3. taken \in 1..taken
    BY <1>2, <2>1
  <2>4. \E a \in Replies : a.frame = taken /\ Write(a)
    <3>1. CASE Answer \/ GateRaises
      BY <2>2, <3>1 DEF Answer, GateRaises
    <3>2. CASE ToolResult
      <4> DEFINE kind == IF gate.code = 2 THEN "tool_error" ELSE "verdict"
                 p == Plain(kind)  c == gate.code  n == gate.ref
                 a == [p EXCEPT !.code = c, !.ref = n]
      <4>1. Write(a)
        BY <3>2 DEF ToolResult
      <4>2. p \in Replies /\ p.frame = taken /\ c \in 0..2 /\ n \in Nat
        BY <1>2, <2>2
      <4> HIDE DEF p, c, n
      <4>3. a \in Replies /\ a.frame = taken
        BY <4>2 DEF Replies
      <4> QED  BY <4>1, <4>3
    <3> QED  BY <1>7, <3>1, <3>2
  <2>5. ServerPart' /\ server' \in {"reading", "exit2"}
    <3>1. ServerPart'
      BY <1>1, <2>1, <2>3, <2>4, WriteTyped
    <3>2. server' \in {"reading", "exit2"}
      BY <2>4 DEF Write
    <3> QED  BY <3>1, <3>2
  <2>6. gate'.stage = "idle"
    BY <1>1, <2>1 DEF NoRun
  <2> QED  BY <1>0, <1>1, <1>3, <2>1, <2>5, <2>6
<1> QED  BY <1>0, <1>1, <1>3, <1>4, <1>5, <1>6, <1>7 DEF ServerSteps, ClientSteps

\* The ledger and its types.
LEMMA LedgerStep ==
    ASSUME SharedTyped, LedgerTyped, PublisherSteps \/ Swap PROVE LedgerTyped'
<1>1. UNCHANGED runs
  BY DEF PublisherSteps, ParseArgs, ListReceipts, LoadReceipt, SuspectCommits, PersistJson,
         PersistMarkdown, PublishToPr, PublisherKilled, Swap, checkoutVars
<1>2. CASE ParseArgs
  BY <1>1, <1>2 DEF ParseArgs, LedgerTyped, LedgerTypes
<1>6. CASE ListReceipts
  BY <1>1, <1>6 DEF ListReceipts, LedgerTyped, LedgerTypes
<1>3. ASSUME NEW n \in listing, LoadReceipt(n) PROVE LedgerTyped'
  BY <1>1, <1>3 DEF LoadReceipt, LedgerTyped, LedgerTypes
<1>4. CASE SuspectCommits
  BY <1>1, <1>4 DEF SuspectCommits, LedgerTyped, LedgerTypes, Hints
<1>5. CASE PersistJson \/ PersistMarkdown \/ PublishToPr \/ PublisherKilled \/ Swap
  BY <1>1, <1>5 DEF PersistJson, PersistMarkdown, PublishToPr, PublisherKilled, Swap,
         LedgerTyped, LedgerTypes
<1> QED  BY <1>2, <1>3, <1>4, <1>5, <1>6 DEF PublisherSteps

-----------------------------------------------------------------------------
\* What is true at first of the programs of the checkout.
LEMMA ToolsInit == Init => ToolsTyped
<1> SUFFICES ASSUME Init PROVE ToolsTyped
  OBVIOUS
<1> USE CheckoutAssumption, ServerAssumption DEF CheckoutAssumption, ServerAssumption
<1>1. CheckoutInit /\ KitInit /\ ServerInit /\ LedgerInit
  BY DEF Init
<1>2. GatePart /\ SourcePart
  <2>1. NoKit \in [made: BOOLEAN, by: [Written -> Authors]]
    BY DEF NoKit, Authors
  <2>2. NoRun.ref = 0 /\ NoRun \in GateStates
    BY GateValues DEF NoRun
  <2> QED  BY <1>1, <2>1, <2>2 DEF CheckoutInit, GatePart, SourcePart
<1>3. KitTyped
  <2>1. Fresh \in KitStates /\ Fresh.exit = 3 /\ Fresh.step = "validate"
    BY DEF Fresh, KitStates, KitStepNames
  <2>2. kit \in [Kits -> KitStates] /\ \A k \in Kits : kit[k].exit = 3 /\ kit[k].step = "validate"
    BY <1>1, <2>1 DEF KitInit
  <2>3. \A k \in Kits : /\ kit[k].step \in KitStepNames /\ kit[k].policy \subseteq Ids
                        /\ kit[k].section \subseteq Ids /\ kit[k].exit \in {0, 2, 3}
    BY <2>2 DEF KitStates
  <2> QED  BY <1>1, <2>2, <2>3 DEF KitInit, KitTyped, KitTypes, KitStepNames
<1>4. ServerTyped
  <2>1. /\ sent = <<>> /\ answers = <<>> /\ runs = <<>> /\ taken = 0 /\ asked = 0
        /\ closed = FALSE /\ server = "reading"
    BY <1>1 DEF ServerInit, CheckoutInit
  <2>3. /\ sent \in Seq(FrameClasses) /\ answers \in Seq(Replies) /\ DOMAIN answers = {}
        /\ Len(sent) <= MaxFrames /\ taken \in 0..Len(sent) /\ asked \in 0..Len(runs)
    BY <2>1
  <2>4. ServerPart
    BY <2>1, <2>3 DEF ServerPart
  <2>2. server = "calling" <=> gate.stage # "idle"
    BY <1>1 DEF ServerInit, CheckoutInit, NoRun
  <2> QED  BY <2>2, <2>3, <2>4, ServerParts
<1>5. LedgerTyped
  BY <1>1 DEF LedgerInit, LedgerTyped, LedgerTypes, Hints
<1> QED  BY <1>2, <1>3, <1>4, <1>5, SharedParts DEF ToolsTyped

\* Receipts that are added are no trouble to the ledger.
LEMMA LedgerWaits ==
    ASSUME LedgerTyped, RunsGrow, UNCHANGED ledgerVars PROVE LedgerTyped'
BY DEF LedgerTyped, LedgerTypes, RunsGrow, ledgerVars

\* A step of anybody else leaves the kits as they are.
LEMMA KitWaits == ASSUME KitTyped, UNCHANGED kitVars PROVE KitTyped'
BY DEF KitTyped, KitTypes, kitVars

\* Every step in the checkout keeps the types, and receipts once stored.
LEMMA ToolsStep ==
    ASSUME ToolsTyped, ToolsNext PROVE ToolsTyped' /\ RunsGrow
<1>1. SharedTyped /\ KitTyped /\ ServerTyped /\ LedgerTyped
  BY DEF ToolsTyped
<1>2. (GatePart /\ SourcePart)' => SharedTyped'
  BY SharedParts, PTL
<1>3. CASE (GateRuns \/ Others) /\ UNCHANGED <<kitVars, serverVars, ledgerVars>>
  <2>1. GatePart' /\ SourcePart' /\ RunsGrow
    BY <1>1, <1>3, GateRunsTyped, OthersTyped
  <2>2. gate'.stage # "idle" <=> gate.stage # "idle"
    <3>1. gate \in GateStates
      BY <1>1 DEF SharedTyped
    <3>2. CASE GateRuns
      BY <3>1, <3>2 DEF GateStates, GateRuns, GateReads, GateChecks, GateStores, GateStoresNothing
    <3>3. CASE Others
      BY <3>3 DEF Others, Replace, SyncLoads, SyncWrites, Prune
    <3> QED  BY <1>3, <3>2, <3>3
  <2>3. runs' \in Seq(Stored) /\ UNCHANGED serverVars /\ UNCHANGED kitVars /\ UNCHANGED ledgerVars
    BY <1>3, <2>1 DEF RunsGrow
  <2>4. ServerTyped'
    BY <1>1, <2>1, <2>2, <2>3, ServerWaits
  <2> QED  BY <1>1, <1>2, <2>1, <2>3, <2>4, KitWaits, LedgerWaits DEF ToolsTyped
<1>4. CASE KitSteps /\ UNCHANGED <<serverVars, ledgerVars>>
  <2>1. GatePart' /\ SourcePart' /\ RunsGrow /\ KitTyped'
    BY <1>1, <1>4, KitsTyped
  <2>2. gate' = gate
    BY <1>4 DEF KitSteps, Validate, PolicyText, AgentsText, MakeDirectory, WriteFile, WritePolicy,
                WriteAgents, Stops, elsewhere
  <2>3. runs' \in Seq(Stored) /\ UNCHANGED serverVars /\ UNCHANGED ledgerVars
    BY <1>4, <2>1 DEF RunsGrow
  <2>4. ServerTyped'
    BY <1>1, <2>1, <2>2, <2>3, ServerWaits
  <2> QED  BY <1>1, <1>2, <2>1, <2>3, <2>4, LedgerWaits DEF ToolsTyped
<1>5. CASE (ServerSteps \/ ClientSteps) /\ UNCHANGED <<kitVars, ledgerVars>>
  <2>1. GatePart' /\ SourcePart' /\ RunsGrow /\ ServerTyped'
    BY <1>1, <1>5, ServerShared, ServerStep
  <2>2. UNCHANGED kitVars /\ UNCHANGED ledgerVars
    BY <1>5
  <2> QED  BY <1>1, <1>2, <2>1, <2>2, KitWaits, LedgerWaits DEF ToolsTyped
<1>6. CASE (PublisherSteps \/ Swap) /\ UNCHANGED <<kitVars, serverVars>>
  <2>1. GatePart' /\ SourcePart' /\ RunsGrow /\ LedgerTyped'
    BY <1>1, <1>6, PublisherShared, LedgerStep
  <2>2. gate' = gate
    BY <1>6 DEF PublisherSteps, ParseArgs, ListReceipts, LoadReceipt, SuspectCommits, PersistJson,
         PersistMarkdown, PublishToPr, PublisherKilled, Swap, checkoutVars
  <2>3. runs' \in Seq(Stored) /\ UNCHANGED serverVars /\ UNCHANGED kitVars
    BY <1>6, <2>1 DEF RunsGrow
  <2>4. ServerTyped'
    BY <1>1, <2>1, <2>2, <2>3, ServerWaits
  <2> QED  BY <1>1, <1>2, <2>1, <2>3, <2>4, KitWaits DEF ToolsTyped
<1> QED  BY <1>3, <1>4, <1>5, <1>6 DEF ToolsNext

\* Steps of a trial, and none at all, leave the checkout alone.
LEMMA ToolsRest ==
    ASSUME ToolsTyped, UNCHANGED toolVars PROVE ToolsTyped' /\ RunsGrow
<1>1. ToolsTyped'
  BY DEF ToolsTyped, SharedTyped, CheckoutTypes, KitTyped, KitTypes, ServerTyped, ServerTypes,
         LedgerTyped, LedgerTypes, toolVars, checkoutVars, sourceVars, kitVars, serverVars,
         ledgerVars
<1>2. RunsGrow
  BY <1>1 DEF RunsGrow, ToolsTyped, SharedTyped, toolVars, checkoutVars
<1> QED  BY <1>1, <1>2

-----------------------------------------------------------------------------
(* What the programs in the checkout owe one another, and what is true of  *)
(* them on the way.                                                        *)

\* A verdict that is about to be sent is that of a receipt stored since the
\* question; frames before the last one read are settled.
GateBacked ==
    gate.stage = "done" /\ gate.code # 2 =>
        gate.ref \in DOMAIN runs /\ gate.ref > asked /\ runs[gate.ref].code = gate.code
AnswersBacked ==
    \A n \in DOMAIN answers : answers[n].kind = "verdict" =>
        LET ref == answers[n].ref IN
        ref \in DOMAIN runs /\ ref > answers[n].asked /\ runs[ref].code = answers[n].code
Pending == IF server \in {"answering", "calling"} THEN {taken} ELSE {}
AnsweredFrames == {answers[n].frame : n \in DOMAIN answers}
AnswersInTurn ==
    /\ \A m, n \in DOMAIN answers : m < n => answers[m].frame < answers[n].frame
    /\ \A f \in Pending : sent[f] # "note" /\ \A n \in DOMAIN answers : answers[n].frame < f
    /\ server # "exit2" => AnsweredFrames = {f \in (1..taken) \ Pending : sent[f] # "note"}
AnswersInv == GateBacked /\ AnswersBacked /\ AnswersInTurn

\* The record in memory is fixed before it is written, and what is in the files
\* is it, or is somebody else's.
RecordInv ==
    /\ corrupt \subseteq pruned
    /\ publisher \in {"parse", "list", "load", "json"} => json = None /\ comment = None
    /\ publisher \in {"parse", "list", "load", "json", "markdown"} => comment = None
    /\ publisher \in {"json", "markdown", "post"} \/ json # None => listing = counted \union corrupt
    /\ publisher \in {"markdown", "post"} \/ json # None => json = Record
    /\ publisher = "post" => body \in {Record, Foreign}
    /\ comment # None => comment = Record /\ json = Record /\ body \in {Record, Foreign}

\* Whoever has made an incident's directory, and no other run, writes its files.
Owns(k) == kit[k].step \in Written \union {"policy", "agents"} \/ kit[k].exit = 0
Test(k) == kits_dir[incident[k]].by["test"]
Owners ==
    /\ \A k \in Kits : Owns(k) =>
          /\ kits_dir[incident[k]].made
          /\ \A f \in Written : kits_dir[incident[k]].by[f] \in {k, User, None}
          /\ \A j \in Kits : Owns(j) /\ incident[j] = incident[k] => j = k
          /\ kit[k].step = "test" => Test(k) = None
          /\ kit[k].step # "test" => Test(k) \in {k, User}
          /\ kit[k].step \in {"readme", "policy", "agents", "ended"} =>
                kits_dir[incident[k]].by["manifest"] = k
          /\ kit[k].step \in {"policy", "agents", "ended"} =>
                kits_dir[incident[k]].by["readme"] = k
    /\ \A i \in Ids :
          /\ ~kits_dir[i].made => \A f \in Written : kits_dir[i].by[f] = None
          /\ kits_dir[i].by["manifest"] # User /\ kits_dir[i].by["readme"] # User
          /\ \A f, g \in Written : kits_dir[i].by[f] \in Kits /\ kits_dir[i].by[g] \in Kits =>
                kits_dir[i].by[f] = kits_dir[i].by[g]

\* A policy written by a kit has its incident, unless another's copy is older.
Reads(k) == kit[k].step \in {"agents_text", "mkdir", "policy"} \union Written
Listed ==
    /\ \A k \in Kits : Reads(k) =>
          incident[k] \in kit[k].policy /\ (k \notin raced => policy \subseteq kit[k].policy)
    /\ \A k \in Kits : kit[k].step = "agents" \/ kit[k].exit = 0 =>
          incident[k] \in policy \/ Overwritten(k)

\* Whatever has been listed anywhere has a test.
Tested(S) == \A i \in S : kits_dir[i].by["test"] # None
TestsFirst ==
    /\ Tested(policy) /\ Tested(gate.read.listed)
    /\ \A k \in Kits : Tested(kit[k].policy \ {incident[k]})
    /\ gate.stage = "checked" =>
          /\ gate.code # 2
          /\ gate.code = 0 => \A i \in gate.read.listed : kits_dir[i].by["test"] = User

-----------------------------------------------------------------------------
(* Trials.                                                                 *)

Marks == {"PASS", "FAIL", "SKIP", "ERROR"}
Workspaces == IF trial = "release" THEN {"main", "node", "pack"} ELSE Nat
Launched == [ws: Workspaces, outcome: AllOutcomes]

WholeOnes == {n \in DOMAIN launches : launches[n].outcome.stored = "whole"}

TrialsCore ==
    /\ trial \in {"none", "eval", "fixtures", "release", "pilot"} /\ phase \in Phases
    /\ launches \in Seq(Launched) /\ results \in Seq(Marks) /\ kept \subseteq WholeOnes
    /\ passed \in BOOLEAN /\ report \in {"none", "passed", "failed", "error"}
    /\ exit_code \in 0..3 /\ (exit_code = 3 <=> phase # "ended")
    /\ phase = "score" => launches # <<>>
EvalTypes == planted \in {"nothing", "link", "folder"} /\ outside \in BOOLEAN
TrialsTyped == TrialsCore /\ EvalTypes /\ PilotTypes

\* The cases are worked off in turn, each with at most so many launches, and one
\* that passes had them all and nothing was wrong with any.
Sound(i, count) ==
    /\ results[i] = "PASS" => /\ Cardinality(Of(i)) = count
                              /\ \A n \in Of(i) : Good(launches[n].outcome)
    /\ results[i] = "SKIP" => Of(i) = {}
InTurn(count) ==
    /\ \A n \in DOMAIN launches : launches[n].ws \in 1..Current
    /\ phase \in {"start", "load", "turns", "report"} \/ exit_code = 0 => Of(Current) = {}
    /\ phase \in {"prepare", "launch"} => Cardinality(Of(Current)) < count
    /\ phase = "score" =>
          Cardinality(Of(Current)) <= count /\ launches[Len(launches)].ws = Current
    /\ phase = "start" => Len(results) = 0
    /\ phase \in {"load", "turns", "prepare", "launch", "score"} => Len(results) < Items
    /\ phase = "report" \/ exit_code = 0 => Len(results) = Items
    /\ \A i \in DOMAIN results : Sound(i, count)

EvalStored ==
    /\ \A n \in DOMAIN launches :
          LET o == launches[n].outcome IN o.printed /\ o.agrees /\ o.stored # "torn"
    /\ phase \in {"prepare", "launch"} =>
          \A n \in Of(Current) : launches[n].outcome.stored # "none"
    /\ phase = "score" =>
          \A n \in Of(Current) \ {Len(launches)} : launches[n].outcome.stored # "none"
Unfailing == exit_code = 0 => \A i \in DOMAIN results : results[i] \in {"PASS", "SKIP"}
EvalInv == trial = "eval" => InTurn(Turns) /\ EvalStored /\ Unfailing

Copied(n) ==
    \/ n \in kept
    \/ n \in trouble /\ launches[n].ws \in DOMAIN results /\ results[launches[n].ws] = "FAIL"
\* A run that was not killed for its time has named a receipt that can be read.
Named(n) == launches[n].outcome.code # "timeout" /\ Readable(launches[n].outcome)
FixtureCopies ==
    /\ \A i \in DOMAIN results : results[i] # "ERROR"
    /\ \A n \in DOMAIN launches :
          Named(n) /\ ~(phase = "score" /\ n = Len(launches)) => Copied(n)
FixtureInv == trial = "fixtures" => InTurn(Commands) /\ FixtureCopies /\ Unfailing

\* In the release check a run counts when everything else about it was compared.
Proven(n) == Good([launches[n].outcome EXCEPT !.printed = @ \/ Plan[n].how = "hook"])
Judged == DOMAIN launches \ (IF phase = "score" THEN {Len(launches)} ELSE {})
InNode ==
    \/ phase = "archive"
    \/ phase = "launch" /\ Plan[Len(launches) + 1].ws = "node"
    \/ phase = "score" /\ Step.ws = "node"
OnPlan ==
    /\ results = <<>> /\ \A n \in DOMAIN launches : launches[n].ws = Plan[n].ws
    /\ Len(launches) <= Len(Plan)
    /\ phase \in {"start", "prepare"} => launches = <<>>
    /\ phase = "launch" => Len(launches) < Len(Plan)
SoFarSoGood ==
    /\ "node" \notin trouble
    /\ \A n \in Judged : Proven(n) /\ (launches[n].ws # "node" \/ ~InNode => n \in kept)
    /\ phase \in {"final", "save"} => Len(launches) = Len(Plan)
Archives ==
    /\ InNode \/ "node" \in trouble \/ Whole("node") \subseteq kept
    /\ phase \in {"save", "ended"} => "main" \in trouble \/ Whole("main") \subseteq kept
    /\ report = "passed" => trouble = {}
    /\ phase # "ended" => report = "none"
ReleaseInv ==
    trial = "release" =>
        /\ OnPlan /\ (passed => SoFarSoGood) /\ Archives
        /\ exit_code = 0 =>
              /\ passed /\ trouble = {} /\ Len(launches) = Len(Plan)
              /\ \A n \in DOMAIN launches : Proven(n) /\ n \in kept

Counted ==
    /\ phase \in {"start", "prepare", "copy"} => launches = <<>> /\ results = <<>>
    /\ phase = "launch" => Len(launches) = Len(results) /\ Len(results) < Cases
    /\ phase = "score" => Len(launches) = Len(results) + 1 /\ Len(launches) <= Cases
    /\ (passed /\ phase \in {"rehash", "save"}) \/ exit_code = 0 =>
          Len(launches) = Cases /\ Len(results) = Cases
    /\ Len(results) <= Len(launches)
    /\ \A n \in DOMAIN results : results[n] = "PASS" => Good(launches[n].outcome)
Reviewed == \A f \in Archived : template[f] = "reviewed"
Templates ==
    /\ \A f \in Archived : template[f] \in {"absent", "reviewed"}
    /\ phase \in {"launch", "score"} => Reviewed
    /\ (passed /\ phase \in {"rehash", "save"}) \/ exit_code = 0 => Reviewed
PilotInv ==
    trial = "pilot" =>
        /\ Counted /\ Templates
        /\ exit_code = 0 => preserved /\ \A n \in DOMAIN results : results[n] = "PASS"

-----------------------------------------------------------------------------
(* Verdicts and the receipts behind them.                                  *)

\* Nothing has been answered at first.
LEMMA AnswersInit == Init => AnswersInv
<1> SUFFICES ASSUME Init PROVE AnswersInv
  OBVIOUS
<1>1. answers = <<>> /\ server = "reading" /\ taken = 0 /\ gate.stage = "idle"
  BY DEF Init, ServerInit, CheckoutInit, NoRun
<1>2. DOMAIN answers = {} /\ Pending = {} /\ 1..taken = {}
  BY <1>1 DEF Pending
<1>3. AnsweredFrames = {} /\ {f \in (1..taken) \ Pending : sent[f] # "note"} = {}
  BY <1>2 DEF AnsweredFrames
<1> QED  BY <1>1, <1>2, <1>3 DEF AnswersInv, GateBacked, AnswersBacked, AnswersInTurn

\* Answers stay true while receipts are added.
LEMMA AnswersStay ==
    ASSUME RunsGrow, AnswersBacked, UNCHANGED answers PROVE AnswersBacked'
BY DEF RunsGrow, AnswersBacked

\* The turns of a server that waits.
LEMMA TurnsWait ==
    ASSUME AnswersInTurn, UNCHANGED serverVars PROVE AnswersInTurn'
BY DEF AnswersInTurn, AnsweredFrames, Pending, serverVars

\* The gate's run ends with a receipt, or with an operational error.
LEMMA GateEnds ==
    ASSUME SharedTyped, GateBacked, asked \in 0..Len(runs), GateRuns, UNCHANGED asked
    PROVE  GateBacked'
<1>1. gate \in GateStates /\ runs \in Seq(Stored) /\ Len(runs) \in Nat
  BY DEF SharedTyped
<1>2. CASE GateReads \/ GateChecks
  <2>1. gate'.stage # "done"
    BY <1>1, <1>2 DEF GateReads, GateChecks, GateStates
  <2> QED  BY <2>1 DEF GateBacked
<1>3. CASE GateStores
  <2> DEFINE code == IF Sources # gate.read /\ gate.code = 0 THEN 1 ELSE gate.code
             e == [code |-> code, read |-> gate.read]
  <2>1. /\ runs' = Append(runs, e)
        /\ gate' = [gate EXCEPT !.stage = "done", !.code = code, !.ref = Len(runs')]
    BY <1>3 DEF GateStores
  <2>2. e.code = code /\ code \in 0..2 /\ gate.read \in Readings
    BY <1>1 DEF GateStates
  <2>3. e \in Stored
    BY <2>2 DEF Stored
  <2> HIDE DEF e, code
  <2>4. /\ Len(runs') = Len(runs) + 1 /\ Len(runs') \in DOMAIN runs' /\ runs'[Len(runs')] = e
    <3>1. /\ Len(runs') = Len(runs) + 1 /\ DOMAIN runs' = DOMAIN runs \union {Len(runs) + 1}
          /\ runs'[Len(runs) + 1] = e
      BY <1>1, <2>1, <2>3, Appended
    <3> QED  BY <3>1
  <2>5. gate'.ref = Len(runs') /\ gate'.code = code
    <3> DEFINE n == Len(runs')
    <3>1. gate' = [gate EXCEPT !.stage = "done", !.code = code, !.ref = n]
      BY <2>1
    <3> HIDE DEF n
    <3>2. gate'.ref = n /\ gate'.code = code
      BY <1>1, <3>1 DEF GateStates
    <3> QED  BY <3>2 DEF n
  <2> QED  BY <1>1, <2>2, <2>4, <2>5 DEF GateBacked
<1>4. CASE GateStoresNothing
  <2>1. gate'.code = 2
    BY <1>1, <1>4 DEF GateStoresNothing, GateStates
  <2> QED  BY <2>1 DEF GateBacked
<1> QED  BY <1>2, <1>3, <1>4 DEF GateRuns

\* A step of others, of a kit or of the ledger leaves the gate alone.
LEMMA GateStays ==
    ASSUME RunsGrow, GateBacked, UNCHANGED <<gate, asked>> PROVE GateBacked'
BY DEF RunsGrow, GateBacked

\* What an answer to the last frame adds.
LEMMA AnswerAdds ==
    ASSUME ServerTyped, AnswersInv, server \in {"answering", "calling"}, NEW a \in Replies,
           a.frame = taken, Write(a), UNCHANGED <<sent, taken, runs>>,
           a.kind = "verdict" =>
              a.ref \in DOMAIN runs /\ a.ref > a.asked /\ runs[a.ref].code = a.code
    PROVE  AnswersBacked' /\ AnswersInTurn'
<1>1. /\ answers \in Seq(Replies) /\ taken \in Nat /\ Pending = {taken} /\ sent[taken] # "note"
      /\ AnswersBacked /\ taken # 0 /\ server # "exit2"
      /\ \A n \in DOMAIN answers : answers[n].frame < taken
  BY DEF ServerTyped, ServerTypes, AnswersInv, AnswersInTurn, Pending
<1>2. Pending' = {}
  BY DEF Write, Pending
<1>3. CASE server' = "exit2" /\ UNCHANGED answers
  BY <1>1, <1>2, <1>3 DEF AnswersInv, AnswersBacked, AnswersInTurn, AnsweredFrames
<1>4. CASE answers' = Append(answers, a) /\ server' = "reading"
  <2> DEFINE l == Len(answers) + 1
  <2>1. /\ DOMAIN answers' = DOMAIN answers \union {l} /\ answers'[l] = a /\ l \notin DOMAIN answers
        /\ \A n \in DOMAIN answers : answers'[n] = answers[n]
        /\ DOMAIN answers = 1..Len(answers) /\ Len(answers) \in Nat
    BY <1>1, <1>4, Appended
  <2>2. \A n \in DOMAIN answers : n \in Nat /\ n < l
    BY <2>1
  <2>3. l \in Nat
    BY <2>1
  <2> HIDE DEF l
  <2>4. AnswersBacked'
    BY <1>1, <2>1 DEF AnswersBacked
  <2>5. ASSUME NEW m \in DOMAIN answers', NEW n \in DOMAIN answers', m < n
        PROVE  answers'[m].frame < answers'[n].frame
    <3>1. m \in DOMAIN answers
      BY <2>1, <2>2, <2>3, <2>5
    <3>2. CASE n = l
      BY <1>1, <2>1, <3>1, <3>2
    <3>3. CASE n # l
      BY <2>1, <2>5, <3>1, <3>3 DEF AnswersInv, AnswersInTurn
    <3> QED  BY <3>2, <3>3
  <2>6. AnsweredFrames' = AnsweredFrames \union {taken}
    <3>1. AnsweredFrames' = {answers'[n].frame : n \in DOMAIN answers} \union {answers'[l].frame}
      BY <2>1 DEF AnsweredFrames
    <3> QED  BY <2>1, <3>1 DEF AnsweredFrames
  <2>7. AnsweredFrames = {f \in (1..taken) \ {taken} : sent[f] # "note"}
    BY <1>1 DEF AnswersInv, AnswersInTurn
  <2>8. taken \in 1..taken
    BY <1>1
  <2>9. AnsweredFrames' = {f \in (1..taken') \ {} : sent'[f] # "note"}
    BY <1>1, <2>6, <2>7, <2>8
  <2> QED  BY <1>2, <2>4, <2>5, <2>9 DEF AnswersInTurn
<1> QED  BY <1>3, <1>4 DEF Write

\* The server answers each frame in its turn, and a check with a stored verdict.
LEMMA ServerAnswers ==
    ASSUME SharedTyped, ServerTyped, AnswersInv, Answer \/ ToolResult \/ GateRaises
    PROVE  AnswersInv'
<1>1. /\ ServerPart /\ asked \in 0..Len(runs) /\ gate \in GateStates /\ runs \in Seq(Stored)
      /\ (server = "calling" <=> gate.stage # "idle")
  BY ServerParts DEF SharedTyped
<1>2. /\ Len(runs) \in Nat /\ taken \in Nat /\ taken # 0 /\ gate.ref \in Nat /\ gate.code \in 0..2
      /\ server \in {"answering", "calling"} /\ UNCHANGED <<sent, taken, runs, asked>>
  BY <1>1 DEF ServerPart, GateStates, Answer, ToolResult, GateRaises, checkoutVars
<1>3. /\ \A kind \in {"result", "error", "verdict", "tool_error"} :
            /\ Plain(kind) \in Replies /\ Plain(kind).frame = taken /\ Plain(kind).kind = kind
            /\ Plain(kind).asked = asked
  BY <1>1, <1>2 DEF Plain, Replies
<1>4. gate'.stage = "idle"
  BY <1>1 DEF Answer, ToolResult, GateRaises, NoRun, checkoutVars
<1>5. CASE Answer \/ GateRaises
  <2>1. PICK a \in Replies : a.frame = taken /\ a.kind \in {"result", "error"} /\ Write(a)
    BY <1>3, <1>5 DEF Answer, GateRaises
  <2>2. AnswersBacked' /\ AnswersInTurn'
    BY <1>2, <2>1, AnswerAdds
  <2> QED  BY <1>4, <2>2 DEF AnswersInv, GateBacked
<1>6. CASE ToolResult
  <2> DEFINE kind == IF gate.code = 2 THEN "tool_error" ELSE "verdict"
             p == Plain(kind)  c == gate.code  n == gate.ref
             a == [p EXCEPT !.code = c, !.ref = n]
  <2>1. Write(a) /\ gate.stage = "done"
    BY <1>6 DEF ToolResult
  <2>2. p \in Replies /\ p.frame = taken /\ p.kind = kind /\ p.asked = asked /\ c \in 0..2 /\ n \in Nat
    BY <1>2, <1>3
  <2>3. kind = "verdict" => n \in DOMAIN runs /\ n > asked /\ runs[n].code = c
    BY <2>1 DEF AnswersInv, GateBacked
  <2> HIDE DEF p, c, n, kind
  <2>4. /\ a \in Replies /\ a.frame = taken /\ a.kind = kind /\ a.asked = asked /\ a.ref = n
        /\ a.code = c
    BY <2>2 DEF Replies
  <2> HIDE DEF a
  <2>5. AnswersBacked' /\ AnswersInTurn'
    BY <1>2, <2>1, <2>3, <2>4, AnswerAdds
  <2> QED  BY <1>4, <2>5 DEF AnswersInv, GateBacked
<1> QED  BY <1>5, <1>6

\* A frame is read only when the one before it is settled.
LEMMA ServerReads ==
    ASSUME SharedTyped, ServerTyped, AnswersInv, ReadFrame PROVE AnswersInv'
<1>1. /\ server = "reading" /\ taken \in Nat /\ taken' = taken + 1
      /\ UNCHANGED <<sent, answers, runs>> /\ gate.stage = "idle"
      /\ AnswersBacked /\ \A n \in DOMAIN answers : answers[n].frame \in 1..taken
  BY DEF ReadFrame, ServerTyped, ServerTypes, AnswersInv
<1>2. Pending = {} /\ AnsweredFrames = {f \in (1..taken) \ {} : sent[f] # "note"}
  BY <1>1 DEF AnswersInv, AnswersInTurn, Pending
<1>3. /\ server' \in {"exit2", "reading", "calling", "answering"}
      /\ server' = "reading" <=> sent[taken'] = "note"
      /\ server' = "calling" => gate' = [NoRun EXCEPT !.stage = "called"]
      /\ server' # "calling" => gate' = gate
  BY DEF ReadFrame
<1>4. GateBacked'
  BY <1>1, <1>3 DEF GateBacked, NoRun
<1>5. AnswersBacked'
  BY <1>1 DEF AnswersBacked
<1>6. \A n \in DOMAIN answers : answers[n].frame < taken'
  BY <1>1
<1>7. 1..taken' = (1..taken) \union {taken'} /\ taken' \notin 1..taken
  BY <1>1
<1>8. Pending' = IF server' \in {"answering", "calling"} THEN {taken'} ELSE {}
  BY DEF Pending
<1>9. server' # "exit2" => AnsweredFrames' = {f \in (1..taken') \ Pending' : sent'[f] # "note"}
  <2>1. AnsweredFrames' = AnsweredFrames
    BY <1>1 DEF AnsweredFrames
  <2>2. CASE server' = "reading"
    BY <1>1, <1>2, <1>3, <1>7, <1>8, <2>1, <2>2
  <2>3. CASE server' \in {"answering", "calling"}
    BY <1>1, <1>2, <1>7, <1>8, <2>1, <2>3
  <2> QED  BY <1>3, <2>2, <2>3
<1>10. AnswersInTurn'
  <2>1. \A m, n \in DOMAIN answers' : m < n => answers'[m].frame < answers'[n].frame
    BY <1>1 DEF AnswersInv, AnswersInTurn
  <2>2. \A f \in Pending' : sent'[f] # "note" /\ \A n \in DOMAIN answers' : answers'[n].frame < f
    BY <1>1, <1>3, <1>6, <1>8
  <2> QED  BY <1>9, <2>1, <2>2 DEF AnswersInTurn
<1> QED  BY <1>4, <1>5, <1>10 DEF AnswersInv

\* The client's frames come after those that were read.
LEMMA ClientSends ==
    ASSUME SharedTyped, ServerTyped, AnswersInv, ClientSteps \/ EndOfInput PROVE AnswersInv'
<1>1. UNCHANGED <<runs, gate, taken, asked, answers>> /\ taken \in 0..Len(sent)
      /\ sent \in Seq(FrameClasses)
  BY DEF ClientSteps, Send, CloseStdin, EndOfInput, checkoutVars, ServerTyped, ServerTypes
<1>2. \A f \in 1..taken : sent'[f] = sent[f]
  <2>1. CASE sent' = sent
    BY <2>1
  <2>2. ASSUME NEW c \in FrameClasses, sent' = Append(sent, c) PROVE \A f \in 1..taken : sent'[f] = sent[f]
    <3>1. DOMAIN sent = 1..Len(sent) /\ \A f \in DOMAIN sent : sent'[f] = sent[f]
      BY <1>1, <2>2, Appended
    <3> QED  BY <1>1, <3>1
  <2> QED  BY <2>1, <2>2 DEF ClientSteps, Send, CloseStdin, EndOfInput
<1>3. Pending' = Pending /\ (server = "exit2" => server' = "exit2")
  BY <1>1 DEF Pending, ClientSteps, Send, CloseStdin, EndOfInput
<1>4. Pending \subseteq 1..taken
  BY <1>1 DEF Pending, ServerTyped
<1>5. AnsweredFrames' = AnsweredFrames
  BY <1>1 DEF AnsweredFrames
<1>6. AnswersInTurn'
  <2>1. \A m, n \in DOMAIN answers' : m < n => answers'[m].frame < answers'[n].frame
    BY <1>1 DEF AnswersInv, AnswersInTurn
  <2>2. \A f \in Pending' : sent'[f] # "note" /\ \A n \in DOMAIN answers' : answers'[n].frame < f
    BY <1>1, <1>2, <1>3, <1>4 DEF AnswersInv, AnswersInTurn
  <2>3. server' # "exit2" => AnsweredFrames' = {f \in (1..taken') \ Pending' : sent'[f] # "note"}
    <3>1. {f \in (1..taken') \ Pending' : sent'[f] # "note"}
             = {f \in (1..taken) \ Pending : sent[f] # "note"}
      BY <1>1, <1>2, <1>3
    <3> QED  BY <1>3, <1>5, <3>1 DEF AnswersInv, AnswersInTurn
  <2> QED  BY <2>1, <2>2, <2>3 DEF AnswersInTurn
<1> QED  BY <1>1, <1>6 DEF AnswersInv, GateBacked, AnswersBacked

\* Every step keeps the answers true and in turn.
LEMMA AnswersStep ==
    ASSUME ToolsTyped, AnswersInv, ToolsNext PROVE AnswersInv'
<1>1. /\ SharedTyped /\ ServerTyped /\ RunsGrow /\ asked \in 0..Len(runs)
      /\ GateBacked /\ AnswersBacked /\ AnswersInTurn
  BY ToolsStep DEF ToolsTyped, AnswersInv, ServerTyped, ServerTypes
<1>2. CASE (GateRuns \/ Others) /\ UNCHANGED <<kitVars, serverVars, ledgerVars>>
  <2>1. UNCHANGED serverVars /\ UNCHANGED answers /\ UNCHANGED asked
    BY <1>2 DEF serverVars
  <2>2. GateBacked'
    <3>1. CASE GateRuns
      BY <1>1, <2>1, <3>1, GateEnds
    <3>2. CASE Others
      <4>1. UNCHANGED <<gate, asked>>
        BY <2>1, <3>2 DEF Others, Replace, SyncLoads, SyncWrites, Prune
      <4> QED  BY <1>1, <4>1, GateStays
    <3> QED  BY <1>2, <3>1, <3>2
  <2> QED  BY <1>1, <2>1, <2>2, AnswersStay, TurnsWait DEF AnswersInv
<1>3. CASE (KitSteps /\ UNCHANGED <<serverVars, ledgerVars>>)
           \/ ((PublisherSteps \/ Swap) /\ UNCHANGED <<kitVars, serverVars>>)
  <2>1. UNCHANGED serverVars /\ UNCHANGED answers /\ UNCHANGED asked
    BY <1>3 DEF serverVars
  <2>2. UNCHANGED gate
    BY <1>3 DEF KitSteps, Validate, PolicyText, AgentsText, MakeDirectory, WriteFile, WritePolicy,
                WriteAgents, Stops, elsewhere, PublisherSteps, ParseArgs, ListReceipts,
                LoadReceipt, SuspectCommits, PersistJson, PersistMarkdown, PublishToPr,
                PublisherKilled, Swap, checkoutVars
  <2> QED  BY <1>1, <2>1, <2>2, AnswersStay, TurnsWait, GateStays DEF AnswersInv
<1>4. CASE (ServerSteps \/ ClientSteps) /\ UNCHANGED <<kitVars, ledgerVars>>
  BY <1>1, <1>4, ServerAnswers, ServerReads, ClientSends DEF ServerSteps
<1> QED  BY <1>2, <1>3, <1>4 DEF ToolsNext

-----------------------------------------------------------------------------
(* The record and what is published of it.                                 *)

\* Nothing has been listed, written or posted at first.
LEMMA RecordInit == Init => RecordInv
BY DEF Init, LedgerInit, RecordInv

\* Receipts that are added are not in the record.
LEMMA RecordStays ==
    ASSUME LedgerTyped, RunsGrow, UNCHANGED <<counted, corrupt, hints>> PROVE Record' = Record
<1>1. \A n \in counted : runs'[n] = runs[n]
  BY DEF LedgerTyped, LedgerTypes, RunsGrow
<1>2. Implicated' = Implicated
  BY <1>1 DEF Implicated
<1>3. [s \in 0..2 |-> {n \in counted : runs[n].code = s}]'
         = [s \in 0..2 |-> {n \in counted : runs[n].code = s}]
  BY <1>1
<1> QED  BY <1>2, <1>3 DEF Record

\* While the ledger waits its record stays what it was, and what is deleted
\* stays deleted.
LEMMA RecordWaits ==
    ASSUME LedgerTyped, RecordInv, RunsGrow, UNCHANGED ledgerVars, pruned \subseteq pruned'
    PROVE  RecordInv'
<1>1. Record' = Record
  BY RecordStays DEF ledgerVars
<1> QED  BY <1>1 DEF RecordInv, ledgerVars

\* The ledger's own steps: the record is complete before any of it is written.
LEMMA RecordStep ==
    ASSUME LedgerTyped, RecordInv, RunsGrow, PublisherSteps \/ Swap PROVE RecordInv'
<1>1. UNCHANGED pruned
  BY DEF PublisherSteps, ParseArgs, ListReceipts, LoadReceipt, SuspectCommits, PersistJson,
         PersistMarkdown, PublishToPr, PublisherKilled, Swap, checkoutVars
<1>2. UNCHANGED <<counted, corrupt, hints>> => Record' = Record
  BY RecordStays
<1>3. CASE ParseArgs
  BY <1>1, <1>3 DEF ParseArgs, RecordInv
<1>4. CASE ListReceipts
  BY <1>1, <1>4 DEF ListReceipts, RecordInv
<1>5. ASSUME NEW n \in listing, LoadReceipt(n) PROVE RecordInv'
  BY <1>1, <1>5 DEF LoadReceipt, RecordInv
<1>6. CASE SuspectCommits
  BY <1>1, <1>6 DEF SuspectCommits, RecordInv
<1>7. CASE PersistJson
  BY <1>1, <1>2, <1>7 DEF PersistJson, RecordInv
<1>8. CASE PersistMarkdown
  BY <1>1, <1>2, <1>8 DEF PersistMarkdown, RecordInv
<1>9. CASE PublishToPr
  BY <1>1, <1>2, <1>9 DEF PublishToPr, RecordInv
<1>10. CASE PublisherKilled
  BY <1>1, <1>2, <1>10 DEF PublisherKilled, RecordInv
<1>11. CASE Swap
  BY <1>1, <1>2, <1>11 DEF Swap, RecordInv
<1> QED  BY <1>3, <1>4, <1>5, <1>6, <1>7, <1>8, <1>9, <1>10, <1>11 DEF PublisherSteps

\* No step in the checkout makes what was published untrue.
LEMMA RecordKept == ASSUME ToolsTyped, RecordInv, ToolsNext PROVE RecordInv'
<1>1. LedgerTyped /\ RunsGrow
  BY ToolsStep DEF ToolsTyped
<1>2. CASE (PublisherSteps \/ Swap) /\ UNCHANGED <<kitVars, serverVars>>
  BY <1>1, <1>2, RecordStep
<1>3. CASE ~((PublisherSteps \/ Swap) /\ UNCHANGED <<kitVars, serverVars>>)
  <2>1. UNCHANGED ledgerVars
    BY <1>3 DEF ToolsNext, ledgerVars
  <2>2. pruned \subseteq pruned'
    BY <1>3 DEF ToolsNext, GateRuns, GateReads, GateChecks, GateStores, GateStoresNothing, Others,
                Replace, SyncLoads, SyncWrites, Prune, KitSteps, Validate, PolicyText, AgentsText,
                MakeDirectory, WriteFile, WritePolicy, WriteAgents, Stops, elsewhere, ServerSteps,
                ClientSteps, ReadFrame, Answer, ToolResult, GateRaises, EndOfInput, Send,
                CloseStdin, checkoutVars
  <2> QED  BY <1>1, <2>1, <2>2, RecordWaits
<1> QED  BY <1>2, <1>3

-----------------------------------------------------------------------------
(* Kits: who writes an incident's files, and what the policy may list.     *)

\* No incident directory exists at first that a kit could own.
LEMMA OwnersInit == Init => Owners
<1> SUFFICES ASSUME Init PROVE Owners
  OBVIOUS
<1>1. /\ kits_dir = [i \in Ids |-> NoKit] /\ kit = [k \in Kits |-> Fresh]
      /\ incident \in [Kits -> Ids]
  BY DEF Init, CheckoutInit, KitInit
<1>2. \A i \in Ids : \A f \in Written : kits_dir[i].by[f] = None
  BY <1>1 DEF NoKit
<1>3. \A k \in Kits : ~Owns(k)
  BY <1>1 DEF Owns, Fresh, Written
<1> QED  BY <1>2, <1>3, CheckoutAssumption DEF Owners, CheckoutAssumption, Written

\* Nothing changes for the owners while no kit and no test changes.
LEMMA OwnersWait ==
    ASSUME Owners, UNCHANGED <<kit, incident, kits_dir>> PROVE Owners'
BY DEF Owners, Owns, Test

\* A test that is replaced was there before, and stays with the kit's files.
LEMMA OwnersReplace ==
    ASSUME SharedTyped, KitTyped, Owners, UNCHANGED kitVars, NEW i \in Ids, Replace(i)
    PROVE  Owners'
<1>1. /\ kits_dir \in [Ids -> [made: BOOLEAN, by: [Written -> Authors]]]
      /\ kits_dir' = [kits_dir EXCEPT ![i].by["test"] = User] /\ kits_dir[i].by["test"] \in Kits
      /\ incident \in [Kits -> Ids] /\ kit' = kit /\ incident' = incident
  BY DEF Replace, SharedTyped, CheckoutTypes, Authors, KitTyped, KitTypes, kitVars
<1>2. /\ \A j \in Ids : kits_dir'[j].made = kits_dir[j].made
      /\ \A j \in Ids, f \in Written : kits_dir'[j].by[f] =
            IF j = i /\ f = "test" THEN User ELSE kits_dir[j].by[f]
  BY <1>1 DEF Written
<1>3. None \notin Kits /\ None # User /\ User \notin Kits
  BY CheckoutAssumption DEF CheckoutAssumption
<1>4. "test" \in Written /\ "manifest" \in Written /\ "readme" \in Written
  BY DEF Written
<1>5. \A k \in Kits : Owns(k)' <=> Owns(k)
  BY <1>1 DEF Owns
<1>6. ASSUME NEW k \in Kits, Owns(k)
      PROVE  /\ kits_dir'[incident[k]].made
             /\ \A f \in Written : kits_dir'[incident[k]].by[f] \in {k, User, None}
             /\ kit[k].step = "test" => Test(k)' = None
             /\ kit[k].step # "test" => Test(k)' \in {k, User}
             /\ kits_dir'[incident[k]].by["manifest"] = kits_dir[incident[k]].by["manifest"]
             /\ kits_dir'[incident[k]].by["readme"] = kits_dir[incident[k]].by["readme"]
  BY <1>1, <1>2, <1>3, <1>4, <1>6 DEF Owners, Test
<1>7. ASSUME NEW j \in Ids
      PROVE  /\ ~kits_dir'[j].made => \A f \in Written : kits_dir'[j].by[f] = None
             /\ kits_dir'[j].by["manifest"] # User /\ kits_dir'[j].by["readme"] # User
             /\ \A f, g \in Written : kits_dir'[j].by[f] \in Kits /\ kits_dir'[j].by[g] \in Kits =>
                   kits_dir'[j].by[f] = kits_dir'[j].by[g]
  <2>1. ~kits_dir'[j].made => j # i
    BY <1>1, <1>2, <1>3, <1>4 DEF Owners
  <2> QED  BY <1>2, <1>3, <1>4, <2>1 DEF Owners
<1>8. ASSUME NEW k \in Kits, Owns(k)'
      PROVE  /\ \A j \in Kits : Owns(j)' /\ incident'[j] = incident'[k] => j = k
             /\ kit'[k].step \in {"readme", "policy", "agents", "ended"} =>
                  kits_dir'[incident'[k]].by["manifest"] = k
             /\ kit'[k].step \in {"policy", "agents", "ended"} =>
                  kits_dir'[incident'[k]].by["readme"] = k
  BY <1>1, <1>5, <1>6, <1>8 DEF Owners
<1> QED  BY <1>1, <1>5, <1>6, <1>7, <1>8 DEF Owners

\* A kit that owns nothing after its step, and has touched nothing.
LEMMA OwnersLess ==
    ASSUME Owners, NEW k \in Kits, UNCHANGED <<incident, kits_dir>>,
           \A j \in Kits \ {k} : kit'[j] = kit[j], ~Owns(k)'
    PROVE  Owners'
<1>1. \A j \in Kits : Owns(j)' => j # k /\ Owns(j) /\ kit'[j] = kit[j]
  BY DEF Owns
<1> QED  BY <1>1 DEF Owners, Test

\* mkdir makes one owner of an incident that had none.
LEMMA OwnersMake ==
    ASSUME SharedTyped, KitTyped, Owners, NEW k \in Kits, UNCHANGED incident,
           \A j \in Kits \ {k} : kit'[j] = kit[j], kit'[k].step = "test",
           ~kits_dir[incident[k]].made,
           kits_dir' = [kits_dir EXCEPT ![incident[k]].made = TRUE]
    PROVE  Owners'
<1>1. /\ kits_dir \in [Ids -> [made: BOOLEAN, by: [Written -> Authors]]]
      /\ incident \in [Kits -> Ids] /\ incident[k] \in Ids
  BY DEF SharedTyped, CheckoutTypes, Authors, KitTyped, KitTypes
<1>2. /\ \A j \in Ids : kits_dir'[j].made = (j = incident[k] \/ kits_dir[j].made)
      /\ \A j \in Ids : kits_dir'[j].by = kits_dir[j].by
  BY <1>1
<1>3. \A j \in Kits \ {k} : (Owns(j)' <=> Owns(j)) /\ (Owns(j) => incident[j] # incident[k])
  BY DEF Owners, Owns
<1>4. \A f \in Written : kits_dir[incident[k]].by[f] = None
  BY <1>1 DEF Owners
<1>5. ASSUME NEW j \in Kits, Owns(j)'
      PROVE  /\ kits_dir'[incident'[j]].made
             /\ \A f \in Written : kits_dir'[incident'[j]].by[f] \in {j, User, None}
             /\ \A i \in Kits : Owns(i)' /\ incident'[i] = incident'[j] => i = j
             /\ kit'[j].step = "test" => Test(j)' = None
             /\ kit'[j].step # "test" => Test(j)' \in {j, User}
             /\ kit'[j].step \in {"readme", "policy", "agents", "ended"} =>
                  kits_dir'[incident'[j]].by["manifest"] = j
             /\ kit'[j].step \in {"policy", "agents", "ended"} =>
                  kits_dir'[incident'[j]].by["readme"] = j
  <2>1. CASE j = k
    BY <1>1, <1>2, <1>3, <1>4, <2>1 DEF Test, Written
  <2>2. CASE j # k
    BY <1>1, <1>2, <1>3, <1>5, <2>2 DEF Owners, Test
  <2> QED  BY <2>1, <2>2
<1>6. \A i \in Ids :
          /\ ~kits_dir'[i].made => \A f \in Written : kits_dir'[i].by[f] = None
          /\ kits_dir'[i].by["manifest"] # User /\ kits_dir'[i].by["readme"] # User
          /\ \A f, g \in Written : kits_dir'[i].by[f] \in Kits /\ kits_dir'[i].by[g] \in Kits =>
                kits_dir'[i].by[f] = kits_dir'[i].by[g]
  BY <1>2 DEF Owners
<1> QED  BY <1>5, <1>6 DEF Owners

\* The owner writes the files in their order, over nobody's.
LEMMA OwnersWrite ==
    ASSUME SharedTyped, KitTyped, Owners, NEW k \in Kits, WriteFile(k),
           \/ kit[k].step = "test" /\ Kept(k, "manifest")
           \/ kit[k].step = "manifest" /\ Kept(k, "readme")
           \/ kit[k].step = "readme" /\ Kept(k, "policy")
    PROVE  Owners'
<1> DEFINE file == kit[k].step
<1>1. /\ kits_dir \in [Ids -> [made: BOOLEAN, by: [Written -> Authors]]]
      /\ incident \in [Kits -> Ids] /\ incident[k] \in Ids /\ incident' = incident
      /\ kits_dir' = [kits_dir EXCEPT ![incident[k]].by[file] = k] /\ file \in Written
      /\ \A j \in Kits \ {k} : kit'[j] = kit[j]
  BY DEF SharedTyped, CheckoutTypes, Authors, KitTyped, KitTypes, WriteFile, Kept, KitMove
<1>2. /\ \A i \in Ids : kits_dir'[i].made = kits_dir[i].made
      /\ \A i \in Ids, f \in Written : kits_dir'[i].by[f] =
            IF i = incident[k] /\ f = file THEN k ELSE kits_dir[i].by[f]
  <2> HIDE DEF file
  <2> QED  BY <1>1
<1>3. None \notin Kits /\ None # User /\ User \notin Kits
  BY CheckoutAssumption DEF CheckoutAssumption
<1>4. "test" \in Written /\ "manifest" \in Written /\ "readme" \in Written
  BY DEF Written
<1>5. Owns(k)
  BY <1>1 DEF Owns
<1>6. \A j \in Kits \ {k} : (Owns(j)' <=> Owns(j)) /\ (Owns(j) => incident[j] # incident[k])
  BY <1>1, <1>5 DEF Owners, Owns
<1>7. \A f \in Written : kits_dir[incident[k]].by[f] \in {k, User, None}
  BY <1>5 DEF Owners
<1>8. ASSUME NEW j \in Kits, Owns(j)'
      PROVE  /\ kits_dir'[incident'[j]].made
             /\ \A f \in Written : kits_dir'[incident'[j]].by[f] \in {j, User, None}
             /\ \A i \in Kits : Owns(i)' /\ incident'[i] = incident'[j] => i = j
             /\ kit'[j].step = "test" => Test(j)' = None
             /\ kit'[j].step # "test" => Test(j)' \in {j, User}
             /\ kit'[j].step \in {"readme", "policy", "agents", "ended"} =>
                  kits_dir'[incident'[j]].by["manifest"] = j
             /\ kit'[j].step \in {"policy", "agents", "ended"} =>
                  kits_dir'[incident'[j]].by["readme"] = j
  <2>1. CASE j = k
    <3>1. /\ kits_dir'[incident'[j]].made
          /\ \A f \in Written : kits_dir'[incident'[j]].by[f] \in {j, User, None}
          /\ \A i \in Kits : Owns(i)' /\ incident'[i] = incident'[j] => i = j
      BY <1>1, <1>2, <1>5, <1>6, <1>7, <2>1 DEF Owners
    <3>2. kit'[k].step \in {"manifest", "readme", "policy"}
          /\ (kit[k].step = "test" => kit'[k].step = "manifest")
          /\ (kit[k].step = "manifest" => kit'[k].step = "readme")
      BY DEF Kept, KitMove
    <3>3. Test(k)' \in {k, User}
      BY <1>1, <1>2, <1>4, <1>5 DEF Owners, Test
    <3>4. kit'[k].step \in {"readme", "policy"} => kits_dir'[incident[k]].by["manifest"] = k
      BY <1>1, <1>2, <1>4, <1>5, <3>2 DEF Owners, Kept, KitMove
    <3>5. kit'[k].step = "policy" => kits_dir'[incident[k]].by["readme"] = k
      BY <1>1, <1>2, <1>4, <1>5, <3>2 DEF Owners, Kept, KitMove
    <3> QED  BY <1>1, <2>1, <3>1, <3>2, <3>3, <3>4, <3>5
  <2>2. CASE j # k
    <3>1. Owns(j) /\ incident[j] # incident[k] /\ kit'[j] = kit[j] /\ incident[j] \in Ids
      BY <1>1, <1>6, <1>8, <2>2
    <3>2. \A f \in Written : kits_dir'[incident[j]].by[f] = kits_dir[incident[j]].by[f]
      BY <1>2, <3>1
    <3>3. \A i \in Kits : Owns(i)' /\ incident'[i] = incident'[j] => i = j
      BY <1>1, <1>6, <3>1 DEF Owners
    <3> QED  BY <1>1, <1>2, <1>4, <3>1, <3>2, <3>3 DEF Owners, Test
  <2> QED  BY <2>1, <2>2
<1>9. ASSUME NEW i \in Ids
      PROVE  /\ ~kits_dir'[i].made => \A f \in Written : kits_dir'[i].by[f] = None
             /\ kits_dir'[i].by["manifest"] # User /\ kits_dir'[i].by["readme"] # User
             /\ \A f, g \in Written : kits_dir'[i].by[f] \in Kits /\ kits_dir'[i].by[g] \in Kits =>
                   kits_dir'[i].by[f] = kits_dir'[i].by[g]
  <2>1. CASE i = incident[k]
    <3>1. kits_dir[i].made
      BY <1>5, <2>1 DEF Owners
    <3> QED  BY <1>2, <1>3, <1>4, <1>7, <2>1, <3>1 DEF Owners
  <2>2. CASE i # incident[k]
    BY <1>2, <1>4, <2>2 DEF Owners
  <2> QED  BY <2>1, <2>2
<1> QED  BY <1>8, <1>9 DEF Owners

\* The policy and AGENTS.md are written when all files are there.
LEMMA OwnersPublish ==
    ASSUME KitTyped, Owners, NEW k \in Kits, UNCHANGED <<incident, kits_dir>>,
           \/ kit[k].step = "policy" /\ Kept(k, "agents")
           \/ kit[k].step = "agents" /\ Ended(k, 0)
    PROVE  Owners'
<1>1. Owns(k) /\ kit'[k].step \in {"agents", "ended"}
  BY DEF Owns, Kept, Ended, KitMove
<1>2. \A j \in Kits : j # k => kit'[j] = kit[j]
  BY DEF Kept, Ended, KitMove
<1>3. \A j \in Kits : Owns(j)' => Owns(j)
  BY <1>1, <1>2 DEF Owns
<1>4. kit[k].step \in {"policy", "agents"}
  OBVIOUS
<1>5. ASSUME NEW j \in Kits, Owns(j)'
      PROVE  /\ kits_dir'[incident'[j]].made
             /\ \A f \in Written : kits_dir'[incident'[j]].by[f] \in {j, User, None}
             /\ \A i \in Kits : Owns(i)' /\ incident'[i] = incident'[j] => i = j
             /\ kit'[j].step = "test" => Test(j)' = None
             /\ kit'[j].step # "test" => Test(j)' \in {j, User}
             /\ kit'[j].step \in {"readme", "policy", "agents", "ended"} =>
                  kits_dir'[incident'[j]].by["manifest"] = j
             /\ kit'[j].step \in {"policy", "agents", "ended"} =>
                  kits_dir'[incident'[j]].by["readme"] = j
  <2>1. Owns(j)
    BY <1>3, <1>5
  <2>2. CASE j = k
    BY <1>1, <1>3, <1>4, <2>1, <2>2 DEF Owners, Test
  <2>3. CASE j # k
    BY <1>2, <1>3, <2>1, <2>3 DEF Owners, Test
  <2> QED  BY <2>2, <2>3
<1> QED  BY <1>5 DEF Owners

\* A kit's step keeps the incidents' files apart.
LEMMA OwnersKit == ASSUME SharedTyped, KitTyped, Owners, KitSteps PROVE Owners'
<1>1. PICK k \in Kits : \/ Validate(k) \/ PolicyText(k) \/ AgentsText(k) \/ MakeDirectory(k)
                        \/ WriteFile(k) \/ WritePolicy(k) \/ WriteAgents(k) \/ Stops(k)
  BY DEF KitSteps
<1>2. kit[k].step # "ended" <=> kit[k].exit = 3
  BY DEF KitTyped, KitTypes
<1>3. ASSUME Ended(k, 2), UNCHANGED <<incident, kits_dir>> PROVE Owners'
  <2>1. ~Owns(k)' /\ \A j \in Kits \ {k} : kit'[j] = kit[j]
    BY <1>3 DEF Ended, KitMove, Owns, Written
  <2> QED  BY <1>3, <2>1, OwnersLess
<1>4. CASE Validate(k) \/ PolicyText(k) \/ AgentsText(k)
  <2>1. UNCHANGED <<incident, kits_dir>> /\ kit[k].exit = 3
    BY <1>2, <1>4 DEF Validate, PolicyText, AgentsText, sourceVars
  <2>2. \/ Ended(k, 2) \/ Kept(k, "policy_text")
        \/ KitMove(k, "agents_text", policy \union {incident[k]}, kit[k].section, kit[k].exit)
        \/ KitMove(k, "mkdir", kit[k].policy, kit[k].policy, kit[k].exit)
    BY <1>4, KitMoves
  <2>3. CASE Ended(k, 2)
    BY <1>3, <2>1, <2>3
  <2>4. CASE ~Ended(k, 2)
    <3>1. ~Owns(k)' /\ \A j \in Kits \ {k} : kit'[j] = kit[j]
      BY <2>1, <2>2, <2>4 DEF Kept, KitMove, Owns, Written
    <3> QED  BY <2>1, <3>1, OwnersLess
  <2> QED  BY <2>3, <2>4
<1>5. CASE MakeDirectory(k)
  <2>1. UNCHANGED incident
    BY <1>5 DEF MakeDirectory
  <2>2. CASE Ended(k, 2) /\ UNCHANGED kits_dir
    BY <1>3, <2>1, <2>2
  <2>3. CASE Kept(k, "test") /\ ~kits_dir[incident[k]].made
    <3>1. /\ kits_dir' = [kits_dir EXCEPT ![incident[k]].made = TRUE]
          /\ kit'[k].step = "test" /\ \A j \in Kits \ {k} : kit'[j] = kit[j]
      BY <1>5, <2>3 DEF MakeDirectory, Kept, KitMove
    <3> QED  BY <2>1, <2>3, <3>1, OwnersMake
  <2> QED  BY <1>5, <2>2, <2>3, KitMoves
<1>6. CASE WriteFile(k)
  BY <1>6, KitMoves, OwnersWrite
<1>7. CASE WritePolicy(k) \/ WriteAgents(k)
  <2>1. /\ UNCHANGED <<incident, kits_dir>>
        /\ \/ kit[k].step = "policy" /\ Kept(k, "agents")
           \/ kit[k].step = "agents" /\ Ended(k, 0)
    BY <1>7, KitMoves DEF WritePolicy, WriteAgents
  <2> QED  BY <2>1, OwnersPublish
<1>8. CASE Stops(k)
  <2>1. UNCHANGED <<incident, kits_dir>> /\ Ended(k, 2)
    BY <1>8, KitMoves DEF Stops, sourceVars
  <2> QED  BY <1>3, <2>1
<1> QED  BY <1>1, <1>4, <1>5, <1>6, <1>7, <1>8

\* Every step keeps the incidents' files apart.
LEMMA OwnersStep == ASSUME ToolsTyped, Owners, ToolsNext PROVE Owners'
<1>1. SharedTyped /\ KitTyped
  BY DEF ToolsTyped
<1>2. CASE KitSteps
  BY <1>1, <1>2, OwnersKit
<1>3. ASSUME UNCHANGED kitVars, NEW i \in Ids, Replace(i) PROVE Owners'
  BY <1>1, <1>3, OwnersReplace
<1>4. CASE ~KitSteps /\ ~(\E i \in Ids : Replace(i))
  <2>1. UNCHANGED <<kit, incident>>
    BY <1>4 DEF ToolsNext, kitVars
  <2>2. UNCHANGED kits_dir
    BY <1>4 DEF ToolsNext, GateRuns, GateReads, GateChecks, GateStores, GateStoresNothing, Others,
                SyncLoads, SyncWrites, Prune, ServerSteps, ClientSteps, ReadFrame, Answer,
                ToolResult, GateRaises, EndOfInput, Send, CloseStdin, PublisherSteps, ParseArgs,
                ListReceipts, LoadReceipt, SuspectCommits, PersistJson, PersistMarkdown,
                PublishToPr, PublisherKilled, Swap, checkoutVars, sourceVars
  <2> QED  BY <2>1, <2>2, OwnersWait
<1>5. ASSUME ~KitSteps, NEW i \in Ids, Replace(i) PROVE Owners'
  <2>1. UNCHANGED kitVars
    BY <1>5 DEF ToolsNext
  <2> QED  BY <1>3, <1>5, <2>1
<1> QED  BY <1>2, <1>4, <1>5

\* At first no kit has read anything.
LEMMA ListedInit == Init => Listed
<1> SUFFICES ASSUME Init PROVE Listed
  OBVIOUS
<1>1. \A k \in Kits : kit[k].step = "validate" /\ kit[k].exit = 3
  BY DEF Init, KitInit, Fresh
<1> QED  BY <1>1 DEF Listed, Reads, Written

\* Steps that touch neither the kits nor the policy.
LEMMA ListedWait == ASSUME Listed, UNCHANGED <<kitVars, policy>> PROVE Listed'
BY DEF Listed, Reads, Overwritten, kitVars

\* A kit that goes on, or ends in failure, with the policy as it was.
LEMMA ListedMove ==
    ASSUME KitTyped, Listed, NEW k \in Kits, UNCHANGED <<incident, policy, raced>>,
           \A j \in Kits \ {k} : kit'[j] = kit[j],
           Reads(k)' => /\ incident[k] \in kit'[k].policy
                        /\ k \notin raced => policy \subseteq kit'[k].policy,
           kit[k].step \in {"agents", "ended"} => kit'[k].step = "ended",
           (kit'[k].step = "agents" \/ kit'[k].exit = 0) =>
                incident[k] \in policy \/ Overwritten(k)
    PROVE  Listed'
<1>1. ASSUME NEW j \in Kits, Overwritten(j) PROVE Overwritten(j)'
  <2>1. PICK i \in raced \ {j} : kit[i].step \in {"agents", "ended"}
    BY <1>1 DEF Overwritten
  <2>2. i \in Kits /\ kit'[i].step \in {"agents", "ended"}
    BY <2>1 DEF KitTyped, KitTypes
  <2> QED  BY <2>1, <2>2 DEF Overwritten
<1>2. ASSUME NEW j \in Kits
      PROVE  /\ Reads(j)' => /\ incident[j] \in kit'[j].policy
                             /\ j \notin raced => policy \subseteq kit'[j].policy
             /\ (kit'[j].step = "agents" \/ kit'[j].exit = 0) =>
                     incident[j] \in policy \/ Overwritten(j)
  <2>1. CASE j = k
    BY <2>1
  <2>2. CASE j # k
    <3>1. kit'[j] = kit[j] /\ (Reads(j)' <=> Reads(j))
      BY <2>2 DEF Reads
    <3> QED  BY <3>1 DEF Listed
  <2> QED  BY <2>1, <2>2
<1> QED  BY <1>1, <1>2 DEF Listed

\* A kit writes a policy that has all of the old one, or overwrites the others.
LEMMA ListedPublish ==
    ASSUME KitTyped, Listed, NEW k \in Kits, WritePolicy(k), Kept(k, "agents") PROVE Listed'
<1>1. /\ Reads(k) /\ kit'[k].step = "agents" /\ policy' = kit[k].policy /\ incident' = incident
      /\ raced' = raced \union Stale(k) /\ \A j \in Kits \ {k} : kit'[j] = kit[j]
      /\ kit'[k].policy = kit[k].policy
  BY DEF WritePolicy, Reads, Kept, KitMove
<1>2. ~Reads(k)'
  BY <1>1 DEF Reads, Written
<1>3. \A j \in Kits \ {k} : Reads(j)' <=> Reads(j)
  BY <1>1 DEF Reads
<1>4. \A j \in Kits \ {k} : Reads(j) => j \in raced'
  BY <1>1 DEF Stale, Reads
<1>5. incident[k] \in policy' /\ (k \notin raced => policy \subseteq policy')
  BY <1>1 DEF Listed
<1>6. ASSUME NEW j \in Kits, kit'[j].step = "agents" \/ kit'[j].exit = 0
      PROVE  incident'[j] \in policy' \/ Overwritten(j)'
  <2>1. CASE j = k
    BY <1>1, <1>5, <2>1
  <2>2. CASE j # k /\ k \in raced
    BY <1>1, <2>2 DEF Overwritten
  <2>3. CASE j # k /\ k \notin raced /\ incident[j] \in policy
    BY <1>1, <1>5, <2>3
  <2>4. CASE j # k /\ Overwritten(j)
    <3>1. PICK i \in raced \ {j} : kit[i].step \in {"agents", "ended"}
      BY <2>4 DEF Overwritten
    <3>2. i \in Kits /\ kit'[i].step \in {"agents", "ended"}
      BY <1>1, <3>1 DEF KitTyped, KitTypes
    <3> QED  BY <1>1, <3>1, <3>2 DEF Overwritten
  <2>5. j # k => incident[j] \in policy \/ Overwritten(j)
    BY <1>1, <1>6 DEF Listed
  <2> QED  BY <2>1, <2>2, <2>3, <2>4, <2>5
<1> QED  BY <1>1, <1>2, <1>3, <1>4, <1>5, <1>6 DEF Listed

\* A kit's step keeps what the policy lists for it.
LEMMA ListedKit == ASSUME SharedTyped, KitTyped, Listed, KitSteps PROVE Listed'
<1>1. PICK k \in Kits : \/ Validate(k) \/ PolicyText(k) \/ AgentsText(k) \/ MakeDirectory(k)
                        \/ WriteFile(k) \/ WritePolicy(k) \/ WriteAgents(k) \/ Stops(k)
  BY DEF KitSteps
<1>2. kit[k].step # "ended" <=> kit[k].exit = 3
  BY DEF KitTyped, KitTypes
<1>3. CASE WritePolicy(k)
  BY <1>3, KitMoves, ListedPublish
<1>4. CASE ~WritePolicy(k)
  <2>1. UNCHANGED <<incident, policy, raced>>
    BY <1>1, <1>4 DEF Validate, PolicyText, AgentsText, MakeDirectory, WriteFile, WriteAgents,
                Stops, sourceVars
  <2>2. CASE Ended(k, 2)
    <3>1. /\ \A j \in Kits \ {k} : kit'[j] = kit[j]
          /\ ~Reads(k)' /\ kit'[k].step = "ended" /\ kit'[k].exit # 0
      BY <2>2 DEF Ended, KitMove, Reads, Written
    <3> QED  BY <2>1, <3>1, ListedMove
  <2>3. CASE Validate(k) /\ Kept(k, "policy_text")
    <3>1. /\ \A j \in Kits \ {k} : kit'[j] = kit[j]
          /\ ~Reads(k)' /\ kit'[k].step # "agents" /\ kit'[k].exit # 0
          /\ kit[k].step = "validate"
      BY <1>2, <2>3 DEF Kept, KitMove, Reads, Written, Validate
    <3> QED  BY <2>1, <3>1, ListedMove
  <2>4. CASE KitMove(k, "agents_text", policy \union {incident[k]}, kit[k].section, kit[k].exit)
             /\ PolicyText(k)
    <3>1. /\ \A j \in Kits \ {k} : kit'[j] = kit[j]
          /\ kit'[k].policy = policy \union {incident[k]}
          /\ kit'[k].step # "agents" /\ kit'[k].exit # 0 /\ kit[k].step = "policy_text"
      BY <1>2, <2>4 DEF KitMove, PolicyText
    <3> QED  BY <2>1, <3>1, ListedMove
  <2>5. CASE (AgentsText(k) \/ MakeDirectory(k) \/ WriteFile(k)) /\ ~Ended(k, 2)
    <3>1. /\ \A j \in Kits \ {k} : kit'[j] = kit[j]
          /\ kit'[k].policy = kit[k].policy /\ kit'[k].exit = kit[k].exit
          /\ kit'[k].step \in {"mkdir", "test", "manifest", "readme", "policy"}
      BY <2>5, KitMoves DEF Kept, KitMove
    <3>2. Reads(k) /\ kit[k].exit = 3 /\ kit[k].step \notin {"agents", "ended"}
      BY <1>2, <2>5 DEF Reads, AgentsText, MakeDirectory, WriteFile, Written
    <3>3. incident[k] \in kit[k].policy /\ (k \notin raced => policy \subseteq kit[k].policy)
      BY <3>2 DEF Listed
    <3> QED  BY <2>1, <3>1, <3>2, <3>3, ListedMove
  <2>6. CASE WriteAgents(k)
    <3>1. /\ \A j \in Kits \ {k} : kit'[j] = kit[j]
          /\ kit'[k].step = "ended" /\ kit[k].step = "agents"
      BY <2>6, KitMoves DEF Ended, KitMove, WriteAgents
    <3>2. ~Reads(k)'
      BY <3>1 DEF Reads, Written
    <3>3. incident[k] \in policy \/ Overwritten(k)
      BY <3>1 DEF Listed
    <3> QED  BY <2>1, <3>1, <3>2, <3>3, ListedMove
  <2>7. CASE Validate(k)
    BY <2>2, <2>3, <2>7, KitMoves
  <2>8. CASE PolicyText(k)
    BY <2>2, <2>4, <2>8, KitMoves
  <2>9. CASE AgentsText(k) \/ MakeDirectory(k) \/ WriteFile(k)
    BY <2>2, <2>5, <2>9
  <2>10. CASE Stops(k)
    BY <2>2, <2>10, KitMoves
  <2> QED  BY <1>1, <1>4, <2>6, <2>7, <2>8, <2>9, <2>10
<1> QED  BY <1>3, <1>4

\* So does every other step of the tools.
LEMMA ListedStep == ASSUME ToolsTyped, Listed, ToolsNext PROVE Listed'
<1>1. SharedTyped /\ KitTyped
  BY DEF ToolsTyped
<1>2. CASE KitSteps
  BY <1>1, <1>2, ListedKit
<1>3. CASE ~KitSteps
  <2>1. UNCHANGED kitVars
    BY <1>3 DEF ToolsNext, kitVars
  <2>2. UNCHANGED policy
    BY <1>3 DEF ToolsNext, GateRuns, GateReads, GateChecks, GateStores, GateStoresNothing, Others,
                Replace, SyncLoads, SyncWrites, Prune, ServerSteps, ClientSteps, ReadFrame, Answer,
                ToolResult, GateRaises, EndOfInput, Send, CloseStdin, PublisherSteps, ParseArgs,
                ListReceipts, LoadReceipt, SuspectCommits, PersistJson, PersistMarkdown,
                PublishToPr, PublisherKilled, Swap, checkoutVars, sourceVars
  <2> QED  BY <2>1, <2>2, ListedWait
<1> QED  BY <1>2, <1>3

-----------------------------------------------------------------------------
(* Tests come before what lists them, and a real test stays one.           *)

TestsGrow ==
    \A i \in Ids : /\ kits_dir[i].by["test"] # None => kits_dir'[i].by["test"] # None
                   /\ kits_dir[i].by["test"] = User => kits_dir'[i].by["test"] = User
TestsKits == Tested(policy) /\ \A k \in Kits : Tested(kit[k].policy \ {incident[k]})
TestsGate ==
    /\ Tested(gate.read.listed)
    /\ gate.stage = "checked" =>
          /\ gate.code # 2
          /\ gate.code = 0 => \A i \in gate.read.listed : kits_dir[i].by["test"] = User

\* The order of writes, on the kits' side and on the gate's.
LEMMA TestsParts == TestsFirst <=> TestsKits /\ TestsGate
BY DEF TestsFirst, TestsKits, TestsGate

\* The two sides together, after a step.
LEMMA TestsJoin == TestsKits' /\ TestsGate' => TestsFirst'
BY DEF TestsFirst, TestsKits, TestsGate

\* A set of incidents that have tests keeps them.
LEMMA TestedGrows ==
    ASSUME TestsGrow, NEW S \in SUBSET Ids, Tested(S) PROVE Tested(S)'
BY DEF TestsGrow, Tested

\* The gate's side needs only that tests do not go away.
LEMMA TestsGateStay ==
    ASSUME SharedTyped, TestsGate, TestsGrow, UNCHANGED gate PROVE TestsGate'
<1>1. gate.read.listed \subseteq Ids
  BY DEF SharedTyped, GateStates, Readings
<1> QED  BY <1>1, TestedGrows DEF TestsGate, TestsGrow, Tested

\* So does the kits' side, while no kit's text of the policy changes.
LEMMA TestsKitsStay ==
    ASSUME SharedTyped, KitTyped, TestsKits, TestsGrow, UNCHANGED <<policy, incident>>,
           \A k \in Kits : kit'[k].policy = kit[k].policy
    PROVE  TestsKits'
<1>1. policy \subseteq Ids /\ \A k \in Kits : kit[k].policy \subseteq Ids
  BY DEF SharedTyped, CheckoutTypes, KitTyped, KitTypes
<1> QED  BY <1>1 DEF TestsKits, TestsGrow, Tested

\* What the writes of a kit come to for the tests.
LEMMA KitTests ==
    ASSUME SharedTyped, KitTyped, Owners, NEW k \in Kits
    PROVE  /\ MakeDirectory(k) \/ WriteFile(k) => TestsGrow
           /\ UNCHANGED kits_dir => TestsGrow
<1>1. /\ kits_dir \in [Ids -> [made: BOOLEAN, by: [Written -> Authors]]]
      /\ incident[k] \in Ids /\ k # None
  BY CheckoutAssumption
     DEF CheckoutAssumption, SharedTyped, CheckoutTypes, Authors, KitTyped, KitTypes
<1>2. CASE MakeDirectory(k)
  BY <1>1, <1>2 DEF MakeDirectory, TestsGrow
<1>3. CASE WriteFile(k)
  <2>1. /\ kits_dir' = [kits_dir EXCEPT ![incident[k]].by[kit[k].step] = k]
        /\ kit[k].step \in Written
    BY <1>3 DEF WriteFile
  <2>2. kit[k].step = "test" => kits_dir[incident[k]].by["test"] = None
    BY <2>1 DEF Owners, Owns, Test
  <2>3. None # User
    BY CheckoutAssumption DEF CheckoutAssumption
  <2>4. CASE kit[k].step = "test"
    <3>1. \A i \in Ids : kits_dir'[i].by["test"] =
              IF i = incident[k] THEN k ELSE kits_dir[i].by["test"]
      BY <1>1, <2>1, <2>4 DEF Written
    <3> QED  BY <1>1, <2>2, <2>3, <2>4, <3>1 DEF TestsGrow
  <2>5. CASE kit[k].step # "test"
    <3>1. \A i \in Ids : kits_dir'[i].by["test"] = kits_dir[i].by["test"]
      BY <1>1, <2>1, <2>5 DEF Written
    <3> QED  BY <3>1 DEF TestsGrow
  <2> QED  BY <2>4, <2>5
<1> QED  BY <1>2, <1>3 DEF TestsGrow

\* A kit lists nothing that has no test, but for its own incident, and writes
\* the policy after its test.
LEMMA TestsKit ==
    ASSUME SharedTyped, KitTyped, Owners, TestsFirst, KitSteps PROVE TestsFirst'
<1>1. PICK k \in Kits : \/ Validate(k) \/ PolicyText(k) \/ AgentsText(k) \/ MakeDirectory(k)
                        \/ WriteFile(k) \/ WritePolicy(k) \/ WriteAgents(k) \/ Stops(k)
  BY DEF KitSteps
<1>2. TestsKits /\ TestsGate
  BY TestsParts
<1>3. UNCHANGED <<incident, gate>>
  BY <1>1 DEF Validate, PolicyText, AgentsText, MakeDirectory, WriteFile, WritePolicy,
              WriteAgents, Stops, elsewhere
<1>4. TestsGrow
  <2>1. \/ UNCHANGED kits_dir \/ MakeDirectory(k) \/ WriteFile(k)
    BY <1>1 DEF Validate, PolicyText, AgentsText, WritePolicy, WriteAgents, Stops, sourceVars
  <2> QED  BY <2>1, KitTests
<1>5. TestsGate'
  BY <1>2, <1>3, <1>4, TestsGateStay
<1>6. CASE \A j \in Kits : kit'[j].policy = kit[j].policy /\ ~WritePolicy(k)
  <2>1. UNCHANGED policy
    BY <1>1, <1>6 DEF Validate, PolicyText, AgentsText, MakeDirectory, WriteFile, WriteAgents,
                Stops, sourceVars
  <2> QED  BY <1>2, <1>3, <1>4, <1>5, <1>6, <2>1, TestsKitsStay, TestsJoin
<1>7. CASE ~WritePolicy(k) /\ ~PolicyText(k)
  <2>1. \E s \in KitStepNames, t \in SUBSET Ids : \E x \in {0, 2, 3} : KitMove(k, s, kit[k].policy, t, x)
    BY <1>1, <1>7, KitMoves DEF Kept, Ended, KitMove, KitStates
  <2> QED  BY <1>6, <1>7, <2>1 DEF KitMove
<1>8. CASE PolicyText(k)
  <2>1. UNCHANGED <<policy, kits_dir>>
    BY <1>8 DEF PolicyText, sourceVars
  <2>2. CASE Ended(k, 2)
    BY <1>6, <1>8, <2>2 DEF Ended, KitMove, PolicyText, WritePolicy
  <2>3. CASE KitMove(k, "agents_text", policy \union {incident[k]}, kit[k].section, kit[k].exit)
    <3>1. \A j \in Kits : kit'[j].policy = IF j = k THEN policy \union {incident[k]}
                                           ELSE kit[j].policy
      BY <2>3 DEF KitMove
    <3>2. TestsKits'
      BY <1>2, <1>3, <2>1, <3>1 DEF TestsKits, Tested
    <3> QED  BY <1>5, <3>2, TestsJoin
  <2> QED  BY <1>8, <2>2, <2>3, KitMoves
<1>9. CASE WritePolicy(k)
  <2>1. /\ policy' = kit[k].policy /\ kits_dir' = kits_dir
        /\ \A j \in Kits : kit'[j].policy = kit[j].policy
    BY <1>9, KitMoves DEF WritePolicy, Kept, KitMove
  <2>2. kits_dir[incident[k]].by["test"] # None
    <3>1. kit[k].step = "policy"
      BY <1>9 DEF WritePolicy
    <3>2. Test(k) \in {k, User}
      BY <3>1 DEF Owners, Owns
    <3> QED  BY <3>2, CheckoutAssumption DEF Test, CheckoutAssumption
  <2>3. TestsKits'
    BY <1>2, <1>3, <2>1, <2>2 DEF TestsKits, Tested
  <2> QED  BY <1>5, <2>3, TestsJoin
<1> QED  BY <1>7, <1>8, <1>9

\* The run's verdict is about tests that are there.
LEMMA TestsRun ==
    ASSUME SharedTyped, TestsFirst, GateRuns, UNCHANGED kitVars PROVE TestsFirst'
<1>1. TestsKits' /\ TestsGate
  BY TestsParts DEF TestsKits, Tested, GateRuns, GateReads, GateChecks, GateStores,
                    GateStoresNothing, sourceVars, kitVars
<1>2. gate \in GateStates /\ UNCHANGED sourceVars /\ policy \subseteq Ids
  BY DEF SharedTyped, CheckoutTypes, GateRuns, GateReads, GateChecks, GateStores, GateStoresNothing
<1>3. CASE GateReads
  <2>1. gate'.read.listed = policy /\ gate'.stage = "read"
    BY <1>2, <1>3 DEF GateReads, GateStates, Sources
  <2>2. Tested(policy)'
    BY <1>2, TestsParts DEF TestsKits, Tested, sourceVars
  <2>3. TestsGate'
    BY <1>2, <2>1, <2>2 DEF TestsGate, Tested, sourceVars
  <2> QED  BY <1>1, <2>3, TestsJoin
<1>4. CASE GateChecks
  <2>1. PICK v \in Verdicts(gate.read.listed, agents, Tests) :
            gate' = [gate EXCEPT !.stage = "checked", !.code = v]
    BY <1>4 DEF GateChecks
  <2>2. gate'.read = gate.read /\ gate'.code = v
    BY <1>2, <2>1 DEF GateStates
  <2>3. gate.read.listed \subseteq Ids
    BY <1>2 DEF GateStates, Readings
  <2>4. /\ \A i \in gate.read.listed : Tests[i] = kits_dir[i].by["test"]
        /\ \A i \in gate.read.listed : Tests[i] # None
    BY <1>1, <2>3 DEF Tests, TestsGate, Tested
  <2>5. v # 2 /\ (v = 0 => \A i \in gate.read.listed : Tests[i] = User)
    BY <2>1, <2>4 DEF Verdicts
  <2>6. kits_dir' = kits_dir
    BY <1>2 DEF sourceVars
  <2>7. TestsGate'
    BY <1>1, <2>2, <2>4, <2>5, <2>6 DEF TestsGate, Tested
  <2> QED  BY <1>1, <2>7, TestsJoin
<1>5. CASE GateStores \/ GateStoresNothing
  <2>1. gate'.stage = "done" /\ gate'.read = gate.read
    <3>1. \E c, n : gate' = [gate EXCEPT !.stage = "done", !.code = c, !.ref = n]
      BY <1>5 DEF GateStores, GateStoresNothing
    <3> QED  BY <1>2, <3>1 DEF GateStates
  <2>2. TestsGate'
    BY <1>1, <1>2, <2>1 DEF TestsGate, Tested, sourceVars
  <2> QED  BY <1>1, <2>2, TestsJoin
<1> QED  BY <1>3, <1>4, <1>5 DEF GateRuns

\* The policy lists nothing at first.
LEMMA TestsInit == Init => TestsFirst
BY DEF Init, CheckoutInit, KitInit, Fresh, NoRun, TestsFirst, Tested

\* Every step of the tools.
LEMMA TestsStep == ASSUME ToolsTyped, Owners, TestsFirst, ToolsNext PROVE TestsFirst'
<1>1. SharedTyped /\ KitTyped /\ TestsKits /\ TestsGate
  BY TestsParts DEF ToolsTyped
<1>2. CASE KitSteps
  BY <1>1, <1>2, TestsKit
<1>3. CASE GateRuns /\ UNCHANGED kitVars
  BY <1>1, <1>3, TestsRun
<1>4. ASSUME UNCHANGED kitVars, TestsGrow, UNCHANGED policy, UNCHANGED gate \/ TestsGate'
      PROVE  TestsFirst'
  BY <1>1, <1>4, TestsKitsStay, TestsGateStay, TestsJoin DEF kitVars
<1>5. CASE Others /\ UNCHANGED kitVars
  <2>1. /\ kits_dir \in [Ids -> [made: BOOLEAN, by: [Written -> Authors]]] /\ User # None
    BY <1>1, CheckoutAssumption DEF CheckoutAssumption, SharedTyped, CheckoutTypes, Authors
  <2>2. UNCHANGED <<policy, gate>>
    BY <1>5 DEF Others, Replace, SyncLoads, SyncWrites, Prune, sourceVars
  <2>3. \/ UNCHANGED kits_dir
        \/ \E i \in Ids : kits_dir' = [kits_dir EXCEPT ![i].by["test"] = User]
    BY <1>5 DEF Others, Replace, SyncLoads, SyncWrites, Prune, sourceVars
  <2>4. TestsGrow
    BY <2>1, <2>3 DEF TestsGrow, Written
  <2> QED  BY <1>4, <1>5, <2>2, <2>4
<1>6. CASE (ServerSteps \/ ClientSteps) /\ UNCHANGED kitVars
  <2>1. UNCHANGED sourceVars
    BY <1>6 DEF ServerSteps, ClientSteps, ReadFrame, Answer, ToolResult, GateRaises, EndOfInput,
                Send, CloseStdin, checkoutVars
  <2>2. gate' \in {gate, NoRun, [NoRun EXCEPT !.stage = "called"]}
    BY <1>6 DEF ServerSteps, ClientSteps, ReadFrame, Answer, ToolResult, GateRaises, EndOfInput,
                Send, CloseStdin, checkoutVars
  <2>3. UNCHANGED gate \/ (gate'.read.listed = {} /\ gate'.stage # "checked")
    BY <2>2 DEF NoRun
  <2>4. UNCHANGED gate \/ TestsGate'
    BY <2>3 DEF TestsGate, Tested
  <2> QED  BY <1>4, <1>6, <2>1, <2>4 DEF sourceVars, TestsGrow
<1>7. CASE (PublisherSteps \/ Swap) /\ UNCHANGED kitVars
  <2>1. UNCHANGED <<sourceVars, gate>>
    BY <1>7 DEF PublisherSteps, ParseArgs, ListReceipts, LoadReceipt, SuspectCommits, PersistJson,
                PersistMarkdown, PublishToPr, PublisherKilled, Swap, checkoutVars
  <2> QED  BY <1>4, <1>7, <2>1 DEF sourceVars, TestsGrow
<1> QED  BY <1>2, <1>3, <1>5, <1>6, <1>7 DEF ToolsNext

-----------------------------------------------------------------------------
(* The tools together.                                                     *)

\* No receipt is stored at first.
LEMMA BlocksInit == Init => UnfinishedBlocks
BY DEF Init, CheckoutInit, UnfinishedBlocks

\* A receipt that is stored is that of a run whose tests were looked at.
LEMMA BlocksStep ==
    ASSUME ToolsTyped, TestsFirst, UnfinishedBlocks, ToolsNext PROVE UnfinishedBlocks'
<1>1. /\ runs \in Seq(Stored) /\ gate \in GateStates
  BY DEF ToolsTyped, SharedTyped
<1>2. CASE GateStores
  <2> DEFINE code == IF Sources # gate.read /\ gate.code = 0 THEN 1 ELSE gate.code
             e == [code |-> code, read |-> gate.read]
  <2>1. runs' = Append(runs, e) /\ gate.stage = "checked"
    BY <1>2 DEF GateStores
  <2>2. e.code = code /\ e.read = gate.read /\ code \in 0..2 /\ gate.read \in Readings
    BY <1>1 DEF GateStates
  <2>3. e \in Stored /\ gate.read.listed \subseteq Ids
    BY <2>2 DEF Stored, Readings
  <2>4. code # 2
    BY <2>1 DEF TestsFirst
  <2>5. ASSUME code = 0, NEW i \in gate.read.listed PROVE gate.read.tests[i] = User
    <3>1. gate.code = 0 /\ Sources = gate.read
      BY <2>5
    <3>2. gate.read.tests = Tests
      BY <3>1 DEF Sources
    <3>3. i \in Ids /\ kits_dir[i].by["test"] = User
      BY <2>1, <2>3, <3>1 DEF TestsFirst
    <3> QED  BY <3>2, <3>3 DEF Tests
  <2> HIDE DEF e, code
  <2>6. /\ DOMAIN runs' = DOMAIN runs \union {Len(runs) + 1} /\ runs'[Len(runs) + 1] = e
        /\ \A n \in DOMAIN runs : runs'[n] = runs[n]
    BY <1>1, <2>1, <2>3, Appended
  <2> QED  BY <2>2, <2>4, <2>5, <2>6 DEF UnfinishedBlocks
<1>3. CASE ~GateStores
  <2>1. UNCHANGED runs
    BY <1>3 DEF ToolsNext, GateRuns, GateReads, GateChecks, GateStoresNothing, Others, Replace,
                SyncLoads, SyncWrites, Prune, KitSteps, Validate, PolicyText, AgentsText,
                MakeDirectory, WriteFile, WritePolicy, WriteAgents, Stops, elsewhere, ServerSteps,
                ClientSteps, ReadFrame, Answer, ToolResult, GateRaises, EndOfInput, Send,
                CloseStdin, PublisherSteps, ParseArgs, ListReceipts, LoadReceipt, SuspectCommits,
                PersistJson, PersistMarkdown, PublishToPr, PublisherKilled, Swap, checkoutVars
  <2> QED  BY <2>1 DEF UnfinishedBlocks
<1> QED  BY <1>2, <1>3

\* What is true of the tools in every state.
ToolsInv ==
    /\ ToolsTyped /\ AnswersInv /\ RecordInv /\ Owners /\ Listed /\ TestsFirst
    /\ UnfinishedBlocks

\* The tools' invariant holds at first.
LEMMA ToolsInvInit == Init => ToolsInv
BY ToolsInit, AnswersInit, RecordInit, OwnersInit, ListedInit, TestsInit, BlocksInit DEF ToolsInv

\* Every step of the tools preserves it.
LEMMA ToolsInvStep == ASSUME ToolsInv, ToolsNext PROVE ToolsInv'
BY ToolsStep, AnswersStep, RecordKept, OwnersStep, ListedStep, TestsStep, BlocksStep DEF ToolsInv

\* Steps of a trial, and none at all.
LEMMA ToolsInvRest == ASSUME ToolsInv, UNCHANGED toolVars PROVE ToolsInv'
<1>1. /\ UNCHANGED <<checkoutVars, kitVars, serverVars, ledgerVars>>
      /\ UNCHANGED <<policy, agents, kits_dir, runs, pruned, gate, sync, edits, kit, incident, raced>>
      /\ UNCHANGED <<asked, answers>>
  BY DEF toolVars, checkoutVars, sourceVars, kitVars, serverVars
<1>2. ToolsTyped' /\ RunsGrow
  BY ToolsRest DEF ToolsInv
<1>3. AnswersInv'
  <2>1. GateBacked' /\ AnswersBacked'
    BY <1>1, <1>2, AnswersStay, GateStays DEF ToolsInv, AnswersInv
  <2> QED  BY <1>1, <2>1, TurnsWait DEF ToolsInv, AnswersInv
<1>4. RecordInv'
  BY <1>1, <1>2, RecordWaits DEF ToolsInv, ToolsTyped
<1>5. Owners' /\ Listed'
  BY <1>1, OwnersWait, ListedWait DEF ToolsInv
<1>6. TestsFirst' /\ UnfinishedBlocks'
  BY <1>1 DEF ToolsInv, TestsFirst, Tested, UnfinishedBlocks
<1> QED  BY <1>2, <1>3, <1>4, <1>5, <1>6 DEF ToolsInv

\* So does every step there is.
LEMMA ToolsInvNext == ASSUME ToolsInv, [Next]_vars PROVE ToolsInv'
<1>1. ToolsNext \/ UNCHANGED toolVars
  BY DEF Next, vars
<1> QED  BY <1>1, ToolsInvStep, ToolsInvRest

\* It holds of every behaviour.
LEMMA ToolsAlways == Spec => []ToolsInv
<1>1. ToolsInv /\ [Next]_vars => ToolsInv'
  BY ToolsInvNext
<1> QED  BY <1>1, ToolsInvInit, PTL DEF Spec

\* A verdict an agent was told is that of a receipt stored after it asked, and
\* frames are answered in order, all but notifications before the next is read
\* (_serve), whatever else happens to the checkout.
THEOREM VerdictsAreBacked == Spec => []VerdictBacked
<1>1. ToolsInv => VerdictBacked
  <2> SUFFICES ASSUME ToolsInv PROVE VerdictBacked
    OBVIOUS
  <2>1. AnswersBacked /\ AnswersInTurn
    BY DEF ToolsInv, AnswersInv
  <2>2. ASSUME server \in {"reading", "exit0"}
        PROVE  {answers[n].frame : n \in DOMAIN answers} = {f \in 1..taken : sent[f] # "note"}
    <3>1. Pending = {} /\ server # "exit2"
      BY <2>2 DEF Pending
    <3>2. AnsweredFrames = {f \in (1..taken) \ {} : sent[f] # "note"}
      BY <2>1, <3>1 DEF AnswersInTurn
    <3> QED  BY <3>2 DEF AnsweredFrames
  <2> QED  BY <2>1, <2>2 DEF VerdictBacked, AnswersBacked, AnswersInTurn
<1> QED  BY <1>1, ToolsAlways, PTL

\* What is posted is the record that was written, complete and as it was built,
\* whoever rewrote its file in between (_publish_to_pr, _build_record).
THEOREM RecordsAreFaithful == Spec => []RecordFaithful
<1>1. ToolsInv => RecordFaithful
  <2> SUFFICES ASSUME ToolsInv PROVE RecordFaithful
    OBVIOUS
  <2>1. RecordInv /\ LedgerTyped
    BY DEF ToolsInv, ToolsTyped
  <2>2. comment # None => json # None /\ body # None /\ comment = json
    BY <2>1, LedgerAssumption DEF RecordInv, LedgerAssumption
  <2>3. ASSUME json # None
        PROVE  /\ json.receipts \union json.corrupt = listing /\ json.corrupt \subseteq pruned
               /\ json.implicated = {n \in json.receipts : runs[n].code # 0}
    <3>1. json = Record /\ listing = counted \union corrupt /\ corrupt \subseteq pruned
      BY <2>1, <2>3 DEF RecordInv
    <3> QED  BY <3>1 DEF Record, Implicated
  <2> QED  BY <2>2, <2>3 DEF RecordFaithful
<1> QED  BY <1>1, ToolsAlways, PTL

\* Unfinished work blocks and only blocks: a stored receipt passes only if every
\* incident its policy listed had a real test when the run began, and no
\* half-written kit makes a run an operational error (incident.py:191).
THEOREM UnfinishedWorkBlocks == Spec => []UnfinishedBlocks
<1>1. ToolsInv => UnfinishedBlocks
  BY DEF ToolsInv
<1> QED  BY <1>1, ToolsAlways, PTL

\* A set whose members are all one has at most one.
LEMMA AtMostOne ==
    ASSUME NEW S, \A x, y \in S : x = y PROVE Cardinality(S) <= 1
<1>1. CASE S = {}
  BY <1>1, FS_EmptySet
<1>2. CASE S # {}
  <2>1. PICK x \in S : S = {x}
    BY <1>2
  <2> QED  BY <2>1, FS_Singleton
<1> QED  BY <1>1, <1>2

\* An incident's files have one author beside its user, and a kit that reports
\* success has its files and, unless an older copy went over them, its checks in the policy
\* (incident.py:76-78, 190-196).
THEOREM KitsAreKept == Spec => []KitsKept
<1>1. ToolsInv => KitsKept
  <2> SUFFICES ASSUME ToolsInv PROVE KitsKept
    OBVIOUS
  <2>1. Owners /\ Listed /\ SharedTyped /\ KitTyped
    BY DEF ToolsInv, ToolsTyped
  <2>2. ASSUME NEW i \in Ids
        PROVE  Cardinality({kits_dir[i].by[f] : f \in Written} \ {User, None}) <= 1
    <3>1. \A f \in Written : kits_dir[i].by[f] \in Kits \union {User, None}
      BY <2>1 DEF SharedTyped, CheckoutTypes
    <3>2. \A x, y \in {kits_dir[i].by[f] : f \in Written} \ {User, None} : x = y
      BY <2>1, <3>1 DEF Owners
    <3> QED  BY <3>2, AtMostOne
  <2>3. ASSUME NEW k \in Kits, kit[k].exit = 0
        PROVE  LET by == kits_dir[incident[k]].by IN
                 /\ by["test"] \in {k, User} /\ by["manifest"] = k /\ by["readme"] = k
                 /\ incident[k] \in policy \/ Overwritten(k)
    <3>1. kit[k].step = "ended" /\ Owns(k)
      BY <2>1, <2>3 DEF KitTyped, KitTypes, Owns
    <3>2. incident[k] \in policy \/ Overwritten(k)
      BY <2>1, <2>3 DEF Listed
    <3> QED  BY <2>1, <3>1, <3>2 DEF Owners, Test
  <2> QED  BY <2>2, <2>3 DEF KitsKept
<1> QED  BY <1>1, ToolsAlways, PTL

-----------------------------------------------------------------------------
(* Trials: what a launch, a settled case and an ended trial come to.       *)

\* Nothing is wrong with a run exactly when everything about it is right.
LEMMA GoodOutcome ==
    ASSUME NEW o \in AllOutcomes
    PROVE  Good(o) <=> /\ o.code = "expected" /\ o.stored = "whole"
                       /\ o.printed /\ o.agrees /\ o.rest
<1> DEFINE bad == {f \in {"printed", "agrees", "rest"} : ~o[f]}
           c == IF o.code = "expected" THEN 0 ELSE 1
           s == IF o.stored = "whole" THEN 0 ELSE 1
<1>1. IsFiniteSet(bad) /\ Cardinality(bad) \in Nat
  <2>1. IsFiniteSet({"printed", "agrees", "rest"})
    <3>1. IsFiniteSet({"printed"})
      BY FS_Singleton
    <3>2. IsFiniteSet({"printed"} \union {"agrees"})
      BY <3>1, FS_AddElement
    <3>3. IsFiniteSet(({"printed"} \union {"agrees"}) \union {"rest"})
      BY <3>2, FS_AddElement
    <3>4. ({"printed"} \union {"agrees"}) \union {"rest"} = {"printed", "agrees", "rest"}
      OBVIOUS
    <3> QED  BY <3>3, <3>4
  <2>2. bad \subseteq {"printed", "agrees", "rest"}
    OBVIOUS
  <2> QED  BY <2>1, <2>2, FS_Subset, FS_CardinalityType
<1>2. Cardinality(bad) = 0 <=> bad = {}
  BY <1>1, FS_EmptySet
<1>3. bad = {} <=> o.printed /\ o.agrees /\ o.rest
  OBVIOUS
<1>4. c \in {0, 1} /\ s \in {0, 1}
  OBVIOUS
<1>5. (c = 0 <=> o.code = "expected") /\ (s = 0 <=> o.stored = "whole")
  OBVIOUS
<1>6. Good(o) <=> Cardinality(bad) + c + s = 0
  BY DEF Good, Flaws
<1> HIDE DEF bad, c, s
<1>7. Cardinality(bad) + c + s = 0 <=> Cardinality(bad) = 0 /\ c = 0 /\ s = 0
  BY <1>1, <1>4
<1> QED  BY <1>2, <1>3, <1>5, <1>6, <1>7

\* No trial has launched or settled anything at first.
LEMMA TrialsInitTyped == Init => TrialsTyped /\ launches = <<>> /\ results = <<>>
<1> SUFFICES ASSUME Init PROVE TrialsTyped /\ launches = <<>> /\ results = <<>>
  OBVIOUS
<1>1. /\ trial \in {"none", "eval", "fixtures", "release", "pilot"} /\ TrialsInit
      /\ EvalInit /\ PilotInit
  BY DEF Init
<1>2. TrialsCore
  BY <1>1 DEF TrialsInit, TrialsCore, Phases
<1>3. PilotTypes
  <2>1. 0 \in 0..MaxTampers
    BY PilotAssumption DEF PilotAssumption
  <2>2. preserved \in BOOLEAN
    BY <1>1 DEF PilotInit
  <2>3. template \in [Archived -> States \union {"absent"}] /\ checked \subseteq Archived
    BY <1>1 DEF PilotInit
  <2>4. snapshot \in [Archived -> States] /\ before \in [Archived -> States] /\ tampers = 0
    BY <1>1 DEF PilotInit
  <2> QED  BY <2>1, <2>2, <2>3, <2>4 DEF PilotTypes
<1>4. EvalTypes
  BY <1>1 DEF EvalInit, EvalTypes
<1>5. launches = <<>> /\ results = <<>>
  BY <1>1 DEF TrialsInit
<1> QED  BY <1>2, <1>3, <1>4, <1>5 DEF TrialsTyped

\* Types of the history and of its parts.
LEMMA CoreParts ==
    ASSUME TrialsCore
    PROVE  /\ DOMAIN launches = 1..Len(launches) /\ Len(launches) \in Nat
           /\ DOMAIN results = 1..Len(results) /\ Len(results) \in Nat
           /\ Current \in Nat /\ Current = Len(results) + 1 /\ Current \notin DOMAIN results
           /\ \A n \in DOMAIN launches : /\ launches[n].outcome \in AllOutcomes
                                         /\ launches[n].ws \in Workspaces
           /\ \A n \in DOMAIN results : results[n] \in Marks
           /\ phase = "score" => Len(launches) \in DOMAIN launches /\ Last \in AllOutcomes
           /\ kept \subseteq DOMAIN launches
<1>1. launches \in Seq(Launched) /\ results \in Seq(Marks) /\ kept \subseteq WholeOnes
  BY DEF TrialsCore
<1>2. \A n \in DOMAIN launches : launches[n] \in Launched
  BY <1>1
<1>3. phase = "score" => Len(launches) \in DOMAIN launches
  BY <1>1 DEF TrialsCore
<1>4. DOMAIN launches = 1..Len(launches) /\ Len(launches) \in Nat
  BY <1>1
<1>5. DOMAIN results = 1..Len(results) /\ Len(results) \in Nat
      /\ \A n \in DOMAIN results : results[n] \in Marks
  BY <1>1
<1>6. Current \in Nat /\ Current = Len(results) + 1 /\ Current \notin DOMAIN results
  BY <1>5 DEF Current
<1> QED  BY <1>1, <1>2, <1>3, <1>4, <1>5, <1>6 DEF Launched, Last, WholeOnes

\* A case's launches are finitely many.
LEMMA OfFinite ==
    ASSUME TrialsCore, NEW i PROVE IsFiniteSet(Of(i)) /\ Cardinality(Of(i)) \in Nat
<1>1. IsFiniteSet(DOMAIN launches)
  BY CoreParts, FS_Interval
<1> QED  BY <1>1, FS_Subset, FS_CardinalityType DEF Of

\* A launch adds one to the history, and to its case.
LaunchAdds(ws, e) ==
    /\ e \in Launched /\ e.ws = ws /\ e.outcome \in AllOutcomes
    /\ launches' \in Seq(Launched) /\ Len(launches') = Len(launches) + 1
    /\ DOMAIN launches' = DOMAIN launches \union {Len(launches')}
    /\ Len(launches') \notin DOMAIN launches
    /\ \A n \in DOMAIN launches : launches'[n] = launches[n]
    /\ launches'[Len(launches')] = e

\* What a launch appends, by its parts.
LEMMA LaunchFacts ==
    ASSUME TrialsCore, NEW ws \in Workspaces, NEW os \in SUBSET AllOutcomes, Launch(ws, os)
    PROVE  \E e : LaunchAdds(ws, e) /\ e.outcome \in os
<1>1. PICK o \in os : launches' = Append(launches, [ws |-> ws, outcome |-> o])
  BY DEF Launch
<1> DEFINE e == [ws |-> ws, outcome |-> o]
<1>2. e \in Launched /\ e.ws = ws /\ e.outcome = o /\ o \in AllOutcomes
  BY DEF Launched
<1>3. launches \in Seq(Launched) /\ launches' = Append(launches, e)
  BY <1>1 DEF TrialsCore
<1> HIDE DEF e
<1>4. /\ launches' \in Seq(Launched) /\ Len(launches') = Len(launches) + 1
      /\ DOMAIN launches' = DOMAIN launches \union {Len(launches) + 1}
      /\ Len(launches) + 1 \notin DOMAIN launches
      /\ launches'[Len(launches) + 1] = e /\ \A n \in DOMAIN launches : launches'[n] = launches[n]
  BY <1>2, <1>3, Appended
<1>5. LaunchAdds(ws, e)
  BY <1>2, <1>4 DEF LaunchAdds
<1> QED  BY <1>2, <1>5

\* A launch belongs to its own case and to no other.
LEMMA OfLaunch ==
    ASSUME TrialsCore, NEW ws, NEW e, LaunchAdds(ws, e), NEW i
    PROVE  /\ i # ws => Of(i)' = Of(i)
           /\ i = ws => /\ Of(i)' = Of(i) \union {Len(launches')}
                        /\ Cardinality(Of(i)') = Cardinality(Of(i)) + 1
<1>1. /\ i # ws => Of(i)' = Of(i)
      /\ i = ws => Of(i)' = Of(i) \union {Len(launches')} /\ Len(launches') \notin Of(i)
  BY DEF LaunchAdds, Of
<1> QED  BY <1>1, OfFinite, FS_AddElement

\* A launch leads to the comparison of what it came to.
LEMMA CoreLaunch ==
    ASSUME TrialsCore, NEW ws, NEW e, LaunchAdds(ws, e), phase' \in Phases, phase # "ended",
           phase' # "ended", UNCHANGED <<trial, kept, results, passed, report, exit_code>>
    PROVE  TrialsCore'
<1>1. Launched' = Launched
  BY DEF Launched, Workspaces
<1>2. kept' \subseteq WholeOnes'
  BY DEF TrialsCore, WholeOnes, LaunchAdds
<1>3. launches' # <<>>
  BY DEF LaunchAdds
<1> QED  BY <1>1, <1>2, <1>3 DEF TrialsCore, LaunchAdds

\* So does any other step, if it keeps what is not the launches.
LEMMA CoreMove ==
    ASSUME TrialsCore, UNCHANGED <<trial, launches>>, phase' \in Phases, phase' # "score",
           kept' \subseteq WholeOnes, results' \in Seq(Marks), passed' \in BOOLEAN,
           report' \in {"none", "passed", "failed", "error"}, exit_code' \in 0..3,
           exit_code' = 3 <=> phase' # "ended"
    PROVE  TrialsCore'
<1>1. Launched' = Launched /\ WholeOnes' = WholeOnes
  BY DEF Launched, Workspaces, WholeOnes
<1> QED  BY <1>1 DEF TrialsCore

\* A settled case is added to the results.
SettleAdds(mark) ==
    /\ results' \in Seq(Marks) /\ Len(results') = Current /\ Current' = Current + 1
    /\ DOMAIN results' = DOMAIN results \union {Current}
    /\ results'[Current] = mark /\ \A i \in DOMAIN results : results'[i] = results[i]

\* What settling a case appends, by its parts.
LEMMA SettleFacts ==
    ASSUME TrialsCore, NEW mark \in Marks, Settle(mark) PROVE SettleAdds(mark)
<1>1. results \in Seq(Marks) /\ results' = Append(results, mark)
  BY DEF TrialsCore, Settle
<1>2. /\ results' \in Seq(Marks) /\ Len(results') = Len(results) + 1
      /\ DOMAIN results' = DOMAIN results \union {Len(results) + 1}
      /\ results'[Len(results) + 1] = mark /\ \A i \in DOMAIN results : results'[i] = results[i]
  BY <1>1, Appended
<1> QED  BY <1>2 DEF SettleAdds, Current

-----------------------------------------------------------------------------
(* Scenarios and fixtures: cases worked off in turn.                       *)

\* A case is settled, well or badly, and the next begins or none is left.
LEMMA TurnSettles ==
    ASSUME NEW count \in Nat, TrialsCore, InTurn(count), UNCHANGED launches,
           NEW mark \in Marks, SettleAdds(mark),
           phase \in {"load", "turns", "prepare", "launch", "score"},
           phase' = IF Current = Items THEN "report" ELSE "load", exit_code' # 0,
           mark = "SKIP" => Of(Current) = {},
           mark = "PASS" => /\ Cardinality(Of(Current)) = count
                            /\ \A n \in Of(Current) : Good(launches[n].outcome)
    PROVE  InTurn(count)'
<1>1. /\ Len(results) \in Nat /\ Current = Len(results) + 1 /\ DOMAIN results = 1..Len(results)
      /\ Items \in Nat /\ Len(results) < Items
  BY CoreParts, TrialsAssumption DEF InTurn, TrialsAssumption
<1>2. \A i : Of(i)' = Of(i)
  BY DEF Of
<1>3. \A n \in DOMAIN launches : launches[n].ws \in 1..Current
  BY DEF InTurn
<1>4. Of(Current + 1) = {}
  BY <1>1, <1>3 DEF Of
<1>5. /\ Current' = Current + 1 /\ Len(results') = Current
  BY DEF SettleAdds
<1>6. \A i \in DOMAIN results : Sound(i, count)'
  BY <1>2 DEF InTurn, Sound, SettleAdds
<1>7. PICK c \in Nat : c = Current
  BY <1>1
<1>12. Sound(c, count)'
  BY <1>2, <1>7 DEF Sound, SettleAdds
<1>8. \A i \in DOMAIN results' : Sound(i, count)'
  BY <1>6, <1>7, <1>12 DEF SettleAdds
<1>9. (Of(Current))' = {}
  <2>1. Of(c + 1)' = {}
    BY <1>2, <1>4, <1>7
  <2> QED  BY <1>5, <1>7, <2>1 DEF Of
<1>10. \A n \in DOMAIN launches' : launches'[n].ws \in 1..Current'
  BY <1>1, <1>3, <1>5
<1>11. /\ phase' = "report" => Len(results') = Items
       /\ phase' = "load" => Len(results') < Items
       /\ phase' \in {"load", "report"}
  BY <1>1, <1>5
<1> QED  BY <1>8, <1>9, <1>10, <1>11 DEF InTurn

\* A case begins, or goes on, or all is over.
LEMMA TurnGoes ==
    ASSUME NEW count \in Nat, InTurn(count), UNCHANGED <<launches, results>>,
           phase \in {"start", "load", "turns", "prepare", "launch", "score", "report"},
           phase' \in {"load", "turns", "prepare", "launch", "report", "ended"},
           phase = "start" /\ phase' # "ended" => (phase' = "report" <=> Items = 0),
           phase' = "report" => phase = "start",
           phase' \in {"load", "turns"} => phase \in {"start", "load", "turns"},
           phase' \in {"load", "turns", "prepare", "launch"} => phase # "report",
           phase' \in {"prepare", "launch"} => Cardinality(Of(Current)) < count,
           exit_code' = 0 => phase = "report"
    PROVE  InTurn(count)'
<1>1. \A i : Of(i)' = Of(i)
  BY DEF Of
<1>2. Current' = Current
  BY DEF Current
<1>3. \A i \in DOMAIN results' : Sound(i, count)'
  BY <1>1 DEF InTurn, Sound
<1>4. Items \in Nat
  BY TrialsAssumption DEF TrialsAssumption
<1> QED  BY <1>1, <1>2, <1>3, <1>4 DEF InTurn

\* A launch of the gate in the case at hand.
LEMMA TurnLaunches ==
    ASSUME NEW count \in Nat, TrialsCore, InTurn(count), NEW e, LaunchAdds(Current, e),
           UNCHANGED results, phase = "launch", phase' = "score", exit_code' # 0
    PROVE  InTurn(count)'
<1>1. PICK c \in Nat : c = Current
  BY CoreParts
<1>2. Current' = c /\ c \notin DOMAIN results /\ c \in 1..c
  BY <1>1, CoreParts DEF Current
<1>3. LaunchAdds(c, e)
  BY <1>1
<1>4. /\ Of(c)' = Of(c) \union {Len(launches')}
      /\ Cardinality(Of(c)') = Cardinality(Of(c)) + 1
      /\ \A i : i # c => Of(i)' = Of(i)
  BY <1>3, OfLaunch
<1>5. Cardinality(Of(c)) \in Nat /\ Cardinality(Of(c)) < count
  BY <1>1, OfFinite DEF InTurn
<1>6. Cardinality(Of(c)') <= count
  BY <1>4, <1>5
<1>7. \A i \in DOMAIN results : Sound(i, count)'
  <2>1. \A i \in DOMAIN results : Of(i)' = Of(i)
    BY <1>2, <1>4
  <2>2. \A i : Of(i) \subseteq DOMAIN launches
    BY DEF Of
  <2> QED  BY <2>1, <2>2 DEF InTurn, Sound, LaunchAdds
<1>8. \A n \in DOMAIN launches' : launches'[n].ws \in 1..c
  BY <1>1, <1>2 DEF InTurn, LaunchAdds
<1>9. launches'[Len(launches')].ws = c
  BY <1>3 DEF LaunchAdds
<1>10. (Cardinality(Of(Current)))' <= count
  BY <1>2, <1>6 DEF Of
<1> QED  BY <1>2, <1>7, <1>8, <1>9, <1>10 DEF InTurn


-----------------------------------------------------------------------------
(* harness-eval.                                                           *)

EvalHolds == TrialsCore /\ EvalTypes /\ InTurn(Turns) /\ EvalStored /\ Unfailing

\* A scenario ends, as it should or in an error.
LEMMA EvalSettles ==
    ASSUME EvalHolds, NEW mark \in Marks, Settled(mark), EvalTypes',
           phase \in {"load", "turns", "prepare", "launch", "score"},
           UNCHANGED <<trial, launches, kept, passed, report, exit_code>>,
           mark = "SKIP" => Of(Current) = {},
           mark = "PASS" => /\ Cardinality(Of(Current)) = Turns
                            /\ \A n \in Of(Current) : Good(launches[n].outcome)
    PROVE  EvalHolds'
<1>1. TrialsCore /\ exit_code = 3 /\ Turns \in Nat
  BY TrialsAssumption DEF EvalHolds, TrialsCore, TrialsAssumption
<1>2. PICK m \in {mark, "ERROR"} : Settle(m)
  BY DEF Settled
<1>3. m \in Marks /\ SettleAdds(m)
  BY <1>1, <1>2, SettleFacts DEF Marks
<1>4. phase' = IF Current = Items THEN "report" ELSE "load"
  BY DEF Settled
<1>5. InTurn(Turns)'
  BY <1>1, <1>2, <1>3, <1>4, TurnSettles DEF EvalHolds
<1>6. TrialsCore'
  BY <1>1, <1>3, <1>4, CoreMove DEF SettleAdds, TrialsCore, Phases
<1>7. EvalStored' /\ Unfailing'
  BY <1>1, <1>4 DEF EvalHolds, EvalStored, Unfailing
<1> QED  BY <1>5, <1>6, <1>7 DEF EvalHolds

\* A scenario begins, or goes on.
LEMMA EvalGoes ==
    ASSUME EvalHolds, UNCHANGED <<trial, launches, results, kept, passed, report, exit_code>>,
           EvalTypes',
           \/ phase = "start" /\ Items # 0 /\ phase' = "load"
           \/ phase = "load" /\ phase' = "turns"
           \/ phase = "turns" /\ phase' = "prepare"
           \/ phase = "prepare" /\ phase' = "launch"
           \/ /\ phase = "score" /\ phase' = "prepare" /\ Cardinality(Of(Current)) < Turns
              /\ launches[Len(launches)].outcome.stored # "none"
    PROVE  EvalHolds'
<1>1. TrialsCore /\ exit_code = 3 /\ Turns \in Nat \ {0} /\ InTurn(Turns)
  BY TrialsAssumption DEF EvalHolds, TrialsCore, TrialsAssumption
<1>2. phase' \in {"prepare", "launch"} =>
          /\ Cardinality(Of(Current)) < Turns
          /\ \A n \in Of(Current) : launches[n].outcome.stored # "none"
  <2>1. CASE phase = "turns"
    <3>1. Of(Current) = {}
      BY <1>1, <2>1 DEF InTurn
    <3> QED  BY <1>1, <3>1, FS_EmptySet
  <2>2. CASE phase \in {"prepare", "score"}
    BY <1>1, <2>2 DEF EvalHolds, EvalStored, InTurn
  <2> QED  BY <2>1, <2>2
<1>3. InTurn(Turns)'
  BY <1>1, <1>2, TurnGoes
<1>4. TrialsCore'
  BY <1>1, CoreMove DEF TrialsCore, Phases
<1>5. Current' = Current /\ (Of(Current))' = Of(Current)
  BY DEF Current, Of
<1>6. EvalStored' /\ Unfailing'
  BY <1>1, <1>2, <1>5 DEF EvalHolds, EvalStored, Unfailing
<1> QED  BY <1>3, <1>4, <1>6 DEF EvalHolds

\* The evaluation ends; it passes only if nothing failed.
LEMMA EvalFinishes ==
    ASSUME EvalHolds, UNCHANGED <<trial, launches, results, passed>>, EvalTypes',
           phase \in {"start", "launch", "report"}, kept' \subseteq WholeOnes,
           NEW summary \in {"none", "passed", "failed", "error"}, NEW code \in 0..2,
           Finish(summary, code),
           code = 0 => phase = "report" /\ \A i \in DOMAIN results : results[i] \in {"PASS", "SKIP"}
    PROVE  EvalHolds'
<1>1. TrialsCore /\ Turns \in Nat /\ InTurn(Turns)
  BY TrialsAssumption DEF EvalHolds, TrialsAssumption
<1>2. phase' = "ended" /\ report' = summary /\ exit_code' = code
  BY DEF Finish
<1>3. InTurn(Turns)'
  BY <1>1, <1>2, TurnGoes
<1>4. TrialsCore'
  BY <1>1, <1>2, CoreMove DEF TrialsCore, Phases
<1>5. EvalStored' /\ Unfailing'
  BY <1>2 DEF EvalHolds, EvalStored, Unfailing
<1> QED  BY <1>3, <1>4, <1>5 DEF EvalHolds

\* The gate runs in the process: there is nothing to parse and to compare.
LEMMA EvalLaunches ==
    ASSUME EvalHolds, trial = "eval", phase = "launch", phase' = "score", EvalTypes',
           Launch(Current, InProcess),
           UNCHANGED <<trial, results, kept, passed, report, exit_code>>
    PROVE  EvalHolds'
<1>1. TrialsCore /\ exit_code = 3 /\ Turns \in Nat /\ InTurn(Turns)
  BY TrialsAssumption DEF EvalHolds, TrialsCore, TrialsAssumption
<1>2. PICK c \in Nat : c = Current
  BY <1>1, CoreParts
<1>3. InProcess \in SUBSET AllOutcomes /\ c \in Workspaces
  BY <1>2 DEF InProcess, Outcomes, Workspaces
<1>4. PICK e : LaunchAdds(c, e) /\ e.outcome \in InProcess
  BY <1>1, <1>2, <1>3, LaunchFacts
<1>5. InTurn(Turns)'
  BY <1>1, <1>2, <1>4, TurnLaunches
<1>6. TrialsCore'
  BY <1>1, <1>4, CoreLaunch DEF Phases
<1>7. Current' = c /\ Of(c)' = Of(c) \union {Len(launches')} /\ Of(c) \subseteq DOMAIN launches
  <2>1. Of(c)' = Of(c) \union {Len(launches')}
    BY <1>1, <1>4, OfLaunch
  <2>2. Current' = c /\ Of(c) \subseteq DOMAIN launches
    BY <1>2 DEF Current, Of
  <2> QED  BY <2>1, <2>2
<1>8. (Of(Current))' = Of(c) \union {Len(launches')}
  BY <1>7 DEF Of
<1>9. \A n \in Of(c) : launches[n].outcome.stored # "none"
  BY <1>2 DEF EvalHolds, EvalStored
<1>10. EvalStored'
  <2>1. \A n \in DOMAIN launches' : launches'[n].outcome = e.outcome \/
            (n \in DOMAIN launches /\ launches'[n] = launches[n])
    BY <1>4 DEF LaunchAdds
  <2>2. \A n \in DOMAIN launches' :
            LET o == launches'[n].outcome IN o.printed /\ o.agrees /\ o.stored # "torn"
    BY <1>4, <2>1 DEF InProcess, EvalHolds, EvalStored
  <2>3. \A n \in Of(c) : launches'[n].outcome.stored # "none"
    BY <1>4, <1>7, <1>9 DEF LaunchAdds
  <2> QED  BY <1>8, <2>2, <2>3 DEF EvalStored
<1>11. Unfailing'
  BY <1>1 DEF Unfailing
<1> QED  BY <1>5, <1>6, <1>10, <1>11 DEF EvalHolds

\* A scenario is scored when its turns are over, or a receipt is missing.
LEMMA EvalScores ==
    ASSUME EvalHolds, EvalTypes', trial = "eval", EvalScore PROVE EvalHolds'
<1>1. TrialsCore /\ InTurn(Turns) /\ EvalStored /\ phase = "score" /\ Turns \in Nat \ {0}
  BY TrialsAssumption DEF EvalHolds, EvalScore, TrialsAssumption
<1>2. /\ Taken = Cardinality(Of(Current)) /\ Cardinality(Of(Current)) \in Nat
      /\ Cardinality(Of(Current)) <= Turns
  BY <1>1, OfFinite DEF Taken, Of, InTurn
<1>3. UNCHANGED <<trial, launches, kept, passed, report, exit_code>>
  BY DEF EvalScore
<1>4. CASE Last.stored = "none"
  <2>1. Settled("ERROR")
    BY <1>4 DEF EvalScore
  <2> QED  BY <1>1, <1>3, <2>1, EvalSettles DEF Marks
<1>5. CASE Last.stored # "none" /\ Taken < Turns
  <2>1. phase' = "prepare" /\ UNCHANGED <<results, planted>>
    BY <1>5 DEF EvalScore
  <2> QED  BY <1>1, <1>2, <1>3, <1>5, <2>1, EvalGoes DEF Last
<1>6. CASE Last.stored # "none" /\ ~(Taken < Turns)
  <2> DEFINE mark == IF \A n \in Receipts(Current) : Matched(n) THEN "PASS" ELSE "FAIL"
  <2>1. Settled(mark)
    BY <1>6 DEF EvalScore
  <2>2. mark \in {"PASS", "FAIL"}
    OBVIOUS
  <2>3. Cardinality(Of(Current)) = Turns
    BY <1>1, <1>2, <1>6
  <2>4. ASSUME mark = "PASS", NEW n \in Of(Current) PROVE Good(launches[n].outcome)
    <3>1. launches[n].outcome.stored # "none"
      BY <1>1, <1>6 DEF EvalStored, Last
    <3>2. n \in Receipts(Current)
      BY <3>1 DEF Of, Receipts
    <3>3. Matched(n)
      BY <2>4, <3>2
    <3>4. n \in DOMAIN launches /\ launches[n].outcome \in AllOutcomes
      BY <1>1, CoreParts DEF Of
    <3>5. /\ launches[n].outcome.stored = "whole" /\ launches[n].outcome.printed
          /\ launches[n].outcome.agrees
      BY <1>1, <3>1, <3>4 DEF EvalStored, AllOutcomes
    <3> QED  BY <3>3, <3>4, <3>5, GoodOutcome DEF Matched
  <2> HIDE DEF mark
  <2> QED  BY <1>1, <1>3, <2>1, <2>2, <2>3, <2>4, EvalSettles DEF Marks
<1> QED  BY <1>4, <1>5, <1>6

\* What a check can leave, and what it can lead to.
LEMMA EvalTyped == ASSUME EvalTypes, EvalSteps PROVE EvalTypes'
<1>1. CASE EvalPrepare
  <2>1. (outside \/ planted = "folder") \in BOOLEAN
    OBVIOUS
  <2>2. outside' \in BOOLEAN
    BY <1>1, <2>1 DEF EvalPrepare, EvalTypes
  <2>3. planted' \in {planted, "nothing"}
    BY <1>1 DEF EvalPrepare, Settled
  <2> QED  BY <2>2, <2>3 DEF EvalTypes
<1>2. CASE EvalStart \/ EvalLoad \/ EvalTurns \/ EvalLaunch \/ EvalScore \/ EvalReport
  <2>1. outside' = outside
    BY <1>2 DEF EvalStart, EvalLoad, EvalTurns, EvalLaunch, EvalScore, EvalReport, evalVars
  <2>2. planted' \in {planted, "nothing", "link", "folder"}
    BY <1>2 DEF EvalStart, EvalLoad, EvalTurns, EvalLaunch, EvalScore, EvalReport, evalVars, Settled
  <2> QED  BY <2>1, <2>2 DEF EvalTypes
<1> QED  BY <1>1, <1>2 DEF EvalSteps

\* Every step of an evaluation.
LEMMA EvalStep ==
    ASSUME EvalHolds, EvalSteps PROVE EvalHolds' /\ trial' = trial
<1>1. /\ TrialsCore /\ kept \subseteq WholeOnes /\ InTurn(Turns) /\ trial = "eval" /\ EvalTypes'
  BY EvalTyped DEF EvalHolds, TrialsCore, EvalSteps
<1>2. trial' = trial
  BY DEF EvalSteps, EvalStart, EvalLoad, EvalTurns, EvalPrepare, EvalLaunch, EvalScore, EvalReport
<1>3. CASE EvalStart
  <2>1. CASE Items # 0 /\ phase' = "load" /\ UNCHANGED <<report, exit_code>>
    BY <1>1, <1>3, <2>1, EvalGoes DEF EvalStart
  <2>2. CASE Finish("none", 2)
    BY <1>1, <1>3, <2>2, EvalFinishes DEF EvalStart
  <2> QED  BY <1>2, <1>3, <2>1, <2>2 DEF EvalStart
<1>4. CASE EvalLoad
  <2>1. UNCHANGED <<trial, launches, kept, passed, report, exit_code>> /\ phase = "load"
    BY <1>4 DEF EvalLoad
  <2>2. Of(Current) = {}
    BY <1>1, <2>1 DEF InTurn
  <2>3. CASE Settled("FAIL") \/ Settled("SKIP")
    BY <1>1, <2>1, <2>2, <2>3, EvalSettles DEF Marks
  <2>4. CASE phase' = "turns" /\ UNCHANGED <<results, planted>>
    BY <1>1, <2>1, <2>4, EvalGoes
  <2> QED  BY <1>2, <1>4, <2>3, <2>4 DEF EvalLoad
<1>5. CASE EvalTurns
  <2>1. UNCHANGED <<trial, launches, kept, passed, report, exit_code>> /\ phase = "turns"
    BY <1>5 DEF EvalTurns
  <2>3. CASE Settled("FAIL")
    BY <1>1, <2>1, <2>3, EvalSettles DEF Marks
  <2>4. CASE phase' = "prepare" /\ UNCHANGED <<results, planted>>
    BY <1>1, <2>1, <2>4, EvalGoes
  <2> QED  BY <1>2, <1>5, <2>3, <2>4 DEF EvalTurns
<1>6. CASE EvalPrepare
  <2>1. UNCHANGED <<trial, launches, kept, passed, report, exit_code>> /\ phase = "prepare"
    BY <1>6 DEF EvalPrepare
  <2>3. CASE Settled("FAIL")
    BY <1>1, <2>1, <2>3, EvalSettles DEF Marks
  <2>4. CASE phase' = "launch" /\ UNCHANGED results
    BY <1>1, <2>1, <2>4, EvalGoes
  <2> QED  BY <1>2, <1>6, <2>3, <2>4 DEF EvalPrepare
<1>7. CASE EvalLaunch
  <2>1. UNCHANGED <<trial, kept, passed>> /\ phase = "launch"
    BY <1>7 DEF EvalLaunch
  <2>2. CASE /\ Launch(Current, InProcess)
             /\ phase' = "score" /\ UNCHANGED <<results, report, exit_code>>
    BY <1>1, <2>1, <2>2, EvalLaunches
  <2>3. CASE Settled("FAIL") /\ UNCHANGED <<launches, report, exit_code>>
    BY <1>1, <2>1, <2>3, EvalSettles DEF Marks
  <2>4. CASE Finish("none", 2) /\ UNCHANGED <<launches, results>>
    BY <1>1, <2>1, <2>4, EvalFinishes
  <2> QED  BY <1>2, <1>7, <2>2, <2>3, <2>4 DEF EvalLaunch
<1>8. CASE EvalScore
  BY <1>1, <1>2, <1>8, EvalScores
<1>9. CASE EvalReport
  <2>1. UNCHANGED <<trial, launches, results, passed>> /\ phase = "report"
    BY <1>9 DEF EvalReport
  <2>2. kept' \subseteq WholeOnes
    BY <1>1, <1>9 DEF EvalReport, WholeOnes
  <2>3. ~Some("ERROR") /\ ~Some("FAIL") =>
            \A i \in DOMAIN results : results[i] \in {"PASS", "SKIP"}
    BY <1>1, CoreParts DEF Some, Marks
  <2>4. \/ Finish("none", 2) \/ Finish("error", 2) \/ Finish("failed", 1)
        \/ Finish("passed", 0) /\ ~Some("ERROR") /\ ~Some("FAIL")
    BY <1>9 DEF EvalReport
  <2> QED  BY <1>1, <1>2, <2>1, <2>2, <2>3, <2>4, EvalFinishes
<1> QED  BY <1>3, <1>4, <1>5, <1>6, <1>7, <1>8, <1>9 DEF EvalSteps


-----------------------------------------------------------------------------
(* run_fixtures.                                                           *)

FixtureHolds == TrialsCore /\ InTurn(Commands) /\ FixtureCopies /\ Unfailing

\* What has been copied, or failed its case, has been for good.
LEMMA CopiedStays ==
    ASSUME TrialsCore, UNCHANGED launches, kept \subseteq kept', trouble \subseteq trouble',
           UNCHANGED results \/ \E mark : SettleAdds(mark), NEW n, Copied(n)
    PROVE  Copied(n)'
BY DEF Copied, SettleAdds

\* A fixture is settled: the receipt of its last run is copied, or it failed.
LEMMA FixtureSettles ==
    ASSUME FixtureHolds, NEW mark \in {"PASS", "FAIL", "SKIP"}, FixtureSettled(mark),
           phase \in {"load", "launch", "score"},
           UNCHANGED <<trial, launches, passed, report, exit_code>>,
           kept \subseteq kept', kept' \subseteq WholeOnes, trouble \subseteq trouble',
           mark = "SKIP" => Of(Current) = {},
           mark = "PASS" => /\ Cardinality(Of(Current)) = Commands
                            /\ \A n \in Of(Current) : Good(launches[n].outcome),
           phase = "score" /\ Last.code # "timeout" /\ Readable(Last) =>
               Len(launches) \in kept' \/ (Len(launches) \in trouble' /\ mark = "FAIL")
    PROVE  FixtureHolds'
<1>1. TrialsCore /\ exit_code = 3 /\ Commands \in Nat /\ InTurn(Commands)
  BY DEF FixtureHolds, TrialsCore, Commands
<1>2. SettleAdds(mark) /\ mark \in Marks /\ phase' = IF Current = Items THEN "report" ELSE "load"
  BY <1>1, SettleFacts DEF FixtureSettled, Marks
<1>3. InTurn(Commands)'
  BY <1>1, <1>2, TurnSettles
<1>4. TrialsCore'
  BY <1>1, <1>2, CoreMove DEF SettleAdds, TrialsCore, Phases
<1>5. Unfailing'
  BY <1>1 DEF Unfailing
<1>6. \A i \in DOMAIN results' : results'[i] # "ERROR"
  BY <1>2 DEF SettleAdds, FixtureHolds, FixtureCopies
<1>7. ASSUME NEW n \in DOMAIN launches, Named(n) PROVE Copied(n)'
  <2>1. CASE Copied(n)
    BY <1>1, <1>2, <2>1, CopiedStays
  <2>2. CASE ~Copied(n)
    <3>1. phase = "score" /\ n = Len(launches)
      BY <1>7, <2>2 DEF FixtureHolds, FixtureCopies
    <3>2. launches[n].ws = Current /\ Last.code # "timeout" /\ Readable(Last)
      BY <1>1, <1>7, <3>1 DEF InTurn, Last, Named
    <3>3. n \in kept' \/ (n \in trouble' /\ mark = "FAIL")
      BY <3>1, <3>2
    <3> QED  BY <1>2, <3>2, <3>3 DEF Copied, SettleAdds
  <2> QED  BY <2>1, <2>2
<1>8. FixtureCopies'
  BY <1>6, <1>7 DEF FixtureCopies, Named
<1> QED  BY <1>3, <1>4, <1>5, <1>8 DEF FixtureHolds

\* A fixture begins or goes on, or the runner ends, as it should or in an exception.
LEMMA FixtureGoes ==
    ASSUME FixtureHolds, UNCHANGED <<trial, launches, results, trouble, passed>>,
           phase \in {"start", "load", "score", "report"}, phase' \in {"load", "launch", "report", "ended"},
           phase' \in {"load", "report"} => phase = "start" /\ (phase' = "report" <=> Items = 0),
           phase' = "launch" => /\ phase \in {"load", "score"}
                                /\ Cardinality(Of(Current)) < Commands,
           kept \subseteq kept', kept' \subseteq WholeOnes,
           phase = "score" /\ Named(Len(launches)) => Len(launches) \in kept',
           phase' # "ended" => UNCHANGED <<report, exit_code>>,
           phase' = "ended" => /\ report' \in {"none", "passed", "failed"} /\ exit_code' \in 0..2
                               /\ exit_code' = 0 =>
                                    /\ phase = "report"
                                    /\ \A i \in DOMAIN results : results[i] \in {"PASS", "SKIP"}
    PROVE  FixtureHolds'
<1>1. TrialsCore /\ exit_code = 3 /\ Commands \in Nat /\ InTurn(Commands)
  BY DEF FixtureHolds, TrialsCore, Commands
<1>2. InTurn(Commands)'
  BY <1>1, TurnGoes
<1>3. TrialsCore'
  BY <1>1, CoreMove DEF TrialsCore, Phases
<1>4. Unfailing'
  BY <1>1 DEF Unfailing
<1>5. ASSUME NEW n \in DOMAIN launches, Named(n) PROVE Copied(n)'
  <2>1. CASE Copied(n)
    BY <1>1, <2>1, CopiedStays
  <2>2. CASE ~Copied(n)
    <3>1. phase = "score" /\ n = Len(launches)
      BY <1>5, <2>2 DEF FixtureHolds, FixtureCopies
    <3> QED  BY <1>5, <3>1 DEF Copied
  <2> QED  BY <2>1, <2>2
<1>6. FixtureCopies'
  BY <1>5 DEF FixtureHolds, FixtureCopies, Named
<1> QED  BY <1>2, <1>3, <1>4, <1>6 DEF FixtureHolds

\* A command is run in the fixture's copy.
LEMMA FixtureLaunches ==
    ASSUME FixtureHolds, trial = "fixtures", phase = "launch", phase' = "score",
           Launch(Current, Outcomes),
           UNCHANGED <<trial, results, kept, trouble, passed, report, exit_code>>
    PROVE  FixtureHolds'
<1>1. TrialsCore /\ exit_code = 3 /\ Commands \in Nat /\ InTurn(Commands)
  BY DEF FixtureHolds, TrialsCore, Commands
<1>2. PICK c \in Nat : c = Current
  BY <1>1, CoreParts
<1>3. Outcomes \in SUBSET AllOutcomes /\ c \in Workspaces
  BY <1>2 DEF Outcomes, Workspaces
<1>4. PICK e : LaunchAdds(c, e)
  BY <1>1, <1>2, <1>3, LaunchFacts
<1>5. InTurn(Commands)'
  BY <1>1, <1>2, <1>4, TurnLaunches
<1>6. TrialsCore'
  BY <1>1, <1>4, CoreLaunch DEF Phases
<1>7. Unfailing'
  BY <1>1 DEF Unfailing
<1>8. ASSUME NEW n \in DOMAIN launches', n # Len(launches'), Named(n)'
      PROVE  Copied(n)'
  <2>1. n \in DOMAIN launches /\ launches'[n] = launches[n]
    BY <1>4, <1>8 DEF LaunchAdds
  <2>2. Copied(n)
    BY <1>8, <2>1 DEF FixtureHolds, FixtureCopies, Named
  <2> QED  BY <2>1, <2>2 DEF Copied
<1>9. FixtureCopies'
  BY <1>8 DEF FixtureHolds, FixtureCopies
<1> QED  BY <1>5, <1>6, <1>7, <1>9 DEF FixtureHolds

\* A receipt that can be read is copied, whatever it says.
LEMMA FixtureVerifies ==
    ASSUME FixtureHolds, FixtureVerify PROVE FixtureHolds'
<1>1. /\ TrialsCore /\ InTurn(Commands) /\ phase = "score"
      /\ UNCHANGED <<trial, launches, trouble, passed, report, exit_code>>
  BY DEF FixtureHolds, FixtureVerify
<1>2. kept \subseteq kept' /\ kept' \subseteq WholeOnes /\ (Readable(Last) => Len(launches) \in kept')
  <2>1. kept' = IF Readable(Last) THEN kept \union {Len(launches)} ELSE kept
    BY DEF FixtureVerify
  <2>2. kept \subseteq WholeOnes
    BY <1>1 DEF TrialsCore
  <2>3. Readable(Last) => Len(launches) \in WholeOnes
    BY <1>1, CoreParts DEF Readable, WholeOnes, Last
  <2> QED  BY <2>1, <2>2, <2>3
<1>3. Fixture = Of(Current)
  BY DEF Fixture, Of
<1>4. CASE Cardinality(Fixture) < Commands
  <2>1. phase' = "launch" /\ UNCHANGED results
    BY <1>4 DEF FixtureVerify, FixtureGoesOn
  <2> QED  BY <1>1, <1>2, <1>3, <1>4, <2>1, FixtureGoes DEF Named, Last
<1>5. CASE ~(Cardinality(Fixture) < Commands)
  <2>1. FixtureSettled(FixtureVerdict)
    BY <1>5 DEF FixtureVerify, FixtureGoesOn
  <2>2. Cardinality(Of(Current)) = Commands
    <3>1. Cardinality(Of(Current)) \in Nat /\ Cardinality(Of(Current)) <= Commands
      BY <1>1, OfFinite DEF InTurn
    <3> QED  BY <1>3, <1>5, <3>1 DEF Commands
  <2>3. FixtureVerdict \in {"PASS", "FAIL"}
    BY DEF FixtureVerdict
  <2>4. FixtureVerdict = "PASS" => \A n \in Of(Current) : Good(launches[n].outcome)
    BY <1>3 DEF FixtureVerdict
  <2> QED  BY <1>1, <1>2, <2>1, <2>2, <2>3, <2>4, FixtureSettles
<1> QED  BY <1>4, <1>5

\* Every step of the fixtures' runner.
LEMMA FixtureStep ==
    ASSUME FixtureHolds, FixtureSteps PROVE FixtureHolds' /\ trial' = trial
<1>1. /\ TrialsCore /\ kept \subseteq WholeOnes /\ InTurn(Commands) /\ trial = "fixtures"
  BY DEF FixtureHolds, TrialsCore, FixtureSteps
<1>2. trial' = trial
  BY DEF FixtureSteps, FixtureStart, FixtureLoad, FixtureLaunch, FixtureVerify, FixtureTimesOut,
         FixtureCopyFails, FixtureAborts, FixtureReport
<1>3. CASE FixtureStart
  <2>1. phase = "start" /\ UNCHANGED <<trial, launches, kept, results, trouble, passed>>
    BY <1>3 DEF FixtureStart
  <2>2. CASE phase' = (IF Items = 0 THEN "report" ELSE "load") /\ UNCHANGED <<report, exit_code>>
    BY <1>1, <1>2, <2>1, <2>2, FixtureGoes
  <2>3. CASE \E code \in {1, 2} : Finish("none", code)
    BY <1>1, <1>2, <2>1, <2>3, FixtureGoes DEF Finish
  <2> QED  BY <1>3, <2>2, <2>3 DEF FixtureStart
<1>4. CASE FixtureLoad
  <2>1. Of(Current) = {} /\ phase = "load" /\ Cardinality({}) = 0
        /\ UNCHANGED <<trial, launches, kept, trouble, passed, report, exit_code>>
    BY <1>1, <1>4, FS_EmptySet DEF InTurn, FixtureLoad
  <2>2. CASE FixtureSettled("FAIL") \/ FixtureSettled("SKIP")
    BY <1>1, <1>2, <2>1, <2>2, FixtureSettles
  <2>3. CASE phase' = "launch" /\ UNCHANGED results
    <3>1. Cardinality(Of(Current)) < Commands
      BY <2>1 DEF Commands
    <3> QED  BY <1>1, <1>2, <2>1, <2>3, <3>1, FixtureGoes
  <2> QED  BY <1>4, <2>2, <2>3 DEF FixtureLoad
<1>5. CASE FixtureLaunch
  <2>1. phase = "launch" /\ UNCHANGED <<trial, kept, trouble, passed, report, exit_code>>
    BY <1>5 DEF FixtureLaunch
  <2>2. CASE Launch(Current, Outcomes) /\ phase' = "score" /\ UNCHANGED results
    BY <1>1, <1>2, <2>1, <2>2, FixtureLaunches
  <2>3. CASE FixtureSettled("FAIL") /\ UNCHANGED launches
    BY <1>1, <1>2, <2>1, <2>3, FixtureSettles
  <2> QED  BY <1>5, <2>2, <2>3 DEF FixtureLaunch
<1>6. CASE FixtureVerify
  BY <1>2, <1>6, FixtureVerifies
<1>7. CASE FixtureTimesOut
  BY <1>1, <1>2, <1>7, FixtureSettles DEF FixtureTimesOut
<1>9. CASE FixtureCopyFails
  BY <1>1, <1>2, <1>9, FixtureSettles DEF FixtureCopyFails
<1>10. CASE FixtureAborts
  <2>1. /\ phase = "score" /\ phase' = "ended" /\ report' = "none" /\ exit_code' = 1
        /\ UNCHANGED <<trial, launches, results, trouble, passed>>
    BY <1>10 DEF FixtureAborts, Finish
  <2>2. \/ Last.stored = "torn" /\ UNCHANGED kept
        \/ Readable(Last) /\ kept' = kept \union {Len(launches)}
    BY <1>10 DEF FixtureAborts
  <2>3. Readable(Last) => Last.stored = "whole" /\ Len(launches) \in WholeOnes
    BY <1>1, <2>1, CoreParts DEF Readable, WholeOnes, Last
  <2>4. kept \subseteq kept' /\ kept' \subseteq WholeOnes /\ (Readable(Last) => Len(launches) \in kept')
    BY <1>1, <2>2, <2>3
  <2> QED  BY <1>1, <1>2, <2>1, <2>4, FixtureGoes DEF Named, Last
<1>8. CASE FixtureReport
  <2>1. \/ Finish("none", 1) \/ Finish("failed", 1)
        \/ Finish("passed", 0) /\ ~\E n \in DOMAIN results : results[n] = "FAIL"
    BY <1>8 DEF FixtureReport
  <2>2. (~\E n \in DOMAIN results : results[n] = "FAIL") =>
            \A i \in DOMAIN results : results[i] \in {"PASS", "SKIP"}
    BY <1>1, CoreParts DEF FixtureHolds, FixtureCopies, Marks
  <2> QED  BY <1>1, <1>2, <1>8, <2>1, <2>2, FixtureGoes DEF FixtureReport, Finish
<1> QED  BY <1>3, <1>4, <1>5, <1>6, <1>7, <1>8, <1>9, <1>10 DEF FixtureSteps


-----------------------------------------------------------------------------
(* release_check.                                                          *)

ReleaseHolds ==
    /\ TrialsCore /\ OnPlan /\ (passed => SoFarSoGood) /\ Archives
    /\ exit_code = 0 =>
          /\ passed /\ trouble = {} /\ Len(launches) = Len(Plan)
          /\ \A n \in DOMAIN launches : Proven(n) /\ n \in kept

\* The plan has a first run, and each has a repository and a way.
LEMMA PlanTyped ==
    /\ Len(Plan) \in Nat \ {0}
    /\ \A n \in 1..Len(Plan) : Plan[n].ws \in {"main", "node", "pack"} /\ Plan[n].how \in {"cli", "hook"}
<1> DEFINE S == [ws: {"main", "node", "pack"}, how: {"cli", "hook"}]
<1>1. Plan \in Seq(S) /\ Plan # <<>>
  BY PlanAssumption DEF PlanAssumption
<1> HIDE DEF S
<1>2. Len(Plan) \in Nat /\ DOMAIN Plan = 1..Len(Plan) /\ Len(Plan) # 0
  BY <1>1
<1>3. \A n \in 1..Len(Plan) : Plan[n] \in S
  BY <1>1, <1>2
<1> QED  BY <1>2, <1>3 DEF S

\* A run counts when code, receipt and everything else are as they should be.
LEMMA ProvenMeans ==
    ASSUME TrialsCore, NEW n \in DOMAIN launches
    PROVE  Proven(n) <=>
              LET o == launches[n].outcome IN
              /\ o.code = "expected" /\ o.stored = "whole" /\ o.agrees /\ o.rest
              /\ o.printed \/ Plan[n].how = "hook"
<1> DEFINE o == launches[n].outcome
           b == o.printed \/ Plan[n].how = "hook"
           q == [o EXCEPT !.printed = b]
<1>1. o \in AllOutcomes /\ b \in BOOLEAN
  BY CoreParts
<1>2. /\ q \in AllOutcomes /\ q.code = o.code /\ q.stored = o.stored /\ q.agrees = o.agrees
      /\ q.rest = o.rest /\ q.printed = b
  <2> HIDE DEF o, b
  <2> QED  BY <1>1 DEF AllOutcomes
<1>3. Proven(n) <=> Good(q)
  BY DEF Proven
<1> HIDE DEF q
<1>4. Good(q) <=> q.code = "expected" /\ q.stored = "whole" /\ q.printed /\ q.agrees /\ q.rest
  BY <1>2, GoodOutcome
<1> QED  BY <1>2, <1>3, <1>4

\* When all runs count, every receipt parses.
LEMMA AllWhole ==
    ASSUME TrialsCore, \A n \in DOMAIN launches : Proven(n), NEW ws
    PROVE  Receipts(ws) = Whole(ws) /\ \A n \in DOMAIN launches : launches[n].ws = ws => n \in Whole(ws)
<1>1. \A n \in DOMAIN launches : launches[n].outcome.stored = "whole"
  BY ProvenMeans
<1> QED  BY <1>1 DEF Receipts, Whole

\* A workspace is archived, or is in trouble; it is not when all receipts parse.
LEMMA ArchiveFacts ==
    ASSUME TrialsCore, NEW ws, Archive(ws)
    PROVE  /\ kept \subseteq kept' /\ kept' \subseteq WholeOnes
           /\ trouble \subseteq trouble' /\ trouble' \subseteq trouble \union {ws}
           /\ ws \in trouble' \/ Whole(ws) \subseteq kept'
           /\ Receipts(ws) = Whole(ws) => trouble' = trouble
           /\ trouble' = trouble /\ ws \notin trouble => Whole(ws) \subseteq kept'
<1>1. Whole(ws) \subseteq WholeOnes /\ kept \subseteq WholeOnes
  BY DEF Whole, Receipts, WholeOnes, TrialsCore
<1>2. CASE Receipts(ws) = Whole(ws)
  BY <1>1, <1>2 DEF Archive
<1>3. CASE Receipts(ws) # Whole(ws)
  <2>1. PICK some \in SUBSET Whole(ws) : kept' = kept \union some /\ trouble' = trouble \union {ws}
    BY <1>3 DEF Archive
  <2> QED  BY <1>1, <1>3, <2>1
<1> QED  BY <1>2, <1>3

\* A step between two runs, forward or, after an exception, to the end.
LEMMA ReleaseGoes ==
    ASSUME ReleaseHolds, UNCHANGED <<trial, launches, results, report, exit_code>>, phase # "ended",
           phase' \in {"prepare", "launch", "archive", "final", "save"},
           phase' = "prepare" => launches = <<>>,
           phase' = "launch" => Len(launches) < Len(Plan),
           kept' \subseteq WholeOnes, passed' \in BOOLEAN,
           passed' =>
              /\ "node" \notin trouble'
              /\ \A n \in DOMAIN launches :
                    Proven(n) /\ (launches[n].ws # "node" \/ ~InNode' => n \in kept')
              /\ phase' \in {"final", "save"} => Len(launches) = Len(Plan),
           InNode' \/ "node" \in trouble' \/ Whole("node") \subseteq kept',
           phase' = "save" => "main" \in trouble' \/ Whole("main") \subseteq kept'
    PROVE  ReleaseHolds'
<1>1. TrialsCore /\ exit_code = 3 /\ report = "none"
  BY DEF ReleaseHolds, TrialsCore, Archives
<1>2. TrialsCore'
  BY <1>1, CoreMove DEF TrialsCore, Phases
<1>3. OnPlan'
  BY DEF ReleaseHolds, OnPlan
<1>4. \A n : Proven(n)' <=> Proven(n)
  BY DEF Proven
<1>5. passed' => SoFarSoGood'
  <2>1. Judged' \subseteq DOMAIN launches
    BY DEF Judged
  <2> QED  BY <1>4, <2>1 DEF SoFarSoGood
<1>6. \A ws : Whole(ws)' = Whole(ws)
  BY DEF Whole, Receipts
<1>7. Archives'
  BY <1>1, <1>6 DEF Archives
<1> QED  BY <1>1, <1>2, <1>3, <1>5, <1>7 DEF ReleaseHolds

\* The run ends, and says it passed only if nothing was raised or lost.
LEMMA ReleaseFinishes ==
    ASSUME ReleaseHolds, UNCHANGED <<trial, launches, results, kept, trouble, passed>>,
           phase \in {"start", "save"}, NEW summary \in {"none", "passed", "failed"}, NEW code \in 0..2,
           Finish(summary, code), code = 0 => phase = "save" /\ passed /\ trouble = {},
           summary = "passed" => trouble = {}
    PROVE  ReleaseHolds'
<1>1. TrialsCore /\ phase' = "ended" /\ report' = summary /\ exit_code' = code
  BY DEF ReleaseHolds, Finish
<1>2. TrialsCore'
  BY <1>1, CoreMove DEF TrialsCore, Phases
<1>3. OnPlan'
  BY <1>1 DEF ReleaseHolds, OnPlan
<1>4. ~InNode /\ ~InNode' /\ Judged' = Judged /\ Judged = DOMAIN launches
  BY <1>1 DEF InNode, Judged
<1>5. \A n : Proven(n)' <=> Proven(n)
  BY DEF Proven
<1>6. passed' => SoFarSoGood'
  BY <1>1, <1>4, <1>5 DEF ReleaseHolds, SoFarSoGood
<1>7. \A ws : Whole(ws)' = Whole(ws)
  BY DEF Whole, Receipts
<1>8. phase = "start" => Whole("main") = {}
  BY DEF ReleaseHolds, OnPlan, Whole, Receipts
<1>9. Archives'
  BY <1>1, <1>4, <1>7, <1>8 DEF ReleaseHolds, Archives
<1>10. exit_code' = 0 =>
          /\ passed' /\ trouble' = {} /\ Len(launches') = Len(Plan)
          /\ \A n \in DOMAIN launches' : Proven(n)' /\ n \in kept'
  BY <1>1, <1>4, <1>5 DEF ReleaseHolds, SoFarSoGood
<1> QED  BY <1>2, <1>3, <1>6, <1>9, <1>10 DEF ReleaseHolds

\* The gate runs where the plan says.
LEMMA ReleaseLaunches ==
    ASSUME ReleaseHolds, trial = "release", phase = "launch", phase' = "score",
           Launch(Plan[Len(launches) + 1].ws, Outcomes),
           UNCHANGED <<trial, kept, results, trouble, passed, report, exit_code>>
    PROVE  ReleaseHolds'
<1>1. /\ TrialsCore /\ exit_code = 3 /\ OnPlan /\ Archives /\ (passed => SoFarSoGood)
      /\ Len(launches) \in Nat /\ Len(launches) < Len(Plan) /\ DOMAIN launches = 1..Len(launches)
  BY CoreParts DEF ReleaseHolds, TrialsCore, OnPlan
<1>2. PICK at : at = Plan[Len(launches) + 1]
  OBVIOUS
<1>3. Outcomes \in SUBSET AllOutcomes /\ at.ws \in Workspaces
  BY <1>1, <1>2, PlanTyped DEF Outcomes, Workspaces
<1>4. PICK ws : ws = at.ws
  OBVIOUS
<1>5. PICK e : LaunchAdds(ws, e)
  BY <1>1, <1>2, <1>3, <1>4, LaunchFacts
<1>6. /\ Len(launches') = Len(launches) + 1 /\ DOMAIN launches' = DOMAIN launches \union {Len(launches')}
      /\ \A n \in DOMAIN launches : launches'[n] = launches[n] /\ n # Len(launches')
      /\ launches'[Len(launches')].ws = ws
  BY <1>5 DEF LaunchAdds
<1>7. TrialsCore'
  BY <1>1, <1>5, CoreLaunch DEF Phases
<1>8. OnPlan'
  <2>1. Len(launches') <= Len(Plan)
    BY <1>1, <1>6, PlanTyped
  <2>2. launches'[Len(launches')].ws = Plan[Len(launches')].ws
    BY <1>2, <1>4, <1>6
  <2>3. \A n \in DOMAIN launches' : launches'[n].ws = Plan[n].ws
    BY <1>1, <1>6, <2>2 DEF OnPlan
  <2> QED  BY <1>1, <2>1, <2>3 DEF OnPlan
<1>9. InNode' <=> InNode
  <2>1. InNode <=> ws = "node"
    BY <1>2, <1>4 DEF InNode
  <2>2. InNode' <=> Plan[Len(launches')].ws = "node"
    BY DEF InNode, Step
  <2> QED  BY <1>2, <1>4, <1>6, <2>1, <2>2
<1>10. Judged' = Judged /\ Judged = DOMAIN launches
  BY <1>6 DEF Judged
<1>11. \A n \in DOMAIN launches : Proven(n)' <=> Proven(n)
  BY <1>6 DEF Proven
<1>12. passed' => SoFarSoGood'
  BY <1>1, <1>6, <1>9, <1>10, <1>11 DEF SoFarSoGood
<1>13. ~InNode => Whole("node")' = Whole("node")
  <2>1. ~InNode => ws # "node"
    BY <1>2, <1>4 DEF InNode
  <2> QED  BY <1>6, <2>1 DEF Whole, Receipts
<1>14. Archives'
  BY <1>1, <1>9, <1>13 DEF Archives
<1> QED  BY <1>1, <1>7, <1>8, <1>12, <1>14 DEF ReleaseHolds

\* An exception leads to the end, by way of the second repository if it is there.
LEMMA ReleaseRaises ==
    ASSUME ReleaseHolds, phase \in {"prepare", "launch", "score"}, NEW in, Raise(in),
           InNode => in = "node", trouble \subseteq trouble', kept \subseteq kept',
           kept' \subseteq WholeOnes,
           UNCHANGED <<trial, launches, results, report, exit_code>>
    PROVE  ReleaseHolds'
<1>1. passed' = FALSE /\ phase' \in {"archive", "final"} /\ (in = "node" => phase' = "archive")
  BY DEF Raise
<1>2. InNode' <=> phase' = "archive"
  BY <1>1 DEF InNode
<1>3. InNode' \/ "node" \in trouble' \/ Whole("node") \subseteq kept'
  BY <1>1, <1>2 DEF ReleaseHolds, Archives
<1> QED  BY <1>1, <1>3, ReleaseGoes


\* The run at hand counts once its comparisons are over.
LEMMA ReleaseJudges ==
    ASSUME ReleaseHolds, phase = "score", passed, Proven(Len(launches))
    PROVE  /\ \A n \in DOMAIN launches : Proven(n)
           /\ \A n \in DOMAIN launches \ {Len(launches)} :
                 launches[n].ws # "node" \/ ~InNode => n \in kept
           /\ "node" \notin trouble
BY DEF ReleaseHolds, SoFarSoGood, Judged

\* The plan goes on after a run of the first or third repository, or a hook's.
LEMMA ReleaseArchives ==
    ASSUME ReleaseHolds, phase = "score", phase' = Onward, UNCHANGED passed,
           Proven(Len(launches)), Archive(Step.ws),
           UNCHANGED <<trial, launches, results, report, exit_code>>
    PROVE  ReleaseHolds'
<1>1. /\ TrialsCore /\ passed \in BOOLEAN /\ Len(launches) \in DOMAIN launches
      /\ Len(launches) \in Nat /\ OnPlan /\ Archives /\ Len(launches) <= Len(Plan)
  BY CoreParts DEF ReleaseHolds, TrialsCore, OnPlan
<1>2. PICK ws : ws = Step.ws
  OBVIOUS
<1>3. Archive(ws) /\ launches[Len(launches)].ws = ws
  BY <1>1, <1>2 DEF OnPlan, Step
<1>4. /\ kept \subseteq kept' /\ kept' \subseteq WholeOnes
      /\ trouble \subseteq trouble' /\ (ws \in trouble' \/ Whole(ws) \subseteq kept')
      /\ Receipts(ws) = Whole(ws) => trouble' = trouble
      /\ trouble' = trouble /\ ws \notin trouble => Whole(ws) \subseteq kept'
      /\ Receipts(ws) = Whole(ws) => Whole(ws) \subseteq kept'
  BY <1>1, <1>3, ArchiveFacts DEF Archive
<1>5. InNode <=> ws = "node"
  BY <1>2 DEF InNode
<1>6. ASSUME passed
      PROVE  /\ "node" \notin trouble'
             /\ \A n \in DOMAIN launches : Proven(n) /\ (launches[n].ws # "node" \/ ~InNode' => n \in kept')
  <2>1. /\ \A n \in DOMAIN launches : Proven(n)
        /\ \A n \in DOMAIN launches \ {Len(launches)} :
              launches[n].ws # "node" \/ ~InNode => n \in kept
        /\ "node" \notin trouble
    BY <1>6, ReleaseJudges
  <2>2. Receipts(ws) = Whole(ws) /\ \A n \in DOMAIN launches : launches[n].ws = ws => n \in Whole(ws)
    BY <1>1, <2>1, AllWhole
  <2>3. \A n \in DOMAIN launches : launches[n].ws = ws => n \in kept'
    BY <1>4, <2>2
  <2>4. ASSUME NEW n \in DOMAIN launches, launches[n].ws # ws, launches[n].ws # "node" \/ ~InNode'
        PROVE  n \in kept'
    <3>1. n # Len(launches)
      BY <1>3, <2>4
    <3>2. launches[n].ws # "node" \/ ~InNode
      BY <1>5, <2>4
    <3> QED  BY <1>4, <2>1, <2>4, <3>1, <3>2
  <2> QED  BY <1>4, <2>1, <2>2, <2>3, <2>4
<1>7. "node" \in trouble' \/ Whole("node") \subseteq kept'
  <2>1. CASE ws = "node"
    BY <1>4, <2>1
  <2>2. CASE ws # "node"
    <3>1. "node" \in trouble \/ Whole("node") \subseteq kept
      BY <1>1, <1>5, <2>2 DEF Archives
    <3> QED  BY <1>4, <3>1
  <2> QED  BY <2>1, <2>2
<1>8. /\ phase' \in {"launch", "final"} /\ (phase' = "final" => Len(launches) = Len(Plan))
      /\ phase' = "launch" => Len(launches) < Len(Plan)
  BY <1>1, PlanTyped DEF Onward
<1> QED  BY <1>1, <1>4, <1>6, <1>7, <1>8, ReleaseGoes

\* In the second repository nothing is archived until the plan leaves it.
LEMMA ReleaseInNode ==
    ASSUME ReleaseHolds, phase = "score", Step.ws = "node", UNCHANGED <<passed, kept, trouble>>,
           Proven(Len(launches)), phase' = (IF LeavesNode THEN "archive" ELSE Onward),
           UNCHANGED <<trial, launches, results, report, exit_code>>
    PROVE  ReleaseHolds'
<1>1. /\ TrialsCore /\ passed \in BOOLEAN /\ Len(launches) \in Nat /\ Len(launches) <= Len(Plan)
      /\ kept \subseteq WholeOnes
  BY CoreParts DEF ReleaseHolds, TrialsCore, OnPlan
<1>2. InNode
  BY DEF InNode
<1>3. /\ phase' \in {"archive", "launch"} /\ InNode'
      /\ phase' = "launch" => Len(launches) < Len(Plan)
  <2>1. CASE LeavesNode
    BY <2>1 DEF InNode
  <2>2. CASE ~LeavesNode
    <3>1. Len(launches) # Len(Plan) /\ Plan[Len(launches) + 1].ws = "node"
      BY <2>2 DEF LeavesNode
    <3>2. phase' = "launch"
      BY <2>2, <3>1 DEF Onward
    <3> QED  BY <1>1, <3>1, <3>2, PlanTyped DEF InNode
  <2> QED  BY <2>1, <2>2
<1>4. passed => /\ "node" \notin trouble
                /\ \A n \in DOMAIN launches : Proven(n) /\ (launches[n].ws # "node" => n \in kept)
  <2> SUFFICES ASSUME passed
               PROVE  /\ "node" \notin trouble
                      /\ \A n \in DOMAIN launches :
                            Proven(n) /\ (launches[n].ws # "node" => n \in kept)
    OBVIOUS
  <2>1. launches[Len(launches)].ws = "node"
    BY CoreParts DEF ReleaseHolds, OnPlan, Step
  <2> QED  BY <2>1, ReleaseJudges
<1> QED  BY <1>1, <1>3, <1>4, ReleaseGoes

\* The command line's verdict on a run.
LEMMA ReleaseCli == ASSUME ReleaseHolds, VerifyCli PROVE ReleaseHolds'
<1>1. /\ TrialsCore /\ phase = "score" /\ Len(launches) \in DOMAIN launches /\ kept \subseteq WholeOnes
      /\ UNCHANGED <<trial, launches, results, report, exit_code>> /\ Last \in AllOutcomes
  BY CoreParts DEF ReleaseHolds, TrialsCore, VerifyCli
<1>2. InNode <=> Step.ws = "node"
  BY <1>1 DEF InNode
<1>3. CASE ~Agreed
  BY <1>1, <1>2, <1>3, ReleaseRaises DEF VerifyCli
<1>4. CASE Agreed /\ ~Last.rest
  <2>1. CASE Step.ws = "node"
    BY <1>1, <1>2, <1>4, <2>1, ReleaseRaises DEF VerifyCli
  <2>2. CASE Step.ws # "node"
    <3>1. Archive(Step.ws) /\ Raise(Step.ws)
      BY <1>4, <2>2 DEF VerifyCli
    <3>2. kept \subseteq kept' /\ kept' \subseteq WholeOnes /\ trouble \subseteq trouble'
      BY <1>1, <3>1, ArchiveFacts
    <3> QED  BY <1>1, <1>2, <3>1, <3>2, ReleaseRaises
  <2> QED  BY <2>1, <2>2
<1>5. CASE Agreed /\ Last.rest
  <2>1. Proven(Len(launches))
    BY <1>1, <1>5, ProvenMeans DEF Agreed, Last
  <2>2. phase' = (IF LeavesNode THEN "archive" ELSE Onward) /\ UNCHANGED passed
    BY <1>5 DEF VerifyCli
  <2>3. CASE Step.ws = "node"
    <3>1. UNCHANGED <<kept, trouble>>
      BY <1>5, <2>3 DEF VerifyCli
    <3> QED  BY <1>1, <2>1, <2>2, <2>3, <3>1, ReleaseInNode
  <2>4. CASE Step.ws # "node"
    <3>1. Archive(Step.ws)
      BY <1>5, <2>4 DEF VerifyCli
    <3>2. phase' = Onward
      BY <2>2, <2>4 DEF LeavesNode
    <3> QED  BY <1>1, <2>1, <2>2, <3>1, <3>2, ReleaseArchives
  <2> QED  BY <2>3, <2>4
<1> QED  BY <1>3, <1>4, <1>5

\* A commit's.
LEMMA ReleaseHook == ASSUME ReleaseHolds, VerifyHook PROVE ReleaseHolds'
<1>1. /\ TrialsCore /\ phase = "score" /\ Len(launches) \in DOMAIN launches /\ kept \subseteq WholeOnes
      /\ UNCHANGED <<trial, launches, results, report, exit_code>> /\ Last \in AllOutcomes
  BY CoreParts DEF ReleaseHolds, TrialsCore, VerifyHook
<1>2. InNode <=> Step.ws = "node"
  BY <1>1 DEF InNode
<1>3. CASE Last.code # "expected"
  BY <1>1, <1>2, <1>3, ReleaseRaises DEF VerifyHook
<1>4. CASE Last.code = "expected" /\ (~OneNew \/ ~Last.rest)
  <2>1. Archive(Step.ws) /\ Raise(Step.ws)
    BY <1>4 DEF VerifyHook
  <2>2. kept \subseteq kept' /\ kept' \subseteq WholeOnes /\ trouble \subseteq trouble'
    BY <1>1, <2>1, ArchiveFacts
  <2> QED  BY <1>1, <1>2, <2>1, <2>2, ReleaseRaises
<1>5. CASE Last.code = "expected" /\ OneNew /\ Last.rest
  <2>1. Proven(Len(launches))
    BY <1>1, <1>5, ProvenMeans DEF VerifyHook, OneNew, Last, Step
  <2>2. phase' = Onward /\ UNCHANGED passed /\ Archive(Step.ws)
    BY <1>5 DEF VerifyHook
  <2> QED  BY <1>1, <2>1, <2>2, ReleaseArchives
<1> QED  BY <1>3, <1>4, <1>5

\* The second repository is left.
LEMMA ReleaseLeaves == ASSUME ReleaseHolds, ArchiveNode PROVE ReleaseHolds'
<1>1. /\ TrialsCore /\ phase = "archive" /\ passed \in BOOLEAN /\ Archive("node")
      /\ UNCHANGED <<trial, launches, results, report, exit_code>>
      /\ Len(launches) \in Nat /\ Len(launches) <= Len(Plan)
  BY CoreParts DEF ReleaseHolds, TrialsCore, ArchiveNode, OnPlan
<1>2. /\ kept \subseteq kept' /\ kept' \subseteq WholeOnes
      /\ trouble \subseteq trouble' /\ ("node" \in trouble' \/ Whole("node") \subseteq kept')
      /\ trouble' = trouble /\ "node" \notin trouble => Whole("node") \subseteq kept'
  BY <1>1, ArchiveFacts
<1>3. passed' \in BOOLEAN /\ (passed' => passed /\ trouble' = trouble)
  BY <1>1 DEF ArchiveNode
<1>4. phase' = IF passed' THEN Onward ELSE "final"
  BY DEF ArchiveNode
<1>5. ASSUME passed'
      PROVE  /\ "node" \notin trouble'
             /\ \A n \in DOMAIN launches : Proven(n) /\ n \in kept'
             /\ phase' = "final" => Len(launches) = Len(Plan)
  <2>1. "node" \notin trouble /\ \A n \in DOMAIN launches :
            Proven(n) /\ (launches[n].ws # "node" => n \in kept)
    BY <1>1, <1>3, <1>5 DEF ReleaseHolds, SoFarSoGood, Judged
  <2>2. \A n \in DOMAIN launches : launches[n].ws = "node" => n \in Whole("node")
    BY <1>1, <2>1, AllWhole
  <2>3. Whole("node") \subseteq kept'
    BY <1>2, <1>3, <1>5, <2>1
  <2>4. phase' = "final" => Len(launches) = Len(Plan)
    BY <1>4, <1>5 DEF Onward
  <2> QED  BY <1>2, <1>3, <1>5, <2>1, <2>2, <2>3, <2>4
<1>6. phase' \in {"final", "launch"} /\ (phase' = "launch" => Len(launches) < Len(Plan))
  BY <1>1, <1>4, PlanTyped DEF Onward
<1> QED  BY <1>1, <1>2, <1>3, <1>5, <1>6, ReleaseGoes

\* Every step of the release check.
LEMMA ReleaseStep ==
    ASSUME ReleaseHolds, ReleaseSteps PROVE ReleaseHolds' /\ trial' = trial
<1>1. /\ TrialsCore /\ kept \subseteq WholeOnes /\ trial = "release" /\ passed \in BOOLEAN
      /\ OnPlan /\ Archives /\ (passed => SoFarSoGood)
  BY DEF ReleaseHolds, TrialsCore, ReleaseSteps
<1>2. trial' = trial
  BY DEF ReleaseSteps, ValidateWheel, Prepare, ReleaseLaunch, VerifyCli, VerifyHook, ArchiveNode,
         ArchiveMain, Save
<1>3. CASE ValidateWheel
  <2>1. /\ phase = "start" /\ UNCHANGED <<trial, launches, kept, results, trouble, passed>>
        /\ launches = <<>> /\ DOMAIN launches = {}
    BY <1>1, <1>3 DEF ValidateWheel, OnPlan
  <2>2. CASE phase' = "prepare" /\ UNCHANGED <<report, exit_code>>
    <3>1. Whole("node") = {} /\ (passed' => "node" \notin trouble)
      BY <1>1, <2>1 DEF Whole, Receipts, SoFarSoGood
    <3> QED  BY <1>1, <1>2, <2>1, <2>2, <3>1, ReleaseGoes
  <2>3. CASE Finish("failed", 1)
    BY <1>1, <1>2, <2>1, <2>3, ReleaseFinishes
  <2> QED  BY <1>3, <2>2, <2>3 DEF ValidateWheel
<1>4. CASE Prepare
  <2>1. /\ phase = "prepare" /\ UNCHANGED <<trial, launches, kept, results, trouble, report, exit_code>>
        /\ launches = <<>> /\ DOMAIN launches = {} /\ Len(launches) < Len(Plan) /\ ~InNode
    BY <1>1, <1>4, PlanTyped DEF Prepare, OnPlan, InNode
  <2>2. CASE phase' = "launch" /\ UNCHANGED passed
    <3>1. Whole("node") = {} /\ (passed' => "node" \notin trouble)
      BY <1>1, <2>1, <2>2 DEF Whole, Receipts, SoFarSoGood
    <3> QED  BY <1>1, <1>2, <2>1, <2>2, <3>1, ReleaseGoes
  <2>3. CASE Raise("main")
    BY <1>1, <1>2, <2>1, <2>3, ReleaseRaises
  <2> QED  BY <1>4, <2>2, <2>3 DEF Prepare
<1>5. CASE ReleaseLaunch
  <2>1. phase = "launch" /\ UNCHANGED <<trial, kept, results, trouble, report, exit_code>>
    BY <1>5 DEF ReleaseLaunch
  <2>2. CASE Launch(Plan[Len(launches) + 1].ws, Outcomes) /\ phase' = "score" /\ UNCHANGED passed
    BY <1>1, <1>2, <2>1, <2>2, ReleaseLaunches
  <2>3. CASE Raise(Plan[Len(launches) + 1].ws) /\ UNCHANGED launches
    <3>1. InNode => Plan[Len(launches) + 1].ws = "node"
      BY <2>1 DEF InNode
    <3> QED  BY <1>1, <1>2, <2>1, <2>3, <3>1, ReleaseRaises
  <2> QED  BY <1>5, <2>2, <2>3 DEF ReleaseLaunch
<1>6. CASE VerifyCli
  BY <1>2, <1>6, ReleaseCli
<1>7. CASE VerifyHook
  BY <1>2, <1>7, ReleaseHook
<1>8. CASE ArchiveNode
  BY <1>2, <1>8, ReleaseLeaves
<1>9. CASE ArchiveMain
  <2>1. /\ phase = "final" /\ phase' = "save" /\ Archive("main")
        /\ UNCHANGED <<trial, launches, results, passed, report, exit_code>>
    BY <1>9 DEF ArchiveMain
  <2>2. /\ kept \subseteq kept' /\ kept' \subseteq WholeOnes
        /\ trouble \subseteq trouble' /\ trouble' \subseteq trouble \union {"main"}
        /\ "main" \in trouble' \/ Whole("main") \subseteq kept'
    BY <1>1, <2>1, ArchiveFacts
  <2>3. ~InNode /\ Judged = DOMAIN launches
    BY <2>1 DEF InNode, Judged
  <2>4. "node" \in trouble' \/ Whole("node") \subseteq kept'
    BY <1>1, <2>2, <2>3 DEF Archives
  <2>5. passed' => /\ "node" \notin trouble' /\ Len(launches) = Len(Plan)
                   /\ \A n \in DOMAIN launches : Proven(n) /\ n \in kept'
    BY <1>1, <2>1, <2>2, <2>3 DEF SoFarSoGood
  <2> QED  BY <1>1, <1>2, <2>1, <2>2, <2>4, <2>5, ReleaseGoes
<1>10. CASE Save
  <2>1. /\ phase = "save" /\ UNCHANGED <<trial, launches, kept, results, trouble, passed>>
        /\ \/ Finish("none", 1) \/ Finish("failed", 1)
           \/ Finish("passed", 0) /\ passed /\ trouble = {}
    BY <1>10 DEF Save
  <2> QED  BY <1>2, <2>1, ReleaseFinishes
<1> QED  BY <1>3, <1>4, <1>5, <1>6, <1>7, <1>8, <1>9, <1>10 DEF ReleaseSteps


-----------------------------------------------------------------------------
(* pilot_policy_pack.                                                      *)

PilotHolds ==
    /\ TrialsCore /\ PilotTypes /\ Counted /\ Templates
    /\ exit_code = 0 => preserved /\ \A n \in DOMAIN results : results[n] = "PASS"

\* A step before or after the cases, or the pilot's end.
LEMMA PilotGoes ==
    ASSUME PilotHolds, PilotTypes', UNCHANGED <<trial, launches, results, kept>>, phase # "ended",
           phase' \in {"prepare", "copy", "launch", "rehash", "save", "ended"},
           phase' \in {"prepare", "copy"} => phase \in {"start", "prepare", "copy"},
           phase' = "launch" => phase = "copy" /\ Reviewed',
           passed' \in BOOLEAN,
           passed' /\ phase' \in {"rehash", "save"} => passed /\ phase = "rehash" /\ template' = template,
           \A f \in Archived : template'[f] \in {"absent", "reviewed"},
           phase' # "ended" => UNCHANGED <<report, exit_code>>,
           phase' = "ended" => report' \in {"none", "passed", "failed"} /\ exit_code' \in 0..2,
           phase' = "ended" /\ exit_code' = 0 =>
               /\ phase = "save" /\ passed /\ preserved' /\ template' = template
               /\ \A n \in DOMAIN results : results[n] = "PASS"
    PROVE  PilotHolds'
<1>1. TrialsCore /\ exit_code = 3 /\ kept \subseteq WholeOnes /\ results \in Seq(Marks)
  BY DEF PilotHolds, TrialsCore
<1>2. TrialsCore'
  BY <1>1, CoreMove DEF TrialsCore, Phases
<1>3. phase' = "launch" => launches = <<>> /\ results = <<>> /\ 0 < Cases
  BY PilotAssumption DEF PilotHolds, Counted, PilotAssumption
<1>4. Counted'
  BY <1>1, <1>3 DEF PilotHolds, Counted
<1>5. Templates'
  BY <1>1 DEF PilotHolds, Templates, Reviewed
<1> QED  BY <1>1, <1>2, <1>4, <1>5 DEF PilotHolds

\* The archive is changed by somebody else.
LEMMA PilotTampered ==
    ASSUME PilotHolds, NEW f \in Archived, Tamper(f) PROVE PilotHolds'
<1>1. /\ UNCHANGED <<trial, phase, launches, kept, results, trouble, passed, report, exit_code>>
      /\ UNCHANGED <<before, checked, template, preserved>>
  BY DEF Tamper, trialVars
<1>2. TrialsCore'
  <2>1. Launched' = Launched /\ WholeOnes' = WholeOnes
    BY <1>1 DEF Launched, Workspaces, WholeOnes
  <2> QED  BY <1>1, <2>1 DEF PilotHolds, TrialsCore
<1>3. PilotTypes'
  <2>1. PICK s \in States : snapshot' = [snapshot EXCEPT ![f] = s]
    BY DEF Tamper
  <2>2. tampers' \in 0..MaxTampers
    BY PilotAssumption DEF Tamper, PilotHolds, PilotTypes, PilotAssumption
  <2>3. snapshot' \in [Archived -> States]
    BY <2>1 DEF PilotHolds, PilotTypes
  <2> QED  BY <1>1, <2>2, <2>3 DEF PilotHolds, PilotTypes
<1>4. Counted' /\ Templates'
  BY <1>1 DEF PilotHolds, Counted, Templates, Reviewed
<1> QED  BY <1>1, <1>2, <1>3, <1>4 DEF PilotHolds

\* The gate runs in a case.
LEMMA PilotLaunches ==
    ASSUME PilotHolds, trial = "pilot", phase = "launch", phase' = "score",
           Launch(Current, Outcomes),
           UNCHANGED <<trial, results, kept, passed, report, exit_code, pilotVars>>
    PROVE  PilotHolds'
<1>1. /\ TrialsCore /\ exit_code = 3 /\ Len(launches) = Len(results) /\ Len(results) < Cases
      /\ Len(results) \in Nat /\ DOMAIN results = 1..Len(results) /\ Cases \in Nat
      /\ DOMAIN launches = 1..Len(launches)
  BY CoreParts, PilotAssumption DEF PilotHolds, TrialsCore, Counted, PilotAssumption
<1>2. PICK c \in Nat : c = Current
  BY <1>1, CoreParts
<1>3. Outcomes \in SUBSET AllOutcomes /\ c \in Workspaces
  BY <1>2 DEF Outcomes, Workspaces
<1>4. PICK e : LaunchAdds(c, e)
  BY <1>1, <1>2, <1>3, LaunchFacts
<1>5. TrialsCore'
  BY <1>1, <1>4, CoreLaunch DEF Phases
<1>6. UNCHANGED <<snapshot, tampers, before, checked, template, preserved>>
  BY DEF pilotVars
<1>7. PilotTypes'
  BY <1>6 DEF PilotHolds, PilotTypes
<1>8. Len(launches') = Len(launches) + 1 /\ \A n \in DOMAIN results : launches'[n] = launches[n]
  BY <1>1, <1>4 DEF LaunchAdds
<1>9. /\ \A n \in DOMAIN results : results[n] = "PASS" => Good(launches'[n].outcome)
      /\ Len(launches') = Len(results) + 1 /\ Len(launches') <= Cases
      /\ Len(results) <= Len(launches')
  BY <1>1, <1>8 DEF PilotHolds, Counted
<1>10. Counted'
  BY <1>1, <1>9 DEF Counted
<1>11. Templates'
  BY <1>1, <1>6 DEF PilotHolds, Templates, Reviewed
<1> QED  BY <1>1, <1>5, <1>7, <1>10, <1>11 DEF PilotHolds

\* A case is scored: it passes only if nothing was wrong with its run.
LEMMA PilotScores ==
    ASSUME PilotHolds, NEW mark \in {"PASS", "FAIL"}, phase = "score", Settle(mark),
           mark = "PASS" => Good(Last), Last.stored = "whole",
           passed' \in BOOLEAN, passed' => passed,
           phase' = (IF ~passed' \/ Current = Cases THEN "rehash" ELSE "launch"),
           kept' = kept \union {Len(launches)},
           UNCHANGED <<trial, launches, report, exit_code, pilotVars>>
    PROVE  PilotHolds'
<1>1. /\ TrialsCore /\ exit_code = 3 /\ Len(launches) = Len(results) + 1 /\ Len(launches) <= Cases
      /\ Len(results) \in Nat /\ Cases \in Nat /\ Len(launches) \in DOMAIN launches
      /\ Current = Len(results) + 1
  BY CoreParts, PilotAssumption DEF PilotHolds, TrialsCore, Counted, PilotAssumption
<1>2. SettleAdds(mark)
  BY <1>1, SettleFacts DEF Marks
<1>3. kept' \subseteq WholeOnes
  BY <1>1 DEF TrialsCore, WholeOnes, Last
<1>4. TrialsCore'
  BY <1>1, <1>2, <1>3, CoreMove DEF TrialsCore, SettleAdds, Phases
<1>5. UNCHANGED <<snapshot, tampers, before, checked, template, preserved>>
  BY DEF pilotVars
<1>6. PilotTypes'
  BY <1>5 DEF PilotHolds, PilotTypes
<1>7. /\ Len(results') = Len(launches) /\ (Current = Cases <=> Len(launches) = Cases)
      /\ (Len(launches) # Cases => Len(launches) < Cases)
  BY <1>1, <1>2 DEF SettleAdds
<1>8. \A n \in DOMAIN results' : results'[n] = "PASS" => Good(launches[n].outcome)
  BY <1>1, <1>2 DEF SettleAdds, PilotHolds, Counted, Last
<1>9. Counted'
  BY <1>1, <1>7, <1>8 DEF Counted
<1>10. Templates'
  BY <1>1, <1>5 DEF PilotHolds, Templates, Reviewed
<1> QED  BY <1>1, <1>4, <1>6, <1>9, <1>10 DEF PilotHolds

\* Every step of the pilot.
LEMMA PilotStep ==
    ASSUME PilotHolds, PilotSteps PROVE PilotHolds' /\ trial' = trial
<1>1. /\ TrialsCore /\ PilotTypes /\ Templates /\ trial = "pilot" /\ passed \in BOOLEAN
      /\ FALSE \in BOOLEAN
  BY DEF PilotHolds, TrialsCore, PilotSteps
<1>2. trial' = trial
  BY DEF PilotSteps, HashArchive, RehashArchive, PilotLaunch, ScoreCase, HashAtLast, SavePilot,
         Tamper, VerifyFile, CopyFile, trialVars
<1>3. UNCHANGED pilotVars => PilotTypes' /\ UNCHANGED <<template, preserved>>
  BY <1>1 DEF pilotVars, PilotTypes
<1>4. UNCHANGED template => \A f \in Archived : template'[f] \in {"absent", "reviewed"}
  BY <1>1 DEF Templates
<1>5. CASE HashArchive
  <2>1. PilotTypes' /\ template' = template
    BY <1>1, <1>5 DEF HashArchive, PilotTypes
  <2>2. CASE phase' = "prepare" /\ UNCHANGED <<report, exit_code>>
    BY <1>1, <1>2, <1>4, <1>5, <2>1, <2>2, PilotGoes DEF HashArchive
  <2>3. CASE Finish("none", 1)
    BY <1>1, <1>2, <1>4, <1>5, <2>1, <2>3, PilotGoes DEF HashArchive, Finish
  <2> QED  BY <1>5, <2>2, <2>3 DEF HashArchive
<1>6. ASSUME NEW f \in Archived, VerifyFile(f) PROVE PilotHolds'
  <2>1. PilotTypes' /\ template' = template
    BY <1>1, <1>6 DEF VerifyFile, PilotTypes
  <2>2. CASE Finish("none", 1)
    BY <1>1, <1>2, <1>4, <1>6, <2>1, <2>2, PilotGoes DEF VerifyFile, Finish
  <2>3. CASE UNCHANGED <<phase, report, exit_code>>
    BY <1>1, <1>2, <1>4, <1>6, <2>1, <2>3, PilotGoes DEF VerifyFile
  <2> QED  BY <1>6, <2>2, <2>3 DEF VerifyFile, Early
<1>7. CASE RehashArchive
  <2>1. /\ UNCHANGED <<trial, launches, kept, results, trouble, pilotVars>> /\ phase = "prepare"
        /\ \/ Finish("none", 1) /\ UNCHANGED passed
           \/ phase' = "copy" /\ UNCHANGED <<passed, report, exit_code>>
           \/ phase' = "rehash" /\ passed' = FALSE /\ UNCHANGED <<report, exit_code>>
    BY <1>7 DEF RehashArchive
  <2>2. CASE Finish("none", 1) /\ UNCHANGED passed
    BY <1>1, <1>2, <1>3, <1>4, <2>1, <2>2, PilotGoes DEF Finish
  <2>3. CASE phase' = "copy" /\ UNCHANGED <<passed, report, exit_code>>
    BY <1>1, <1>2, <1>3, <1>4, <2>1, <2>3, PilotGoes
  <2>4. CASE phase' = "rehash" /\ passed' = FALSE /\ UNCHANGED <<report, exit_code>>
    BY <1>1, <1>2, <1>3, <1>4, <2>1, <2>4, PilotGoes
  <2> QED  BY <2>1, <2>2, <2>3, <2>4
<1>8. ASSUME NEW f \in Archived, CopyFile(f) PROVE PilotHolds'
  <2>1. /\ phase = "copy"
        /\ UNCHANGED <<trial, launches, kept, results, trouble, report, exit_code,
                       snapshot, tampers, before, checked, preserved>>
    BY <1>8 DEF CopyFile
  <2>2. CASE Original(f)
    <3>1. /\ template' = [template EXCEPT ![f] = "reviewed"] /\ UNCHANGED passed
          /\ phase' = IF \A g \in Archived : template'[g] # "absent" THEN "launch" ELSE "copy"
      BY <1>8, <2>2 DEF CopyFile
    <3>2. template' \in [Archived -> States \union {"absent"}]
      BY <1>1, <3>1 DEF PilotTypes, States
    <3>3. PilotTypes'
      BY <1>1, <2>1, <3>2 DEF PilotTypes
    <3>4. \A g \in Archived : template'[g] \in {"absent", "reviewed"}
      BY <1>1, <3>1 DEF Templates, PilotTypes
    <3>5. phase' = "launch" => Reviewed'
      BY <3>1, <3>4 DEF Reviewed
    <3> QED  BY <1>1, <2>1, <3>1, <3>3, <3>4, <3>5, PilotGoes
  <2>3. CASE ~Original(f)
    <3>1. phase' = "rehash" /\ passed' = FALSE /\ UNCHANGED template
      BY <1>8, <2>3 DEF CopyFile
    <3>2. PilotTypes'
      BY <1>1, <2>1, <3>1 DEF PilotTypes
    <3> QED  BY <1>1, <1>4, <2>1, <3>1, <3>2, PilotGoes
  <2> QED  BY <2>2, <2>3
<1>9. CASE PilotLaunch
  <2>1. /\ phase = "launch"
        /\ UNCHANGED <<trial, kept, results, trouble, report, exit_code, pilotVars>>
    BY <1>9 DEF PilotLaunch
  <2>2. CASE Launch(Current, Outcomes) /\ phase' = "score" /\ UNCHANGED passed
    BY <1>1, <1>2, <2>1, <2>2, PilotLaunches
  <2>3. CASE phase' = "rehash" /\ passed' = FALSE /\ UNCHANGED launches
    BY <1>1, <1>2, <1>3, <1>4, <2>1, <2>3, PilotGoes
  <2> QED  BY <1>9, <2>2, <2>3 DEF PilotLaunch
<1>10. CASE ScoreCase
  <2>1. phase = "score" /\ UNCHANGED <<trial, launches, trouble, report, exit_code, pilotVars>>
        /\ Last \in AllOutcomes
    BY <1>1, <1>10, CoreParts DEF ScoreCase
  <2>2. CASE ~Last.printed \/ Last.stored # "whole" \/ ~Last.agrees \/ Last.code = "timeout"
    BY <1>1, <1>2, <1>3, <1>4, <1>10, <2>1, <2>2, PilotGoes DEF ScoreCase
  <2>3. CASE ~(~Last.printed \/ Last.stored # "whole" \/ ~Last.agrees \/ Last.code = "timeout")
    <3> DEFINE valid == Last.code = "expected" /\ Last.rest
               mark == IF valid THEN "PASS" ELSE "FAIL"
    <3>1. /\ Settle(mark) /\ kept' = kept \union {Len(launches)}
          /\ passed' = (passed /\ (valid \/ Current # 1))
          /\ phase' = IF ~passed' \/ Current = Cases THEN "rehash" ELSE "launch"
      BY <1>10, <2>3 DEF ScoreCase
    <3>2. mark \in {"PASS", "FAIL"} /\ (mark = "PASS" => Good(Last))
      BY <2>1, <2>3, GoodOutcome
    <3>3. passed' \in BOOLEAN /\ (passed' => passed)
      BY <1>1, <3>1
    <3> HIDE DEF mark
    <3> QED  BY <1>1, <1>2, <2>1, <2>3, <3>1, <3>2, <3>3, PilotScores
  <2> QED  BY <2>2, <2>3
<1>11. CASE HashAtLast
  <2>1. PilotTypes' /\ template' = template
    <3>1. preserved' \in BOOLEAN
      BY <1>11 DEF HashAtLast
    <3> QED  BY <1>1, <1>11, <3>1 DEF HashAtLast, PilotTypes
  <2> QED  BY <1>1, <1>2, <1>4, <1>11, <2>1, PilotGoes DEF HashAtLast
<1>12. CASE SavePilot
  <2>1. /\ phase = "save" /\ UNCHANGED <<trial, launches, kept, results, trouble, passed, pilotVars>>
        /\ \/ Finish("none", 1) \/ Finish("failed", 1)
           \/ /\ Finish("passed", 0) /\ passed /\ preserved
              /\ \A n \in DOMAIN results : results[n] = "PASS"
    BY <1>12 DEF SavePilot
  <2> QED  BY <1>1, <1>2, <1>3, <1>4, <2>1, PilotGoes DEF Finish
<1> QED  BY <1>2, <1>5, <1>6, <1>7, <1>8, <1>9, <1>10, <1>11, <1>12, PilotTampered DEF PilotSteps

-----------------------------------------------------------------------------
(* The programs together.                                                  *)

\* Whichever program tries the gate out, its part of the invariant holds; the
\* parts of the others say nothing.  None may run at all.
NoneInv == trial = "none" => exit_code = 3
TrialsInv == TrialsTyped /\ EvalInv /\ FixtureInv /\ ReleaseInv /\ PilotInv /\ NoneInv

\* The trials' invariant holds at first.
LEMMA TrialsInvInit == Init => TrialsInv
<1> SUFFICES ASSUME Init PROVE TrialsInv
  OBVIOUS
<1>1. TrialsTyped /\ launches = <<>> /\ results = <<>>
  BY TrialsInitTyped
<1>2. /\ phase = "start" /\ kept = {} /\ trouble = {} /\ passed = TRUE /\ report = "none"
      /\ exit_code = 3 /\ template = [f \in Archived |-> "absent"]
  BY DEF Init, TrialsInit, PilotInit
<1>3. DOMAIN launches = {} /\ DOMAIN results = {} /\ Len(launches) = 0 /\ Len(results) = 0
  BY <1>1
<1>4. \A count : InTurn(count)
  <2>1. Of(Current) = {}
    BY <1>3 DEF Of
  <2> QED  BY <1>2, <1>3, <2>1 DEF InTurn
<1>5. EvalInv /\ FixtureInv
  BY <1>2, <1>3, <1>4 DEF EvalInv, FixtureInv, EvalStored, FixtureCopies, Unfailing
<1>6. ReleaseInv
  <2>1. Whole("node") = {}
    BY <1>3 DEF Whole, Receipts
  <2>2. OnPlan
    BY <1>1, <1>2, <1>3, PlanTyped DEF OnPlan
  <2>3. SoFarSoGood
    BY <1>2, <1>3 DEF SoFarSoGood, Judged
  <2>4. Archives
    BY <1>2, <2>1 DEF Archives
  <2> QED  BY <1>2, <2>2, <2>3, <2>4 DEF ReleaseInv
<1>7. PilotInv
  BY <1>1, <1>2, <1>3 DEF PilotInv, Counted, Templates
<1> QED  BY <1>1, <1>2, <1>5, <1>6, <1>7 DEF TrialsInv, NoneInv

\* The one program that runs preserves its part and everybody's types.
LEMMA TrialsInvStep == ASSUME TrialsInv, TrialsNext PROVE TrialsInv'
<1>1. TrialsCore /\ EvalTypes /\ PilotTypes
  BY DEF TrialsInv, TrialsTyped
<1>2. UNCHANGED pilotVars => PilotTypes'
  BY <1>1 DEF pilotVars, PilotTypes
<1>3. UNCHANGED evalVars => EvalTypes'
  BY <1>1 DEF evalVars, EvalTypes
<1>4. CASE EvalSteps /\ UNCHANGED pilotVars
  <2>1. trial = "eval" /\ EvalHolds
    BY <1>1, <1>4 DEF EvalSteps, TrialsInv, EvalInv, EvalHolds
  <2>2. EvalHolds' /\ trial' = trial
    BY <1>4, <2>1, EvalStep
  <2> QED  BY <1>2, <1>4, <2>1, <2>2
           DEF EvalHolds, TrialsInv, TrialsTyped, EvalInv, FixtureInv, ReleaseInv, PilotInv, NoneInv
<1>5. CASE FixtureSteps /\ UNCHANGED <<evalVars, pilotVars>>
  <2>1. trial = "fixtures" /\ FixtureHolds
    BY <1>1, <1>5 DEF FixtureSteps, TrialsInv, FixtureInv, FixtureHolds
  <2>2. FixtureHolds' /\ trial' = trial
    BY <1>5, <2>1, FixtureStep
  <2> QED  BY <1>2, <1>3, <1>5, <2>1, <2>2
           DEF FixtureHolds, TrialsInv, TrialsTyped, EvalInv, FixtureInv, ReleaseInv, PilotInv, NoneInv
<1>6. CASE ReleaseSteps /\ UNCHANGED <<evalVars, pilotVars>>
  <2>1. trial = "release" /\ ReleaseHolds
    BY <1>1, <1>6 DEF ReleaseSteps, TrialsInv, ReleaseInv, ReleaseHolds
  <2>2. ReleaseHolds' /\ trial' = trial
    BY <1>6, <2>1, ReleaseStep
  <2> QED  BY <1>2, <1>3, <1>6, <2>1, <2>2
           DEF ReleaseHolds, TrialsInv, TrialsTyped, EvalInv, FixtureInv, ReleaseInv, PilotInv, NoneInv
<1>7. CASE PilotSteps /\ UNCHANGED evalVars
  <2>1. trial = "pilot" /\ PilotHolds
    BY <1>1, <1>7 DEF PilotSteps, TrialsInv, PilotInv, PilotHolds
  <2>2. PilotHolds' /\ trial' = trial
    BY <1>7, <2>1, PilotStep
  <2> QED  BY <1>3, <1>7, <2>1, <2>2
           DEF PilotHolds, TrialsInv, TrialsTyped, EvalInv, FixtureInv, ReleaseInv, PilotInv, NoneInv
<1> QED  BY <1>4, <1>5, <1>6, <1>7 DEF TrialsNext

\* Steps of the tools, and none at all.
LEMMA TrialsInvRest ==
    ASSUME TrialsInv, UNCHANGED <<trialVars, evalVars, pilotVars>> PROVE TrialsInv'
<1>1. /\ UNCHANGED <<trial, phase, launches, kept, results, trouble, passed, report, exit_code>>
      /\ UNCHANGED <<planted, outside>>
      /\ UNCHANGED <<snapshot, tampers, before, checked, template, preserved>>
  BY DEF trialVars, evalVars, pilotVars
<1>2. TrialsTyped'
  BY <1>1 DEF TrialsInv, TrialsTyped, TrialsCore, EvalTypes, PilotTypes, Launched, Workspaces,
              WholeOnes
<1>3. ASSUME NEW count, InTurn(count) PROVE InTurn(count)'
  <2>1. \A i : Of(i)' = Of(i)
    BY <1>1 DEF Of
  <2>2. Current' = Current /\ Of(Current)' = Of(Current)
    BY <1>1 DEF Of, Current
  <2>3. \A i \in DOMAIN results' : Sound(i, count)'
    BY <1>1, <1>3, <2>1 DEF InTurn, Sound
  <2> QED  BY <1>1, <1>3, <2>2, <2>3 DEF InTurn
<1>4. EvalInv' /\ FixtureInv'
  BY <1>1, <1>3 DEF TrialsInv, EvalInv, FixtureInv, EvalStored, Of, Current, Unfailing,
                    FixtureCopies, Copied, Named
<1>5. ReleaseInv'
  BY <1>1 DEF TrialsInv, ReleaseInv, OnPlan, SoFarSoGood, Judged, Proven, InNode, Step, Archives,
              Whole, Receipts
<1>6. PilotInv'
  BY <1>1 DEF TrialsInv, PilotInv, Counted, Templates, Reviewed
<1> QED  BY <1>1, <1>2, <1>4, <1>5, <1>6 DEF TrialsInv, NoneInv

\* It holds of every behaviour.
LEMMA TrialsAlways == Spec => []TrialsInv
<1>1. ASSUME TrialsInv, [Next]_vars PROVE TrialsInv'
  <2>1. TrialsNext \/ UNCHANGED <<trialVars, evalVars, pilotVars>>
    BY <1>1 DEF Next, vars
  <2> QED  BY <1>1, <2>1, TrialsInvStep, TrialsInvRest
<1>2. TrialsInv /\ [Next]_vars => TrialsInv'
  BY <1>1
<1> QED  BY <1>2, TrialsInvInit, PTL DEF Spec

\* Every variable keeps its type: in particular a program has an exit code as
\* soon as it has ended and no sooner, and only receipts that parse are saved.
THEOREM ProgramsTypeOK == Spec => []TypeOK
<1>1. ToolsInv /\ TrialsInv => TypeOK
  <2> SUFFICES ASSUME ToolsInv, TrialsInv PROVE TypeOK
    OBVIOUS
  <2>1. CheckoutTypes /\ KitTypes /\ ServerTypes /\ LedgerTypes
    BY DEF ToolsInv, ToolsTyped, SharedTyped, KitTyped, ServerTyped, LedgerTyped
  <2>2. TrialsCore /\ EvalTypes /\ PilotTypes
    BY DEF TrialsInv, TrialsTyped
  <2>3. (exit_code = 3) = (phase # "ended")
    <3>1. CASE exit_code = 3
      BY <2>2, <3>1 DEF TrialsCore
    <3>2. CASE exit_code # 3
      BY <2>2, <3>2 DEF TrialsCore
    <3> QED  BY <3>1, <3>2
  <2>4. kept \subseteq {n \in DOMAIN launches : launches[n].outcome.stored = "whole"}
    BY <2>2 DEF TrialsCore, WholeOnes
  <2>5. TrialTypes
    BY <2>2, <2>3, <2>4, CoreParts DEF TrialsCore, TrialTypes, Marks
  <2> QED  BY <2>1, <2>2, <2>5 DEF TypeOK, EvalTypes
<1> QED  BY <1>1, ToolsAlways, TrialsAlways, PTL

\* When the cases are worked off, every launch belongs to one that is settled.
LEMMA AllSettled ==
    ASSUME TrialsCore, NEW count, InTurn(count), exit_code = 0,
           \A i \in DOMAIN results : results[i] \in {"PASS", "SKIP"}
    PROVE  /\ Len(results) = Items
           /\ \A i \in DOMAIN results : results[i] = "PASS" => Cardinality(Of(i)) = count
           /\ \A n \in DOMAIN launches : Good(launches[n].outcome)
<1>1. PICK c \in Nat : c = Current /\ c = Len(results) + 1
  BY CoreParts
<1>2. Of(c) = {} /\ Len(results) = Items /\ \A i \in DOMAIN results : Sound(i, count)
  BY <1>1 DEF InTurn
<1>3. ASSUME NEW n \in DOMAIN launches PROVE Good(launches[n].outcome)
  <2>1. launches[n].ws \in 1..c /\ n \in Of(launches[n].ws)
    BY <1>1 DEF InTurn, Of
  <2>2. launches[n].ws # c
    BY <1>2, <2>1
  <2>3. launches[n].ws \in DOMAIN results
    BY <1>1, <2>1, <2>2, CoreParts
  <2>4. results[launches[n].ws] = "PASS"
    BY <1>2, <2>1, <2>3 DEF Sound
  <2> QED  BY <1>2, <2>1, <2>3, <2>4 DEF Sound
<1> QED  BY <1>2, <1>3 DEF Sound

\* A trial that ends with 0 was earned: every case was worked off and passed or
\* was skipped for a stated reason, every run of the gate in it left a receipt
\* and was as expected, and the pilot's were on reviewed bytes (harness-eval,
\* run_fixtures.py, release_check.py, pilot_policy_pack.py).
THEOREM SuccessIsEarned == Spec => []Earned
<1>1. TrialsInv => Earned
  <2> SUFFICES ASSUME TrialsInv, exit_code = 0 PROVE Earned
    BY DEF Earned
  <2>1. TrialsCore
    BY DEF TrialsInv, TrialsTyped
  <2>2. trial \in {"none", "eval", "fixtures", "release", "pilot"}
    BY <2>1 DEF TrialsCore
  <2>3. CASE trial = "eval"
    <3>1. InTurn(Turns) /\ \A i \in DOMAIN results : results[i] \in {"PASS", "SKIP"}
      BY <2>3 DEF TrialsInv, EvalInv, Unfailing
    <3> QED  BY <2>1, <2>3, <3>1, AllSettled DEF Earned
  <2>4. CASE trial = "fixtures"
    <3>1. InTurn(2) /\ \A i \in DOMAIN results : results[i] \in {"PASS", "SKIP"}
      BY <2>4 DEF TrialsInv, FixtureInv, Unfailing, Commands
    <3> QED  BY <2>1, <2>4, <3>1, AllSettled DEF Earned
  <2>5. CASE trial = "release"
    <3>1. results = <<>> /\ Len(launches) = Len(Plan)
          /\ \A n \in DOMAIN launches : Proven(n) /\ n \in kept
      BY <2>5 DEF TrialsInv, ReleaseInv, OnPlan
    <3>2. kept = DOMAIN launches
      BY <2>1, <3>1, CoreParts
    <3>3. DOMAIN results = {}
      BY <3>1
    <3> QED  BY <2>5, <3>1, <3>2, <3>3 DEF Earned, Proven
  <2>6. CASE trial = "pilot"
    <3>1. /\ Len(launches) = Cases /\ Len(results) = Cases /\ preserved
          /\ \A f \in Archived : template[f] = "reviewed"
          /\ \A n \in DOMAIN results : results[n] = "PASS"
          /\ \A n \in DOMAIN results : results[n] = "PASS" => Good(launches[n].outcome)
      BY <2>6 DEF TrialsInv, PilotInv, Counted, Templates, Reviewed
    <3>2. DOMAIN launches = 1..Cases /\ DOMAIN results = 1..Cases
      BY <2>1, <3>1, CoreParts
    <3>3. Cardinality(1..Cases) = Cases
      <4>1. Cases \in Nat \ {0}
        BY PilotAssumption DEF PilotAssumption
      <4>2. Cardinality(1..Cases) = IF 1 > Cases THEN 0 ELSE Cases - 1 + 1
        BY <4>1, FS_Interval
      <4> QED  BY <4>1, <4>2
    <3>4. AllGood(Cases)
      BY <3>1, <3>2, <3>3 DEF AllGood
    <3> QED  BY <2>6, <3>1, <3>4 DEF Earned
  <2>7. CASE trial = "none"
    BY <2>7 DEF TrialsInv, NoneInv
  <2> QED  BY <2>2, <2>3, <2>4, <2>5, <2>6, <2>7
<1> QED  BY <1>1, TrialsAlways, PTL

\* Evidence outlives its workspace: a receipt that a fixture's run named and left
\* readable has been copied before anything else happens, or the case failed
\* because copying that very receipt did; so has what the first two repositories
\* hold when the release check has ended, or it failed because one could not be
\* read (run_fixtures.py, release_check.py).
THEOREM EvidenceIsKept == Spec => []EvidenceKept
<1>1. TrialsInv => EvidenceKept
  <2> SUFFICES ASSUME TrialsInv PROVE EvidenceKept
    OBVIOUS
  <2>1. TrialsCore
    BY DEF TrialsInv, TrialsTyped
  <2>2. ASSUME trial = "fixtures", NEW n \in DOMAIN launches, Named(n),
               ~(phase = "score" /\ n = Len(launches))
        PROVE  Copied(n)
    BY <2>2 DEF TrialsInv, FixtureInv, FixtureCopies
  <2>3. ASSUME trial = "release", phase = "ended", NEW ws \in {"main", "node"}, NEW n \in Whole(ws)
        PROVE  n \in kept \/ (ws \in trouble /\ report # "passed")
    <3>1. ~InNode
      BY <2>3 DEF InNode
    <3> QED  BY <2>3, <3>1 DEF TrialsInv, ReleaseInv, Archives
  <2> QED  BY <2>2, <2>3 DEF EvidenceKept, Named, Copied
<1> QED  BY <1>1, TrialsAlways, PTL

=============================================================================
