------------------------------ MODULE RunLedger ------------------------------
(***************************************************************************)
(* `exitzero plugin ledger-publish` (plugin-ledger): the receipts are      *)
(* listed, read one by one, aggregated in memory into a record with        *)
(* rollback hints, written as JSON and then as Markdown, and, on request,  *)
(* posted to a pull request from memory.  Meanwhile runs store receipts,   *)
(* others delete some, and whoever likes rewrites the published files.     *)
(***************************************************************************)
EXTENDS Checkout

CONSTANT Foreign   (* a Markdown body somebody else wrote *)

ASSUME LedgerAssumption == Foreign # None

VARIABLES
  options,  (* --since, as the number of receipts it leaves out, and --pr   *)
  listing,  (* the receipts the directory listed                            *)
  counted, corrupt,  (* those read, and those that could not be             *)
  hints,    (* what is known of the commits behind the implicated paths     *)
  json, body,        (* the record's two files                              *)
  comment,  (* what was posted                                              *)
  publisher (* its step or its exit code                                    *)

ledgerVars == <<options, listing, counted, corrupt, hints, json, body, comment, publisher>>

Hints == {"none", "commits", "unavailable"}

LedgerInit ==
    /\ options \in [since: 0..1, pr: BOOLEAN]
    /\ listing = {} /\ counted = {} /\ corrupt = {} /\ hints = "none"
    /\ json = None /\ body = None /\ comment = None /\ publisher = "parse"

\* Arguments and --base are checked before anything is read.
ParseArgs ==
    /\ publisher = "parse"
    /\ publisher' \in {"list", "exit2"}
    /\ UNCHANGED <<checkoutVars, options, listing, counted, corrupt, hints, json, body, comment>>

ListReceipts ==
    /\ publisher = "list"
    /\ listing' = DOMAIN runs \ pruned
    /\ publisher' = "load"
    /\ UNCHANGED <<checkoutVars, options, counted, corrupt, hints, json, body, comment>>

\* Receipts started before --since are left out, once they have been read.
Recent(n) == n > options.since

\* Fault: a receipt that is gone counts.
LoadReceiptBlindly(n) ==
    /\ publisher = "load" /\ n \in listing \ (counted \union corrupt)
    /\ counted' = IF Recent(n) THEN counted \union {n} ELSE counted
    /\ corrupt' = IF n \in pruned THEN corrupt \union {n} ELSE corrupt
    /\ listing' = IF n \notin pruned /\ ~Recent(n) THEN listing \ {n} ELSE listing
    /\ UNCHANGED <<checkoutVars, options, hints, json, body, comment, publisher>>

\* One receipt: it counts, it is too old (and drops out of the listing), or it
\* is gone by now, which is reported as corrupt and never fatal.
LoadReceipt(n) ==
    /\ publisher = "load" /\ n \in listing \ (counted \union corrupt)
    /\ counted' = IF n \notin pruned /\ Recent(n) THEN counted \union {n} ELSE counted
    /\ corrupt' = IF n \in pruned THEN corrupt \union {n} ELSE corrupt
    /\ listing' = IF n \notin pruned /\ ~Recent(n) THEN listing \ {n} ELSE listing
    /\ UNCHANGED <<checkoutVars, options, hints, json, body, comment, publisher>>

\* Only runs that did not pass implicate the paths of their findings.
Implicated == {n \in counted : runs[n].code # 0}

\* What the aggregation makes of the receipts it keeps.
Record == [receipts |-> counted, corrupt |-> corrupt,
           by_status |-> [s \in 0..2 |-> {n \in counted : runs[n].code = s}],
           implicated |-> Implicated, hints |-> hints]

\* git log over the implicated paths; a git that fails costs the hint only.
SuspectCommits ==
    /\ publisher = "load" /\ listing = counted \union corrupt
    /\ hints' \in (IF Implicated = {} THEN {"none"} ELSE {"commits", "unavailable"})
    /\ publisher' = "json"
    /\ UNCHANGED <<checkoutVars, options, listing, counted, corrupt, json, body, comment>>

PersistJson ==
    /\ publisher = "json"
    /\ \/ json' = Record /\ publisher' = "markdown"
       \/ publisher' = "exit2" /\ UNCHANGED json
    /\ UNCHANGED <<checkoutVars, options, listing, counted, corrupt, hints, body, comment>>

PersistMarkdown ==
    /\ publisher = "markdown"
    /\ \/ body' = Record /\ publisher' = IF options.pr THEN "post" ELSE "exit0"
       \/ publisher' = "exit2" /\ UNCHANGED body
    /\ UNCHANGED <<checkoutVars, options, listing, counted, corrupt, hints, json, comment>>

\* Fault: gh is given the path of the Markdown file.
PublishFile ==
    /\ publisher = "post"
    /\ \/ comment' = body /\ publisher' = "exit0"
       \/ publisher' = "exit2" /\ UNCHANGED comment
    /\ UNCHANGED <<checkoutVars, options, listing, counted, corrupt, hints, json, body>>

\* gh reads the body from a pipe.  It may fail, or be stopped after it posted.
PublishToPr ==
    /\ publisher = "post"
    /\ \/ comment' = Record /\ publisher' \in {"exit0", "exit2"}
       \/ publisher' = "exit2" /\ UNCHANGED comment
    /\ UNCHANGED <<checkoutVars, options, listing, counted, corrupt, hints, json, body>>

PublisherKilled ==
    /\ publisher \notin {"exit0", "exit2", "killed"}
    /\ publisher' = "killed"
    /\ UNCHANGED <<checkoutVars, options, listing, counted, corrupt, hints, json, body, comment>>

PublisherSteps ==
    \/ ParseArgs \/ ListReceipts \/ (\E n \in listing : LoadReceipt(n)) \/ SuspectCommits
    \/ PersistJson \/ PersistMarkdown \/ PublishToPr \/ PublisherKilled

\* Somebody replaces the published Markdown.
Swap ==
    /\ Edit
    /\ body \notin {None, Foreign} /\ body' = Foreign
    /\ UNCHANGED <<sourceVars, runs, pruned, gate, sync,
                   options, listing, counted, corrupt, hints, json, comment, publisher>>

LedgerTypes ==
    /\ options \in [since: 0..1, pr: BOOLEAN]
    /\ listing \subseteq DOMAIN runs
    /\ counted \subseteq listing /\ corrupt \subseteq listing /\ counted \intersect corrupt = {}
    /\ hints \in Hints
    /\ publisher \in {"parse", "list", "load", "json", "markdown", "post",
                      "exit0", "exit2", "killed"}
=============================================================================
