------------------------- MODULE IngestionPipeline -------------------------
(***************************************************************************)
(* The durable attempts of one ingestion stream (one source, item and      *)
(* profile): IngestionPipelineService.run and its stages.                  *)
(*                                                                         *)
(* Each create or update of an attempt is committed by itself, so a run    *)
(* may stop between any two of them and another run takes over from the    *)
(* rows.  Rows have no version: an update writes the columns it names and  *)
(* returns the row with what the other columns hold by then, and that is   *)
(* the attempt the run goes on with.  Columns that only a response shows   *)
(* (last_successful_stage, the publisher's answer) are left out.           *)
(*                                                                         *)
(* Fetcher, extractor and publisher are ports: they may fail, and a        *)
(* publication may fail after the Core has taken it.  The repository has   *)
(* adapters for the first two and none for the publisher.  A document      *)
(* stands for its checksum, and for the proposals extracted from it, too.  *)
(***************************************************************************)
EXTENDS Naturals, Sequences, FiniteSets

CONSTANTS
  Docs,         \* the documents the source may serve
  NoDoc,        \* no content, no extraction, or the empty checksum
  NoProposals,  \* an extraction that found nothing: the stored empty list
  Barren,       \* the documents from which no proposal is extracted
  Runs          \* the runs of the stream that may be in progress

ASSUME IngestionAssumption ==
  NoDoc \notin Docs /\ NoProposals \notin Docs \cup {NoDoc} /\ Barren \subseteq Docs

VARIABLES
  source,     \* the document the source serves now
  attempts,   \* the rows of ingestion_pipeline_runs, in the order of created_at
  run,        \* the runs in progress
  delivered,  \* the publications the Core has taken: <<checksum, proposals of>>
  core,       \* the last of them, NoDoc before the first
  shared      \* history: the attempts two runs have worked on at once

vars == <<source, attempts, run, delivered, core, shared>>
outside == <<source, delivered, core>>

Stages == {"FETCH", "EXTRACT", "PUBLISH"}
Terminal == {"PUBLISHED", "SKIPPED_UNCHANGED"}
Status == Terminal \cup {"PENDING", "FETCHED", "EXTRACTED", "FAILED"}

\* What the extractor finds in a document, and what its column may hold.
ProposalsOf(d) == IF d \in Barren THEN NoProposals ELSE d
Extractions == Docs \cup {NoDoc, NoProposals}

\* The columns a run acts on, and with its status and failed_stage the row.
Payload == [checksum : Docs \cup {NoDoc}, content : Docs \cup {NoDoc}, extraction : Extractions]
Attempt == [checksum : Docs \cup {NoDoc}, content : Docs \cup {NoDoc}, extraction : Extractions,
            status : Status, failed : Stages \cup {"none"}]

Rows == 1 .. Len(attempts)

-----------------------------------------------------------------------------

Idle == [op |-> "none"]

\* What a run last read of its attempt, the document it has at hand, and the
\* stages whose exception handlers it is inside of, innermost first.
Holding == [op : {"refetch", "lookup", "resume", "unchanged", "attempt", "fetched", "fetch",
                  "save_fetch", "extract", "save_extract", "publish", "save_publish", "failed"},
            row : Nat, mine : Payload, doc : Docs \cup {NoDoc}, inside : Seq(Stages)]

TypeOK ==
  /\ source \in Docs
  /\ attempts \in Seq(Attempt)
  /\ run \in [Runs -> {Idle, [op |-> "create"]} \cup Holding]
  /\ delivered \subseteq Docs \X Extractions
  /\ core \in Docs \cup {NoDoc}
  /\ shared \subseteq Nat

Init ==
  /\ source \in Docs
  /\ attempts = <<>>
  /\ run = [p \in Runs |-> Idle]
  /\ delivered = {}
  /\ core = NoDoc
  /\ shared = {}

Is(p, op) == run[p].op = op
Goes(p, to) == run' = [run EXCEPT ![p] = to]

\* _update_pipeline: the attempt of run p becomes row, in a commit of its own.
Update(p, row) == attempts' = [attempts EXCEPT ![run[p].row] = row]
Mine(p) == attempts[run[p].row]

\* UNIQUE (pipeline_key, document_checksum).
Taken(checksum, i) == \E j \in Rows \ {i} : attempts[j].checksum = checksum

\* _new_pipeline.
New(checksum) ==
  [checksum |-> checksum, content |-> NoDoc, extraction |-> NoDoc,
   status |-> "PENDING", failed |-> "none"]

PayloadOf(row) ==
  [checksum |-> row.checksum, content |-> row.content, extraction |-> row.extraction]

\* _continue tests the truth of the column: an empty list is as good as none.
HasProposals(row) == row.extraction \notin {NoDoc, NoProposals}

\* A fault: stored bytes are not looked for.
FetchesAgain(row) == IF HasProposals(row) THEN "publish" ELSE "fetch"

\* _continue: the stage at which an attempt goes on.
NextStage(row) ==
  IF HasProposals(row) THEN "publish" ELSE IF row.content # NoDoc THEN "extract" ELSE "fetch"

StageOf(op) == IF op = "publish" THEN "PUBLISH" ELSE IF op = "extract" THEN "EXTRACT" ELSE "FETCH"

Continue(p, i, row, inside) ==
  Goes(p, [op |-> NextStage(row), row |-> i, mine |-> PayloadOf(row), doc |-> row.content,
           inside |-> <<StageOf(NextStage(row))>> \o inside])

-----------------------------------------------------------------------------
(* run                                                                     *)

\* find_latest_pipeline.
Start(p) ==
  /\ Is(p, "none")
  /\ LET n == Len(attempts)
     IN  IF n = 0 THEN Goes(p, [op |-> "create"])
         ELSE IF attempts[n].status \in Terminal
         THEN Goes(p, [op |-> "refetch", row |-> n, mine |-> PayloadOf(attempts[n]), doc |-> NoDoc,
                       inside |-> <<>>])
         ELSE Continue(p, n, attempts[n], <<>>)
  /\ UNCHANGED <<attempts, outside>>

\* A fault: the columns without a default are left out.
CreateBare(p) ==
  /\ Is(p, "create")
  /\ ~Taken(NoDoc, 0)
  /\ attempts' = Append(attempts, PayloadOf(New(NoDoc)))
  /\ Continue(p, Len(attempts) + 1, New(NoDoc), <<>>)
  /\ UNCHANGED outside

Create(p) ==
  /\ Is(p, "create")
  /\ ~Taken(NoDoc, 0)
  /\ attempts' = Append(attempts, New(NoDoc))
  /\ Continue(p, Len(attempts) + 1, New(NoDoc), <<>>)
  /\ UNCHANGED outside

\* _refresh_published: fetch again and compare the checksum.
Refetch(p) ==
  /\ Is(p, "refetch")
  /\ Goes(p, [run[p] EXCEPT !.doc = source,
                            !.op = IF source = run[p].mine.checksum THEN "unchanged" ELSE "lookup"])
  /\ UNCHANGED <<attempts, outside>>

\* A fault: whatever attempt has the checksum counts as done.
LookupDone(p) ==
  /\ Is(p, "lookup")
  /\ \E i \in Rows :
       /\ attempts[i].checksum = run[p].doc
       /\ Goes(p, [run[p] EXCEPT !.row = i, !.mine = PayloadOf(attempts[i]), !.op = "unchanged"])
  /\ UNCHANGED <<attempts, outside>>

\* A fault: a finished attempt is resumed.
LookupResumes(p) ==
  /\ Is(p, "lookup")
  /\ \E i \in Rows :
       /\ attempts[i].checksum = run[p].doc
       /\ Goes(p, [run[p] EXCEPT !.row = i, !.mine = PayloadOf(attempts[i]), !.op = "resume"])
  /\ UNCHANGED <<attempts, outside>>

\* find_pipeline_by_checksum.
LookupKnown(p) ==
  /\ Is(p, "lookup")
  /\ \E i \in Rows :
       /\ attempts[i].checksum = run[p].doc
       /\ Goes(p, [run[p] EXCEPT !.row = i, !.mine = PayloadOf(attempts[i]),
                     !.op = IF attempts[i].status \in Terminal THEN "unchanged" ELSE "resume"])
  /\ UNCHANGED <<attempts, outside>>

LookupNew(p) ==
  /\ Is(p, "lookup")
  /\ ~Taken(run[p].doc, 0)
  /\ Goes(p, [run[p] EXCEPT !.op = "attempt"])
  /\ UNCHANGED <<attempts, outside>>

MarkUnchanged(p) ==
  /\ Is(p, "unchanged")
  /\ Update(p, [Mine(p) EXCEPT !.status = "SKIPPED_UNCHANGED"])
  /\ Goes(p, Idle)
  /\ UNCHANGED outside

\* An unfinished attempt for the same document: its content is stored anew.
Resume(p) ==
  /\ Is(p, "resume")
  /\ LET updated == [Mine(p) EXCEPT !.content = run[p].doc]
     IN  Update(p, updated) /\ Continue(p, run[p].row, updated, <<>>)
  /\ UNCHANGED outside

\* A changed document: the attempt is created in one commit and its content
\* stored in a second.
CreateAttempt(p) ==
  /\ Is(p, "attempt")
  /\ ~Taken(run[p].doc, 0)
  /\ attempts' = Append(attempts, New(run[p].doc))
  /\ Goes(p, [run[p] EXCEPT !.op = "fetched", !.row = Len(attempts) + 1, !.mine = PayloadOf(New(run[p].doc))])
  /\ UNCHANGED outside

\* A fault: the source is read again for the content.
StoreCurrent(p) ==
  /\ Is(p, "fetched")
  /\ LET updated == [Mine(p) EXCEPT !.status = "FETCHED", !.content = source]
     IN  Update(p, updated) /\ Continue(p, run[p].row, updated, <<>>)
  /\ UNCHANGED outside

StoreFetched(p) ==
  /\ Is(p, "fetched")
  /\ LET updated == [Mine(p) EXCEPT !.status = "FETCHED", !.content = run[p].doc]
     IN  Update(p, updated) /\ Continue(p, run[p].row, updated, <<>>)
  /\ UNCHANGED outside

-----------------------------------------------------------------------------
(* The stages                                                              *)

Fetch(p) ==
  /\ Is(p, "fetch")
  /\ Goes(p, [run[p] EXCEPT !.op = "save_fetch", !.doc = source])
  /\ UNCHANGED <<attempts, outside>>

SaveFetch(p) ==
  /\ Is(p, "save_fetch")
  /\ ~Taken(run[p].doc, run[p].row)
  /\ LET updated == [Mine(p) EXCEPT !.checksum = run[p].doc, !.content = run[p].doc,
                                    !.status = "FETCHED", !.failed = "none"]
     IN  Update(p, updated) /\ Continue(p, run[p].row, updated, run[p].inside)
  /\ UNCHANGED outside

Extract(p) ==
  /\ Is(p, "extract")
  /\ Goes(p, [run[p] EXCEPT !.op = "save_extract"])
  /\ UNCHANGED <<attempts, outside>>

\* Publication follows in the same call, whatever was found.
SaveExtract(p) ==
  /\ Is(p, "save_extract")
  /\ LET updated == [Mine(p) EXCEPT !.extraction = ProposalsOf(run[p].doc),
                                    !.status = "EXTRACTED", !.failed = "none"]
     IN  /\ Update(p, updated)
         /\ Goes(p, [run[p] EXCEPT !.op = "publish", !.mine = PayloadOf(updated),
                                   !.inside = <<"PUBLISH">> \o run[p].inside])
  /\ UNCHANGED outside

\* The Core takes the proposals; the publisher then answers or fails.
Publish(p) ==
  /\ Is(p, "publish")
  /\ delivered' = delivered \cup {<<run[p].mine.checksum, run[p].mine.extraction>>}
  /\ core' = run[p].mine.checksum
  /\ \E answer \in {"save_publish", "failed"} : Goes(p, [run[p] EXCEPT !.op = answer])
  /\ UNCHANGED <<source, attempts>>

SavePublish(p) ==
  /\ Is(p, "save_publish")
  /\ Update(p, [Mine(p) EXCEPT !.status = "PUBLISHED", !.failed = "none"])
  /\ Goes(p, Idle)
  /\ UNCHANGED outside

\* A port fails.
StageFails(p) ==
  /\ run[p].op \in {"fetch", "extract", "publish"}
  /\ Goes(p, [run[p] EXCEPT !.op = "failed"])
  /\ UNCHANGED <<attempts, outside>>

\* _mark_failed, in the handler of every stage the run is inside of: each one
\* overwrites failed_stage.
MarkFailed(p) ==
  /\ Is(p, "failed")
  /\ Update(p, [Mine(p) EXCEPT !.status = "FAILED", !.failed = Head(run[p].inside)])
  /\ Goes(p, IF Len(run[p].inside) = 1 THEN Idle
             ELSE [run[p] EXCEPT !.inside = Tail(@)])
  /\ UNCHANGED outside

\* A crash, or a database error: a violated unique constraint among them, after
\* which the session cannot even record the failure.
Stop(p) == ~Is(p, "none") /\ Goes(p, Idle) /\ UNCHANGED <<attempts, outside>>

\* The source is edited.
SourceChanges ==
  /\ source' \in Docs \ {source}
  /\ UNCHANGED <<attempts, run, delivered, core>>

-----------------------------------------------------------------------------

Work(p) ==
  \/ Start(p) \/ Create(p)
  \/ Refetch(p) \/ LookupKnown(p) \/ LookupNew(p) \/ MarkUnchanged(p) \/ Resume(p)
  \/ CreateAttempt(p) \/ StoreFetched(p)
  \/ Fetch(p) \/ SaveFetch(p) \/ Extract(p) \/ SaveExtract(p) \/ Publish(p) \/ SavePublish(p)
  \/ StageFails(p) \/ MarkFailed(p) \/ Stop(p)

Holds(p, i) == run[p].op \notin {"none", "create"} /\ run[p].row = i
Doubled == {i \in Rows : \E p, q \in Runs : p # q /\ Holds(p, i) /\ Holds(q, i)}

Next ==
  /\ SourceChanges \/ \E p \in Runs : Work(p)
  /\ shared' = shared \cup Doubled'

Spec == Init /\ [][Next]_vars

-----------------------------------------------------------------------------
(* Properties.                                                             *)

\* The payloads of an attempt belong together, whatever the source served in
\* between and wherever runs stopped: its bytes have its checksum, and its
\* proposals were extracted from its bytes.
PayloadsMatch ==
  \A i \in Rows \ shared :
    /\ attempts[i].content \in {NoDoc, attempts[i].checksum}
    /\ attempts[i].extraction \in {NoDoc, ProposalsOf(attempts[i].content)}

\* No attempt ends as published, or is later skipped as unchanged, unless the
\* Core took the proposals of that very document.
TerminalWasDelivered ==
  \A i \in Rows \ shared :
    attempts[i].status \in Terminal =>
      <<attempts[i].checksum, ProposalsOf(attempts[i].checksum)>> \in delivered

\* A retry repeats no stage whose payload is stored, unless that payload is an
\* empty list: it fetches only for an attempt without content, and asks the
\* extractor only for one without stored proposals.
SavedStagesAreKept ==
  [][\A p \in Runs : run'[p].op # run[p].op =>
       /\ run'[p].op = "save_fetch" /\ run'[p].row \notin shared' =>
            attempts[run'[p].row].content = NoDoc
       /\ run'[p].op = "save_extract" /\ run'[p].row \notin shared' =>
            ~HasProposals(attempts[run'[p].row])]_vars

\* A finished attempt is never reopened, nor its payload changed: a failure of a
\* later run marks the attempt of that run.
FinishedIsFinal ==
  [][\A i \in Rows \ shared' : attempts[i].status \in Terminal =>
       /\ attempts'[i].status \in Terminal
       /\ attempts'[i] = [attempts[i] EXCEPT !.status = attempts'[i].status]]_vars

\* A run that reports a document as unchanged leaves the Core with that document:
\* it is what the Core was given last.
SkippedIsCurrent == \A p \in Runs : Is(p, "unchanged") => core = run[p].doc
=============================================================================
