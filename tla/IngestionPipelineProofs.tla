----------------------- MODULE IngestionPipelineProofs -----------------------
(***************************************************************************)
(* Proofs about the attempts of an ingestion stream, for any documents and *)
(* any number of runs that start, stop and take over from one another.     *)
(* Rows have no version, so nothing is claimed of an attempt that two runs *)
(* have worked on at once; of the others the argument is that a run which  *)
(* is alone with its attempt still holds the attempt as it is stored.      *)
(***************************************************************************)
EXTENDS IngestionPipeline, SequenceTheorems, TLAPS

\* The publication of all that was extracted from a document.
Whole(d) == <<d, ProposalsOf(d)>>

\* A payload belongs to a document that has a checksum.
RowSound(row) == row.content # NoDoc \/ row.extraction # NoDoc => row.checksum # NoDoc

\* The payloads of an attempt belong together, and if it is finished, the Core has it.
RowFine(row, sent) ==
  /\ row.content \in {NoDoc, row.checksum}
  /\ row.extraction \in {NoDoc, ProposalsOf(row.content)}
  /\ row.status \in Terminal => Whole(row.checksum) \in sent

InStage == {"fetch", "save_fetch", "extract", "save_extract", "publish", "save_publish", "failed"}
WithDoc == {"lookup", "unchanged", "resume", "attempt", "fetched", "save_fetch"}
WithChecksum == {"resume", "fetched", "extract", "save_extract", "publish", "save_publish"}

Busy(c) == c.op \notin {"none", "create"}

\* What a run relies on whatever other runs do to its attempt.
Fits(c, row) ==
  /\ c.op \in InStage => c.inside # <<>>
  /\ c.op \in WithDoc => c.doc \in Docs
  /\ c.op \in WithChecksum => row.checksum # NoDoc
  /\ c.op \in {"publish", "save_publish"} => c.mine.checksum # NoDoc

Sound(c) == Busy(c) => c.row \in Rows /\ Fits(c, attempts[c.row])

\* What a run knows of its attempt while no other run works on it.
Knows(c, row, sent) ==
  /\ c.mine = PayloadOf(row)
  /\ row.status \in Terminal <=> c.op \in {"refetch", "lookup", "attempt", "unchanged"}
  /\ c.op \in {"unchanged", "resume", "fetched"} => row.checksum = c.doc
  /\ c.op \in {"fetched", "fetch", "save_fetch"} => row.content = NoDoc /\ row.extraction = NoDoc
  /\ c.op \in {"extract", "save_extract"} =>
       c.doc = row.checksum /\ row.content = row.checksum /\ ~HasProposals(row)
  /\ c.op \in {"publish", "save_publish"} =>
       row.content = row.checksum /\ <<row.checksum, row.extraction>> = Whole(row.checksum)
  /\ c.op = "save_publish" => Whole(row.checksum) \in sent

Alone(c) == Busy(c) /\ c.row \notin shared => Knows(c, attempts[c.row], delivered)

PipelineInv ==
  /\ TypeOK
  /\ \A i \in Rows : RowSound(attempts[i])
  /\ \A p \in Runs : Sound(run[p]) /\ Alone(run[p])
  /\ Doubled \subseteq shared
  /\ \A i \in Rows \ shared : RowFine(attempts[i], delivered)

-----------------------------------------------------------------------------
(* What a step has to keep.                                                *)

Calls == {Idle, [op |-> "create"]} \cup Holding

\* From no content nothing was extracted, and a list that is not empty is the whole of
\* what its document holds.
LEMMA Extracted ==
  ASSUME NEW d \in Docs \cup {NoDoc}
  PROVE  /\ ProposalsOf(d) \in Extractions /\ ProposalsOf(NoDoc) = NoDoc
         /\ \A row : HasProposals(row) /\ row.extraction \in {NoDoc, ProposalsOf(d)} =>
              row.extraction = ProposalsOf(d) /\ d # NoDoc
  BY IngestionAssumption DEF ProposalsOf, Extractions, HasProposals

LEMMA Held ==
  ASSUME PipelineInv, NEW p \in Runs, Busy(run[p])
  PROVE  /\ run[p] \in Holding /\ run[p].row \in Rows
         /\ attempts[run[p].row] \in Attempt /\ RowSound(attempts[run[p].row])
         /\ Fits(run[p], attempts[run[p].row])
         /\ run[p].row \notin shared =>
              /\ Knows(run[p], attempts[run[p].row], delivered)
              /\ RowFine(attempts[run[p].row], delivered)
<1>1. run[p] \in Calls /\ attempts \in Seq(Attempt)
  BY DEF PipelineInv, TypeOK, Calls
<1>2. run[p] \in Holding
  BY <1>1 DEF Calls, Busy, Idle
<1>3. Sound(run[p]) /\ Alone(run[p])
  BY DEF PipelineInv
<1>4. run[p].row \in Rows /\ Fits(run[p], attempts[run[p].row])
  BY <1>3 DEF Sound
<1>5. attempts[run[p].row] \in Attempt
  BY <1>1, <1>4, ElementOfSeq DEF Rows
<1> QED
  BY <1>2, <1>3, <1>4, <1>5 DEF PipelineInv, Alone

\* A step of one run, which writes at most its own attempt and one that is new: the
\* others know what they knew unless they work on the same attempt.
LEMMA StepKeeps ==
  ASSUME PipelineInv, NEW p \in Runs, NEW c \in Calls, run' = [run EXCEPT ![p] = c],
         attempts' \in Seq(Attempt),
         \A i \in Rows : /\ i \in Rows'
                         /\ attempts'[i] = attempts[i] \/ (Busy(run[p]) /\ i = run[p].row)
                         /\ attempts[i].checksum # NoDoc => attempts'[i].checksum # NoDoc,
         \A i \in Rows' : RowSound(attempts'[i]) /\ (i \in shared' \/ RowFine(attempts'[i], delivered')),
         Sound(c)', Alone(c)',
         delivered \subseteq delivered', delivered' \subseteq Docs \X Extractions,
         source' \in Docs, core' \in Docs \cup {NoDoc}, shared' = shared \cup Doubled'
  PROVE  PipelineInv'
<1>1. /\ run \in [Runs -> Calls] /\ run' \in [Runs -> Calls]
      /\ \A q \in Runs : run'[q] = IF q = p THEN c ELSE run[q]
  BY DEF PipelineInv, TypeOK, Calls
<1>2. TypeOK'
  <2>1. Rows' \subseteq Nat
    BY DEF Rows
  <2>2. shared' \subseteq Nat
    BY <2>1 DEF PipelineInv, TypeOK, Doubled
  <2> QED
    BY <1>1, <2>2 DEF TypeOK, Calls
<1>3. ASSUME NEW q \in Runs, q # p
      PROVE  Sound(run[q])' /\ Alone(run[q])'
  <2>1. PICK d : d = run[q] /\ d = run'[q]
    BY <1>1, <1>3
  <2>2. Sound(d) /\ Alone(d)
    BY <2>1 DEF PipelineInv
  <2>3. Sound(d)'
    BY <2>2 DEF Sound, Fits
  <2>4. ASSUME Busy(d), d.row \notin shared'
        PROVE  Knows(d, attempts'[d.row], delivered')
    <3>1. d.row \in Rows /\ Knows(d, attempts[d.row], delivered)
      BY <2>2, <2>4 DEF Sound, Alone
    <3>2. attempts'[d.row] = attempts[d.row]
      <4> SUFFICES ASSUME Busy(run[p]), d.row = run[p].row
                   PROVE  FALSE
        BY <3>1
      <4>1. Holds(p, d.row) /\ Holds(q, d.row)
        BY <2>1, <2>4 DEF Holds, Busy
      <4>2. d.row \in Doubled
        BY <1>3, <3>1, <4>1 DEF Doubled
      <4> QED
        BY <2>4, <4>2 DEF PipelineInv
    <3> QED
      BY <3>1, <3>2 DEF Knows
  <2> QED
    BY <2>1, <2>3, <2>4 DEF Alone, Sound
<1>4. Sound(run[p])' /\ Alone(run[p])'
  BY <1>1 DEF Alone, Sound
<1>5. Doubled' \subseteq shared'
  OBVIOUS
<1> QED
  BY <1>2, <1>3, <1>4, <1>5 DEF PipelineInv

\* A step that writes no row.
LEMMA QuietKeeps ==
  ASSUME PipelineInv, NEW p \in Runs, NEW c \in Calls, run' = [run EXCEPT ![p] = c],
         Sound(c), Alone(c), UNCHANGED <<attempts, source, delivered, core>>,
         shared' = shared \cup Doubled'
  PROVE  PipelineInv'
<1>1. Sound(c)' /\ Alone(c)'
  BY DEF Sound, Alone, Rows
<1>2. /\ attempts \in Seq(Attempt) /\ delivered \subseteq Docs \X Extractions
      /\ source \in Docs /\ core \in Docs \cup {NoDoc}
  BY DEF PipelineInv, TypeOK
<1>3. Rows' = Rows
  BY DEF Rows
<1>4. \A i \in Rows' : RowSound(attempts'[i]) /\ (i \in shared' \/ RowFine(attempts'[i], delivered'))
  BY <1>3 DEF PipelineInv
<1> QED
  BY <1>1, <1>2, <1>3, <1>4, StepKeeps

\* An update of the attempt of a run.
LEMMA UpdateKeeps ==
  ASSUME PipelineInv, NEW p \in Runs, NEW c \in Calls, run' = [run EXCEPT ![p] = c],
         Busy(run[p]), NEW row \in Attempt, attempts' = [attempts EXCEPT ![run[p].row] = row],
         RowSound(row), attempts[run[p].row].checksum # NoDoc => row.checksum # NoDoc,
         c # Idle => Busy(c) /\ c.row = run[p].row /\ Fits(c, row),
         run[p].row \notin shared =>
           RowFine(row, delivered) /\ (c # Idle => Knows(c, row, delivered)),
         UNCHANGED <<source, delivered, core>>, shared' = shared \cup Doubled'
  PROVE  PipelineInv'
<1>0. PICK n : n = run[p].row
  OBVIOUS
<1>1. n \in Rows
  BY <1>0, Held
<1>2. /\ attempts \in Seq(Attempt) /\ delivered \subseteq Docs \X Extractions
      /\ source \in Docs /\ core \in Docs \cup {NoDoc}
  BY DEF PipelineInv, TypeOK
<1>3. /\ attempts' \in Seq(Attempt) /\ Rows' = Rows
      /\ \A i \in Rows : attempts'[i] = IF i = n THEN row ELSE attempts[i]
  BY <1>0, <1>1, <1>2, ExceptSeq DEF Rows
<1>4. Sound(c)' /\ Alone(c)'
  <2>1. CASE c = Idle
    BY <2>1 DEF Sound, Alone, Busy, Idle
  <2>2. CASE c # Idle
    <3>1. Busy(c) /\ c.row = n /\ Fits(c, row) /\ attempts'[n] = row
      BY <1>0, <1>1, <1>3, <2>2
    <3>2. n \notin shared' => Knows(c, row, delivered)
      BY <1>0, <2>2
    <3> QED
      BY <1>1, <1>3, <3>1, <3>2 DEF Sound, Alone
  <2> QED
    BY <2>1, <2>2
<1>5. \A i \in Rows' : RowSound(attempts'[i]) /\ (i \in shared' \/ RowFine(attempts'[i], delivered'))
  BY <1>0, <1>3 DEF PipelineInv
<1>6. \A i \in Rows : /\ i \in Rows'
                      /\ attempts'[i] = attempts[i] \/ (Busy(run[p]) /\ i = run[p].row)
                      /\ attempts[i].checksum # NoDoc => attempts'[i].checksum # NoDoc
  BY <1>0, <1>3
<1> QED
  BY <1>2, <1>3, <1>4, <1>5, <1>6, StepKeeps

\* A new attempt, which its run holds as it is stored.
LEMMA CreateKeeps ==
  ASSUME PipelineInv, NEW p \in Runs, NEW c \in Calls, run' = [run EXCEPT ![p] = c],
         NEW checksum \in Docs \cup {NoDoc}, attempts' = Append(attempts, New(checksum)),
         Busy(c), c.row = Len(attempts) + 1, Fits(c, New(checksum)),
         Knows(c, New(checksum), delivered),
         UNCHANGED <<source, delivered, core>>, shared' = shared \cup Doubled'
  PROVE  PipelineInv'
<1>1. PICK n, row : n = Len(attempts) + 1 /\ row = New(checksum)
  OBVIOUS
<1>2. /\ row \in Attempt /\ RowSound(row) /\ RowFine(row, delivered)
  BY <1>1 DEF New, Attempt, Extractions, Status, Terminal, Stages, RowSound, RowFine
<1>3. /\ attempts \in Seq(Attempt) /\ delivered \subseteq Docs \X Extractions
      /\ source \in Docs /\ core \in Docs \cup {NoDoc}
  BY DEF PipelineInv, TypeOK
<1>4. attempts' \in Seq(Attempt) /\ Len(attempts') = n /\ n \in Nat /\ Len(attempts) \in Nat
  BY <1>1, <1>2, <1>3, AppendProperties, LenProperties
<1>5. /\ \A i \in Rows : i \in Rows' /\ attempts'[i] = attempts[i]
      /\ n \in Rows' /\ attempts'[n] = row
      /\ \A i \in Rows' : i = n \/ i \in Rows
  BY <1>1, <1>2, <1>3, <1>4, AppendProperties DEF Rows
<1>6. Sound(c)' /\ Alone(c)'
  BY <1>1, <1>5 DEF Sound, Alone
<1>7. \A i \in Rows' : RowSound(attempts'[i]) /\ (i \in shared' \/ RowFine(attempts'[i], delivered'))
  BY <1>2, <1>5 DEF PipelineInv
<1> QED
  BY <1>3, <1>4, <1>5, <1>6, <1>7, StepKeeps

-----------------------------------------------------------------------------
(* Where a run goes.                                                       *)

\* _continue goes on behind what is stored: it knows its attempt, and an attempt
\* with proposals has all that its document holds.
LEMMA ContinueKnows ==
  ASSUME NEW row \in Attempt, RowSound(row), NEW i \in Nat, NEW inside \in Seq(Stages), NEW c,
         c = [op |-> NextStage(row), row |-> i, mine |-> PayloadOf(row), doc |-> row.content,
              inside |-> <<StageOf(NextStage(row))>> \o inside]
  PROVE  /\ c \in Holding /\ c.row = i /\ c.op \in {"fetch", "extract", "publish"} /\ Fits(c, row)
         /\ RowFine(row, delivered) /\ row.status \notin Terminal => Knows(c, row, delivered)
<1>1. PICK op, all : op = NextStage(row) /\ all = <<StageOf(op)>> \o inside
  OBVIOUS
<1>2. op \in {"fetch", "extract", "publish"} /\ StageOf(op) \in Stages
  BY <1>1 DEF NextStage, StageOf, Stages
<1>3. all \in Seq(Stages) /\ all # <<>>
  <2>1. PICK first : first = StageOf(op)
    OBVIOUS
  <2>2. <<first>> \in Seq(Stages) /\ Len(<<first>>) = 1
    BY <1>2, <2>1
  <2>3. all \in Seq(Stages) /\ Len(all) = 1 + Len(inside)
    BY <1>1, <2>1, <2>2, ConcatProperties
  <2>4. Len(inside) \in Nat
    BY LenProperties
  <2> QED
    BY <2>3, <2>4, EmptySeq
<1>4. PayloadOf(row) \in Payload /\ row.content \in Docs \cup {NoDoc}
  BY DEF PayloadOf, Payload, Attempt
<1>5. c = [op |-> op, row |-> i, mine |-> PayloadOf(row), doc |-> row.content, inside |-> all]
  BY <1>1
<1>6. /\ c.op = op /\ c.row = i /\ c.mine = PayloadOf(row) /\ c.doc = row.content /\ c.inside = all
      /\ c.mine.checksum = row.checksum
  BY <1>5 DEF PayloadOf
<1>7. c \in Holding
  BY <1>2, <1>3, <1>4, <1>5 DEF Holding
<1>8. op \in {"extract", "publish"} => row.checksum # NoDoc
  BY <1>1 DEF NextStage, HasProposals, RowSound
<1>9. Fits(c, row)
  BY <1>2, <1>3, <1>6, <1>8 DEF Fits, WithDoc, WithChecksum
<1>10. ASSUME RowFine(row, delivered), row.status \notin Terminal
       PROVE  Knows(c, row, delivered)
  <2>1. op = "fetch" => row.content = NoDoc /\ row.extraction = NoDoc
    BY <1>1, <1>4, <1>10, Extracted DEF NextStage, RowFine
  <2>2. op = "extract" => row.content = row.checksum /\ ~HasProposals(row)
    BY <1>1, <1>10 DEF NextStage, RowFine
  <2>3. op = "publish" => /\ row.content = row.checksum
                          /\ row.extraction = ProposalsOf(row.checksum)
    BY <1>1, <1>4, <1>10, Extracted DEF NextStage, RowFine
  <2>4. op = "publish" => <<row.checksum, row.extraction>> = Whole(row.checksum)
    BY <2>3 DEF Whole
  <2> QED
    BY <1>2, <1>6, <1>10, <2>1, <2>2, <2>3, <2>4 DEF Knows
<1> QED
  BY <1>2, <1>6, <1>7, <1>9, <1>10

Ops == {"lookup", "unchanged", "resume", "attempt", "fetched", "save_fetch", "save_extract",
        "publish", "save_publish", "failed"}

\* What a run that goes on keeps of what it had.
LEMMA GoesTo ==
  ASSUME NEW h \in Holding, NEW op \in Ops, NEW c, c = [h EXCEPT !.op = op]
  PROVE  /\ c \in Calls /\ c.op = op /\ c.doc = h.doc /\ c.row = h.row
         /\ c.mine = h.mine /\ c.inside = h.inside
  BY DEF Holding, Calls, Ops

LEMMA GoesOut ==
  ASSUME NEW h \in Holding, NEW inside \in Seq(Stages), NEW c, c = [h EXCEPT !.inside = inside]
  PROVE  /\ c \in Calls /\ c.op = h.op /\ c.doc = h.doc /\ c.row = h.row
         /\ c.mine = h.mine /\ c.inside = inside
  BY DEF Holding, Calls

\* The fields of what a run holds.
LEMMA HoldingFields ==
  ASSUME NEW h \in Holding
  PROVE  /\ h.row \in Nat /\ h.mine \in Payload /\ h.doc \in Docs \cup {NoDoc}
         /\ h.inside \in Seq(Stages)
  BY DEF Holding

-----------------------------------------------------------------------------
(* Steps that write no row.                                                *)

LEMMA StartKeeps ==
  ASSUME PipelineInv, NEW p \in Runs, Start(p), shared' = shared \cup Doubled'
  PROVE  PipelineInv'
<1>1. PICK n : n = Len(attempts)
  OBVIOUS
<1>2. attempts \in Seq(Attempt) /\ n \in Nat
  BY <1>1, LenProperties DEF PipelineInv, TypeOK
<1>3. UNCHANGED <<attempts, source, delivered, core>>
  BY DEF Start, outside
<1>4. ASSUME n # 0 PROVE n \in Rows /\ attempts[n] \in Attempt /\ RowSound(attempts[n])
  <2>1. n \in Rows
    BY <1>1, <1>2, <1>4 DEF Rows
  <2> QED
    BY <1>2, <2>1, ElementOfSeq DEF Rows, PipelineInv
<1>5. CASE n = 0
  <2>1. PICK c : c = [op |-> "create"]
    OBVIOUS
  <2>2. c \in Calls /\ Sound(c) /\ Alone(c) /\ run' = [run EXCEPT ![p] = c]
    BY <1>1, <1>5, <2>1 DEF Start, Goes, Calls, Sound, Alone, Busy
  <2> QED
    BY <1>3, <2>2, QuietKeeps
<1>6. CASE n # 0 /\ attempts[n].status \in Terminal
  <2>1. PICK c : c = [op |-> "refetch", row |-> n, mine |-> PayloadOf(attempts[n]), doc |-> NoDoc,
                      inside |-> <<>>]
    OBVIOUS
  <2>2. PayloadOf(attempts[n]) \in Payload
    BY <1>4, <1>6 DEF PayloadOf, Payload, Attempt
  <2>3. c \in Calls
    BY <1>2, <2>1, <2>2, EmptySeq DEF Calls, Holding
  <2>4. c.op = "refetch" /\ c.row = n /\ c.mine = PayloadOf(attempts[n])
    BY <2>1
  <2>5. run' = [run EXCEPT ![p] = c]
    BY <1>1, <1>6, <2>1 DEF Start, Goes
  <2>6. Sound(c)
    BY <1>4, <1>6, <2>4 DEF Sound, Fits, InStage, WithDoc, WithChecksum
  <2>7. Alone(c)
    BY <1>6, <2>4 DEF Alone, Knows
  <2> QED
    BY <1>3, <2>3, <2>5, <2>6, <2>7, QuietKeeps
<1>7. CASE n # 0 /\ attempts[n].status \notin Terminal
  <2>1. PICK row : row = attempts[n]
    OBVIOUS
  <2>2. PICK c : c = [op |-> NextStage(row), row |-> n, mine |-> PayloadOf(row), doc |-> row.content,
                      inside |-> <<StageOf(NextStage(row))>> \o <<>>]
    OBVIOUS
  <2>3. run' = [run EXCEPT ![p] = c]
    BY <1>1, <1>7, <2>1, <2>2 DEF Start, Goes, Continue
  <2>4. <<>> \in Seq(Stages) /\ row \in Attempt /\ RowSound(row)
    BY <1>4, <1>7, <2>1, EmptySeq
  <2>5. /\ c \in Calls /\ c.row = n /\ Fits(c, row)
        /\ RowFine(row, delivered) => Knows(c, row, delivered)
    BY <1>2, <1>7, <2>1, <2>2, <2>4, ContinueKnows DEF Calls
  <2>6. Sound(c) /\ Alone(c)
    BY <1>4, <1>7, <2>1, <2>5 DEF Sound, Alone, PipelineInv
  <2> QED
    BY <1>3, <2>3, <2>5, <2>6, QuietKeeps
<1> QED
  BY <1>5, <1>6, <1>7

\* A run is alone with what it asks the source, the table or the extractor.
LEMMA AskingKeeps ==
  ASSUME PipelineInv, NEW p \in Runs, shared' = shared \cup Doubled',
         Refetch(p) \/ LookupNew(p) \/ Fetch(p) \/ Extract(p) \/ StageFails(p)
  PROVE  PipelineInv'
<1>1. PICK h : h = run[p]
  OBVIOUS
<1>2. UNCHANGED <<attempts, source, delivered, core>>
  BY DEF Refetch, LookupNew, Fetch, Extract, StageFails, outside
<1>3. Busy(h)
  BY <1>1 DEF Busy, Is, Refetch, LookupNew, Fetch, Extract, StageFails
<1>4. PICK row : row = attempts[h.row]
  OBVIOUS
<1>5. /\ h \in Holding /\ h.row \in Rows /\ Fits(h, row)
      /\ h.row \notin shared => Knows(h, row, delivered)
  BY <1>1, <1>3, <1>4, Held
<1>6. source \in Docs
  BY DEF PipelineInv, TypeOK
<1>7. ASSUME NEW c \in Calls, run' = [run EXCEPT ![p] = c], c.row = h.row, Fits(c, row),
             Knows(h, row, delivered) => Knows(c, row, delivered)
      PROVE  PipelineInv'
  <2>1. Sound(c) /\ Alone(c)
    BY <1>4, <1>5, <1>7 DEF Sound, Alone
  <2> QED
    BY <1>2, <1>7, <2>1, QuietKeeps
<1>8. CASE Refetch(p)
  <2>1. PICK op : op = IF source = h.mine.checksum THEN "unchanged" ELSE "lookup"
    OBVIOUS
  <2>2. PICK c : c = [h EXCEPT !.doc = source, !.op = op]
    OBVIOUS
  <2>3. op \in Ops /\ h.op = "refetch" /\ run' = [run EXCEPT ![p] = c]
    BY <1>1, <1>8, <2>1, <2>2 DEF Refetch, Goes, Is, Ops
  <2>4. /\ c \in Calls /\ c.op = op /\ c.doc = source /\ c.row = h.row
        /\ c.mine = h.mine /\ c.inside = h.inside
    BY <1>5, <1>6, <2>2, <2>3 DEF Holding, Calls, Ops
  <2>5. Fits(c, row)
    BY <1>6, <2>1, <2>4 DEF Fits, InStage, WithDoc, WithChecksum
  <2>6. ASSUME Knows(h, row, delivered) PROVE Knows(c, row, delivered)
    <3>1. h.mine = PayloadOf(row) /\ h.mine.checksum = row.checksum
      BY <2>6 DEF Knows, PayloadOf
    <3> QED
      BY <2>1, <2>3, <2>4, <2>6, <3>1 DEF Knows
  <2> QED
    BY <1>7, <2>3, <2>4, <2>5, <2>6
<1>9. CASE LookupNew(p)
  <2>1. PICK c : c = [h EXCEPT !.op = "attempt"]
    OBVIOUS
  <2>2. h.op = "lookup" /\ run' = [run EXCEPT ![p] = c]
    BY <1>1, <1>9, <2>1 DEF LookupNew, Goes, Is
  <2>3. /\ c \in Calls /\ c.op = "attempt" /\ c.doc = h.doc /\ c.row = h.row
        /\ c.mine = h.mine /\ c.inside = h.inside
    BY <1>5, <2>1, GoesTo DEF Ops
  <2>4. Fits(c, row)
    BY <1>5, <2>2, <2>3 DEF Fits, InStage, WithDoc, WithChecksum
  <2>5. Knows(h, row, delivered) => Knows(c, row, delivered)
    BY <2>2, <2>3 DEF Knows
  <2> QED
    BY <1>7, <2>2, <2>3, <2>4, <2>5
<1>10. CASE Fetch(p)
  <2>1. PICK c : c = [h EXCEPT !.op = "save_fetch", !.doc = source]
    OBVIOUS
  <2>2. h.op = "fetch" /\ run' = [run EXCEPT ![p] = c]
    BY <1>1, <1>10, <2>1 DEF Fetch, Goes, Is
  <2>3. /\ c \in Calls /\ c.op = "save_fetch" /\ c.doc = source /\ c.row = h.row
        /\ c.mine = h.mine /\ c.inside = h.inside
    BY <1>5, <1>6, <2>1 DEF Holding, Calls, Ops
  <2>4. Fits(c, row)
    BY <1>5, <1>6, <2>2, <2>3 DEF Fits, InStage, WithDoc, WithChecksum
  <2>5. Knows(h, row, delivered) => Knows(c, row, delivered)
    BY <2>2, <2>3 DEF Knows
  <2> QED
    BY <1>7, <2>2, <2>3, <2>4, <2>5
<1>11. CASE Extract(p)
  <2>1. PICK c : c = [h EXCEPT !.op = "save_extract"]
    OBVIOUS
  <2>2. h.op = "extract" /\ run' = [run EXCEPT ![p] = c]
    BY <1>1, <1>11, <2>1 DEF Extract, Goes, Is
  <2>3. /\ c \in Calls /\ c.op = "save_extract" /\ c.doc = h.doc /\ c.row = h.row
        /\ c.mine = h.mine /\ c.inside = h.inside
    BY <1>5, <2>1, GoesTo DEF Ops
  <2>4. Fits(c, row)
    BY <1>5, <2>2, <2>3 DEF Fits, InStage, WithDoc, WithChecksum
  <2>5. Knows(h, row, delivered) => Knows(c, row, delivered)
    BY <2>2, <2>3 DEF Knows
  <2> QED
    BY <1>7, <2>2, <2>3, <2>4, <2>5
<1>12. CASE StageFails(p)
  <2>1. PICK c : c = [h EXCEPT !.op = "failed"]
    OBVIOUS
  <2>2. h.op \in {"fetch", "extract", "publish"} /\ run' = [run EXCEPT ![p] = c]
    BY <1>1, <1>12, <2>1 DEF StageFails, Goes
  <2>3. /\ c \in Calls /\ c.op = "failed" /\ c.doc = h.doc /\ c.row = h.row
        /\ c.mine = h.mine /\ c.inside = h.inside
    BY <1>5, <2>1, GoesTo DEF Ops
  <2>4. Fits(c, row)
    BY <1>5, <2>2, <2>3 DEF Fits, InStage, WithDoc, WithChecksum
  <2>5. Knows(h, row, delivered) => Knows(c, row, delivered)
    BY <2>2, <2>3 DEF Knows
  <2> QED
    BY <1>7, <2>2, <2>3, <2>4, <2>5
<1> QED
  BY <1>8, <1>9, <1>10, <1>11, <1>12

\* The attempt of the document is taken up as it is stored.
LEMMA LookupKeeps ==
  ASSUME PipelineInv, NEW p \in Runs, LookupKnown(p), shared' = shared \cup Doubled'
  PROVE  PipelineInv'
<1>1. PICK h : h = run[p]
  OBVIOUS
<1>2. h.op = "lookup" /\ UNCHANGED <<attempts, source, delivered, core>>
  BY <1>1 DEF LookupKnown, Is, outside
<1>3. /\ h \in Holding /\ Fits(h, attempts[h.row])
  BY <1>1, <1>2, Held DEF Busy
<1>4. h.doc \in Docs
  BY <1>2, <1>3 DEF Fits, WithDoc
<1>5. PICK i \in Rows :
        /\ attempts[i].checksum = h.doc
        /\ Goes(p, [run[p] EXCEPT !.row = i, !.mine = PayloadOf(attempts[i]),
                      !.op = IF attempts[i].status \in Terminal THEN "unchanged" ELSE "resume"])
  BY <1>1 DEF LookupKnown
<1>6. PICK row, op, mine : /\ row = attempts[i] /\ mine = PayloadOf(row)
                           /\ op = IF row.status \in Terminal THEN "unchanged" ELSE "resume"
  OBVIOUS
<1>7. PICK c : c = [h EXCEPT !.row = i, !.mine = mine, !.op = op]
  OBVIOUS
<1>8. run' = [run EXCEPT ![p] = c]
  BY <1>1, <1>5, <1>6, <1>7 DEF Goes
<1>9. row \in Attempt
  BY <1>6, ElementOfSeq DEF PipelineInv, TypeOK, Rows
<1>10. mine \in Payload /\ op \in Ops /\ i \in Nat
  BY <1>6, <1>9 DEF PayloadOf, Payload, Attempt, Ops, Rows
<1>11. c \in Calls /\ c.op = op /\ c.doc = h.doc /\ c.row = i /\ c.mine = mine
  BY <1>3, <1>7, <1>10 DEF Holding, Calls, Ops
<1>12. row.checksum = h.doc /\ h.doc # NoDoc
  BY <1>4, <1>5, <1>6, IngestionAssumption
<1>13. Sound(c)
  BY <1>4, <1>6, <1>11, <1>12 DEF Sound, Fits, InStage, WithDoc, WithChecksum
<1>14. Alone(c)
  BY <1>6, <1>11, <1>12 DEF Alone, Knows
<1> QED
  BY <1>2, <1>8, <1>11, <1>13, <1>14, QuietKeeps

LEMMA StopKeeps ==
  ASSUME PipelineInv, NEW p \in Runs, Stop(p), shared' = shared \cup Doubled'
  PROVE  PipelineInv'
<1>1. PICK c : c = Idle
  OBVIOUS
<1>2. /\ c \in Calls /\ Sound(c) /\ Alone(c) /\ run' = [run EXCEPT ![p] = c]
      /\ UNCHANGED <<attempts, source, delivered, core>>
  BY <1>1 DEF Stop, Goes, Idle, Calls, Sound, Alone, Busy, outside
<1> QED
  BY <1>2, QuietKeeps

\* What was published is of the run's own attempt, and the whole of it.
LEMMA PublishKeeps ==
  ASSUME PipelineInv, NEW p \in Runs, Publish(p), shared' = shared \cup Doubled'
  PROVE  PipelineInv'
<1>1. PICK h, row : h = run[p] /\ row = attempts[h.row]
  OBVIOUS
<1>2. h.op = "publish" /\ UNCHANGED <<attempts, source>>
  BY <1>1 DEF Publish, Is
<1>3. /\ h \in Holding /\ h.row \in Rows /\ Fits(h, row)
      /\ h.row \notin shared => Knows(h, row, delivered)
  BY <1>1, <1>2, Held DEF Busy
<1>4. PICK answer \in {"save_publish", "failed"} : Goes(p, [run[p] EXCEPT !.op = answer])
  BY DEF Publish
<1>5. PICK c : c = [h EXCEPT !.op = answer]
  OBVIOUS
<1>6. run' = [run EXCEPT ![p] = c]
  BY <1>1, <1>4, <1>5 DEF Goes
<1>7. c \in Calls /\ c.op = answer /\ c.row = h.row /\ c.mine = h.mine /\ c.inside = h.inside
  BY <1>3, <1>5, GoesTo DEF Ops
<1>8. /\ delivered' = delivered \cup {<<h.mine.checksum, h.mine.extraction>>}
      /\ core' = h.mine.checksum
  BY <1>1 DEF Publish
<1>9. h.mine.checksum \in Docs /\ h.mine.extraction \in Extractions
  BY <1>2, <1>3, HoldingFields DEF Payload, Fits
<1>10. /\ attempts \in Seq(Attempt) /\ delivered \subseteq Docs \X Extractions
       /\ source \in Docs /\ Rows' = Rows
  BY <1>2 DEF PipelineInv, TypeOK, Rows
<1>11. delivered' \subseteq Docs \X Extractions /\ core' \in Docs \cup {NoDoc}
  BY <1>8, <1>9, <1>10
<1>12. Fits(c, row)
  BY <1>2, <1>3, <1>7 DEF Fits, InStage, WithDoc, WithChecksum
<1>13. ASSUME Knows(h, row, delivered) PROVE Knows(c, row, delivered')
  <2>1. Whole(row.checksum) \in delivered'
    <3>1. h.mine.checksum = row.checksum /\ h.mine.extraction = row.extraction
      BY <1>13 DEF Knows, PayloadOf
    <3>2. <<row.checksum, row.extraction>> = Whole(row.checksum)
      BY <1>2, <1>13 DEF Knows
    <3> QED
      BY <1>8, <3>1, <3>2
  <2> QED
    BY <1>2, <1>7, <1>13, <2>1 DEF Knows
<1>14. Sound(c)' /\ Alone(c)'
  BY <1>1, <1>2, <1>3, <1>7, <1>10, <1>12, <1>13 DEF Sound, Alone
<1>15. \A i \in Rows' : RowSound(attempts'[i]) /\ (i \in shared' \/ RowFine(attempts'[i], delivered'))
  BY <1>2, <1>8, <1>10 DEF PipelineInv, RowFine
<1> QED
  BY <1>2, <1>6, <1>7, <1>8, <1>10, <1>11, <1>14, <1>15, StepKeeps

-----------------------------------------------------------------------------
(* Steps that create or update an attempt.                                 *)

LEMMA NewTyped ==
  ASSUME NEW checksum \in Docs \cup {NoDoc}, NEW row, row = New(checksum)
  PROVE  /\ row \in Attempt /\ RowSound(row) /\ RowFine(row, delivered) /\ row.status \notin Terminal
         /\ row.checksum = checksum /\ row.content = NoDoc /\ row.extraction = NoDoc
         /\ PayloadOf(row) \in Payload
  BY DEF New, Attempt, Extractions, Status, Terminal, Stages, RowSound, RowFine, PayloadOf, Payload

LEMMA FirstAttemptKeeps ==
  ASSUME PipelineInv, NEW p \in Runs, Create(p), shared' = shared \cup Doubled'
  PROVE  PipelineInv'
<1>1. PICK row, n : row = New(NoDoc) /\ n = Len(attempts) + 1
  OBVIOUS
<1>2. PICK c : c = [op |-> NextStage(row), row |-> n, mine |-> PayloadOf(row), doc |-> row.content,
                    inside |-> <<StageOf(NextStage(row))>> \o <<>>]
  OBVIOUS
<1>3. /\ run' = [run EXCEPT ![p] = c] /\ attempts' = Append(attempts, New(NoDoc))
      /\ UNCHANGED <<source, delivered, core>>
  BY <1>1, <1>2 DEF Create, Continue, Goes, outside
<1>4. row \in Attempt /\ RowSound(row) /\ RowFine(row, delivered) /\ row.status \notin Terminal
  BY <1>1, NewTyped
<1>5. n \in Nat /\ <<>> \in Seq(Stages)
  BY <1>1, LenProperties, EmptySeq DEF PipelineInv, TypeOK
<1>6. /\ c \in Holding /\ c.row = n /\ c.op \in {"fetch", "extract", "publish"} /\ Fits(c, row)
      /\ Knows(c, row, delivered)
  BY <1>2, <1>4, <1>5, ContinueKnows
<1>7. c \in Calls /\ Busy(c)
  BY <1>6 DEF Calls, Busy
<1> QED
  BY <1>1, <1>3, <1>6, <1>7, CreateKeeps

LEMMA CreateAttemptKeeps ==
  ASSUME PipelineInv, NEW p \in Runs, CreateAttempt(p), shared' = shared \cup Doubled'
  PROVE  PipelineInv'
<1>1. PICK h : h = run[p]
  OBVIOUS
<1>2. h.op = "attempt" /\ UNCHANGED <<source, delivered, core>>
  BY <1>1 DEF CreateAttempt, Is, outside
<1>3. h \in Holding /\ Fits(h, attempts[h.row])
  BY <1>1, <1>2, Held DEF Busy
<1>4. h.doc \in Docs /\ h.doc # NoDoc
  BY <1>2, <1>3, IngestionAssumption DEF Fits, WithDoc
<1>5. PICK row, n, mine : row = New(h.doc) /\ n = Len(attempts) + 1 /\ mine = PayloadOf(row)
  OBVIOUS
<1>6. PICK c : c = [h EXCEPT !.op = "fetched", !.row = n, !.mine = mine]
  OBVIOUS
<1>7. run' = [run EXCEPT ![p] = c] /\ attempts' = Append(attempts, New(h.doc))
  BY <1>1, <1>5, <1>6 DEF CreateAttempt, Goes
<1>8. /\ row.status \notin Terminal /\ row.checksum = h.doc
      /\ row.content = NoDoc /\ row.extraction = NoDoc /\ mine \in Payload
  BY <1>4, <1>5, NewTyped
<1>9. n \in Nat
  BY <1>5, LenProperties DEF PipelineInv, TypeOK
<1>10. c \in Calls /\ c.op = "fetched" /\ c.doc = h.doc /\ c.row = n /\ c.mine = mine
  BY <1>3, <1>6, <1>8, <1>9 DEF Holding, Calls
<1>11. Busy(c) /\ Fits(c, row)
  BY <1>4, <1>8, <1>10 DEF Busy, Fits, InStage, WithDoc, WithChecksum
<1>12. Knows(c, row, delivered)
  BY <1>5, <1>8, <1>10 DEF Knows
<1> QED
  BY <1>2, <1>4, <1>5, <1>7, <1>10, <1>11, <1>12, CreateKeeps

\* MarkUnchanged, SavePublish and MarkFailed leave the payload of the attempt alone.
LEMMA StatusKeeps ==
  ASSUME PipelineInv, NEW p \in Runs, MarkUnchanged(p) \/ SavePublish(p) \/ MarkFailed(p),
         shared' = shared \cup Doubled'
  PROVE  PipelineInv'
<1>1. PICK h, old : h = run[p] /\ old = attempts[h.row]
  OBVIOUS
<1>2. Busy(h) /\ UNCHANGED <<source, delivered, core>>
  BY <1>1 DEF MarkUnchanged, SavePublish, MarkFailed, Is, Busy, outside
<1>3. /\ h \in Holding /\ h.row \in Rows /\ Fits(h, old) /\ old \in Attempt /\ RowSound(old)
      /\ h.row \notin shared => Knows(h, old, delivered) /\ RowFine(old, delivered)
  BY <1>1, <1>2, Held
<1>4. ASSUME NEW row \in Attempt, NEW c \in Calls,
             row.checksum = old.checksum, row.content = old.content, row.extraction = old.extraction,
             run' = [run EXCEPT ![p] = c], attempts' = [attempts EXCEPT ![h.row] = row],
             c # Idle => Busy(c) /\ c.row = h.row /\ Fits(c, row),
             Knows(h, old, delivered) =>
               /\ row.status \in Terminal => Whole(row.checksum) \in delivered
               /\ c # Idle => Knows(c, row, delivered)
      PROVE  PipelineInv'
  <2>1. RowSound(row) /\ (old.checksum # NoDoc => row.checksum # NoDoc)
    BY <1>3, <1>4 DEF RowSound
  <2>2. h.row \notin shared => RowFine(row, delivered) /\ (c # Idle => Knows(c, row, delivered))
    BY <1>3, <1>4 DEF RowFine
  <2> QED
    BY <1>1, <1>2, <1>4, <2>1, <2>2, UpdateKeeps
<1>5. Idle \in Calls
  BY DEF Calls
<1>6. CASE MarkUnchanged(p)
  <2>1. PICK row : row = [old EXCEPT !.status = "SKIPPED_UNCHANGED"]
    OBVIOUS
  <2>2. /\ row \in Attempt /\ row.checksum = old.checksum /\ row.content = old.content
        /\ row.extraction = old.extraction /\ row.status = "SKIPPED_UNCHANGED"
    BY <1>3, <2>1 DEF Attempt, Status, Terminal
  <2>3. /\ attempts' = [attempts EXCEPT ![h.row] = row] /\ run' = [run EXCEPT ![p] = Idle]
        /\ h.op = "unchanged"
    BY <1>1, <1>6, <2>1 DEF MarkUnchanged, Update, Goes, Mine, Is
  <2>4. ASSUME Knows(h, old, delivered), h.row \notin shared PROVE Whole(row.checksum) \in delivered
    <3>1. old.status \in Terminal
      BY <2>3, <2>4 DEF Knows
    <3> QED
      BY <1>3, <2>2, <2>4, <3>1 DEF RowFine
  <2>5. RowSound(row) /\ (old.checksum # NoDoc => row.checksum # NoDoc)
    BY <1>3, <2>2 DEF RowSound
  <2>6. h.row \notin shared => RowFine(row, delivered)
    BY <1>3, <2>2, <2>4 DEF RowFine
  <2> QED
    BY <1>1, <1>2, <1>5, <2>2, <2>3, <2>5, <2>6, UpdateKeeps
<1>7. CASE SavePublish(p)
  <2>1. PICK row : row = [old EXCEPT !.status = "PUBLISHED", !.failed = "none"]
    OBVIOUS
  <2>2. /\ row \in Attempt /\ row.checksum = old.checksum /\ row.content = old.content
        /\ row.extraction = old.extraction
    BY <1>3, <2>1 DEF Attempt, Status, Terminal
  <2>3. /\ attempts' = [attempts EXCEPT ![h.row] = row] /\ run' = [run EXCEPT ![p] = Idle]
        /\ h.op = "save_publish"
    BY <1>1, <1>7, <2>1 DEF SavePublish, Update, Goes, Mine, Is
  <2>4. Knows(h, old, delivered) => Whole(row.checksum) \in delivered
    BY <2>2, <2>3 DEF Knows
  <2> QED
    BY <1>4, <1>5, <2>2, <2>3, <2>4
<1>8. CASE MarkFailed(p)
  <2>0. h.op = "failed" /\ h.inside \in Seq(Stages) /\ h.inside # <<>>
    BY <1>1, <1>3, <1>8, HoldingFields DEF MarkFailed, Is, Fits, InStage
  <2>1. PICK stage : stage = Head(h.inside)
    OBVIOUS
  <2>2. stage \in Stages /\ Tail(h.inside) \in Seq(Stages) /\ Len(Tail(h.inside)) = Len(h.inside) - 1
    BY <2>0, <2>1, HeadTailProperties
  <2>3. PICK row : row = [old EXCEPT !.status = "FAILED", !.failed = stage]
    OBVIOUS
  <2>4. /\ row \in Attempt /\ row.checksum = old.checksum /\ row.content = old.content
        /\ row.extraction = old.extraction /\ row.status = "FAILED"
    BY <1>3, <2>2, <2>3 DEF Attempt, Status
  <2>5. attempts' = [attempts EXCEPT ![h.row] = row]
    BY <1>1, <1>8, <2>1, <2>3 DEF MarkFailed, Update, Mine
  <2>6. CASE Len(h.inside) = 1
    <3>1. run' = [run EXCEPT ![p] = Idle]
      BY <1>1, <1>8, <2>6 DEF MarkFailed, Goes
    <3> QED
      BY <1>4, <1>5, <2>4, <2>5, <3>1 DEF Terminal
  <2>7. CASE Len(h.inside) # 1
    <3>1. PICK inside : inside = Tail(h.inside)
      OBVIOUS
    <3>2. PICK c : c = [h EXCEPT !.inside = inside]
      OBVIOUS
    <3>3. run' = [run EXCEPT ![p] = c]
      BY <1>1, <1>8, <2>7, <3>1, <3>2 DEF MarkFailed, Goes
    <3>4. inside \in Seq(Stages) /\ inside # <<>>
      <4>1. Len(h.inside) \in Nat /\ Len(h.inside) # 0
        BY <2>0, LenProperties, EmptySeq
      <4>2. Len(inside) # 0
        BY <2>2, <2>7, <3>1, <4>1
      <4> QED
        BY <2>2, <3>1, <4>2
    <3>5. /\ c \in Calls /\ c.op = "failed" /\ c.doc = h.doc /\ c.row = h.row
          /\ c.mine = h.mine /\ c.inside = inside
      BY <1>3, <2>0, <3>2, <3>4, GoesOut
    <3>6. Busy(c) /\ Fits(c, row)
      BY <3>4, <3>5 DEF Busy, Fits, WithDoc, WithChecksum
    <3>7. Knows(h, old, delivered) => Knows(c, row, delivered)
      BY <2>4, <3>5 DEF Knows, PayloadOf, Terminal
    <3> QED
      BY <1>4, <2>4, <2>5, <3>3, <3>5, <3>6, <3>7 DEF Terminal
  <2> QED
    BY <2>6, <2>7
<1> QED
  BY <1>6, <1>7, <1>8

\* The attempt is updated, and the run goes on behind what is stored.
LEMMA ContinuingKeeps ==
  ASSUME PipelineInv, NEW p \in Runs, Busy(run[p]), NEW row \in Attempt, NEW inside \in Seq(Stages),
         Update(p, row), Continue(p, run[p].row, row, inside),
         RowSound(row), attempts[run[p].row].checksum # NoDoc => row.checksum # NoDoc,
         run[p].row \notin shared => RowFine(row, delivered) /\ row.status \notin Terminal,
         UNCHANGED <<source, delivered, core>>, shared' = shared \cup Doubled'
  PROVE  PipelineInv'
<1>1. PICK i : i = run[p].row
  OBVIOUS
<1>2. i \in Nat
  BY <1>1, Held DEF Rows
<1>3. PICK c : c = [op |-> NextStage(row), row |-> i, mine |-> PayloadOf(row), doc |-> row.content,
                    inside |-> <<StageOf(NextStage(row))>> \o inside]
  OBVIOUS
<1>4. run' = [run EXCEPT ![p] = c] /\ attempts' = [attempts EXCEPT ![run[p].row] = row]
  BY <1>1, <1>3 DEF Continue, Goes, Update
<1>5. /\ c \in Holding /\ c.row = i /\ c.op \in {"fetch", "extract", "publish"} /\ Fits(c, row)
      /\ RowFine(row, delivered) /\ row.status \notin Terminal => Knows(c, row, delivered)
  BY <1>2, <1>3, ContinueKnows
<1>6. c \in Calls /\ Busy(c)
  BY <1>5 DEF Calls, Busy
<1> QED
  BY <1>1, <1>4, <1>5, <1>6, UpdateKeeps

\* Resume, StoreFetched and SaveFetch store the document at hand.
LEMMA StoringKeeps ==
  ASSUME PipelineInv, NEW p \in Runs, Resume(p) \/ StoreFetched(p) \/ SaveFetch(p),
         shared' = shared \cup Doubled'
  PROVE  PipelineInv'
<1>1. PICK h, old : h = run[p] /\ old = attempts[h.row]
  OBVIOUS
<1>2. Busy(h) /\ UNCHANGED <<source, delivered, core>>
  BY <1>1 DEF Resume, StoreFetched, SaveFetch, Is, Busy, outside
<1>3. /\ h \in Holding /\ h.row \in Rows /\ Fits(h, old) /\ old \in Attempt /\ RowSound(old)
      /\ h.row \notin shared => Knows(h, old, delivered) /\ RowFine(old, delivered)
  BY <1>1, <1>2, Held
<1>4. h.op \in {"resume", "fetched", "save_fetch"} /\ h.doc \in Docs /\ h.doc # NoDoc
  BY <1>1, <1>3, IngestionAssumption DEF Resume, StoreFetched, SaveFetch, Is, Fits, WithDoc
<1>5. <<>> \in Seq(Stages) /\ h.inside \in Seq(Stages)
  BY <1>3, EmptySeq, HoldingFields
<1>6. CASE Resume(p)
  <2>1. PICK row : row = [old EXCEPT !.content = h.doc]
    OBVIOUS
  <2>2. /\ row \in Attempt /\ row.checksum = old.checksum /\ row.content = h.doc
        /\ row.extraction = old.extraction /\ row.status = old.status
    BY <1>3, <1>4, <2>1 DEF Attempt
  <2>3. Update(p, row) /\ Continue(p, run[p].row, row, <<>>) /\ h.op = "resume"
    BY <1>1, <1>6, <2>1 DEF Resume, Mine, Is
  <2>4. old.checksum # NoDoc
    BY <1>3, <2>3 DEF Fits, WithChecksum
  <2>5. ASSUME h.row \notin shared
        PROVE  RowFine(row, delivered) /\ row.status \notin Terminal
    <3>1. old.status \notin Terminal /\ old.checksum = h.doc
      BY <1>3, <2>3, <2>5 DEF Knows
    <3>2. old.extraction \in {NoDoc, ProposalsOf(h.doc)}
      BY <1>3, <1>4, <2>5, <3>1, Extracted DEF RowFine
    <3> QED
      BY <2>2, <3>1, <3>2 DEF RowFine
  <2> QED
    BY <1>1, <1>2, <1>5, <2>2, <2>3, <2>4, <2>5, ContinuingKeeps DEF RowSound
<1>7. CASE StoreFetched(p)
  <2>1. PICK row : row = [old EXCEPT !.status = "FETCHED", !.content = h.doc]
    OBVIOUS
  <2>2. /\ row \in Attempt /\ row.checksum = old.checksum /\ row.content = h.doc
        /\ row.extraction = old.extraction /\ row.status = "FETCHED"
    BY <1>3, <1>4, <2>1 DEF Attempt, Status
  <2>3. Update(p, row) /\ Continue(p, run[p].row, row, <<>>) /\ h.op = "fetched"
    BY <1>1, <1>7, <2>1 DEF StoreFetched, Mine, Is
  <2>4. old.checksum # NoDoc
    BY <1>3, <2>3 DEF Fits, WithChecksum
  <2>5. ASSUME h.row \notin shared
        PROVE  RowFine(row, delivered) /\ row.status \notin Terminal
    <3>1. old.extraction = NoDoc /\ old.checksum = h.doc
      BY <1>3, <2>3, <2>5 DEF Knows
    <3> QED
      BY <1>3, <2>2, <2>5, <3>1 DEF RowFine, Terminal
  <2> QED
    BY <1>1, <1>2, <1>5, <2>2, <2>3, <2>4, <2>5, ContinuingKeeps DEF RowSound
<1>8. CASE SaveFetch(p)
  <2>1. PICK row : row = [old EXCEPT !.checksum = h.doc, !.content = h.doc,
                                     !.status = "FETCHED", !.failed = "none"]
    OBVIOUS
  <2>2. /\ row \in Attempt /\ row.checksum = h.doc /\ row.content = h.doc
        /\ row.extraction = old.extraction /\ row.status = "FETCHED"
    BY <1>3, <1>4, <2>1 DEF Attempt, Status
  <2>3. Update(p, row) /\ Continue(p, run[p].row, row, h.inside) /\ h.op = "save_fetch"
    BY <1>1, <1>8, <2>1 DEF SaveFetch, Mine, Is
  <2>4. ASSUME h.row \notin shared
        PROVE  RowFine(row, delivered) /\ row.status \notin Terminal
    <3>1. old.extraction = NoDoc
      BY <1>3, <2>3, <2>4 DEF Knows
    <3> QED
      BY <1>3, <2>2, <2>4, <3>1 DEF RowFine, Terminal
  <2> QED
    BY <1>1, <1>2, <1>4, <1>5, <2>2, <2>3, <2>4, ContinuingKeeps DEF RowSound
<1> QED
  BY <1>6, <1>7, <1>8

\* The extraction is of the bytes that are stored, and publication is of all of it.
LEMMA SaveExtractKeeps ==
  ASSUME PipelineInv, NEW p \in Runs, SaveExtract(p), shared' = shared \cup Doubled'
  PROVE  PipelineInv'
<1>1. PICK h, old, found : /\ h = run[p] /\ old = attempts[h.row]
                           /\ found = ProposalsOf(h.doc)
  OBVIOUS
<1>2. h.op = "save_extract" /\ UNCHANGED <<source, delivered, core>>
  BY <1>1 DEF SaveExtract, Is, outside
<1>3. /\ h \in Holding /\ h.row \in Rows /\ Fits(h, old) /\ old \in Attempt /\ RowSound(old)
      /\ h.row \notin shared => Knows(h, old, delivered) /\ RowFine(old, delivered)
  BY <1>1, <1>2, Held DEF Busy
<1>4. found \in Extractions
  BY <1>1, <1>3, Extracted, HoldingFields
<1>5. PICK row : row = [old EXCEPT !.extraction = found, !.status = "EXTRACTED", !.failed = "none"]
  OBVIOUS
<1>6. /\ row \in Attempt /\ row.checksum = old.checksum /\ row.content = old.content
      /\ row.extraction = found /\ row.status = "EXTRACTED"
  BY <1>3, <1>4, <1>5 DEF Attempt, Status
<1>7. PICK mine, inside : mine = PayloadOf(row) /\ inside = <<"PUBLISH">> \o h.inside
  OBVIOUS
<1>8. mine \in Payload /\ mine.checksum = row.checksum
  BY <1>6, <1>7 DEF PayloadOf, Payload, Attempt
<1>9. inside \in Seq(Stages) /\ inside # <<>>
  <2>1. PICK first : first = "PUBLISH"
    OBVIOUS
  <2>2. <<first>> \in Seq(Stages) /\ Len(<<first>>) = 1 /\ h.inside \in Seq(Stages)
    BY <1>3, <2>1, HoldingFields DEF Stages
  <2>3. inside \in Seq(Stages) /\ Len(inside) = 1 + Len(h.inside)
    BY <1>7, <2>1, <2>2, ConcatProperties
  <2>4. Len(h.inside) \in Nat
    BY <2>2, LenProperties
  <2> QED
    BY <2>3, <2>4, EmptySeq
<1>10. PICK c : c = [h EXCEPT !.op = "publish", !.mine = mine, !.inside = inside]
  OBVIOUS
<1>11. c \in Calls /\ c.op = "publish" /\ c.row = h.row /\ c.mine = mine /\ c.inside = inside
  BY <1>3, <1>8, <1>9, <1>10 DEF Holding, Calls
<1>12. attempts' = [attempts EXCEPT ![run[p].row] = row] /\ run' = [run EXCEPT ![p] = c]
  BY <1>1, <1>5, <1>7, <1>10 DEF SaveExtract, Update, Goes, Mine
<1>13. old.checksum # NoDoc
  BY <1>2, <1>3 DEF Fits, WithChecksum
<1>14. Busy(c) /\ Fits(c, row)
  BY <1>6, <1>8, <1>9, <1>11, <1>13 DEF Busy, Fits, InStage, WithDoc, WithChecksum
<1>15. ASSUME h.row \notin shared
       PROVE  RowFine(row, delivered) /\ Knows(c, row, delivered)
  <2>1. h.doc = old.checksum /\ old.content = old.checksum
    BY <1>2, <1>3, <1>15 DEF Knows
  <2>2. RowFine(row, delivered)
    BY <1>1, <1>6, <2>1 DEF RowFine, Terminal
  <2>3. <<row.checksum, row.extraction>> = Whole(row.checksum)
    BY <1>1, <1>6, <2>1 DEF Whole
  <2> QED
    BY <1>6, <1>7, <1>11, <2>1, <2>2, <2>3 DEF Knows, Terminal
<1> QED
  BY <1>1, <1>2, <1>6, <1>11, <1>12, <1>13, <1>14, <1>15, UpdateKeeps DEF RowSound, Busy

LEMMA SourceKeeps ==
  ASSUME PipelineInv, UNCHANGED <<attempts, run, delivered, core>>, source' \in Docs,
         shared \subseteq shared', shared' \subseteq shared \cup Doubled'
  PROVE  PipelineInv'
<1>1. Rows' = Rows /\ Doubled' = Doubled
  BY DEF Rows, Doubled, Holds
<1>2. shared' = shared
  BY <1>1 DEF PipelineInv
<1> QED
  BY <1>1, <1>2 DEF PipelineInv, TypeOK, Sound, Alone

-----------------------------------------------------------------------------
(* The steps together.                                                     *)

LEMMA InitPipelineInv ==
  ASSUME Init
  PROVE  PipelineInv
<1>1. Rows = {} /\ attempts = <<>> /\ attempts \in Seq(Attempt)
  BY DEF Init, Rows
<1>2. TypeOK
  BY <1>1 DEF Init, TypeOK
<1>3. \A p \in Runs : Sound(run[p]) /\ Alone(run[p])
  BY DEF Init, Sound, Alone, Busy, Idle
<1>4. Doubled = {}
  BY <1>1 DEF Doubled
<1> QED
  BY <1>1, <1>2, <1>3, <1>4 DEF PipelineInv

LEMMA NextPipelineInv ==
  ASSUME PipelineInv, [Next]_vars
  PROVE  PipelineInv'
<1>1. CASE SourceChanges /\ shared' = shared \cup Doubled'
  BY <1>1, SourceKeeps DEF SourceChanges
<1>2. ASSUME NEW p \in Runs, Work(p), shared' = shared \cup Doubled'
      PROVE  PipelineInv'
  BY <1>2, StartKeeps, FirstAttemptKeeps, AskingKeeps, LookupKeeps, StatusKeeps, StoringKeeps,
     CreateAttemptKeeps, SaveExtractKeeps, PublishKeeps, StopKeeps DEF Work
<1>3. CASE UNCHANGED vars
  <2>1. source \in Docs
    BY DEF PipelineInv, TypeOK
  <2> QED
    BY <1>3, <2>1, SourceKeeps DEF vars
<1> QED
  BY <1>1, <1>2, <1>3 DEF Next

\* The rows that a step of a run can write, and what the run was about.
LEMMA WrittenRow ==
  ASSUME PipelineInv, NEW p \in Runs, Work(p), NEW i \in Rows
  PROVE  \/ attempts'[i] = attempts[i]
         \/ /\ Busy(run[p]) /\ i = run[p].row
            /\ run[p].op \in {"refetch", "lookup", "attempt", "unchanged"} => MarkUnchanged(p)
<1>1. attempts \in Seq(Attempt)
  BY DEF PipelineInv, TypeOK
<1>2. ASSUME NEW row, Update(p, row), i # run[p].row PROVE attempts'[i] = attempts[i]
  BY <1>1, <1>2 DEF Update, Rows
<1>3. ASSUME NEW checksum, attempts' = Append(attempts, New(checksum)) PROVE attempts'[i] = attempts[i]
  <2>1. PICK row : row = New(checksum)
    OBVIOUS
  <2> QED
    BY <1>1, <1>3, <2>1 DEF Rows
<1>4. CASE Start(p) \/ Refetch(p) \/ LookupKnown(p) \/ LookupNew(p) \/ Fetch(p) \/ Extract(p)
           \/ Publish(p) \/ StageFails(p) \/ Stop(p)
  BY <1>4 DEF Start, Refetch, LookupKnown, LookupNew, Fetch, Extract, Publish, StageFails, Stop
<1>5. CASE Create(p) \/ CreateAttempt(p)
  BY <1>3, <1>5 DEF Create, CreateAttempt
<1>6. CASE MarkUnchanged(p)
  BY <1>2, <1>6 DEF MarkUnchanged, Is, Busy
<1>7. CASE Resume(p) \/ StoreFetched(p) \/ SaveFetch(p) \/ SaveExtract(p)
  BY <1>2, <1>7 DEF Resume, StoreFetched, SaveFetch, SaveExtract, Is, Busy
<1>8. CASE SavePublish(p) \/ MarkFailed(p)
  BY <1>2, <1>8 DEF SavePublish, MarkFailed, Is, Busy
<1> QED
  BY <1>4, <1>5, <1>6, <1>7, <1>8 DEF Work

\* A run that may write its attempt knows that it is not finished, but for the mark.
LEMMA FinishedStays ==
  ASSUME PipelineInv, [Next]_vars, NEW i \in Rows \ shared', attempts[i].status \in Terminal
  PROVE  /\ attempts'[i].status \in Terminal
         /\ attempts'[i] = [attempts[i] EXCEPT !.status = attempts'[i].status]
<1>1. attempts[i] \in Attempt
  BY ElementOfSeq DEF PipelineInv, TypeOK, Rows
<1>2. CASE attempts'[i] = attempts[i]
  BY <1>1, <1>2 DEF Attempt
<1>3. ASSUME NEW p \in Runs, Work(p), shared' = shared \cup Doubled', attempts'[i] # attempts[i]
      PROVE  /\ attempts'[i].status \in Terminal
             /\ attempts'[i] = [attempts[i] EXCEPT !.status = attempts'[i].status]
  <2>1. /\ Busy(run[p]) /\ i = run[p].row
        /\ run[p].op \in {"refetch", "lookup", "attempt", "unchanged"} => MarkUnchanged(p)
    BY <1>3, WrittenRow
  <2>2. Knows(run[p], attempts[i], delivered)
    BY <1>3, <2>1, Held
  <2>3. MarkUnchanged(p)
    BY <2>1, <2>2 DEF Knows
  <2>4. attempts'[i] = [attempts[i] EXCEPT !.status = "SKIPPED_UNCHANGED"]
    BY <2>1, <2>3 DEF MarkUnchanged, Update, Mine, PipelineInv, TypeOK, Rows
  <2>5. attempts'[i].status = "SKIPPED_UNCHANGED"
    BY <1>1, <2>4 DEF Attempt
  <2> QED
    BY <2>4, <2>5 DEF Terminal
<1>4. CASE SourceChanges \/ UNCHANGED vars
  BY <1>2, <1>4 DEF SourceChanges, vars
<1> QED
  BY <1>2, <1>3, <1>4 DEF Next

\* A stage is begun only where the attempt lacks what it gives.
LEMMA StageIsNeeded ==
  ASSUME PipelineInv, [Next]_vars, NEW p \in Runs, run'[p].op # run[p].op
  PROVE  /\ run'[p].op = "save_fetch" /\ run'[p].row \notin shared' =>
              attempts[run'[p].row].content = NoDoc
         /\ run'[p].op = "save_extract" /\ run'[p].row \notin shared' =>
              ~HasProposals(attempts[run'[p].row])
<1>1. run \in [Runs -> Calls]
  BY DEF PipelineInv, TypeOK, Calls
<1> DEFINE Goal == /\ run'[p].op = "save_fetch" /\ run'[p].row \notin shared' =>
                        attempts[run'[p].row].content = NoDoc
                   /\ run'[p].op = "save_extract" /\ run'[p].row \notin shared' =>
                        ~HasProposals(attempts[run'[p].row])
<1> SUFFICES Goal
  OBVIOUS
<1>2. PICK q \in Runs : Work(q) /\ shared' = shared \cup Doubled'
  BY DEF Next, SourceChanges, vars
<1>3. ASSUME NEW c, Goes(q, c), c.op \notin {"save_fetch", "save_extract"} PROVE Goal
  BY <1>1, <1>3 DEF Goes
<1>4. PICK h : h = run[q]
  OBVIOUS
<1>5. Busy(h) => h \in Holding
  BY <1>4, Held
<1>6. CASE Fetch(q)
  <2>1. h.op = "fetch" /\ Busy(h)
    BY <1>4, <1>6 DEF Fetch, Is, Busy
  <2>2. PICK c : c = [h EXCEPT !.op = "save_fetch", !.doc = source]
    OBVIOUS
  <2>3. run' = [run EXCEPT ![q] = c] /\ c.op = "save_fetch" /\ c.row = h.row
    BY <1>4, <1>5, <1>6, <2>1, <2>2 DEF Fetch, Goes, Holding
  <2>4. h.row \notin shared => attempts[h.row].content = NoDoc
    BY <1>4, <2>1, Held DEF Knows
  <2>5. p = q => run'[p] = c
    BY <1>1, <2>3
  <2> QED
    BY <1>1, <1>2, <2>3, <2>4, <2>5
<1>7. CASE Extract(q)
  <2>1. h.op = "extract" /\ Busy(h)
    BY <1>4, <1>7 DEF Extract, Is, Busy
  <2>2. PICK c : c = [h EXCEPT !.op = "save_extract"]
    OBVIOUS
  <2>3. run' = [run EXCEPT ![q] = c] /\ c.op = "save_extract" /\ c.row = h.row
    BY <1>4, <1>5, <1>7, <2>1, <2>2 DEF Extract, Goes, Holding
  <2>4. h.row \notin shared => ~HasProposals(attempts[h.row])
    BY <1>4, <2>1, Held DEF Knows
  <2>5. p = q => run'[p] = c
    BY <1>1, <2>3
  <2> QED
    BY <1>1, <1>2, <2>3, <2>4, <2>5
<1> DEFINE Other(c) == c.op \notin {"save_fetch", "save_extract"}
<1>8. ASSUME NEW i, NEW row, NEW inside, Continue(q, i, row, inside) PROVE Goal
  <2>1. PICK c : c = [op |-> NextStage(row), row |-> i, mine |-> PayloadOf(row), doc |-> row.content,
                      inside |-> <<StageOf(NextStage(row))>> \o inside]
    OBVIOUS
  <2>2. Goes(q, c)
    BY <1>8, <2>1 DEF Continue
  <2>3. Other(c)
    BY <2>1 DEF NextStage
  <2> QED
    BY <1>3, <2>2, <2>3
<1>9. ASSUME Goes(q, Idle) PROVE Goal
  <2>1. Other(Idle)
    BY DEF Idle
  <2> QED
    BY <1>3, <1>9, <2>1
<1>10. CASE Start(q)
  <2>1. Other([op |-> "create"])
    OBVIOUS
  <2>2. PICK n : n = Len(attempts)
    OBVIOUS
  <2>3. PICK c : c = [op |-> "refetch", row |-> n, mine |-> PayloadOf(attempts[n]), doc |-> NoDoc,
                      inside |-> <<>>]
    OBVIOUS
  <2>4. Other(c)
    BY <2>3
  <2>5. Goes(q, [op |-> "create"]) \/ Goes(q, c) \/ Continue(q, n, attempts[n], <<>>)
    BY <1>10, <2>2, <2>3 DEF Start
  <2> QED
    BY <1>3, <1>8, <2>1, <2>4, <2>5
<1>11. CASE Create(q) \/ Resume(q) \/ StoreFetched(q) \/ SaveFetch(q)
  BY <1>8, <1>11 DEF Create, Resume, StoreFetched, SaveFetch
<1>12. CASE MarkUnchanged(q) \/ SavePublish(q) \/ Stop(q)
  BY <1>9, <1>12 DEF MarkUnchanged, SavePublish, Stop
<1>13. CASE Refetch(q)
  <2>1. PICK op : op = IF source = h.mine.checksum THEN "unchanged" ELSE "lookup"
    OBVIOUS
  <2>2. PICK c : c = [h EXCEPT !.doc = source, !.op = op]
    OBVIOUS
  <2>3. Goes(q, c) /\ Busy(h)
    BY <1>4, <1>13, <2>1, <2>2 DEF Refetch, Is, Busy
  <2>4. Other(c)
    BY <1>5, <2>1, <2>2, <2>3 DEF Holding
  <2> QED
    BY <1>3, <2>3, <2>4
<1>14. CASE LookupKnown(q)
  <2>1. PICK i \in Rows :
          Goes(q, [h EXCEPT !.row = i, !.mine = PayloadOf(attempts[i]),
                            !.op = IF attempts[i].status \in Terminal THEN "unchanged" ELSE "resume"])
    BY <1>4, <1>14 DEF LookupKnown
  <2>2. PICK op, mine : /\ op = IF attempts[i].status \in Terminal THEN "unchanged" ELSE "resume"
                        /\ mine = PayloadOf(attempts[i])
    OBVIOUS
  <2>3. PICK c : c = [h EXCEPT !.row = i, !.mine = mine, !.op = op]
    OBVIOUS
  <2>4. Goes(q, c) /\ Busy(h)
    BY <1>4, <1>14, <2>1, <2>2, <2>3 DEF LookupKnown, Is, Busy
  <2>5. Other(c)
    BY <1>5, <2>2, <2>3, <2>4 DEF Holding
  <2> QED
    BY <1>3, <2>4, <2>5
<1>15. CASE LookupNew(q) \/ Publish(q) \/ StageFails(q)
  <2>1. PICK op \in {"attempt", "save_publish", "failed"} : Goes(q, [h EXCEPT !.op = op])
    BY <1>4, <1>15 DEF LookupNew, Publish, StageFails
  <2>2. PICK c : c = [h EXCEPT !.op = op]
    OBVIOUS
  <2>3. Busy(h)
    BY <1>4, <1>15 DEF LookupNew, Publish, StageFails, Is, Busy
  <2>4. Other(c)
    BY <1>5, <2>2, <2>3 DEF Holding
  <2> QED
    BY <1>3, <2>1, <2>2, <2>4
<1>16. CASE CreateAttempt(q)
  <2>1. PICK n, mine : n = Len(attempts) + 1 /\ mine = PayloadOf(New(h.doc))
    OBVIOUS
  <2>2. PICK c : c = [h EXCEPT !.op = "fetched", !.row = n, !.mine = mine]
    OBVIOUS
  <2>3. Goes(q, c) /\ Busy(h)
    BY <1>4, <1>16, <2>1, <2>2 DEF CreateAttempt, Is, Busy
  <2>4. Other(c)
    BY <1>5, <2>2, <2>3 DEF Holding
  <2> QED
    BY <1>3, <2>3, <2>4
<1>17. CASE SaveExtract(q)
  <2>1. PICK mine, inside :
          Goes(q, [h EXCEPT !.op = "publish", !.mine = mine, !.inside = inside])
    BY <1>4, <1>17 DEF SaveExtract
  <2>2. PICK c : c = [h EXCEPT !.op = "publish", !.mine = mine, !.inside = inside]
    OBVIOUS
  <2>3. Goes(q, c) /\ Busy(h)
    BY <1>4, <1>17, <2>1, <2>2 DEF SaveExtract, Is, Busy
  <2>4. Other(c)
    BY <1>5, <2>2, <2>3 DEF Holding
  <2> QED
    BY <1>3, <2>3, <2>4
<1>18. CASE MarkFailed(q)
  <2>1. PICK inside : inside = Tail(h.inside)
    OBVIOUS
  <2>2. PICK c : c = [h EXCEPT !.inside = inside]
    OBVIOUS
  <2>3. (Goes(q, Idle) \/ Goes(q, c)) /\ Busy(h) /\ h.op = "failed"
    BY <1>4, <1>18, <2>1, <2>2 DEF MarkFailed, Is, Busy
  <2>4. Other(c)
    BY <1>5, <2>2, <2>3 DEF Holding
  <2> QED
    BY <1>3, <1>9, <2>3, <2>4
<1> HIDE DEF Goal
<1> QED
  BY <1>2, <1>6, <1>7, <1>10, <1>11, <1>12, <1>13, <1>14, <1>15, <1>16, <1>17, <1>18 DEF Work

-----------------------------------------------------------------------------
(* Theorems.                                                               *)

\* However runs overlap, crash and take over: a run that is alone with its attempt
\* holds it as it is stored, and is at a stage that the attempt has come to.
THEOREM PipelineInvariant == Spec => []PipelineInv
<1>1. Init => PipelineInv
  BY InitPipelineInv
<1>2. PipelineInv /\ [Next]_vars => PipelineInv'
  BY NextPipelineInv
<1> QED
  BY <1>1, <1>2, PTL DEF Spec

\* Attempts and runs have their types; nothing is published without a checksum, even
\* of an attempt that two runs have worked on.
THEOREM TypeCorrect == Spec => []TypeOK
<1>1. PipelineInv => TypeOK
  BY DEF PipelineInv
<1> QED
  BY <1>1, PipelineInvariant, PTL

\* The bytes of an attempt have its checksum and its proposals were extracted from its
\* bytes, wherever runs stopped and whatever the source served.
THEOREM PayloadsBelong == Spec => []PayloadsMatch
<1>1. PipelineInv => PayloadsMatch
  BY DEF PipelineInv, PayloadsMatch, RowFine
<1> QED
  BY <1>1, PipelineInvariant, PTL

\* An attempt that ends as published or unchanged was delivered as a whole.
THEOREM FinishedWasDelivered == Spec => []TerminalWasDelivered
<1>1. PipelineInv => TerminalWasDelivered
  BY DEF PipelineInv, TerminalWasDelivered, RowFine, Whole
<1> QED
  BY <1>1, PipelineInvariant, PTL

\* A retry goes on behind the last stage that was saved, but for an extraction that was
\* saved as an empty list.
THEOREM StagesAreKept == Spec => SavedStagesAreKept
<1>1. PipelineInv /\ [Next]_vars =>
        [\A p \in Runs : run'[p].op # run[p].op =>
           /\ run'[p].op = "save_fetch" /\ run'[p].row \notin shared' =>
                attempts[run'[p].row].content = NoDoc
           /\ run'[p].op = "save_extract" /\ run'[p].row \notin shared' =>
                ~HasProposals(attempts[run'[p].row])]_vars
  BY StageIsNeeded
<1> QED
  BY <1>1, PipelineInvariant, PTL DEF Spec, SavedStagesAreKept

\* No later run reopens a finished attempt, marks it as failed or rewrites its payload.
THEOREM FinishedStaysFinished == Spec => FinishedIsFinal
<1>1. PipelineInv /\ [Next]_vars =>
        [\A i \in Rows \ shared' : attempts[i].status \in Terminal =>
           /\ attempts'[i].status \in Terminal
           /\ attempts'[i] = [attempts[i] EXCEPT !.status = attempts'[i].status]]_vars
  BY FinishedStays
<1> QED
  BY <1>1, PipelineInvariant, PTL DEF Spec, FinishedIsFinal
===============================================================================
