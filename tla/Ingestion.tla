-------------------------------- MODULE Ingestion --------------------------------
(***************************************************************************)
(* How an upload becomes the record of one case: documents are registered  *)
(* (upload.ts, zip-ingest.service), read by the workers of a queue         *)
(* (digitize.service), metered (inventory.service), ticked off the         *)
(* checklist, and removed again while the case collects documents          *)
(* (document-removal.service).                                             *)
(*                                                                         *)
(* A page whose text another page of the case already holds is kept as a   *)
(* duplicate: not billed, and without a chunk of its own, so that the text *)
(* lives in the other page alone. The read and the commit of digitizing's  *)
(* transaction are two steps, and so are those of the meter: neither locks *)
(* what it reads. The other transactions are one step, their commit.       *)
(***************************************************************************)
EXTENDS Naturals, FiniteSets, Sequences, Bags

CONSTANTS
  Files,       \* what may be uploaded, FileOf tells what is in it
  FileOf,      \* pages, infected, item, confidence, volume
  Blank,       \* the text of an empty page
  Items,       \* the checklist
  Labels,      \* the kinds of volume the family may set
  Archive,     \* the files in the zip, in order
  Readers,     \* the ingestion worker's slots
  Requests,    \* requests of the family in flight
  Unpacker,    \* the zip worker, one at a time
  Attempts,    \* of a job of either queue
  HaltPages,   \* pages below which a case is not halted
  MaxDocs,     \* bound on the documents registered
  MaxRare      \* bound on the faults, and on what the family changes about a file

Kinds == {"REPORTER", "CLERK", "EXHIBIT", "UNKNOWN"}
Ticks == {"NEEDED", "UPLOADED", "CONFIRMED"}

ASSUME IngestionAssumption ==
  /\ \A f \in DOMAIN FileOf :
       /\ FileOf[f].pages \in Seq([text : STRING, low : BOOLEAN])
       /\ FileOf[f].infected \in BOOLEAN /\ FileOf[f].volume \in Kinds
       /\ FileOf[f].confidence \in {"low", "medium", "high"}
  /\ Labels \subseteq Kinds /\ Files \subseteq DOMAIN FileOf /\ Archive \in Seq(DOMAIN FileOf) /\ IsFiniteSet(Readers) /\ Readers # {}
  /\ Unpacker \notin Readers \cup Requests /\ Readers \cap Requests = {}
  /\ Attempts \in Nat \ {0} /\ HaltPages \in Nat
  /\ MaxDocs \in Nat /\ MaxRare \in Nat

VARIABLES
  docs,      \* Document rows, in the order of their registration
  rows,      \* the DocumentPage rows of each; a billable page with text has its chunks
  ticks,     \* ChecklistItem.state
  queue,     \* the ingestion jobs waiting, a bag: a document may have several
  archive,   \* the zip's job
  actor,     \* the workers and requests
  phase,     \* the case: collecting documents, being analysed, or reviewed
  frozen,    \* the documents the analysis in progress read
  cited,     \* the documents some finding cites
  halted,    \* Case.ocrHalt
  meter,     \* Case.meteredPages
  stale,     \* whether the last meter was counted before a later change
  torn,      \* texts digitized as duplicates of a page that had gone by the commit
  pulled,    \* documents removed by a request older than the analysis
  unread,    \* documents left unread: no job was queued, or it failed for good
  rare       \* used up bound

ingestVars == <<docs, rows, ticks, queue, archive, actor, phase, frozen, cited, halted, meter,
                stale, torn, pulled, unread, rare>>

record == <<docs, rows, ticks>>
review == <<phase, frozen, cited>>
ghosts == <<torn, pulled, unread>>
counted == <<meter, stale>>

Actors == Readers \cup Requests \cup {Unpacker}
Resting == [pc |-> "idle"]
NoItem == "none"

Is(a, pc) == actor[a].pc = pc
Turn(a, r) == actor' = [actor EXCEPT ![a] = r]

Present(d) == d \in DOMAIN docs /\ docs[d].present
Texts(R) == {r.text : r \in R} \ {Blank}
Billable(R) == {r \in R : r.billable}

\* buildInventory: the billable pages of each kind, without quarantined files.
LedgerOf(D) ==
  [k \in Kinds |->
     Cardinality(UNION {{d} \X Billable(rows[d]) :
                          d \in {e \in DOMAIN D : D[e].present /\ ~D[e].quarantined /\ D[e].kind = k}})]

Ledger == LedgerOf(docs)

-------------------------------------------------------------------------------
(* Upload                                                                  *)

\* What is left of a request or of a job after its change: to count the pages, and for
\* a removal to have the documents that deferred to the removed pages read again.
Recount(gone, held) == [pc |-> "meter", gone |-> gone, held |-> held]

Job(d) == [doc |-> d, left |-> Attempts]
Queued(B) == queue' = queue (+) B

\* The document is registered, then queued. An enqueue that fails is logged (in the zip:
\* counted as failed) and, as after a crash between the two, the document stays.
Register(f) ==
  LET d == Len(docs) + 1
  IN  /\ d <= MaxDocs
      /\ docs' = Append(docs, [file |-> f, present |-> TRUE, quarantined |-> FALSE,
                               item |-> NoItem, confirmed |-> FALSE, kind |-> FileOf[f].volume])
      /\ rows' = Append(rows, {})
      /\ \/ Queued(SetToBag({Job(d)})) /\ UNCHANGED <<unread, rare>>
         \/ /\ rare < MaxRare /\ rare' = rare + 1
            /\ unread' = unread \cup {d} /\ UNCHANGED queue

\* POST /upload/complete of a file: accepted whatever the case is doing.
UploadFile(a, f) ==
  /\ a \in Requests /\ Is(a, "idle")
  /\ Register(f)
  /\ Turn(a, Recount({}, {}))
  /\ UNCHANGED <<ticks, archive, review, halted, counted, torn, pulled>>

\* POST /upload/complete of a zip (the fixed job id makes a second one a no-op), or the
\* next attempt at its job.
Unzip ==
  /\ Is(Unpacker, "idle")
  /\ \/ archive.state = "none" /\ rare < MaxRare /\ rare' = rare + 1
     \/ archive.state = "waiting" /\ UNCHANGED rare
  /\ archive' = [archive EXCEPT !.state = "active"]
  /\ Turn(Unpacker, [pc |-> "unpack", entry |-> 1])
  /\ UNCHANGED <<record, queue, review, halted, counted, ghosts>>

UnzipEntry ==
  /\ Is(Unpacker, "unpack") /\ actor[Unpacker].entry <= Len(Archive)
  /\ Register(Archive[actor[Unpacker].entry])
  /\ Turn(Unpacker, [actor[Unpacker] EXCEPT !.entry = @ + 1])
  /\ UNCHANGED <<ticks, archive, review, halted, counted, torn, pulled>>

Unzipped ==
  /\ Is(Unpacker, "unpack") /\ actor[Unpacker].entry > Len(Archive)
  /\ archive' = [archive EXCEPT !.state = "done"]
  /\ Turn(Unpacker, Recount({}, {}))
  /\ UNCHANGED <<record, queue, review, halted, counted, ghosts, rare>>

\* The process dies: the stalled job starts again, and registers every entry again.
UnzipDies ==
  /\ ~Is(Unpacker, "idle")
  /\ archive' = IF archive.left > 1 THEN [state |-> "waiting", left |-> archive.left - 1]
                ELSE [archive EXCEPT !.state = "failed"]
  /\ stale' = (stale \/ meter # Ledger)
  /\ Turn(Unpacker, Resting)
  /\ UNCHANGED <<record, queue, review, halted, meter, ghosts, rare>>

-------------------------------------------------------------------------------
(* Digitizing                                                              *)

\* A job that throws waits for its next attempt, if it has one.
Retry(j) == IF j.left > 1 THEN SetToBag({[j EXCEPT !.left = @ - 1]}) ELSE EmptyBag
GaveUp(j) == IF j.left > 1 THEN {} ELSE {j.doc}

Throws(a, j) ==
  /\ Queued(Retry(j)) /\ unread' = unread \cup GaveUp(j)
  /\ Turn(a, Resting)

\* The worker's look at the document, the scan, and digitizeDocument until its
\* transaction: the text extracted and classified, and the case's halt as it was then. A
\* document removed before its turn is skipped; the bytes of a quarantined one have left
\* the storage.
Take(a, j) ==
  LET d == j.doc
      rest == queue (-) SetToBag({j})
      infected == FileOf[docs[d].file].infected
  IN  /\ a \in Readers /\ Is(a, "idle") /\ BagIn(j, queue)
      /\ CASE ~Present(d) -> queue' = rest /\ UNCHANGED <<docs, actor, unread>>
           [] Present(d) /\ docs[d].quarantined ->
                /\ queue' = rest (+) Retry(j) /\ unread' = unread \cup GaveUp(j)
                /\ UNCHANGED <<docs, actor>>
           [] Present(d) /\ ~docs[d].quarantined /\ infected ->
                /\ queue' = rest /\ docs' = [docs EXCEPT ![d].quarantined = TRUE]
                /\ UNCHANGED <<actor, unread>>
           [] Present(d) /\ ~docs[d].quarantined /\ ~infected ->
                /\ queue' = rest /\ Turn(a, [pc |-> "read", job |-> j, halt |-> halted])
                /\ UNCHANGED <<docs, unread>>
      /\ UNCHANGED <<rows, ticks, archive, review, halted, counted, torn, pulled, rare>>

Committing(d) == {b \in Readers : Is(b, "commit") /\ actor[b].job.doc = d}

\* The transaction deletes the rows of an earlier reading and looks at the pages the
\* other documents hold. Rows another transaction is replacing make it wait.
LookForDuplicates(a) ==
  LET d == actor[a].job.doc
      others == UNION {rows[e] : e \in DOMAIN docs \ {d}}
  IN  /\ Is(a, "read")
      /\ rows[d] # {} => Committing(d) = {}
      /\ Turn(a, [pc |-> "commit", job |-> actor[a].job, halt |-> actor[a].halt,
                  replaced |-> rows[d], seen |-> Texts(Billable(others))])
      /\ UNCHANGED <<record, queue, archive, review, halted, counted, ghosts, rare>>

\* Flawed: a page is compared with those of the other documents only.
NewRowsFlawed(d, seen) ==
  LET page == FileOf[docs[d].file].pages
      copy == CHOOSE n \in 1..(Cardinality(Readers) + 1) : \A r \in rows[d] : r.copy # n
  IN  {[no |-> i, copy |-> copy, text |-> page[i].text, low |-> page[i].low,
        billable |-> page[i].text \notin seen] : i \in DOMAIN page}

\* A page is a duplicate of one seen, or of an earlier page of its own document.
NewRows(d, seen) ==
  LET page == FileOf[docs[d].file].pages
      copy == CHOOSE n \in 1..(Cardinality(Readers) + 1) : \A r \in rows[d] : r.copy # n
      dup(i) == /\ page[i].text # Blank
                /\ (page[i].text \in seen) \/ (\E k \in 1..(i - 1) : page[k].text = page[i].text)
  IN  {[no |-> i, copy |-> copy, text |-> page[i].text, low |-> page[i].low, billable |-> ~dup(i)] :
         i \in DOMAIN page}

\* More than 30 % unreadable pages.
TooLow(R) == /\ Cardinality(R) >= HaltPages
             /\ Cardinality({r \in R : r[2].low}) * 10 > Cardinality(R) * 3

BillablePages(d, new) ==
  UNION {{e} \X Billable(IF e = d THEN new ELSE rows[e]) : e \in DOMAIN docs}

\* The checklist item of the guess; a guess of low confidence files nothing.
Guess(d) ==
  LET f == FileOf[docs[d].file]
  IN  IF f.confidence # "low" /\ f.item \in Items THEN f.item ELSE NoItem

DigitizeCommit(a) ==
  LET d == actor[a].job.doc
      kept == rows[d] \ actor[a].replaced
      new == kept \cup NewRows(d, actor[a].seen)
      f == FileOf[docs[d].file]
  IN  /\ Is(a, "commit") /\ Present(d)
      /\ rows' = [rows EXCEPT ![d] = new]
      /\ IF Guess(d) = NoItem THEN UNCHANGED <<docs, ticks>>
         ELSE /\ docs' = [docs EXCEPT ![d].item = Guess(d),
                                      ![d].confirmed = @ \/ f.confidence = "high"]
              /\ ticks' = [ticks EXCEPT ![Guess(d)] = IF @ = "NEEDED" THEN "UPLOADED" ELSE @]
      /\ halted' = (halted \/ (TooLow(BillablePages(d, new)) /\ ~actor[a].halt))
      /\ torn' = torn \cup (Texts({r \in new : ~r.billable})
                              \ Texts(UNION {Billable(rows'[e]) : e \in DOMAIN docs}))
      /\ unread' = unread \ {d}
      /\ Turn(a, Recount({}, {actor[a].job}))
      /\ UNCHANGED <<queue, archive, review, counted, pulled, rare>>

\* The rows of a document removed meanwhile have nothing to belong to.
DigitizeThrows(a) ==
  /\ Is(a, "commit") /\ ~Present(actor[a].job.doc)
  /\ Throws(a, actor[a].job)
  /\ UNCHANGED <<record, archive, review, halted, counted, torn, pulled, rare>>

\* A failure of S3, Textract, the classifier or the database.
ReaderFails(a) ==
  /\ Is(a, "read") \/ Is(a, "commit")
  /\ rare < MaxRare /\ rare' = rare + 1
  /\ Throws(a, actor[a].job)
  /\ UNCHANGED <<record, archive, review, halted, counted, torn, pulled>>

\* The worker process dies: the queue finds its jobs stalled, and they start again.
Held(a) ==
  IF actor[a].pc \in {"read", "commit"} THEN {actor[a].job}
  ELSE IF actor[a].pc \in {"meter", "write"} THEN actor[a].held ELSE {}

WorkerDies ==
  LET stalled == UNION {Held(a) : a \in Readers}
  IN  /\ stalled # {}
      /\ rare < MaxRare /\ rare' = rare + 1
      /\ Queued([j \in stalled |-> Cardinality({a \in Readers : j \in Held(a)})])
      /\ actor' = [a \in Actors |-> IF a \in Readers THEN Resting ELSE actor[a]]
      /\ stale' = (stale \/ meter # Ledger)
      /\ UNCHANGED <<record, archive, review, halted, meter, ghosts>>

-------------------------------------------------------------------------------
(* The meter                                                               *)

AfterMeter(a) ==
  IF actor[a].gone = {} THEN Resting ELSE [pc |-> "reread", gone |-> actor[a].gone]

MeterRead(a) ==
  /\ Is(a, "meter")
  /\ Turn(a, [pc |-> "write", count |-> Ledger, gone |-> actor[a].gone, held |-> actor[a].held])
  /\ UNCHANGED <<record, queue, archive, review, halted, counted, ghosts, rare>>

MeterWrite(a) ==
  /\ Is(a, "write")
  /\ meter' = actor[a].count /\ stale' = (actor[a].count # Ledger)
  /\ Turn(a, AfterMeter(a))
  /\ UNCHANGED <<record, queue, archive, review, halted, ghosts, rare>>

\* recomputeMeterSafe logs a failure, and the caller goes on.
MeterFails(a) ==
  /\ Is(a, "meter") \/ Is(a, "write")
  /\ rare < MaxRare /\ rare' = rare + 1
  /\ stale' = TRUE
  /\ Turn(a, AfterMeter(a))
  /\ UNCHANGED <<record, queue, archive, review, halted, meter, ghosts>>

\* setVolume: the label and the meter in one transaction.
SetVolume(d, k) ==
  /\ Present(d) /\ k \in Labels \ {docs[d].kind}
  /\ rare < MaxRare /\ rare' = rare + 1
  /\ docs' = [docs EXCEPT ![d].kind = k]
  /\ meter' = LedgerOf(docs') /\ stale' = FALSE
  /\ UNCHANGED <<rows, ticks, queue, archive, actor, review, halted, ghosts>>

-------------------------------------------------------------------------------
(* The family                                                              *)

\* confirm and correct: what a file is for. The item it leaves is open again
\* unless another file is for it.
Confirm(d) ==
  /\ Present(d)
  /\ rare < MaxRare /\ rare' = rare + 1
  /\ docs' = [docs EXCEPT ![d].confirmed = TRUE]
  /\ ticks' = IF docs[d].item \in Items THEN [ticks EXCEPT ![docs[d].item] = "CONFIRMED"] ELSE ticks
  /\ UNCHANGED <<rows, queue, archive, actor, review, halted, counted, ghosts>>

Reopened(T, i, D) ==
  IF i \in Items /\ \A d \in D : ~(docs[d].present /\ docs[d].item = i)
  THEN [T EXCEPT ![i] = "NEEDED"] ELSE T

Correct(d, i) ==
  /\ Present(d) /\ i \in Items
  /\ rare < MaxRare /\ rare' = rare + 1
  /\ docs' = [docs EXCEPT ![d].item = i, ![d].confirmed = TRUE]
  /\ ticks' = LET T == [ticks EXCEPT ![i] = "CONFIRMED"]
              IN  IF docs[d].item = i THEN T ELSE Reopened(T, docs[d].item, DOMAIN docs \ {d})
  /\ UNCHANGED <<rows, queue, archive, actor, review, halted, counted, ghosts>>

\* removeDocuments: the case's phase is read before the transactions.
Remove(a, D) ==
  /\ a \in Requests /\ Is(a, "idle") /\ phase = "collecting"
  /\ D # {} /\ D \subseteq DOMAIN docs
  /\ Turn(a, [pc |-> "remove", ids |-> D, gone |-> {}, removed |-> FALSE])
  /\ UNCHANGED <<record, queue, archive, review, halted, counted, ghosts, rare>>

\* Flawed: a cited document is not refused.
RefusedFlawed(d) == ~Present(d)

\* One transaction per document; one that is gone or cited is refused. It waits for a
\* transaction that has its rows locked.
Refused(d) == ~Present(d) \/ d \in cited

\* Flawed: leaves the count to the re-reads, though there may be none.
AfterRemovingFlawed(r) ==
  CASE r.ids # {} -> r
    [] r.ids = {} /\ r.gone # {} -> [pc |-> "reread", gone |-> r.gone]
    [] r.ids = {} /\ r.gone = {} -> IF r.removed THEN Recount({}, {}) ELSE Resting

AfterRemoving(r) ==
  IF r.ids # {} THEN r ELSE IF r.removed THEN Recount(r.gone, {}) ELSE Resting

\* The pages and the citations are read without a lock, then deleted; one step here. A document
\* cited in between is pulled, as one is that is cited after.
RemoveOne(a, d) ==
  LET refused == Refused(d)
      r == [actor[a] EXCEPT !.ids = @ \ {d},
                            !.gone = IF refused THEN @ ELSE @ \cup Texts(rows[d]),
                            !.removed = @ \/ ~refused]
  IN  /\ Is(a, "remove") /\ d \in actor[a].ids
      /\ \A b \in Committing(d) : actor[b].replaced = {}
      /\ IF refused THEN UNCHANGED <<record, pulled>>
         ELSE /\ docs' = [docs EXCEPT ![d].present = FALSE]
              /\ rows' = [rows EXCEPT ![d] = {}]
              /\ ticks' = Reopened(ticks, docs[d].item, DOMAIN docs \ {d})
              /\ pulled' = IF phase = "collecting" THEN pulled ELSE pulled \cup {d}
      /\ Turn(a, AfterRemoving(r))
      /\ UNCHANGED <<queue, archive, review, halted, counted, torn, unread, rare>>

\* Flawed: looks for the pages that had not deferred.
DeferredFlawed(gone) ==
  {d \in DOMAIN docs : /\ Present(d) /\ ~docs[d].quarantined
                      /\ \E r \in rows[d] : r.billable /\ r.text \in gone}

\* The documents with a page that had deferred to a removed one are read again.
Deferred(gone) ==
  {d \in DOMAIN docs : /\ Present(d) /\ ~docs[d].quarantined
                      /\ \E r \in rows[d] : ~r.billable /\ r.text \in gone}

ReadAgain(a) ==
  LET again == Deferred(actor[a].gone)
  IN  /\ Is(a, "reread")
      /\ \/ Queued(SetToBag({Job(d) : d \in again})) /\ UNCHANGED <<unread, rare>>
         \/ /\ again # {} /\ rare < MaxRare /\ rare' = rare + 1
            /\ unread' = unread \cup again /\ UNCHANGED queue
      /\ Turn(a, Resting)
      /\ UNCHANGED <<record, archive, review, halted, counted, torn, pulled>>

\* What a request leaves undone when it ends half way: the count, and the re-reads of
\* what it had already removed.
Abandoned(a) ==
  /\ unread' = unread \cup Deferred(actor[a].gone)
  /\ stale' = (stale \/ meter # Ledger)
  /\ Turn(a, Resting)

RequestDies(a) ==
  /\ a \in Requests /\ ~Is(a, "idle")
  /\ rare < MaxRare /\ rare' = rare + 1
  /\ Abandoned(a)
  /\ UNCHANGED <<record, queue, archive, review, halted, meter, torn, pulled>>

\* The document cannot be deleted: a reading committed pages of it meanwhile.
RemoveThrows(a, d) ==
  /\ Is(a, "remove") /\ d \in actor[a].ids /\ ~Refused(d)
  /\ Committing(d) # {}
  /\ Abandoned(a)
  /\ UNCHANGED <<record, queue, archive, review, halted, meter, torn, pulled, rare>>

-------------------------------------------------------------------------------
(* The review, as far as the record sees it (AnalysisPipeline has its steps) *)

Freeze ==
  /\ phase = "collecting" /\ rare < MaxRare
  /\ phase' = "analysing" /\ rare' = rare + 1
  /\ frozen' = {d \in DOMAIN docs : Present(d) /\ Texts(Billable(rows[d])) # {}}
  /\ frozen' # {}
  /\ UNCHANGED <<record, queue, archive, actor, cited, halted, counted, ghosts>>

Cite(C) ==
  /\ phase = "analysing" /\ C \subseteq frozen
  /\ phase' = "reviewed" /\ cited' = cited \cup C /\ frozen' = {}
  /\ UNCHANGED <<record, queue, archive, actor, halted, counted, ghosts, rare>>

\* A paid re-run collects documents again.
CollectAgain ==
  /\ phase = "reviewed"
  /\ phase' = "collecting"
  /\ UNCHANGED <<record, queue, archive, actor, frozen, cited, halted, counted, ghosts, rare>>

-------------------------------------------------------------------------------
IngestInit ==
  /\ docs = <<>> /\ rows = <<>> /\ ticks = [i \in Items |-> "NEEDED"]
  /\ queue = EmptyBag /\ archive = [state |-> "none", left |-> Attempts]
  /\ actor = [a \in Actors |-> Resting]
  /\ phase = "collecting" /\ frozen = {} /\ cited = {} /\ halted = FALSE
  /\ meter = [k \in Kinds |-> 0] /\ stale = FALSE
  /\ torn = {} /\ pulled = {} /\ unread = {} /\ rare = 0

Reading(a) ==
  \/ \E j \in BagToSet(queue) : Take(a, j)
  \/ LookForDuplicates(a) \/ DigitizeCommit(a) \/ DigitizeThrows(a)
  \/ MeterRead(a) \/ MeterWrite(a)

Family(a) ==
  \/ \E f \in Files : UploadFile(a, f)
  \/ \E D \in SUBSET DOMAIN docs : Remove(a, D)
  \/ \E d \in DOMAIN docs : RemoveOne(a, d) \/ RemoveThrows(a, d)
  \/ ReadAgain(a) \/ RequestDies(a)

IngestNext ==
  \/ \E a \in Readers : Reading(a) \/ ReaderFails(a)
  \/ \E a \in Requests : Family(a)
  \/ \E a \in Actors : MeterRead(a) \/ MeterWrite(a) \/ MeterFails(a)
  \/ WorkerDies
  \/ Unzip \/ UnzipEntry \/ Unzipped \/ UnzipDies
  \/ \E d \in DOMAIN docs : Confirm(d) \/ \E i \in Items : Correct(d, i)
  \/ \E d \in DOMAIN docs, k \in Labels : SetVolume(d, k)
  \/ Freeze \/ (\E C \in SUBSET frozen : Cite(C)) \/ CollectAgain

IngestSpec == IngestInit /\ [][IngestNext]_ingestVars

-------------------------------------------------------------------------------
(* Correctness                                                             *)

\* A reading of d, or of whatever deferred to a page with text t, is still to come.
Rereads(d, t) ==
  \/ \E j \in BagToSet(queue) : j.doc = d
  \/ \E a \in Readers : actor[a].pc \in {"read", "commit"} /\ actor[a].job.doc = d
  \/ \E a \in Requests : "gone" \in DOMAIN actor[a] /\ t \in actor[a].gone

\* The record keeps every text it has read (document-removal.service): a duplicate page
\* has its original in some document, or the document is about to be read again. Only a
\* reading that overlapped the loss of the original, or a re-read nobody queued, loses a text.
DuplicateHasOriginal ==
  \A d \in DOMAIN docs : \A r \in rows[d] :
    ~r.billable => \/ r.text \in Texts(UNION {Billable(rows[e]) : e \in DOMAIN docs})
                   \/ r.text \in torn \/ d \in unread \/ Rereads(d, r.text)

\* The rows a text is billed by.
Billed(t) == UNION {{d} \X {r \in Billable(rows[d]) : r.text = t} : d \in DOMAIN docs}

\* "The page-ledger duplicate detection already prices at zero" a document registered
\* twice (zip-ingest.service): a text is billed once for every reading that can overlap
\* another, never more, however often it is uploaded, unzipped or read again.
BilledByOverlapOnly ==
  \A t \in Texts(UNION {rows[d] : d \in DOMAIN docs}) : Cardinality(Billed(t)) <= Cardinality(Readers)

\* The stored meter agrees with the page ledger, or somebody is about to count. Only a
\* failed count, or one written after a later change, leaves it behind.
MeterCatchesUp ==
  \/ meter = Ledger \/ stale
  \/ \E a \in Actors : actor[a].pc \in {"meter", "write"} \/ (Is(a, "remove") /\ actor[a].removed)

\* "Pulling a document out from under a delivered report would silently drop its
\* findings" (document-removal.service): what a finding cites is there, unless a removal
\* that had checked the case before the analysis started took it during the analysis.
CitedStays == \A d \in cited : Present(d) \/ d \in pulled
================================================================================
