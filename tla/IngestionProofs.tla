--------------------------- MODULE IngestionProofs ---------------------------
(***************************************************************************)
(* The record of a case, for any files, any archive, any number of readers  *)
(* and requests and any order of their steps (Ingestion): what is known of  *)
(* the documents, their pages, the queue and the workers is kept by every   *)
(* step, and the four properties of the record follow from it.              *)
(* And the dates shown (DeadlineClocks), for any calendar of closed days,   *)
(* any docket and any writs: the table of deadlines and the loop over it    *)
(* against the rules read one deadline at a time, and the loop over the     *)
(* writs against the days on which one of them was pending.                 *)
(***************************************************************************)
EXTENDS Ingestion, DeadlineClocks, FiniteSetTheorems, WellFoundedInduction, Integers, TLAPS
-----------------------------------------------------------------------------
(* What is known of the record.                                            *)

FileAt(d) == FileOf[docs[d].file]
DocRows == [file : DOMAIN FileOf, present : BOOLEAN, quarantined : BOOLEAN,
            item : Items \cup {NoItem}, confirmed : BOOLEAN, kind : Kinds]
Jobs == [doc : DOMAIN docs, left : 1 .. Attempts]

\* What an actor is doing. A removal that has texts to look for has removed something.
IsWork(a, w) ==
  \/ w = Resting
  \/ /\ w.pc = "meter" /\ w = [pc |-> "meter", gone |-> w.gone, held |-> w.held]
     /\ w.held \subseteq Jobs
  \/ /\ w.pc = "write" /\ w = [pc |-> "write", count |-> w.count, gone |-> w.gone, held |-> w.held]
     /\ w.held \subseteq Jobs
  \/ w.pc = "reread" /\ w = [pc |-> "reread", gone |-> w.gone]
  \/ /\ w.pc = "read" /\ w = [pc |-> "read", job |-> w.job, halt |-> w.halt]
     /\ a \in Readers /\ w.job \in Jobs
  \/ /\ w.pc = "commit"
     /\ w = [pc |-> "commit", job |-> w.job, halt |-> w.halt, replaced |-> w.replaced, seen |-> w.seen]
     /\ a \in Readers /\ w.job \in Jobs
  \/ /\ w.pc = "remove" /\ w = [pc |-> "remove", ids |-> w.ids, gone |-> w.gone, removed |-> w.removed]
     /\ a \in Requests /\ w.ids \subseteq DOMAIN docs /\ w.removed \in BOOLEAN
     /\ w.gone # {} => w.removed
  \/ w.pc = "unpack" /\ w = [pc |-> "unpack", entry |-> w.entry] /\ a = Unpacker /\ w.entry \in Nat \ {0}

IngestTypes ==
  /\ docs \in Seq(DocRows)
  /\ Len(rows) = Len(docs) /\ \E S : rows \in Seq(S)
  /\ IsABag(queue) /\ BagToSet(queue) \subseteq Jobs
  /\ actor = [a \in Actors |-> actor[a]] /\ \A a \in Actors : IsWork(a, actor[a])
  /\ frozen \subseteq DOMAIN docs /\ cited \subseteq DOMAIN docs

\* Only a document that is there, and was not quarantined, is read, and its rows are its
\* file's pages; a page that defers to another is not blank.
RowsOf(d) ==
  /\ rows[d] # {} => docs[d].present
  /\ docs[d].quarantined => FileAt(d).infected
  /\ FileAt(d).infected => rows[d] = {}
  /\ \A r \in rows[d] :
       /\ ~r.billable => r.text # Blank
       /\ \E i \in DOMAIN FileAt(d).pages : r.text = FileAt(d).pages[i].text
RowsAreRead ==
  /\ \A d \in DOMAIN docs : RowsOf(d)
  /\ \A a \in Readers : actor[a].pc \in {"read", "commit"} => ~FileAt(actor[a].job.doc).infected

\* A transaction that replaces rows replaces all there are, and is the document's only one.
Replacing ==
  \A a \in Readers : actor[a].pc = "commit" /\ actor[a].replaced # {} =>
    actor[a].replaced = rows[actor[a].job.doc] /\ Committing(actor[a].job.doc) = {a}

\* The transactions that will add a row the text is billed by: it was nowhere when they
\* looked. Together with the rows there are they are no more than there are readers.
WillBill(t) ==
  {a \in Readers : /\ actor[a].pc = "commit" /\ t \notin actor[a].seen
                   /\ \A r \in Billable(actor[a].replaced) : r.text # t}
OverlapBound ==
  \A t : t # Blank =>
    /\ IsFiniteSet(Billed(t))
    /\ Cardinality(Billed(t)) + Cardinality(WillBill(t)) <= Cardinality(Readers)

\* The documents an analysis reads are there, or were pulled from under it.
FrozenStays ==
  /\ phase # "analysing" => frozen = {}
  /\ \A d \in frozen : Present(d) \/ d \in pulled

IngestInv ==
  /\ IngestTypes /\ RowsAreRead /\ Replacing /\ OverlapBound /\ FrozenStays
  /\ DuplicateHasOriginal /\ MeterCatchesUp /\ CitedStays
-----------------------------------------------------------------------------
(* The queue.                                                              *)

LEMMA BagSum ==
  ASSUME NEW A, NEW B, IsABag(A), IsABag(B)
  PROVE  IsABag(A (+) B) /\ BagToSet(A (+) B) = BagToSet(A) \cup BagToSet(B)
BY DEF IsABag, (+), BagToSet

LEMMA SetIsBag ==
  ASSUME NEW S
  PROVE  IsABag(SetToBag(S)) /\ BagToSet(SetToBag(S)) = S
BY DEF IsABag, SetToBag, BagToSet

LEMMA BagLess ==
  ASSUME NEW B, IsABag(B), NEW j
  PROVE  /\ IsABag(B (-) SetToBag({j}))
         /\ BagToSet(B (-) SetToBag({j})) \subseteq BagToSet(B)
         /\ BagToSet(B) \ {j} \subseteq BagToSet(B (-) SetToBag({j}))
BY DEF IsABag, (-), BagToSet, SetToBag

\* A job that throws leaves its next attempt in the queue, or its document unread.
LEMMA RetryIsBag ==
  ASSUME NEW j, j \in Jobs
  PROVE  /\ IsABag(Retry(j)) /\ BagToSet(Retry(j)) \subseteq Jobs
         /\ j.doc \in GaveUp(j) \/ \E k \in BagToSet(Retry(j)) : k.doc = j.doc
<1>1. CASE j.left > 1
  <2>1. PICK k : k = [j EXCEPT !.left = j.left - 1]
    OBVIOUS
  <2>2. Attempts \in Nat
    BY IngestionAssumption DEF IngestionAssumption
  <2>3. k = [doc |-> j.doc, left |-> j.left - 1]
    BY <2>1 DEF Jobs
  <2>4. k \in Jobs /\ k.doc = j.doc
    BY <1>1, <2>2, <2>3 DEF Jobs
  <2>5. Retry(j) = SetToBag({k})
    BY <1>1, <2>1 DEF Retry
  <2> QED BY <2>4, <2>5, SetIsBag
<1>2. CASE ~(j.left > 1)
  BY <1>2, SetIsBag DEF Retry, GaveUp, EmptyBag
<1> QED BY <1>1, <1>2
-----------------------------------------------------------------------------
(* Frames.                                                                 *)

\* Documents may be added, and the rest of them keep what their rows depend on; one that is
\* quarantined has none.
RecordStands ==
  /\ DOMAIN docs \subseteq DOMAIN docs'
  /\ \A d \in DOMAIN docs :
       /\ docs'[d].file = docs[d].file /\ docs'[d].present = docs[d].present
       /\ docs'[d].quarantined = docs[d].quarantined \/ FileAt(d).infected
       /\ rows'[d] = rows[d]
  /\ \A d \in DOMAIN docs' \ DOMAIN docs : rows'[d] = {} /\ ~docs'[d].quarantined
\* No reader begins or goes on.
ReadersRest == \A a \in Readers : actor'[a] = actor[a] \/ actor'[a].pc \notin {"read", "commit"}

LEMMA WorkGrows ==
  ASSUME DOMAIN docs \subseteq DOMAIN docs', NEW a, NEW w, IsWork(a, w)
  PROVE  IsWork(a, w)'
<1>1. Jobs \subseteq Jobs'
  BY DEF Jobs
<1> QED BY <1>1 DEF IsWork

LEMMA ReaderJob ==
  ASSUME IngestTypes, NEW a \in Readers, actor[a].pc \in {"read", "commit"}
  PROVE  actor[a].job \in Jobs /\ actor[a].job.doc \in DOMAIN docs
<1>1. IsWork(a, actor[a])
  BY DEF IngestTypes, Actors
<1>2. actor[a].job \in Jobs
  BY <1>1 DEF IsWork, Resting
<1> QED BY <1>2 DEF Jobs

LEMMA StandingRows ==
  ASSUME IngestTypes, RowsAreRead, RecordStands, ReadersRest
  PROVE  RowsAreRead'
<1>1. ASSUME NEW d \in DOMAIN docs' PROVE RowsOf(d)'
  BY <1>1 DEF RowsAreRead, RecordStands, RowsOf, FileAt
<1>2. ASSUME NEW a \in Readers, actor'[a].pc \in {"read", "commit"}
      PROVE  ~FileAt(actor[a].job.doc)'.infected
  <2>1. actor'[a] = actor[a]
    BY <1>2 DEF ReadersRest
  <2>2. actor[a].job.doc \in DOMAIN docs
    BY <1>2, <2>1, ReaderJob
  <2> QED BY <1>2, <2>1, <2>2 DEF RowsAreRead, RecordStands, FileAt
<1> QED BY <1>1, <1>2 DEF RowsAreRead, FileAt, ReadersRest

LEMMA StandingReplacing ==
  ASSUME IngestTypes, Replacing, RecordStands, ReadersRest
  PROVE  Replacing'
<1> SUFFICES ASSUME NEW a \in Readers, actor'[a].pc = "commit", actor'[a].replaced # {}
             PROVE  (actor[a].replaced = rows[actor[a].job.doc] /\ Committing(actor[a].job.doc) = {a})'
  BY DEF Replacing
<1>1. PICK d : d = actor[a].job.doc
  OBVIOUS
<1>2. actor'[a] = actor[a]
  BY DEF ReadersRest
<1>3. d \in DOMAIN docs
  BY <1>1, <1>2, ReaderJob
<1>4. actor[a].replaced = rows[d] /\ Committing(d) = {a}
  BY <1>1, <1>2 DEF Replacing
<1>5. Committing(d)' \subseteq Committing(d)
  BY DEF Committing, Is, ReadersRest
<1>6. a \in Committing(d)'
  BY <1>1, <1>2 DEF Committing, Is
<1>7. Committing(d)' = {a}
  BY <1>4, <1>5, <1>6
<1>8. rows'[d] = rows[d]
  BY <1>3 DEF RecordStands
<1>9. Committing(actor[a].job.doc)' = {a}
  BY <1>1, <1>2, <1>7
<1> QED BY <1>1, <1>2, <1>4, <1>8, <1>9

LEMMA StandingBilled ==
  ASSUME IngestTypes, RecordStands
  PROVE  \A t : Billed(t)' = Billed(t)
<1> TAKE t
<1>1. \A d \in DOMAIN docs' \ DOMAIN docs : {r \in Billable(rows'[d]) : r.text = t} = {}
  BY DEF RecordStands, Billable
<1>2. \A d \in DOMAIN docs : rows'[d] = rows[d] /\ d \in DOMAIN docs'
  BY DEF RecordStands
<1> QED BY <1>1, <1>2 DEF Billed

\* What is counted is finite, and a subset of it no more.
LEMMA FewerReaders ==
  ASSUME NEW A, NEW B, A \subseteq B, B \subseteq Readers
  PROVE  /\ IsFiniteSet(A) /\ IsFiniteSet(B) /\ Cardinality(A) \in Nat /\ Cardinality(B) \in Nat
         /\ Cardinality(A) <= Cardinality(B) /\ Cardinality(B) <= Cardinality(Readers)
         /\ Cardinality(Readers) \in Nat
BY FS_Subset, FS_CardinalityType, IngestionAssumption DEF IngestionAssumption

LEMMA BoundKept ==
  ASSUME OverlapBound,
         \A t : t # Blank => Billed(t)' \subseteq Billed(t) /\ WillBill(t)' \subseteq WillBill(t)
  PROVE  OverlapBound'
<1> SUFFICES ASSUME NEW t, t # Blank
             PROVE  /\ IsFiniteSet(Billed(t)')
                    /\ Cardinality(Billed(t)') + Cardinality(WillBill(t)') <= Cardinality(Readers)
  BY DEF OverlapBound
<1>1. /\ IsFiniteSet(Billed(t))
      /\ Cardinality(Billed(t)) + Cardinality(WillBill(t)) <= Cardinality(Readers)
  BY DEF OverlapBound
<1>2. /\ IsFiniteSet(Billed(t)') /\ Cardinality(Billed(t)') <= Cardinality(Billed(t))
      /\ Cardinality(Billed(t)') \in Nat /\ Cardinality(Billed(t)) \in Nat
  BY <1>1, FS_Subset, FS_CardinalityType
<1>3. WillBill(t) \subseteq Readers
  BY DEF WillBill
<1>4. /\ Cardinality(WillBill(t)') <= Cardinality(WillBill(t))
      /\ Cardinality(WillBill(t)') \in Nat /\ Cardinality(WillBill(t)) \in Nat /\ Cardinality(Readers) \in Nat
  BY <1>3, FewerReaders
<1> QED BY <1>1, <1>2, <1>4

LEMMA StandingBound ==
  ASSUME IngestTypes, OverlapBound, RecordStands, ReadersRest
  PROVE  OverlapBound'
<1>1. \A t : WillBill(t)' \subseteq WillBill(t)
  BY DEF WillBill, ReadersRest
<1> QED BY <1>1, StandingBilled, BoundKept

\* The page ledger counts the rows and the kinds of the documents.
LEMMA LedgerStands ==
  ASSUME IngestTypes, RowsAreRead, RecordStands, \A d \in DOMAIN docs : docs'[d].kind = docs[d].kind
  PROVE  Ledger' = Ledger
<1> DEFINE Pages(k) == UNION {{d} \X Billable(rows[d]) :
                          d \in {e \in DOMAIN docs : docs[e].present /\ ~docs[e].quarantined /\ docs[e].kind = k}}
<1>1. ASSUME NEW k PROVE Pages(k)' = Pages(k)
  <2>1. \A d \in DOMAIN docs' \ DOMAIN docs : Billable(rows'[d]) = {}
    BY DEF RecordStands, Billable
  <2>2. \A d \in DOMAIN docs :
          /\ d \in DOMAIN docs' /\ rows'[d] = rows[d] /\ docs'[d].present = docs[d].present
          /\ docs'[d].kind = docs[d].kind
          /\ docs'[d].quarantined = docs[d].quarantined \/ Billable(rows[d]) = {}
    BY DEF RecordStands, RowsAreRead, RowsOf, Billable
  <2> QED BY <2>1, <2>2
<1>2. Ledger = [k \in Kinds |-> Cardinality(Pages(k))]
  BY DEF Ledger, LedgerOf
<1>3. Ledger' = [k \in Kinds |-> Cardinality(Pages(k)')]
  BY DEF Ledger, LedgerOf
<1> HIDE DEF Pages
<1> QED BY <1>1, <1>2, <1>3

\* The texts some document is billed for, and so holds.
Kept == Texts(UNION {Billable(rows[e]) : e \in DOMAIN docs})

\* No reading that is still to come is forgotten: jobs stay queued, a reader goes on, or
\* leaves the next attempt, or the document unread; a request keeps what it has to look for.
QueueStands == BagToSet(queue) \subseteq BagToSet(queue')
ReaderGoesOn(a) ==
  \/ actor'[a].pc \in {"read", "commit"} /\ actor'[a].job.doc = actor[a].job.doc
  \/ actor[a].job.doc \in unread'
  \/ \E j \in BagToSet(queue') : j.doc = actor[a].job.doc
ReadersGoOn == \A a \in Readers : actor[a].pc \in {"read", "commit"} => ReaderGoesOn(a)
GoneStays ==
  \A a \in Requests : "gone" \in DOMAIN actor[a] /\ actor[a].gone # {} =>
    "gone" \in DOMAIN actor'[a] /\ actor[a].gone \subseteq actor'[a].gone

LEMMA RereadsStand ==
  ASSUME QueueStands, ReadersGoOn, GoneStays, NEW d, NEW t, Rereads(d, t)
  PROVE  Rereads(d, t)' \/ d \in unread'
<1>1. CASE \E j \in BagToSet(queue) : j.doc = d
  BY <1>1 DEF QueueStands, Rereads
<1>2. CASE \E a \in Readers : actor[a].pc \in {"read", "commit"} /\ actor[a].job.doc = d
  BY <1>2 DEF ReadersGoOn, ReaderGoesOn, Rereads
<1>3. CASE \E a \in Requests : "gone" \in DOMAIN actor[a] /\ t \in actor[a].gone
  BY <1>3 DEF GoneStays, Rereads
<1> QED BY <1>1, <1>2, <1>3 DEF Rereads

LEMMA StandingKept == ASSUME RecordStands PROVE Kept \subseteq Kept'
BY DEF Kept, RecordStands, Texts, Billable

LEMMA StandingOriginals ==
  ASSUME IngestTypes, DuplicateHasOriginal, RecordStands, torn \subseteq torn', unread \subseteq unread',
         \A d \in DOMAIN docs : \A r \in rows[d] :
           ~r.billable /\ Rereads(d, r.text) => Rereads(d, r.text)' \/ d \in unread'
  PROVE  DuplicateHasOriginal'
<1> SUFFICES ASSUME NEW d \in DOMAIN docs', NEW r \in rows'[d], ~r.billable
             PROVE  r.text \in Kept' \/ r.text \in torn' \/ d \in unread' \/ Rereads(d, r.text)'
  BY DEF DuplicateHasOriginal, Kept
<1>1. d \in DOMAIN docs /\ rows'[d] = rows[d]
  BY DEF RecordStands
<1>2. r.text \in Kept \/ r.text \in torn \/ d \in unread \/ Rereads(d, r.text)
  BY <1>1 DEF DuplicateHasOriginal, Kept
<1> QED BY <1>1, <1>2, StandingKept

\* Somebody is about to count.
Counting(a) == actor[a].pc \in {"meter", "write"} \/ (actor[a].pc = "remove" /\ actor[a].removed)
LEMMA MeterStands ==
  ASSUME MeterCatchesUp, UNCHANGED counted, Ledger' = Ledger, \A a \in Actors : Counting(a) => Counting(a)'
  PROVE  MeterCatchesUp'
BY DEF MeterCatchesUp, counted, Counting, Is

LEMMA CitedStand ==
  ASSUME FrozenStays, CitedStays, UNCHANGED review, pulled \subseteq pulled', RecordStands
  PROVE  FrozenStays' /\ CitedStays'
BY DEF FrozenStays, CitedStays, review, RecordStands, Present

\* A step that leaves the record standing and forgets nothing keeps all that is known.
LEMMA Frame ==
  ASSUME IngestInv, IngestTypes', RecordStands, ReadersRest, QueueStands, ReadersGoOn, GoneStays,
         torn \subseteq torn', unread \subseteq unread', pulled \subseteq pulled', UNCHANGED review, MeterCatchesUp'
  PROVE  IngestInv'
<1>1. RowsAreRead' /\ Replacing' /\ OverlapBound'
  BY StandingRows, StandingReplacing, StandingBound DEF IngestInv
<1>2. FrozenStays' /\ CitedStays'
  BY CitedStand DEF IngestInv
<1>3. DuplicateHasOriginal'
  BY RereadsStand, StandingOriginals DEF IngestInv
<1> QED BY <1>1, <1>2, <1>3 DEF IngestInv

\* One actor moves on.
LEMMA TypesStand ==
  ASSUME IngestTypes, docs' \in Seq(DocRows), DOMAIN docs \subseteq DOMAIN docs',
         Len(rows') = Len(docs'), \E S : rows' \in Seq(S),
         IsABag(queue'), BagToSet(queue') \subseteq Jobs',
         NEW a \in Actors, NEW w, actor' = [actor EXCEPT ![a] = w], IsWork(a, w)',
         UNCHANGED review
  PROVE  IngestTypes'
<1>1. \A b \in Actors : IsWork(b, actor[b])'
  <2> SUFFICES ASSUME NEW b \in Actors PROVE IsWork(b, actor[b])'
    OBVIOUS
  <2>1. CASE b = a
    BY <2>1 DEF IngestTypes
  <2>2. CASE b # a
    <3>1. PICK v : v = actor[b]
      OBVIOUS
    <3>2. IsWork(b, v) /\ actor'[b] = v
      BY <2>2, <3>1 DEF IngestTypes
    <3> QED BY <3>2, WorkGrows
  <2> QED BY <2>1, <2>2
<1>2. actor' = [b \in Actors |-> actor'[b]]
  BY DEF IngestTypes
<1> QED BY <1>1, <1>2 DEF IngestTypes, review

LEMMA MoreJobs ==
  ASSUME IngestTypes, NEW B, IsABag(B), BagToSet(B) \subseteq Jobs', DOMAIN docs \subseteq DOMAIN docs', Queued(B)
  PROVE  IsABag(queue') /\ BagToSet(queue') \subseteq Jobs' /\ QueueStands /\ BagToSet(B) \subseteq BagToSet(queue')
<1>1. Jobs \subseteq Jobs'
  BY DEF Jobs
<1> QED BY <1>1, BagSum DEF IngestTypes, Queued, QueueStands

\* A step of one actor, neither to a reading nor from one it forgets, that leaves the record
\* standing, forgets no text to look for, and has the pages counted or no need of it.
LEMMA ActorSteps ==
  ASSUME IngestInv, docs' \in Seq(DocRows), Len(rows') = Len(docs'), \E S : rows' \in Seq(S), RecordStands,
         IsABag(queue'), BagToSet(queue') \subseteq Jobs', QueueStands,
         NEW a \in Actors, NEW w, actor' = [actor EXCEPT ![a] = w], IsWork(a, w)', w.pc \notin {"read", "commit"},
         a \in Readers /\ actor[a].pc \in {"read", "commit"} =>
           actor[a].job.doc \in unread' \/ \E j \in BagToSet(queue') : j.doc = actor[a].job.doc,
         a \in Requests /\ "gone" \in DOMAIN actor[a] /\ actor[a].gone # {} =>
           "gone" \in DOMAIN w /\ actor[a].gone \subseteq w.gone,
         UNCHANGED review, torn \subseteq torn', unread \subseteq unread', pulled \subseteq pulled',
         \/ /\ UNCHANGED counted /\ (Counting(a) => w.pc \in {"meter", "write"})
            /\ \A d \in DOMAIN docs : docs'[d].kind = docs[d].kind
         \/ stale' \/ meter' = Ledger' \/ w.pc \in {"meter", "write"} \/ (w.pc = "remove" /\ w.removed)
  PROVE  IngestInv'
<1>1. /\ actor'[a] = w /\ \A b \in Actors : b # a => actor'[b] = actor[b]
      /\ Readers \subseteq Actors /\ Requests \subseteq Actors
  BY DEF IngestInv, IngestTypes, Actors
<1>2. IngestTypes'
  BY TypesStand DEF IngestInv, RecordStands
<1>3. ReadersRest
  BY <1>1 DEF ReadersRest
<1>4. ReadersGoOn
  BY <1>1 DEF ReadersGoOn, ReaderGoesOn
<1>5. GoneStays
  BY <1>1 DEF GoneStays
<1>6. MeterCatchesUp'
  <2>1. CASE /\ UNCHANGED counted /\ (Counting(a) => w.pc \in {"meter", "write"})
             /\ \A d \in DOMAIN docs : docs'[d].kind = docs[d].kind
    <3>1. \A b \in Actors : Counting(b) => Counting(b)'
      BY <1>1, <2>1 DEF Counting
    <3>2. Ledger' = Ledger
      BY <2>1, LedgerStands DEF IngestInv
    <3> QED BY <2>1, <3>1, <3>2, MeterStands DEF IngestInv
  <2>2. CASE stale' \/ meter' = Ledger' \/ w.pc \in {"meter", "write"} \/ (w.pc = "remove" /\ w.removed)
    BY <1>1, <2>2 DEF MeterCatchesUp, Is
  <2> QED BY <2>1, <2>2
<1> QED BY <1>2, <1>3, <1>4, <1>5, <1>6, Frame

\* The same for a step that leaves documents and rows as they are.
LEMMA AloneSteps ==
  ASSUME IngestInv, UNCHANGED <<docs, rows, review>>,
         IsABag(queue'), BagToSet(queue') \subseteq Jobs, QueueStands,
         NEW a \in Actors, NEW w, actor' = [actor EXCEPT ![a] = w], IsWork(a, w), w.pc \notin {"read", "commit"},
         a \in Readers /\ actor[a].pc \in {"read", "commit"} =>
           actor[a].job.doc \in unread' \/ \E j \in BagToSet(queue') : j.doc = actor[a].job.doc,
         a \in Requests /\ "gone" \in DOMAIN actor[a] /\ actor[a].gone # {} =>
           "gone" \in DOMAIN w /\ actor[a].gone \subseteq w.gone,
         torn \subseteq torn', unread \subseteq unread', pulled \subseteq pulled',
         \/ UNCHANGED counted /\ (Counting(a) => w.pc \in {"meter", "write"})
         \/ stale' \/ meter' = Ledger' \/ w.pc \in {"meter", "write"} \/ (w.pc = "remove" /\ w.removed)
  PROVE  IngestInv'
<1>1. docs' \in Seq(DocRows) /\ Len(rows') = Len(docs') /\ \E S : rows' \in Seq(S)
  BY DEF IngestInv, IngestTypes
<1>2. RecordStands /\ \A d \in DOMAIN docs : docs'[d].kind = docs[d].kind
  BY DEF RecordStands
<1>3. IsWork(a, w)' /\ BagToSet(queue') \subseteq Jobs'
  BY WorkGrows DEF Jobs
<1>4. UNCHANGED review
  OBVIOUS
<1> QED BY <1>1, <1>2, <1>3, <1>4, ActorSteps

LEMMA QueueRests ==
  ASSUME IngestInv, UNCHANGED queue
  PROVE  IsABag(queue') /\ BagToSet(queue') \subseteq Jobs /\ QueueStands
BY DEF IngestInv, IngestTypes, QueueStands

\* What an actor's step says of what it was doing.
LEMMA WorkIs == ASSUME IngestInv, NEW a \in Actors PROVE IsWork(a, actor[a])
BY DEF IngestInv, IngestTypes

LEMMA MeterWork ==
  ASSUME IngestInv, NEW a \in Actors, actor[a].pc \in {"meter", "write"}
  PROVE  actor[a].held \subseteq Jobs /\ "gone" \in DOMAIN actor[a]
<1>1. IsWork(a, actor[a])
  BY WorkIs
<1> QED BY <1>1 DEF IsWork, Resting

LEMMA AfterMeterIsWork ==
  ASSUME NEW a \in Actors
  PROVE  /\ IsWork(a, AfterMeter(a)) /\ AfterMeter(a).pc \in {"idle", "reread"}
         /\ actor[a].gone # {} => "gone" \in DOMAIN AfterMeter(a) /\ AfterMeter(a).gone = actor[a].gone
BY DEF AfterMeter, IsWork, Resting

LEMMA MeterReads == ASSUME IngestInv, NEW a \in Actors, MeterRead(a) PROVE IngestInv'
<1>1. PICK w : w = [pc |-> "write", count |-> Ledger, gone |-> actor[a].gone, held |-> actor[a].held]
  OBVIOUS
<1>2. /\ actor' = [actor EXCEPT ![a] = w] /\ actor[a].pc = "meter"
      /\ UNCHANGED <<docs, rows, review>> /\ UNCHANGED queue /\ UNCHANGED counted
      /\ UNCHANGED <<torn, unread, pulled>>
  BY <1>1 DEF MeterRead, Is, Turn, record, ghosts
<1>3. IsWork(a, w) /\ w.pc = "write" /\ "gone" \in DOMAIN w /\ w.gone = actor[a].gone
  BY <1>1, <1>2, MeterWork DEF IsWork
<1> QED BY <1>2, <1>3, QueueRests, AloneSteps

LEMMA MeterWrites == ASSUME IngestInv, NEW a \in Actors, MeterWrite(a) PROVE IngestInv'
<1>1. PICK w : w = AfterMeter(a)
  OBVIOUS
<1>2. /\ actor' = [actor EXCEPT ![a] = w] /\ actor[a].pc = "write"
      /\ UNCHANGED <<docs, rows, review>> /\ UNCHANGED queue
      /\ UNCHANGED <<torn, unread, pulled>>
      /\ meter' = actor[a].count /\ stale' = (actor[a].count # Ledger)
  BY <1>1 DEF MeterWrite, Is, Turn, record, ghosts
<1>3. Ledger' = Ledger
  BY <1>2 DEF Ledger, LedgerOf
<1>4. stale' \/ meter' = Ledger'
  BY <1>2, <1>3
<1>5. /\ IsWork(a, w) /\ w.pc \in {"idle", "reread"}
      /\ actor[a].gone # {} => "gone" \in DOMAIN w /\ actor[a].gone \subseteq w.gone
  BY <1>1, AfterMeterIsWork
<1> QED BY <1>2, <1>4, <1>5, QueueRests, AloneSteps

LEMMA MeterFailsKeeps == ASSUME IngestInv, NEW a \in Actors, MeterFails(a) PROVE IngestInv'
<1>1. PICK w : w = AfterMeter(a)
  OBVIOUS
<1>2. /\ actor' = [actor EXCEPT ![a] = w] /\ actor[a].pc \in {"meter", "write"}
      /\ UNCHANGED <<docs, rows, review>> /\ UNCHANGED queue
      /\ UNCHANGED <<torn, unread, pulled>> /\ stale'
  BY <1>1 DEF MeterFails, Is, Turn, record, ghosts
<1>3. /\ IsWork(a, w) /\ w.pc \in {"idle", "reread"}
      /\ actor[a].gone # {} => "gone" \in DOMAIN w /\ actor[a].gone \subseteq w.gone
  BY <1>1, AfterMeterIsWork
<1> QED BY <1>2, <1>3, QueueRests, AloneSteps

-----------------------------------------------------------------------------
(* Upload.                                                                 *)

LEMMA RegisterAdds ==
  ASSUME IngestInv, NEW f \in DOMAIN FileOf, Register(f)
  PROVE  /\ docs' \in Seq(DocRows) /\ Len(rows') = Len(docs') /\ \E S : rows' \in Seq(S)
         /\ RecordStands /\ \A d \in DOMAIN docs : docs'[d].kind = docs[d].kind
         /\ IsABag(queue') /\ BagToSet(queue') \subseteq Jobs' /\ QueueStands
         /\ unread \subseteq unread'
<1> DEFINE d == Len(docs) + 1
<1>1. PICK r : r = [file |-> f, present |-> TRUE, quarantined |-> FALSE,
                    item |-> NoItem, confirmed |-> FALSE, kind |-> FileOf[f].volume]
  OBVIOUS
<1>2. r \in DocRows /\ ~r.quarantined
  BY <1>1, IngestionAssumption DEF IngestionAssumption, DocRows
<1>3. PICK S : rows \in Seq(S)
  BY DEF IngestInv, IngestTypes
<1>4. docs \in Seq(DocRows) /\ Len(rows) = Len(docs) /\ Len(docs) \in Nat
  BY DEF IngestInv, IngestTypes
<1>5. docs' = Append(docs, r) /\ rows' = Append(rows, {})
  BY <1>1 DEF Register
<1>6. rows \in Seq(S \cup {{}})
  BY <1>3
<1>7. /\ docs' \in Seq(DocRows) /\ Len(docs') = d
      /\ \A e \in 1 .. Len(docs) : docs'[e] = docs[e] /\ docs'[d] = r
  BY <1>2, <1>4, <1>5
<1>8. /\ rows' \in Seq(S \cup {{}}) /\ Len(rows') = d
      /\ \A e \in 1 .. Len(docs) : rows'[e] = rows[e]
      /\ rows'[d] = {}
  BY <1>4, <1>5, <1>6
<1>9. docs'[d] = r
  BY <1>2, <1>4, <1>5
<1>10. DOMAIN docs = 1 .. Len(docs) /\ DOMAIN docs' = 1 .. d
  BY <1>4, <1>7
<1>11. DOMAIN docs \subseteq DOMAIN docs' /\ DOMAIN docs' \ DOMAIN docs = {d} /\ d \in DOMAIN docs'
  BY <1>4, <1>10
<1>12. RecordStands /\ \A e \in DOMAIN docs : docs'[e].kind = docs[e].kind
  BY <1>2, <1>7, <1>8, <1>9, <1>10, <1>11 DEF RecordStands
<1>13. IsABag(queue') /\ BagToSet(queue') \subseteq Jobs' /\ QueueStands /\ unread \subseteq unread'
  <2>1. CASE Queued(SetToBag({Job(d)})) /\ UNCHANGED unread
    <3>1. Job(d) \in Jobs'
      BY <1>11, IngestionAssumption DEF IngestionAssumption, Jobs, Job
    <3> QED BY <1>11, <2>1, <3>1, SetIsBag, MoreJobs DEF IngestInv
  <2>2. CASE UNCHANGED queue /\ unread' = unread \cup {d}
    <3>1. Jobs \subseteq Jobs'
      BY <1>11 DEF Jobs
    <3> QED BY <2>2, <3>1, QueueRests
  <2> QED BY <2>1, <2>2 DEF Register
<1> QED BY <1>7, <1>8, <1>12, <1>13

LEMMA Recounts ==
  ASSUME NEW a, NEW gone, NEW held, held \subseteq Jobs
  PROVE  /\ IsWork(a, Recount(gone, held)) /\ Recount(gone, held).pc = "meter"
         /\ "gone" \in DOMAIN Recount(gone, held) /\ Recount(gone, held).gone = gone
BY DEF Recount, IsWork

LEMMA Uploads ==
  ASSUME IngestInv, NEW a \in Requests, NEW f \in Files, UploadFile(a, f)
  PROVE  IngestInv'
<1>1. PICK w : w = Recount({}, {})
  OBVIOUS
<1>2. /\ actor' = [actor EXCEPT ![a] = w] /\ actor[a].pc = "idle" /\ Register(f)
      /\ UNCHANGED review /\ UNCHANGED <<torn, pulled>>
  BY <1>1 DEF UploadFile, Is, Turn
<1>3. a \in Actors /\ f \in DOMAIN FileOf /\ a \notin Readers
  BY IngestionAssumption DEF IngestionAssumption, Actors
<1>4. /\ docs' \in Seq(DocRows) /\ Len(rows') = Len(docs') /\ \E S : rows' \in Seq(S)
      /\ RecordStands /\ \A d \in DOMAIN docs : docs'[d].kind = docs[d].kind
      /\ IsABag(queue') /\ BagToSet(queue') \subseteq Jobs' /\ QueueStands
      /\ unread \subseteq unread'
  BY <1>2, <1>3, RegisterAdds
<1>5. IsWork(a, w)' /\ w.pc = "meter"
  BY <1>1, <1>4, Recounts, WorkGrows DEF RecordStands
<1>6. IsWork(a, actor[a])
  BY <1>3, WorkIs
<1>7. ~("gone" \in DOMAIN actor[a] /\ actor[a].gone # {})
  BY <1>2, <1>6 DEF IsWork, Resting
<1> QED BY <1>2, <1>3, <1>4, <1>5, <1>7, ActorSteps

LEMMA UnpackerIsNoOther == Unpacker \in Actors /\ Unpacker \notin Readers /\ Unpacker \notin Requests
BY IngestionAssumption DEF IngestionAssumption, Actors

LEMMA UnzipKeeps == ASSUME IngestInv, Unzip PROVE IngestInv'
<1>1. PICK w : w = [pc |-> "unpack", entry |-> 1]
  OBVIOUS
<1>2. /\ actor' = [actor EXCEPT ![Unpacker] = w] /\ actor[Unpacker].pc = "idle"
      /\ UNCHANGED <<docs, rows, review>> /\ UNCHANGED queue /\ UNCHANGED counted
      /\ UNCHANGED <<torn, unread, pulled>>
  BY <1>1 DEF Unzip, Is, Turn, record, ghosts
<1>3. IsWork(Unpacker, w) /\ w.pc = "unpack" /\ ~Counting(Unpacker)
  BY <1>1, <1>2 DEF IsWork, Counting
<1> QED BY <1>2, <1>3, QueueRests, UnpackerIsNoOther, AloneSteps

LEMMA UnzipEntryKeeps == ASSUME IngestInv, UnzipEntry PROVE IngestInv'
<1>1. PICK n : n = actor[Unpacker].entry
  OBVIOUS
<1>2. IsWork(Unpacker, actor[Unpacker]) /\ actor[Unpacker].pc = "unpack"
  BY UnpackerIsNoOther, WorkIs DEF UnzipEntry, Is
<1>3. PICK v : v = actor[Unpacker]
  OBVIOUS
<1>4. v = [pc |-> "unpack", entry |-> n] /\ n \in Nat \ {0}
  BY <1>1, <1>2, <1>3 DEF IsWork, Resting
<1>5. PICK w : w = [v EXCEPT !.entry = n + 1]
  OBVIOUS
<1>6. w = [pc |-> "unpack", entry |-> n + 1]
  BY <1>4, <1>5
<1>7. /\ actor' = [actor EXCEPT ![Unpacker] = w] /\ Register(Archive[n]) /\ n <= Len(Archive)
      /\ UNCHANGED review /\ UNCHANGED counted /\ UNCHANGED <<torn, pulled>>
  BY <1>1, <1>3, <1>5 DEF UnzipEntry, Turn
<1>8. Archive[n] \in DOMAIN FileOf
  BY <1>4, <1>7, IngestionAssumption DEF IngestionAssumption
<1>9. /\ docs' \in Seq(DocRows) /\ Len(rows') = Len(docs') /\ \E S : rows' \in Seq(S)
      /\ RecordStands /\ \A d \in DOMAIN docs : docs'[d].kind = docs[d].kind
      /\ IsABag(queue') /\ BagToSet(queue') \subseteq Jobs' /\ QueueStands
      /\ unread \subseteq unread'
  BY <1>7, <1>8, RegisterAdds
<1>10. IsWork(Unpacker, w)' /\ w.pc = "unpack"
  BY <1>4, <1>6 DEF IsWork
<1>11. ~Counting(Unpacker)
  BY <1>2 DEF Counting
<1> QED BY <1>7, <1>9, <1>10, <1>11, UnpackerIsNoOther, ActorSteps

LEMMA UnzippedKeeps == ASSUME IngestInv, Unzipped PROVE IngestInv'
<1>1. PICK w : w = Recount({}, {})
  OBVIOUS
<1>2. /\ actor' = [actor EXCEPT ![Unpacker] = w]
      /\ UNCHANGED <<docs, rows, review>> /\ UNCHANGED queue /\ UNCHANGED counted
      /\ UNCHANGED <<torn, unread, pulled>>
  BY <1>1 DEF Unzipped, Turn, record, ghosts
<1>3. IsWork(Unpacker, w) /\ w.pc = "meter"
  BY <1>1, Recounts
<1> QED BY <1>2, <1>3, QueueRests, UnpackerIsNoOther, AloneSteps

LEMMA UnzipDeathKeeps == ASSUME IngestInv, UnzipDies PROVE IngestInv'
<1>1. PICK w : w = Resting
  OBVIOUS
<1>2. /\ actor' = [actor EXCEPT ![Unpacker] = w]
      /\ UNCHANGED <<docs, rows, review>> /\ UNCHANGED queue
      /\ UNCHANGED <<torn, unread, pulled>>
      /\ stale' = (stale \/ meter # Ledger) /\ meter' = meter
  BY <1>1 DEF UnzipDies, Turn, record, ghosts
<1>3. IsWork(Unpacker, w) /\ w.pc = "idle"
  BY <1>1 DEF IsWork, Resting
<1>4. Ledger' = Ledger
  BY <1>2 DEF Ledger, LedgerOf
<1>5. stale' \/ meter' = Ledger'
  BY <1>2, <1>4
<1> QED BY <1>2, <1>3, <1>5, QueueRests, UnpackerIsNoOther, AloneSteps

-----------------------------------------------------------------------------
(* The family's word on a file, and the review.                            *)

\* What is said of a file changes neither its pages nor who is at work.
LEMMA FileSteps ==
  ASSUME IngestInv, NEW d \in DOMAIN docs, NEW r \in DocRows, docs' = [docs EXCEPT ![d] = r],
         r.file = docs[d].file, r.present = docs[d].present, r.quarantined = docs[d].quarantined,
         UNCHANGED rows, UNCHANGED queue, UNCHANGED actor, UNCHANGED review, UNCHANGED <<torn, unread, pulled>>,
         (UNCHANGED counted /\ r.kind = docs[d].kind) \/ meter' = Ledger'
  PROVE  IngestInv'
<1>1. docs \in Seq(DocRows) /\ Len(rows) = Len(docs) /\ \E S : rows \in Seq(S)
  BY DEF IngestInv, IngestTypes
<1>2. /\ docs' \in Seq(DocRows) /\ Len(docs') = Len(docs) /\ DOMAIN docs' = DOMAIN docs
      /\ docs'[d] = r /\ \A e \in DOMAIN docs : e # d => docs'[e] = docs[e]
  BY <1>1
<1>3. RecordStands
  BY <1>2 DEF RecordStands
<1>4. IsABag(queue') /\ BagToSet(queue') \subseteq Jobs' /\ QueueStands
  BY <1>2, QueueRests DEF Jobs
<1>5. PICK w : w = actor[Unpacker]
  OBVIOUS
<1>6. IsWork(Unpacker, w)
  BY <1>5, UnpackerIsNoOther, WorkIs
<1>7. IsWork(Unpacker, w)' /\ w.pc \notin {"read", "commit"} /\ ~(w.pc = "remove")
  BY <1>2, <1>6, UnpackerIsNoOther, WorkGrows DEF IsWork, Resting
<1>8. actor' = [actor EXCEPT ![Unpacker] = w]
  BY <1>5 DEF IngestInv, IngestTypes
<1>9. Counting(Unpacker) => w.pc \in {"meter", "write"}
  BY <1>5, <1>7 DEF Counting
<1>10. r.kind = docs[d].kind => \A e \in DOMAIN docs : docs'[e].kind = docs[e].kind
  BY <1>2
<1> QED BY <1>1, <1>2, <1>3, <1>4, <1>7, <1>8, <1>9, <1>10, UnpackerIsNoOther, ActorSteps

LEMMA FileIs ==
  ASSUME IngestInv, NEW d \in DOMAIN docs
  PROVE  docs[d] \in DocRows
BY DEF IngestInv, IngestTypes

LEMMA Confirms == ASSUME IngestInv, NEW d \in DOMAIN docs, Confirm(d) PROVE IngestInv'
<1>1. PICK r : r = [docs[d] EXCEPT !.confirmed = TRUE]
  OBVIOUS
<1>2. /\ r \in DocRows /\ r.file = docs[d].file /\ r.present = docs[d].present
      /\ r.quarantined = docs[d].quarantined /\ r.kind = docs[d].kind
  BY <1>1, FileIs DEF DocRows
<1>3. docs' = [docs EXCEPT ![d] = r]
  BY <1>1 DEF Confirm
<1>4. /\ UNCHANGED rows /\ UNCHANGED queue /\ UNCHANGED actor /\ UNCHANGED review
      /\ UNCHANGED <<torn, unread, pulled>> /\ UNCHANGED counted
  BY DEF Confirm, ghosts
<1> QED BY <1>2, <1>3, <1>4, FileSteps

LEMMA Corrects ==
  ASSUME IngestInv, NEW d \in DOMAIN docs, NEW i \in Items, Correct(d, i)
  PROVE  IngestInv'
<1>1. PICK r : r = [docs[d] EXCEPT !.item = i, !.confirmed = TRUE]
  OBVIOUS
<1>2. /\ r \in DocRows /\ r.file = docs[d].file /\ r.present = docs[d].present
      /\ r.quarantined = docs[d].quarantined /\ r.kind = docs[d].kind
  BY <1>1, FileIs DEF DocRows
<1>3. docs' = [docs EXCEPT ![d] = r]
  BY <1>1 DEF Correct
<1>4. /\ UNCHANGED rows /\ UNCHANGED queue /\ UNCHANGED actor /\ UNCHANGED review
      /\ UNCHANGED <<torn, unread, pulled>> /\ UNCHANGED counted
  BY DEF Correct, ghosts
<1> QED BY <1>2, <1>3, <1>4, FileSteps

LEMMA Labelled ==
  ASSUME IngestInv, NEW d \in DOMAIN docs, NEW k \in Labels, SetVolume(d, k)
  PROVE  IngestInv'
<1>1. PICK r : r = [docs[d] EXCEPT !.kind = k]
  OBVIOUS
<1>2. /\ r \in DocRows /\ r.file = docs[d].file /\ r.present = docs[d].present
      /\ r.quarantined = docs[d].quarantined
  BY <1>1, FileIs, IngestionAssumption DEF IngestionAssumption, DocRows
<1>3. docs' = [docs EXCEPT ![d] = r]
  BY <1>1 DEF SetVolume
<1>4. /\ UNCHANGED rows /\ UNCHANGED queue /\ UNCHANGED actor /\ UNCHANGED review
      /\ UNCHANGED <<torn, unread, pulled>>
  BY DEF SetVolume, ghosts
<1>5. meter' = Ledger'
  BY <1>4 DEF SetVolume, Ledger, LedgerOf
<1> QED BY <1>2, <1>3, <1>4, <1>5, FileSteps

LEMMA ReviewSteps ==
  ASSUME IngestInv, UNCHANGED <<docs, rows, queue, actor, meter, stale, torn, pulled, unread>>,
         FrozenStays', CitedStays', frozen' \subseteq DOMAIN docs, cited' \subseteq DOMAIN docs
  PROVE  IngestInv'
<1>1. IngestTypes'
  <2>1. \A a, w : IsWork(a, w)' <=> IsWork(a, w)
    BY DEF IsWork, Jobs
  <2>2. Jobs' = Jobs
    BY DEF Jobs
  <2> QED BY <2>1, <2>2 DEF IngestInv, IngestTypes, IsWork
<1>2. RowsAreRead'
  BY DEF IngestInv, RowsAreRead, RowsOf, FileAt
<1>3. Replacing'
  BY DEF IngestInv, Replacing, Committing, Is
<1>4. OverlapBound'
  <2>1. \A t : Billed(t)' = Billed(t) /\ WillBill(t)' = WillBill(t)
    BY DEF Billed, WillBill
  <2> QED BY <2>1, BoundKept DEF IngestInv
<1>5. DuplicateHasOriginal'
  BY DEF IngestInv, DuplicateHasOriginal, Rereads
<1>6. MeterCatchesUp'
  BY DEF IngestInv, MeterCatchesUp, Ledger, LedgerOf, Is
<1> QED BY <1>1, <1>2, <1>3, <1>4, <1>5, <1>6 DEF IngestInv

LEMMA Freezes == ASSUME IngestInv, Freeze PROVE IngestInv'
<1>1. /\ UNCHANGED <<docs, rows, queue, actor, meter, stale, torn, pulled, unread>> /\ UNCHANGED cited
      /\ phase' = "analysing" /\ frozen' \subseteq DOMAIN docs /\ \A d \in frozen' : Present(d)
  BY DEF Freeze, record, counted, ghosts
<1>2. FrozenStays' /\ CitedStays' /\ cited' \subseteq DOMAIN docs
  BY <1>1 DEF IngestInv, FrozenStays, CitedStays, Present, IngestTypes
<1> QED BY <1>1, <1>2, ReviewSteps

LEMMA Cites == ASSUME IngestInv, NEW C \in SUBSET frozen, Cite(C) PROVE IngestInv'
<1>1. /\ UNCHANGED <<docs, rows, queue, actor, meter, stale, torn, pulled, unread>>
      /\ cited' = cited \cup C /\ frozen' = {}
  BY DEF Cite, record, counted, ghosts
<1>2. FrozenStays' /\ CitedStays' /\ cited' \subseteq DOMAIN docs /\ frozen' \subseteq DOMAIN docs
  BY <1>1 DEF IngestInv, FrozenStays, CitedStays, Present, IngestTypes
<1> QED BY <1>1, <1>2, ReviewSteps

LEMMA CollectsAgain == ASSUME IngestInv, CollectAgain PROVE IngestInv'
<1>1. /\ UNCHANGED <<docs, rows, queue, actor, meter, stale, torn, pulled, unread>>
      /\ UNCHANGED <<cited, frozen>> /\ phase = "reviewed"
  BY DEF CollectAgain, record, counted, ghosts
<1>2. FrozenStays' /\ CitedStays' /\ cited' \subseteq DOMAIN docs /\ frozen' \subseteq DOMAIN docs
  BY <1>1 DEF IngestInv, FrozenStays, CitedStays, Present, IngestTypes
<1> QED BY <1>1, <1>2, ReviewSteps

-----------------------------------------------------------------------------
(* Readings that fail, and requests.                                       *)

LEMMA Thrown ==
  ASSUME IngestInv, NEW a \in Readers, actor[a].pc \in {"read", "commit"}, Throws(a, actor[a].job),
         UNCHANGED <<docs, rows, review>>, UNCHANGED counted, UNCHANGED <<torn, pulled>>
  PROVE  IngestInv'
<1>1. PICK w : w = Resting
  OBVIOUS
<1>2. PICK j : j = actor[a].job
  OBVIOUS
<1>3. /\ actor' = [actor EXCEPT ![a] = w] /\ Queued(Retry(j)) /\ unread' = unread \cup GaveUp(j)
  BY <1>1, <1>2 DEF Throws, Turn
<1>4. IsWork(a, w) /\ w.pc = "idle" /\ ~Counting(a) /\ a \in Actors /\ a \notin Requests
  BY <1>1, IngestionAssumption DEF IngestionAssumption, IsWork, Resting, Counting, Actors
<1>5. j \in Jobs
  BY <1>2, ReaderJob DEF IngestInv
<1>6. /\ IsABag(Retry(j)) /\ BagToSet(Retry(j)) \subseteq Jobs
      /\ j.doc \in GaveUp(j) \/ \E k \in BagToSet(Retry(j)) : k.doc = j.doc
  BY <1>5, RetryIsBag
<1>7. DOMAIN docs \subseteq DOMAIN docs' /\ Jobs' = Jobs
  BY DEF Jobs
<1>8. IsABag(queue') /\ BagToSet(queue') \subseteq Jobs /\ QueueStands /\ BagToSet(Retry(j)) \subseteq BagToSet(queue')
  BY <1>3, <1>6, <1>7, MoreJobs DEF IngestInv
<1>9. j.doc \in unread' \/ \E k \in BagToSet(queue') : k.doc = j.doc
  BY <1>3, <1>6, <1>8
<1>10. actor[a].job.doc \in unread' \/ \E k \in BagToSet(queue') : k.doc = actor[a].job.doc
  BY <1>2, <1>9
<1>11. unread \subseteq unread' /\ torn \subseteq torn' /\ pulled \subseteq pulled'
  BY <1>3
<1> QED BY <1>3, <1>4, <1>8, <1>10, <1>11, AloneSteps

LEMMA FailuresKeep ==
  ASSUME IngestInv, NEW a \in Readers, ReaderFails(a) \/ DigitizeThrows(a)
  PROVE  IngestInv'
<1>1. /\ actor[a].pc \in {"read", "commit"} /\ Throws(a, actor[a].job) /\ UNCHANGED <<docs, rows, review>>
      /\ UNCHANGED counted /\ UNCHANGED <<torn, pulled>>
  BY DEF ReaderFails, DigitizeThrows, Is, record
<1> QED BY <1>1, Thrown

LEMMA Removes ==
  ASSUME IngestInv, NEW a \in Requests, NEW D \in SUBSET DOMAIN docs, Remove(a, D)
  PROVE  IngestInv'
<1>1. PICK w : w = [pc |-> "remove", ids |-> D, gone |-> {}, removed |-> FALSE]
  OBVIOUS
<1>2. /\ actor' = [actor EXCEPT ![a] = w] /\ actor[a].pc = "idle"
      /\ UNCHANGED <<docs, rows, review>> /\ UNCHANGED queue /\ UNCHANGED counted
      /\ UNCHANGED <<torn, unread, pulled>>
  BY <1>1 DEF Remove, Is, Turn, record, ghosts
<1>3. a \in Actors /\ a \notin Readers
  BY IngestionAssumption DEF IngestionAssumption, Actors
<1>4. IsWork(a, w) /\ w.pc = "remove" /\ ~Counting(a)
  BY <1>1, <1>2 DEF IsWork, Counting
<1>5. IsWork(a, actor[a])
  BY <1>3, WorkIs
<1>6. ~("gone" \in DOMAIN actor[a] /\ actor[a].gone # {})
  BY <1>2, <1>5 DEF IsWork, Resting
<1> QED BY <1>2, <1>3, <1>4, <1>6, QueueRests, AloneSteps

\* A page that defers to a text a request has removed is of a document to be read again.
LEMMA DefersIsDeferred ==
  ASSUME IngestInv, NEW d \in DOMAIN docs, NEW r \in rows[d], ~r.billable, NEW gone, r.text \in gone
  PROVE  d \in Deferred(gone)
<1>1. RowsOf(d)
  BY DEF IngestInv, RowsAreRead
<1>2. docs[d].present /\ ~docs[d].quarantined
  BY <1>1 DEF RowsOf
<1> QED BY <1>2 DEF Deferred, Present

\* A request that ends leaves its texts to be looked for unread, or queued.
LEMMA GoneIsLeft ==
  ASSUME IngestInv, UNCHANGED <<docs, rows, review>>, UNCHANGED <<torn, pulled>>,
         IsABag(queue'), BagToSet(queue') \subseteq Jobs, QueueStands, unread \subseteq unread',
         NEW a \in Requests, actor' = [actor EXCEPT ![a] = Resting],
         "gone" \in DOMAIN actor[a] =>
           \A d \in Deferred(actor[a].gone) : d \in unread' \/ \E j \in BagToSet(queue') : j.doc = d,
         stale' \/ meter' = Ledger \/ (UNCHANGED counted /\ ~Counting(a))
  PROVE  IngestInv'
<1>1. a \in Actors /\ a \notin Readers /\ Readers \subseteq Actors /\ Requests \subseteq Actors
  BY IngestionAssumption DEF IngestionAssumption, Actors
<1>2. actor'[a] = Resting /\ \A b \in Actors : b # a => actor'[b] = actor[b]
  BY <1>1 DEF IngestInv, IngestTypes
<1>3. RecordStands /\ Ledger' = Ledger
  BY DEF RecordStands, Ledger, LedgerOf
<1>4. ReadersRest /\ ReadersGoOn
  BY <1>1, <1>2 DEF ReadersRest, ReadersGoOn, ReaderGoesOn
<1>5. IngestTypes'
  <2>1. docs' \in Seq(DocRows) /\ Len(rows') = Len(docs') /\ \E S : rows' \in Seq(S)
    BY DEF IngestInv, IngestTypes
  <2>2. IsWork(a, Resting)' /\ BagToSet(queue') \subseteq Jobs' /\ DOMAIN docs \subseteq DOMAIN docs'
    BY DEF IsWork, Jobs
  <2>3. PICK w : w = Resting
    OBVIOUS
  <2>4. IsWork(a, w)'
    BY <2>2, <2>3
  <2> QED BY <1>1, <2>1, <2>2, <2>3, <2>4, TypesStand DEF IngestInv
<1>6. MeterCatchesUp'
  <2>1. CASE UNCHANGED counted /\ ~Counting(a)
    <3>1. \A b \in Actors : Counting(b) => Counting(b)'
      BY <1>2, <2>1 DEF Counting
    <3> QED BY <1>3, <2>1, <3>1, MeterStands DEF IngestInv
  <2>2. CASE stale' \/ meter' = Ledger
    BY <1>3, <2>2 DEF MeterCatchesUp
  <2> QED BY <2>1, <2>2
<1>7. RowsAreRead' /\ Replacing' /\ OverlapBound'
  BY <1>3, <1>4, StandingRows, StandingReplacing, StandingBound DEF IngestInv
<1>8. FrozenStays' /\ CitedStays'
  BY <1>3, CitedStand DEF IngestInv
<1>9. ASSUME NEW d \in DOMAIN docs, NEW r \in rows[d], ~r.billable, Rereads(d, r.text)
      PROVE  Rereads(d, r.text)' \/ d \in unread'
  <2>1. CASE \E j \in BagToSet(queue) : j.doc = d
    BY <2>1 DEF QueueStands, Rereads
  <2>2. CASE \E b \in Readers : actor[b].pc \in {"read", "commit"} /\ actor[b].job.doc = d
    BY <1>1, <1>2, <2>2 DEF Rereads
  <2>3. CASE \E b \in Requests \ {a} : "gone" \in DOMAIN actor[b] /\ r.text \in actor[b].gone
    BY <1>1, <1>2, <2>3 DEF Rereads
  <2>4. CASE "gone" \in DOMAIN actor[a] /\ r.text \in actor[a].gone
    <3>1. d \in Deferred(actor[a].gone)
      BY <1>9, <2>4, DefersIsDeferred
    <3> QED BY <2>4, <3>1 DEF Rereads
  <2> QED BY <1>9, <2>1, <2>2, <2>3, <2>4 DEF Rereads
<1>10. DuplicateHasOriginal'
  BY <1>3, <1>9, StandingOriginals DEF IngestInv
<1> QED BY <1>5, <1>6, <1>7, <1>8, <1>10 DEF IngestInv

LEMMA DeferredJobs ==
  ASSUME NEW gone
  PROVE  Deferred(gone) \subseteq DOMAIN docs /\ {Job(d) : d \in Deferred(gone)} \subseteq Jobs
BY IngestionAssumption DEF IngestionAssumption, Deferred, Job, Jobs

LEMMA ReadsAgain == ASSUME IngestInv, NEW a \in Requests, ReadAgain(a) PROVE IngestInv'
<1>1. PICK again : again = Deferred(actor[a].gone)
  OBVIOUS
<1>2. /\ actor' = [actor EXCEPT ![a] = Resting] /\ actor[a].pc = "reread"
      /\ UNCHANGED <<docs, rows, review>> /\ UNCHANGED counted /\ UNCHANGED <<torn, pulled>>
  BY DEF ReadAgain, Is, Turn, record
<1>3. ~Counting(a)
  BY <1>2 DEF Counting
<1>4. CASE Queued(SetToBag({Job(d) : d \in again})) /\ UNCHANGED unread
  <2>1. PICK B : B = SetToBag({Job(d) : d \in again})
    OBVIOUS
  <2>2. IsABag(B) /\ BagToSet(B) = {Job(d) : d \in again}
    BY <2>1, SetIsBag
  <2>3. BagToSet(B) \subseteq Jobs /\ Jobs' = Jobs
    BY <1>1, <1>2, <2>2, DeferredJobs DEF Jobs
  <2>4. IsABag(queue') /\ BagToSet(queue') \subseteq Jobs /\ QueueStands /\ BagToSet(B) \subseteq BagToSet(queue')
    BY <1>2, <1>4, <2>1, <2>2, <2>3, MoreJobs DEF IngestInv
  <2>5. \A d \in again : \E j \in BagToSet(queue') : j.doc = d
    <3>1. \A d \in again : Job(d) \in BagToSet(queue')
      BY <2>2, <2>4
    <3>2. \A d : Job(d).doc = d
      BY DEF Job
    <3> QED BY <3>1, <3>2
  <2> QED BY <1>1, <1>2, <1>3, <1>4, <2>4, <2>5, GoneIsLeft
<1>5. CASE unread' = unread \cup again /\ UNCHANGED queue
  BY <1>1, <1>2, <1>3, <1>5, QueueRests, GoneIsLeft
<1> QED BY <1>1, <1>4, <1>5 DEF ReadAgain

LEMMA AbandonedKeeps ==
  ASSUME IngestInv, NEW a \in Requests, Abandoned(a), UNCHANGED <<docs, rows, review>>, UNCHANGED queue,
         UNCHANGED meter, UNCHANGED <<torn, pulled>>
  PROVE  IngestInv'
<1>1. /\ actor' = [actor EXCEPT ![a] = Resting] /\ unread' = unread \cup Deferred(actor[a].gone)
      /\ stale' = (stale \/ meter # Ledger)
  BY DEF Abandoned, Turn
<1>2. stale' \/ meter' = Ledger
  BY <1>1
<1> QED BY <1>1, <1>2, QueueRests, GoneIsLeft

LEMMA RequestEnds ==
  ASSUME IngestInv, NEW a \in Requests, RequestDies(a) \/ \E d \in DOMAIN docs : RemoveThrows(a, d)
  PROVE  IngestInv'
<1>1. /\ Abandoned(a) /\ UNCHANGED <<docs, rows, review>> /\ UNCHANGED queue
      /\ UNCHANGED meter /\ UNCHANGED <<torn, pulled>>
  BY DEF RequestDies, RemoveThrows, record
<1> QED BY <1>1, AbandonedKeeps

\* A worker that dies leaves its jobs stalled, and the queue finds them.
LEMMA WorkerDeathKeeps == ASSUME IngestInv, WorkerDies PROVE IngestInv'
<1>1. PICK stalled : stalled = UNION {Held(a) : a \in Readers}
  OBVIOUS
<1>2. PICK B : B = [j \in stalled |-> Cardinality({a \in Readers : j \in Held(a)})]
  OBVIOUS
<1>3. /\ Queued(B) /\ actor' = [a \in Actors |-> IF a \in Readers THEN Resting ELSE actor[a]]
      /\ stale' = (stale \/ meter # Ledger) /\ meter' = meter
      /\ UNCHANGED <<docs, rows, review>> /\ UNCHANGED <<torn, pulled, unread>>
  BY <1>1, <1>2 DEF WorkerDies, record, ghosts
<1>4. Readers \subseteq Actors /\ Requests \subseteq Actors /\ Readers \cap Requests = {}
  BY IngestionAssumption DEF IngestionAssumption, Actors
<1>5. \A a \in Readers : Held(a) \subseteq Jobs
  <2> SUFFICES ASSUME NEW a \in Readers PROVE Held(a) \subseteq Jobs
    OBVIOUS
  <2>1. IsWork(a, actor[a])
    BY <1>4, WorkIs
  <2>2. CASE actor[a].pc \in {"read", "commit"}
    BY <2>2, ReaderJob DEF Held, IngestInv
  <2>3. CASE actor[a].pc \in {"meter", "write"}
    BY <1>4, <2>3, MeterWork DEF Held
  <2> QED BY <2>2, <2>3 DEF Held
<1>6. IsABag(B) /\ BagToSet(B) \subseteq Jobs /\ BagToSet(B) = stalled
  <2>1. \A j \in stalled : Cardinality({a \in Readers : j \in Held(a)}) \in Nat \ {0}
    <3> SUFFICES ASSUME NEW j \in stalled
                 PROVE  Cardinality({a \in Readers : j \in Held(a)}) \in Nat \ {0}
      OBVIOUS
    <3>1. PICK a \in Readers : j \in Held(a)
      BY <1>1
    <3>2. PICK A : A = {b \in Readers : j \in Held(b)}
      OBVIOUS
    <3>3. IsFiniteSet(A) /\ A # {}
      BY <3>1, <3>2, IngestionAssumption, FS_Subset DEF IngestionAssumption
    <3> QED BY <3>2, <3>3, FS_CardinalityType, FS_EmptySet
  <2>2. stalled \subseteq Jobs
    BY <1>1, <1>5
  <2>3. IsABag(B) /\ BagToSet(B) = stalled
    BY <1>2, <2>1 DEF IsABag, BagToSet
  <2> QED BY <2>2, <2>3
<1>7. DOMAIN docs \subseteq DOMAIN docs' /\ Jobs' = Jobs
  BY <1>3 DEF Jobs
<1>8. IsABag(queue') /\ BagToSet(queue') \subseteq Jobs' /\ QueueStands /\ stalled \subseteq BagToSet(queue')
  BY <1>3, <1>6, <1>7, MoreJobs DEF IngestInv
<1>9. \A a \in Readers : actor'[a] = Resting
  BY <1>3, <1>4
<1>10. \A a \in Actors \ Readers : actor'[a] = actor[a]
  BY <1>3
<1>11. RecordStands
  BY <1>3 DEF RecordStands
<1>12. ReadersRest
  BY <1>9 DEF ReadersRest, Resting
<1>13. ReadersGoOn
  <2>1. \A a \in Readers : actor[a].pc \in {"read", "commit"} => actor[a].job \in stalled
    BY <1>1 DEF Held
  <2> QED BY <1>8, <2>1 DEF ReadersGoOn, ReaderGoesOn
<1>14. GoneStays
  BY <1>4, <1>10 DEF GoneStays
<1>15. MeterCatchesUp'
  <2>1. Ledger' = Ledger
    BY <1>3 DEF Ledger, LedgerOf
  <2> QED BY <1>3, <2>1 DEF MeterCatchesUp
<1>16. IngestTypes'
  <2>1. \A a \in Actors : IsWork(a, actor[a])'
    <3> SUFFICES ASSUME NEW a \in Actors PROVE IsWork(a, actor[a])'
      OBVIOUS
    <3>1. CASE a \in Readers
      BY <1>9, <3>1 DEF IsWork
    <3>2. CASE a \notin Readers
      <4>1. PICK w : w = actor[a]
        OBVIOUS
      <4>2. IsWork(a, w) /\ actor'[a] = w
        BY <1>10, <3>2, <4>1, WorkIs
      <4> QED BY <1>7, <4>2, WorkGrows
    <3> QED BY <3>1, <3>2
  <2>2. actor' = [a \in Actors |-> actor'[a]]
    BY <1>3
  <2> QED BY <1>3, <1>8, <2>1, <2>2 DEF IngestInv, IngestTypes, review
<1> QED BY <1>3, <1>11, <1>12, <1>8, <1>13, <1>14, <1>15, <1>16, Frame

\* A quarantined document has no rows: a reading never begins on it.
LEMMA TakeKeeps ==
  ASSUME IngestInv, NEW a \in Readers, NEW j \in BagToSet(queue), Take(a, j)
  PROVE  IngestInv'
<1>1. PICK d : d = j.doc
  OBVIOUS
<1>2. PICK rest : rest = queue (-) SetToBag({j})
  OBVIOUS
<1>3. /\ IsABag(rest) /\ BagToSet(rest) \subseteq Jobs /\ BagToSet(queue) \ {j} \subseteq BagToSet(rest)
      /\ j \in Jobs /\ d \in DOMAIN docs
  BY <1>1, <1>2, BagLess DEF IngestInv, IngestTypes, Jobs
<1>4. /\ actor[a].pc = "idle" /\ UNCHANGED rows /\ UNCHANGED counted /\ UNCHANGED <<torn, pulled>>
      /\ UNCHANGED review
  BY DEF Take, Is
<1>5. a \in Actors /\ a \notin Requests /\ Readers \subseteq Actors /\ Requests \subseteq Actors
  BY IngestionAssumption DEF IngestionAssumption, Actors
<1>6. docs \in Seq(DocRows) /\ Len(rows) = Len(docs) /\ \E S : rows \in Seq(S)
  BY DEF IngestInv, IngestTypes
<1>7. RowsOf(d)
  BY <1>3 DEF IngestInv, RowsAreRead
\* The document is gone, or is or was quarantined: nothing of it is in the record.
<1>8. ASSUME UNCHANGED actor, rows[d] = {}, RecordStands, docs' \in Seq(DocRows), DOMAIN docs' = DOMAIN docs,
             Len(docs') = Len(docs), \A e \in DOMAIN docs : docs'[e].kind = docs[e].kind,
             \/ queue' = rest /\ UNCHANGED unread
             \/ queue' = rest (+) Retry(j) /\ unread' = unread \cup GaveUp(j)
      PROVE  IngestInv'
  <2>1. IsABag(queue') /\ BagToSet(queue') \subseteq Jobs /\ BagToSet(rest) \subseteq BagToSet(queue')
    BY <1>3, <1>8, RetryIsBag, BagSum
  <2>2. ReadersRest /\ Ledger' = Ledger
    BY <1>4, <1>8, LedgerStands DEF ReadersRest, IngestInv
  <2>3. \A b \in Actors : Counting(b) => Counting(b)'
    BY <1>8 DEF Counting
  <2>4. MeterCatchesUp'
    BY <1>4, <2>2, <2>3, MeterStands DEF IngestInv
  <2>5. unread \subseteq unread'
    BY <1>8
  <2>6. ASSUME NEW e \in DOMAIN docs, NEW r \in rows[e], ~r.billable, Rereads(e, r.text)
        PROVE  Rereads(e, r.text)'
    <3>1. e # d
      BY <1>8, <2>6
    <3>2. CASE \E k \in BagToSet(queue) : k.doc = e
      BY <1>1, <1>3, <2>1, <3>1, <3>2 DEF Rereads
    <3>3. CASE ~\E k \in BagToSet(queue) : k.doc = e
      BY <1>8, <2>6, <3>3 DEF Rereads
    <3> QED BY <3>2, <3>3
  <2>7. DuplicateHasOriginal'
    BY <1>4, <1>8, <2>2, <2>5, <2>6, StandingOriginals DEF IngestInv
  <2>8. IngestTypes'
    <3>1. PICK w : w = actor[a]
      OBVIOUS
    <3>2. actor' = [actor EXCEPT ![a] = w] /\ IsWork(a, w) /\ DOMAIN docs \subseteq DOMAIN docs'
      BY <1>5, <1>8, <3>1, WorkIs DEF IngestInv, IngestTypes
    <3>3. IsWork(a, w)' /\ BagToSet(queue') \subseteq Jobs'
      BY <1>8, <2>1, <3>2, WorkGrows DEF Jobs
    <3>4. docs' \in Seq(DocRows) /\ Len(rows') = Len(docs') /\ \E S : rows' \in Seq(S)
      BY <1>4, <1>6, <1>8
    <3> QED BY <1>4, <1>5, <2>1, <3>2, <3>3, <3>4, TypesStand DEF IngestInv
  <2>9. RowsAreRead' /\ Replacing' /\ OverlapBound' /\ FrozenStays' /\ CitedStays'
    BY <1>4, <1>8, <2>2, StandingRows, StandingReplacing, StandingBound, CitedStand DEF IngestInv
  <2> QED BY <2>4, <2>7, <2>8, <2>9 DEF IngestInv
<1>9. CASE UNCHANGED docs
  <2>1. /\ RecordStands /\ docs' \in Seq(DocRows) /\ DOMAIN docs' = DOMAIN docs /\ Len(docs') = Len(docs)
        /\ \A e \in DOMAIN docs : docs'[e].kind = docs[e].kind
    BY <1>4, <1>6, <1>9 DEF RecordStands
  <2>2. CASE ~Present(d) /\ queue' = rest /\ UNCHANGED <<actor, unread>>
    <3>1. rows[d] = {}
      BY <1>3, <1>7, <2>2 DEF RowsOf, Present
    <3> QED BY <1>8, <2>1, <2>2, <3>1
  <2>3. CASE docs[d].quarantined /\ queue' = rest (+) Retry(j) /\ unread' = unread \cup GaveUp(j) /\ UNCHANGED actor
    <3>1. rows[d] = {}
      BY <1>7, <2>3 DEF RowsOf
    <3> QED BY <1>8, <2>1, <2>3, <3>1
  <2>4. ASSUME ~FileAt(d).infected, queue' = rest, UNCHANGED unread,
               NEW w, w = [pc |-> "read", job |-> j, halt |-> halted], actor' = [actor EXCEPT ![a] = w]
        PROVE  IngestInv'
    <3>1. IsWork(a, w) /\ w.pc = "read" /\ w.job = j
      BY <1>3, <2>4 DEF IsWork
    <3>2. actor'[a] = w /\ \A b \in Actors : b # a => actor'[b] = actor[b]
      BY <1>5, <2>4 DEF IngestInv, IngestTypes
    <3>3. IngestTypes'
      <4>1. DOMAIN docs \subseteq DOMAIN docs' /\ Jobs' = Jobs
        BY <2>1 DEF Jobs
      <4>2. IsWork(a, w)' /\ BagToSet(queue') \subseteq Jobs' /\ IsABag(queue')
        BY <1>3, <2>4, <3>1, <4>1, WorkGrows
      <4>3. Len(rows') = Len(docs') /\ \E S : rows' \in Seq(S)
        BY <1>4, <1>6, <1>9
      <4> QED BY <1>4, <1>5, <2>1, <2>4, <4>1, <4>2, <4>3, TypesStand DEF IngestInv
    <3>4. RowsAreRead'
      <4>1. \A e \in DOMAIN docs : RowsOf(e)'
        BY <1>4, <1>9 DEF IngestInv, RowsAreRead, RowsOf, FileAt
      <4>2. ASSUME NEW b \in Readers, actor'[b].pc \in {"read", "commit"}
            PROVE  (~FileAt(actor[b].job.doc).infected)'
        <5>1. CASE b = a
          BY <1>1, <1>9, <2>4, <3>1, <3>2, <5>1 DEF FileAt
        <5>2. CASE b # a
          BY <1>5, <1>9, <3>2, <4>2, <5>2 DEF IngestInv, RowsAreRead, FileAt
        <5> QED BY <5>1, <5>2
      <4> QED BY <1>9, <4>1, <4>2 DEF RowsAreRead
    <3>5. \A e : Committing(e)' = Committing(e)
      BY <1>4, <1>5, <3>1, <3>2 DEF Committing, Is
    <3>6. Replacing'
      <4>1. \A b \in Readers : actor'[b].pc = "commit" => b # a /\ actor'[b] = actor[b]
        BY <1>5, <3>1, <3>2
      <4> QED BY <1>4, <3>5, <4>1 DEF IngestInv, Replacing
    <3>7. OverlapBound'
      <4>1. \A t : WillBill(t)' \subseteq WillBill(t)
        BY <1>5, <3>1, <3>2 DEF WillBill
      <4> QED BY <2>1, <4>1, StandingBilled, BoundKept DEF IngestInv
    <3>8. ASSUME NEW e \in DOMAIN docs, NEW r \in rows[e], ~r.billable, Rereads(e, r.text)
          PROVE  Rereads(e, r.text)'
      <4>1. CASE e = d
        BY <1>1, <3>1, <3>2, <4>1 DEF Rereads
      <4>2. CASE e # d /\ \E k \in BagToSet(queue) : k.doc = e
        BY <1>1, <1>3, <2>4, <4>2 DEF Rereads
      <4>3. CASE \E b \in Readers : actor[b].pc \in {"read", "commit"} /\ actor[b].job.doc = e
        BY <1>4, <1>5, <3>2, <4>3 DEF Rereads
      <4>4. CASE \E b \in Requests : "gone" \in DOMAIN actor[b] /\ r.text \in actor[b].gone
        BY <1>5, <3>2, <4>4 DEF Rereads
      <4> QED BY <3>8, <4>1, <4>2, <4>3, <4>4 DEF Rereads
    <3>9. DuplicateHasOriginal'
      BY <1>4, <2>1, <2>4, <3>8, StandingOriginals DEF IngestInv
    <3>10. MeterCatchesUp'
      <4>1. \A b \in Actors : Counting(b) => Counting(b)'
        BY <1>4, <3>2 DEF Counting
      <4> QED BY <1>4, <2>1, <4>1, LedgerStands, MeterStands DEF IngestInv
    <3>11. FrozenStays' /\ CitedStays'
      BY <1>4, <2>1, CitedStand DEF IngestInv
    <3> QED BY <3>3, <3>4, <3>6, <3>7, <3>9, <3>10, <3>11 DEF IngestInv
  <2>5. CASE /\ ~FileAt(d).infected /\ queue' = rest /\ UNCHANGED unread
             /\ Turn(a, [pc |-> "read", job |-> j, halt |-> halted])
    <3>1. PICK w : w = [pc |-> "read", job |-> j, halt |-> halted]
      OBVIOUS
    <3> QED BY <2>4, <2>5, <3>1 DEF Turn
  <2>6. CASE Present(d) /\ FileAt(d).infected /\ ~docs[d].quarantined
    <3>1. PICK r : r = [docs[d] EXCEPT !.quarantined = TRUE]
      OBVIOUS
    <3>2. docs' = [docs EXCEPT ![d] = r] /\ r.quarantined
      BY <1>1, <1>3, <2>6, <3>1, FileIs DEF Take, FileAt, DocRows
    <3>3. docs'[d].quarantined
      BY <1>3, <1>6, <3>2
    <3> QED BY <1>9, <2>6, <3>3
  <2> QED BY <1>1, <1>2, <2>2, <2>3, <2>5, <2>6 DEF Take, FileAt
<1>10. CASE docs' = [docs EXCEPT ![d].quarantined = TRUE] /\ FileAt(d).infected
            /\ queue' = rest /\ UNCHANGED <<actor, unread>>
  <2>1. PICK r : r = [docs[d] EXCEPT !.quarantined = TRUE]
    OBVIOUS
  <2>2. r \in DocRows /\ r.file = docs[d].file /\ r.present = docs[d].present /\ r.kind = docs[d].kind
    BY <1>3, <2>1, FileIs DEF DocRows
  <2>3. docs' = [docs EXCEPT ![d] = r]
    BY <1>10, <2>1
  <2>4. /\ docs' \in Seq(DocRows) /\ Len(docs') = Len(docs) /\ DOMAIN docs' = DOMAIN docs
        /\ docs'[d] = r /\ \A e \in DOMAIN docs : e # d => docs'[e] = docs[e]
    BY <1>3, <1>6, <2>2, <2>3
  <2>5. RecordStands /\ \A e \in DOMAIN docs : docs'[e].kind = docs[e].kind
    BY <1>4, <1>10, <2>2, <2>4 DEF RecordStands
  <2>6. rows[d] = {}
    BY <1>7, <1>10 DEF RowsOf
  <2> QED BY <1>8, <1>10, <2>4, <2>5, <2>6
<1> QED BY <1>1, <1>2, <1>9, <1>10 DEF Take, FileAt

-----------------------------------------------------------------------------
(* The transaction of a reading.                                           *)

LEMMA LookKeeps == ASSUME IngestInv, NEW a \in Readers, LookForDuplicates(a) PROVE IngestInv'
<1>1. PICK d : d = actor[a].job.doc
  OBVIOUS
<1>2. PICK seen : seen = Texts(Billable(UNION {rows[e] : e \in DOMAIN docs \ {d}}))
  OBVIOUS
<1>3. PICK w : w = [pc |-> "commit", job |-> actor[a].job, halt |-> actor[a].halt,
                    replaced |-> rows[d], seen |-> seen]
  OBVIOUS
<1>4. /\ actor' = [actor EXCEPT ![a] = w] /\ actor[a].pc = "read" /\ (rows[d] # {} => Committing(d) = {})
      /\ UNCHANGED <<docs, rows, review>> /\ UNCHANGED queue /\ UNCHANGED counted
      /\ UNCHANGED <<torn, unread, pulled>>
  BY <1>1, <1>2, <1>3 DEF LookForDuplicates, Is, Turn, record, ghosts
<1>5. a \in Actors /\ a \notin Requests /\ Readers \subseteq Actors /\ Requests \subseteq Actors
  BY IngestionAssumption DEF IngestionAssumption, Actors
<1>6. actor[a].job \in Jobs /\ d \in DOMAIN docs
  BY <1>1, <1>4, ReaderJob DEF IngestInv
<1>7. /\ IsWork(a, w) /\ w.pc = "commit" /\ w.job = actor[a].job /\ w.job.doc = d
      /\ w.replaced = rows[d] /\ w.seen = seen
  BY <1>1, <1>3, <1>6 DEF IsWork
<1>8. actor'[a] = w /\ \A b \in Actors : b # a => actor'[b] = actor[b]
  BY <1>4, <1>5 DEF IngestInv, IngestTypes
<1>9. RecordStands
  BY <1>4 DEF RecordStands
<1>10. IngestTypes'
  <2>1. docs' \in Seq(DocRows) /\ Len(rows') = Len(docs') /\ \E S : rows' \in Seq(S)
    BY <1>4 DEF IngestInv, IngestTypes
  <2>2. DOMAIN docs \subseteq DOMAIN docs' /\ Jobs' = Jobs
    BY <1>4 DEF Jobs
  <2>3. IsWork(a, w)' /\ IsABag(queue') /\ BagToSet(queue') \subseteq Jobs'
    BY <1>4, <1>7, <2>2, QueueRests, WorkGrows
  <2> QED BY <1>4, <1>5, <2>1, <2>2, <2>3, TypesStand DEF IngestInv
<1>11. RowsAreRead'
  <2>1. \A e \in DOMAIN docs : RowsOf(e)'
    BY <1>4 DEF IngestInv, RowsAreRead, RowsOf, FileAt
  <2>2. ASSUME NEW b \in Readers, actor'[b].pc \in {"read", "commit"}
        PROVE  (~FileAt(actor[b].job.doc).infected)'
    BY <1>4, <1>5, <1>7, <1>8, <2>2 DEF IngestInv, RowsAreRead, FileAt
  <2> QED BY <1>4, <2>1, <2>2 DEF RowsAreRead
<1>12. Replacing'
  <2> SUFFICES ASSUME NEW b \in Readers, actor'[b].pc = "commit", actor'[b].replaced # {}
               PROVE  actor'[b].replaced = rows[actor'[b].job.doc] /\ Committing(actor[b].job.doc)' = {b}
    BY <1>4 DEF Replacing
  <2>1. \A e : Committing(e)' = IF e = d THEN Committing(e) \cup {a} ELSE Committing(e)
    BY <1>4, <1>5, <1>7, <1>8 DEF Committing, Is
  <2>2. CASE b = a
    <3>1. Committing(d)' = {a}
      BY <1>4, <1>7, <1>8, <2>1, <2>2
    <3>2. actor'[a].job.doc = d
      BY <1>7, <1>8
    <3> QED BY <1>7, <1>8, <2>2, <3>1, <3>2
  <2>3. CASE b # a
    <3>1. PICK e : e = actor[b].job.doc
      OBVIOUS
    <3>2. actor'[b] = actor[b]
      BY <1>5, <1>8, <2>3
    <3>3. actor[b].replaced = rows[e] /\ Committing(e) = {b}
      BY <3>1, <3>2 DEF IngestInv, Replacing
    <3>4. e # d
      BY <1>4, <3>2, <3>3
    <3>5. Committing(e)' = {b}
      BY <2>1, <3>3, <3>4
    <3> QED BY <3>1, <3>2, <3>3, <3>5
  <2> QED BY <2>2, <2>3
<1>13. OverlapBound'
  <2> SUFFICES ASSUME NEW t, t # Blank
               PROVE  /\ IsFiniteSet(Billed(t)')
                      /\ Cardinality(Billed(t)') + Cardinality(WillBill(t)') <= Cardinality(Readers)
    BY DEF OverlapBound
  <2>1. Billed(t)' = Billed(t)
    BY <1>4 DEF Billed
  <2>2. /\ IsFiniteSet(Billed(t))
        /\ Cardinality(Billed(t)) + Cardinality(WillBill(t)) <= Cardinality(Readers)
    BY DEF IngestInv, OverlapBound
  <2>3. WillBill(t) \subseteq Readers /\ WillBill(t)' \subseteq Readers
    BY DEF WillBill
  <2>4. CASE a \in WillBill(t)'
    <3>1. t \notin seen /\ \A r \in Billable(rows[d]) : r.text # t
      BY <1>7, <1>8, <2>4 DEF WillBill
    <3>2. \A e \in DOMAIN docs : \A r \in Billable(rows[e]) : r.text # t
      BY <1>2, <3>1 DEF Texts, Billable
    <3>3. Billed(t) = {}
      BY <3>2 DEF Billed
    <3> QED BY <2>1, <2>3, <3>3, FewerReaders, FS_EmptySet
  <2>5. CASE a \notin WillBill(t)'
    <3>1. WillBill(t)' \subseteq WillBill(t)
      BY <1>5, <1>8, <2>5 DEF WillBill
    <3> QED BY <2>1, <2>2, <2>3, <3>1, FewerReaders, FS_CardinalityType
  <2> QED BY <2>4, <2>5
<1>14. ASSUME NEW e, NEW t, Rereads(e, t) PROVE Rereads(e, t)'
  <2>1. CASE \E k \in BagToSet(queue) : k.doc = e
    BY <1>4, <2>1 DEF Rereads
  <2>2. CASE \E b \in Readers : actor[b].pc \in {"read", "commit"} /\ actor[b].job.doc = e
    BY <1>5, <1>7, <1>8, <2>2 DEF Rereads
  <2>3. CASE \E b \in Requests : "gone" \in DOMAIN actor[b] /\ t \in actor[b].gone
    BY <1>5, <1>8, <2>3 DEF Rereads
  <2> QED BY <1>14, <2>1, <2>2, <2>3 DEF Rereads
<1>15. DuplicateHasOriginal'
  BY <1>4, <1>9, <1>14, StandingOriginals DEF IngestInv
<1>16. MeterCatchesUp'
  <2>1. \A b \in Actors : Counting(b) => Counting(b)'
    BY <1>4, <1>8 DEF Counting
  <2> QED BY <1>4, <1>9, <2>1, LedgerStands, MeterStands DEF IngestInv
<1>17. FrozenStays' /\ CitedStays'
  BY <1>4, <1>9, CitedStand DEF IngestInv
<1> QED BY <1>10, <1>11, <1>12, <1>13, <1>15, <1>16, <1>17 DEF IngestInv

\* A page of the document has its row; only one of the pages with a text is billed, and only
\* for a text that was not seen.
LEMMA PagesHaveRows ==
  ASSUME IngestInv, NEW d \in DOMAIN docs, NEW seen
  PROVE  /\ \A r \in NewRows(d, seen) :
              /\ ~r.billable => r.text # Blank
              /\ r.billable /\ r.text # Blank => r.text \notin seen
              /\ \E i \in DOMAIN FileAt(d).pages : r.text = FileAt(d).pages[i].text
         /\ \A i \in DOMAIN FileAt(d).pages : \E r \in NewRows(d, seen) : r.text = FileAt(d).pages[i].text
         /\ \A r, s \in Billable(NewRows(d, seen)) : r.text = s.text /\ r.text # Blank => r = s
<1>1. PICK page : page = FileAt(d).pages
  OBVIOUS
<1>2. PICK copy : copy = CHOOSE n \in 1..(Cardinality(Readers) + 1) : \A r \in rows[d] : r.copy # n
  OBVIOUS
<1> DEFINE dup(i) == /\ page[i].text # Blank
                     /\ (page[i].text \in seen) \/ (\E k \in 1..(i - 1) : page[k].text = page[i].text)
           row(i) == [no |-> i, copy |-> copy, text |-> page[i].text, low |-> page[i].low,
                      billable |-> ~dup(i)]
<1>3. NewRows(d, seen) = {row(i) : i \in DOMAIN page}
  BY <1>1, <1>2 DEF NewRows, FileAt
<1>4. \A i : row(i).text = page[i].text /\ (row(i).billable <=> ~dup(i))
  OBVIOUS
<1>5. DOMAIN page = 1 .. Len(page) /\ Len(page) \in Nat
  <2>1. docs[d].file \in DOMAIN FileOf
    BY FileIs DEF DocRows
  <2> QED BY <1>1, <2>1, IngestionAssumption DEF IngestionAssumption, FileAt
<1>6. ASSUME NEW i \in DOMAIN page, NEW k \in DOMAIN page, row(i).billable, row(k).billable,
             page[i].text = page[k].text, page[i].text # Blank
      PROVE  i = k
  <2>1. ~(i < k) /\ ~(k < i)
    BY <1>4, <1>5, <1>6
  <2> QED BY <1>5, <2>1
<1>7. \A r, s \in Billable(NewRows(d, seen)) : r.text = s.text /\ r.text # Blank => r = s
  <2> HIDE DEF row
  <2> QED BY <1>3, <1>4, <1>6 DEF Billable
<1>8. \A i \in DOMAIN page : \E r \in NewRows(d, seen) : r.text = page[i].text
  <2> HIDE DEF row
  <2> QED BY <1>3, <1>4
<1>9. \A r \in NewRows(d, seen) :
        /\ ~r.billable => r.text # Blank
        /\ r.billable /\ r.text # Blank => r.text \notin seen
        /\ \E i \in DOMAIN page : r.text = page[i].text
  <2>1. \A i : dup(i) => page[i].text # Blank
    OBVIOUS
  <2>2. \A i : ~dup(i) /\ page[i].text # Blank => page[i].text \notin seen
    OBVIOUS
  <2> HIDE DEF row, dup
  <2> QED BY <1>3, <1>4, <2>1, <2>2
<1> QED BY <1>1, <1>7, <1>8, <1>9

\* One more row in a set, or one in the place of another.
LEMMA OneMore ==
  ASSUME NEW B, IsFiniteSet(B), NEW C, NEW y, C \subseteq B \cup {y}
  PROVE  /\ IsFiniteSet(C) /\ Cardinality(C) \in Nat /\ Cardinality(B) \in Nat
         /\ Cardinality(C) <= Cardinality(B) + 1
<1>1. IsFiniteSet(B \cup {y}) /\ Cardinality(B) \in Nat /\ Cardinality(B \cup {y}) <= Cardinality(B) + 1
  BY FS_AddElement, FS_CardinalityType
<1>2. Cardinality(B \cup {y}) \in Nat
  BY <1>1, FS_CardinalityType
<1> QED BY <1>1, <1>2, FS_Subset, FS_CardinalityType

LEMMA OneFewer ==
  ASSUME NEW B, IsFiniteSet(B), NEW x \in B
  PROVE  /\ IsFiniteSet(B \ {x}) /\ Cardinality(B \ {x}) = Cardinality(B) - 1
         /\ Cardinality(B) \in Nat /\ Cardinality(B \ {x}) \in Nat
BY FS_RemoveElement, FS_CardinalityType

LEMMA OneForAnother ==
  ASSUME NEW B, IsFiniteSet(B), NEW x \in B, NEW C, NEW y, C \subseteq (B \ {x}) \cup {y}
  PROVE  IsFiniteSet(C) /\ Cardinality(C) \in Nat /\ Cardinality(C) <= Cardinality(B)
<1>1. PICK A : A = B \ {x}
  OBVIOUS
<1>2. IsFiniteSet(A) /\ Cardinality(A) = Cardinality(B) - 1 /\ Cardinality(B) \in Nat
  BY <1>1, OneFewer
<1>3. C \subseteq A \cup {y}
  BY <1>1
<1>4. IsFiniteSet(C) /\ Cardinality(C) \in Nat /\ Cardinality(C) <= Cardinality(A) + 1
  BY <1>2, <1>3, OneMore
<1> QED BY <1>2, <1>4

\* The commit: the rows it adds are its file's, at most one is billed for a text, and what it
\* removes of its document's rows it has rows for again.
LEMMA CommitKeeps == ASSUME IngestInv, NEW a \in Readers, DigitizeCommit(a) PROVE IngestInv'
<1>1. PICK d : d = actor[a].job.doc
  OBVIOUS
<1>2. PICK replaced : replaced = actor[a].replaced
  OBVIOUS
<1>3. PICK seen : seen = actor[a].seen
  OBVIOUS
<1>4. PICK added : added = NewRows(d, seen)
  OBVIOUS
<1>5. PICK new : new = (rows[d] \ replaced) \cup added
  OBVIOUS
<1>6. PICK w : w = Recount({}, {actor[a].job})
  OBVIOUS
<1>7. /\ actor' = [actor EXCEPT ![a] = w] /\ actor[a].pc = "commit" /\ Present(d)
      /\ rows' = [rows EXCEPT ![d] = new]
      /\ unread' = unread \ {d}
      /\ UNCHANGED review /\ UNCHANGED queue /\ UNCHANGED pulled
  BY <1>1, <1>2, <1>3, <1>4, <1>5, <1>6 DEF DigitizeCommit, Is, Turn
<1>8. torn' = torn \cup (Texts({r \in new : ~r.billable})
                           \ Texts(UNION {Billable(rows'[e]) : e \in DOMAIN docs}))
  BY <1>1, <1>2, <1>3, <1>4, <1>5 DEF DigitizeCommit
<1>9. a \in Actors /\ a \notin Requests /\ Readers \subseteq Actors /\ Requests \subseteq Actors
  BY IngestionAssumption DEF IngestionAssumption, Actors
<1>10. actor[a].job \in Jobs /\ d \in DOMAIN docs
  BY <1>1, <1>7, ReaderJob DEF IngestInv
<1>11. IsWork(a, w) /\ w.pc = "meter"
  BY <1>6, <1>10, Recounts
<1>12. actor'[a] = w /\ \A b \in Actors : b # a => actor'[b] = actor[b]
  BY <1>7, <1>9 DEF IngestInv, IngestTypes
<1>13. /\ docs' \in Seq(DocRows) /\ Len(docs') = Len(docs) /\ DOMAIN docs' = DOMAIN docs
       /\ \A e \in DOMAIN docs : /\ docs'[e].file = docs[e].file /\ docs'[e].present = docs[e].present
                                 /\ docs'[e].quarantined = docs[e].quarantined
  <2>1. CASE UNCHANGED docs
    BY <2>1 DEF IngestInv, IngestTypes
  <2>2. CASE ~UNCHANGED docs
    <3>1. PICK c \in BOOLEAN : c = (docs[d].confirmed \/ FileOf[docs[d].file].confidence = "high")
      BY Zenon
    <3>2. PICK i : i = Guess(d)
      OBVIOUS
    <3>3. i \in Items \cup {NoItem}
      BY <3>2 DEF Guess
    <3>4. PICK r : r = [docs[d] EXCEPT !.item = i, !.confirmed = c]
      OBVIOUS
    <3>5. docs[d] \in DocRows
      BY <1>10, FileIs
    <3>6. /\ r \in DocRows /\ r.file = docs[d].file /\ r.present = docs[d].present
          /\ r.quarantined = docs[d].quarantined
      BY <3>1, <3>3, <3>4, <3>5 DEF DocRows
    <3>7. docs' = [docs EXCEPT ![d].item = i,
                               ![d].confirmed = @ \/ FileOf[docs[d].file].confidence = "high"]
      BY <1>1, <2>2, <3>2 DEF DigitizeCommit
    <3>8. docs' = [docs EXCEPT ![d] = r]
      BY <3>1, <3>4, <3>5, <3>7 DEF DocRows
    <3>9. docs \in Seq(DocRows)
      BY DEF IngestInv, IngestTypes
    <3> QED BY <1>10, <3>6, <3>8, <3>9
  <2> QED BY <2>1, <2>2
<1>14. /\ Len(rows') = Len(docs') /\ \E S : rows' \in Seq(S)
       /\ rows'[d] = new /\ \A e \in DOMAIN docs : e # d => rows'[e] = rows[e]
  <2>1. PICK S : rows \in Seq(S)
    BY DEF IngestInv, IngestTypes
  <2>2. rows \in Seq(S \cup {new}) /\ new \in S \cup {new} /\ Len(rows) = Len(docs)
    BY <2>1 DEF IngestInv, IngestTypes
  <2>3. docs \in Seq(DocRows)
    BY DEF IngestInv, IngestTypes
  <2>4. d \in 1 .. Len(rows) /\ DOMAIN docs = 1 .. Len(rows)
    BY <1>10, <2>2, <2>3
  <2>5. rows' \in Seq(S \cup {new}) /\ Len(rows') = Len(rows)
    BY <1>7, <2>2, <2>4
  <2>6. rows'[d] = new /\ \A e \in DOMAIN docs : e # d => rows'[e] = rows[e]
    BY <1>7, <2>2, <2>4
  <2> QED BY <1>13, <2>2, <2>5, <2>6
<1>15. IngestTypes'
  <2>1. DOMAIN docs \subseteq DOMAIN docs' /\ Jobs' = Jobs
    BY <1>13 DEF Jobs
  <2>2. IsWork(a, w)' /\ IsABag(queue') /\ BagToSet(queue') \subseteq Jobs'
    BY <1>7, <1>11, <2>1, QueueRests, WorkGrows
  <2> QED BY <1>7, <1>9, <1>13, <1>14, <2>1, <2>2, TypesStand DEF IngestInv
\* The rows added.
<1>16. /\ \A r \in added :
            /\ ~r.billable => r.text # Blank
            /\ r.billable /\ r.text # Blank => r.text \notin seen
            /\ \E i \in DOMAIN FileAt(d).pages : r.text = FileAt(d).pages[i].text
       /\ \A i \in DOMAIN FileAt(d).pages : \E r \in added : r.text = FileAt(d).pages[i].text
       /\ \A r, s \in Billable(added) : r.text = s.text /\ r.text # Blank => r = s
  BY <1>4, <1>10, PagesHaveRows
<1>17. RowsOf(d)
  BY <1>10 DEF IngestInv, RowsAreRead
<1>18. FileAt(d)' = FileAt(d)
  BY <1>10, <1>13 DEF FileAt
<1>19. RowsAreRead'
  <2>1. RowsOf(d)'
    <3>1. docs'[d].present /\ (docs'[d].quarantined => FileAt(d).infected)
      BY <1>7, <1>10, <1>13, <1>17 DEF Present, RowsOf
    <3>2. ~FileAt(d).infected
      BY <1>1, <1>7 DEF IngestInv, RowsAreRead
    <3>3. \A r \in new : /\ ~r.billable => r.text # Blank
                         /\ \E i \in DOMAIN FileAt(d).pages : r.text = FileAt(d).pages[i].text
      BY <1>5, <1>16, <1>17 DEF RowsOf
    <3> QED BY <1>14, <1>18, <3>1, <3>2, <3>3 DEF RowsOf
  <2>2. ASSUME NEW e \in DOMAIN docs, e # d PROVE RowsOf(e)'
    <3>1. RowsOf(e)
      BY DEF IngestInv, RowsAreRead
    <3>2. FileAt(e)' = FileAt(e) /\ rows'[e] = rows[e]
      BY <1>13, <1>14, <2>2 DEF FileAt
    <3> QED BY <1>13, <2>2, <3>1, <3>2 DEF RowsOf
  <2>3. ASSUME NEW b \in Readers, actor'[b].pc \in {"read", "commit"}
        PROVE  (~FileAt(actor[b].job.doc).infected)'
    <3>1. b # a /\ actor'[b] = actor[b]
      BY <1>9, <1>11, <1>12, <2>3
    <3>2. actor[b].job.doc \in DOMAIN docs /\ ~FileAt(actor[b].job.doc).infected
      BY <2>3, <3>1, ReaderJob DEF IngestInv, RowsAreRead
    <3> QED BY <1>13, <3>1, <3>2 DEF FileAt
  <2> QED BY <1>13, <2>1, <2>2, <2>3 DEF RowsAreRead
<1>20. Replacing'
  <2> SUFFICES ASSUME NEW b \in Readers, actor'[b].pc = "commit", actor'[b].replaced # {}
               PROVE  actor'[b].replaced = rows'[actor'[b].job.doc] /\ Committing(actor[b].job.doc)' = {b}
    BY DEF Replacing
  <2>1. PICK e : e = actor[b].job.doc
    OBVIOUS
  <2>2. b # a /\ actor'[b] = actor[b]
    BY <1>9, <1>11, <1>12
  <2>3. actor[b].replaced = rows[e] /\ Committing(e) = {b}
    BY <2>1, <2>2 DEF IngestInv, Replacing
  <2>4. e # d
    BY <1>1, <1>7, <2>2, <2>3 DEF Committing, Is
  <2>5. e \in DOMAIN docs
    BY <2>1, <2>2, ReaderJob DEF IngestInv
  <2>6. Committing(e)' \subseteq Committing(e)
    BY <1>9, <1>11, <1>12 DEF Committing, Is
  <2>7. b \in Committing(e)'
    BY <2>1, <2>2 DEF Committing, Is
  <2>8. Committing(e)' = {b}
    BY <2>3, <2>6, <2>7
  <2>9. Committing(actor[b].job.doc)' = {b}
    BY <2>1, <2>2, <2>8
  <2> QED BY <1>14, <2>1, <2>2, <2>3, <2>4, <2>5, <2>9
<1>21. OverlapBound'
  <2> SUFFICES ASSUME NEW t, t # Blank
               PROVE  /\ IsFiniteSet(Billed(t)')
                      /\ Cardinality(Billed(t)') + Cardinality(WillBill(t)') <= Cardinality(Readers)
    BY DEF OverlapBound
  <2>1. /\ IsFiniteSet(Billed(t))
        /\ Cardinality(Billed(t)) + Cardinality(WillBill(t)) <= Cardinality(Readers)
    BY DEF IngestInv, OverlapBound
  <2>2. WillBill(t) \subseteq Readers /\ WillBill(t)' \subseteq WillBill(t) \ {a}
    BY <1>9, <1>11, <1>12 DEF WillBill
  <2>3. /\ Cardinality(WillBill(t)) \in Nat /\ Cardinality(WillBill(t)') \in Nat /\ Cardinality(Readers) \in Nat
        /\ Cardinality(WillBill(t)') <= Cardinality(WillBill(t)) /\ IsFiniteSet(WillBill(t))
    BY <2>2, FewerReaders
  <2>4. \A p \in Billed(t)' :
          \/ p \in Billed(t) /\ (p[1] = d => p[2] \notin replaced)
          \/ p[1] = d /\ p = <<p[1], p[2]>> /\ p[2] \in Billable(added) /\ p[2].text = t
    <3> SUFFICES ASSUME NEW p \in Billed(t)'
                 PROVE  \/ p \in Billed(t) /\ (p[1] = d => p[2] \notin replaced)
                        \/ p[1] = d /\ p = <<p[1], p[2]>> /\ p[2] \in Billable(added) /\ p[2].text = t
      OBVIOUS
    <3>1. PICK e \in DOMAIN docs : p \in {e} \X {r \in Billable(rows'[e]) : r.text = t}
      BY <1>13 DEF Billed
    <3>2. p = <<e, p[2]>> /\ p[1] = e /\ p[2] \in rows'[e] /\ p[2].billable /\ p[2].text = t
      BY <3>1 DEF Billable
    <3>3. CASE p[2] \in rows[e] /\ (e = d => p[2] \notin replaced)
      <4>1. p \in {e} \X {r \in Billable(rows[e]) : r.text = t}
        BY <3>2, <3>3 DEF Billable
      <4>2. p \in Billed(t)
        BY <4>1 DEF Billed
      <4> QED BY <3>2, <3>3, <4>2
    <3>4. CASE e = d /\ p[2] \in added
      BY <3>2, <3>4 DEF Billable
    <3> QED BY <1>5, <1>14, <3>2, <3>3, <3>4
  <2>5. CASE \A r \in Billable(added) : r.text # t
    <3>1. Billed(t)' \subseteq Billed(t)
      BY <2>4, <2>5
    <3>2. /\ IsFiniteSet(Billed(t)') /\ Cardinality(Billed(t)') <= Cardinality(Billed(t))
          /\ Cardinality(Billed(t)') \in Nat /\ Cardinality(Billed(t)) \in Nat
      BY <2>1, <3>1, FS_Subset, FS_CardinalityType
    <3> QED BY <2>1, <2>3, <3>2
  <2>6. ASSUME NEW y \in Billable(added), y.text = t
        PROVE  /\ IsFiniteSet(Billed(t)')
               /\ Cardinality(Billed(t)') + Cardinality(WillBill(t)') <= Cardinality(Readers)
    <3>1. t \notin seen
      BY <1>16, <2>6 DEF Billable
    <3>2. \A r \in Billable(added) : r.text = t => r = y
      BY <1>16, <2>6
    <3>3. Billed(t)' \subseteq Billed(t) \cup {<<d, y>>}
      BY <2>4, <3>2
    <3>4. CASE a \in WillBill(t)
      <4>1. Cardinality(WillBill(t) \ {a}) = Cardinality(WillBill(t)) - 1 /\ IsFiniteSet(WillBill(t) \ {a})
        BY <2>3, <3>4, OneFewer
      <4>2. Cardinality(WillBill(t)') <= Cardinality(WillBill(t)) - 1
        BY <2>2, <2>3, <4>1, FS_Subset
      <4>3. /\ IsFiniteSet(Billed(t)') /\ Cardinality(Billed(t)') <= Cardinality(Billed(t)) + 1
            /\ Cardinality(Billed(t)') \in Nat /\ Cardinality(Billed(t)) \in Nat
        BY <2>1, <3>3, OneMore
      <4> QED BY <2>1, <2>3, <4>2, <4>3
    <3>5. CASE a \notin WillBill(t)
      <4>1. PICK x \in Billable(replaced) : x.text = t
        BY <1>2, <1>3, <1>7, <3>1, <3>5 DEF WillBill
      <4>2. replaced = rows[d]
        BY <1>1, <1>2, <1>7, <4>1 DEF IngestInv, Replacing, Billable
      <4>3. <<d, x>> \in Billed(t)
        <5>1. <<d, x>> \in {d} \X {r \in Billable(rows[d]) : r.text = t}
          BY <4>1, <4>2
        <5> QED BY <1>10, <5>1 DEF Billed
      <4>4. x \in replaced
        BY <4>1 DEF Billable
      <4>5. Billed(t)' \subseteq (Billed(t) \ {<<d, x>>}) \cup {<<d, y>>}
        BY <2>4, <3>2, <4>4
      <4>6. /\ IsFiniteSet(Billed(t)') /\ Cardinality(Billed(t)') <= Cardinality(Billed(t))
            /\ Cardinality(Billed(t)') \in Nat
        BY <2>1, <4>3, <4>5, OneForAnother
      <4>7. Cardinality(Billed(t)) \in Nat
        BY <2>1, FS_CardinalityType
      <4> QED BY <2>1, <2>3, <4>6, <4>7
    <3> QED BY <3>4, <3>5
  <2> QED BY <2>5, <2>6
<1>22. DuplicateHasOriginal'
  <2> SUFFICES ASSUME NEW e \in DOMAIN docs, NEW r \in rows'[e], ~r.billable
               PROVE  r.text \in Kept' \/ r.text \in torn' \/ e \in unread' \/ Rereads(e, r.text)'
    BY <1>13 DEF DuplicateHasOriginal, Kept
  <2>1. \A t \in Texts({s \in new : ~s.billable}) : t \in Kept' \/ t \in torn'
    BY <1>8, <1>13 DEF Kept
  <2>2. CASE e = d
    <3>1. r \in {s \in new : ~s.billable} /\ r.text # Blank
      BY <1>5, <1>14, <1>16, <1>17, <2>2 DEF RowsOf
    <3>2. r.text \in Texts({s \in new : ~s.billable})
      BY <3>1 DEF Texts
    <3> QED BY <2>1, <3>2
  <2>3. CASE e # d
    <3>1. r \in rows[e]
      BY <1>14, <2>3
    <3>2. r.text \in Kept \/ r.text \in torn \/ e \in unread \/ Rereads(e, r.text)
      BY <3>1 DEF IngestInv, DuplicateHasOriginal, Kept
    <3>3. CASE r.text \in Kept
      <4>1. PICK f \in DOMAIN docs : \E s \in Billable(rows[f]) : s.text = r.text /\ s.text # Blank
        BY <3>3 DEF Kept, Texts
      <4>2. CASE f # d
        BY <1>13, <1>14, <4>1, <4>2 DEF Kept, Texts
      <4>3. CASE f = d
        <5>1. PICK i \in DOMAIN FileAt(d).pages : r.text = FileAt(d).pages[i].text
          BY <1>17, <4>1, <4>3 DEF RowsOf, Billable
        <5>2. PICK s \in added : s.text = r.text
          BY <1>16, <5>1
        <5>3. s \in new /\ s.text # Blank
          BY <1>5, <4>1, <5>2
        <5>4. CASE s.billable
          BY <1>10, <1>13, <1>14, <5>2, <5>3, <5>4 DEF Kept, Texts, Billable
        <5>5. CASE ~s.billable
          <6>1. s.text \in Texts({q \in new : ~q.billable})
            BY <5>3, <5>5 DEF Texts
          <6> QED BY <2>1, <5>2, <6>1
        <5> QED BY <5>4, <5>5
      <4> QED BY <4>2, <4>3
    <3>4. CASE Rereads(e, r.text)
      <4>1. CASE \E k \in BagToSet(queue) : k.doc = e
        BY <1>7, <4>1 DEF Rereads
      <4>2. CASE \E b \in Readers : actor[b].pc \in {"read", "commit"} /\ actor[b].job.doc = e
        BY <1>1, <1>9, <1>12, <2>3, <4>2 DEF Rereads
      <4>3. CASE \E b \in Requests : "gone" \in DOMAIN actor[b] /\ r.text \in actor[b].gone
        BY <1>9, <1>12, <4>3 DEF Rereads
      <4> QED BY <3>4, <4>1, <4>2, <4>3 DEF Rereads
    <3>5. CASE r.text \in torn \/ e \in unread
      BY <1>7, <1>8, <2>3, <3>5
    <3> QED BY <3>2, <3>3, <3>4, <3>5
  <2> QED BY <2>2, <2>3
<1>23. MeterCatchesUp'
  BY <1>9, <1>11, <1>12 DEF MeterCatchesUp
<1>24. FrozenStays' /\ CitedStays'
  <2>1. \A e : Present(e)' <=> Present(e)
    BY <1>13 DEF Present
  <2> QED BY <1>7, <2>1 DEF IngestInv, FrozenStays, CitedStays, review
<1> QED BY <1>15, <1>19, <1>20, <1>21, <1>22, <1>23, <1>24 DEF IngestInv

-----------------------------------------------------------------------------
(* Removal.                                                                *)

\* What is left of a removal keeps the texts it has to look for, and it counts if it removed.
LEMMA RemovalGoesOn ==
  ASSUME NEW a \in Requests, NEW ids, ids \subseteq DOMAIN docs, NEW gone, NEW removed \in BOOLEAN,
         gone # {} => removed,
         NEW w, w = AfterRemoving([pc |-> "remove", ids |-> ids, gone |-> gone, removed |-> removed])
  PROVE  /\ IsWork(a, w) /\ w.pc \in {"remove", "meter", "idle"}
         /\ gone # {} => "gone" \in DOMAIN w /\ w.gone = gone
         /\ removed => w.pc = "meter" \/ (w.pc = "remove" /\ w.removed)
<1>1. PICK r : r = [pc |-> "remove", ids |-> ids, gone |-> gone, removed |-> removed]
  OBVIOUS
<1>2. CASE ids # {}
  <2>1. w = r
    BY <1>1, <1>2 DEF AfterRemoving
  <2> QED BY <1>1, <2>1 DEF IsWork
<1>3. CASE ids = {} /\ removed
  <2>1. w = Recount(gone, {})
    BY <1>3 DEF AfterRemoving
  <2> QED BY <2>1, Recounts
<1>4. CASE ids = {} /\ ~removed
  <2>1. w = Resting
    BY <1>4 DEF AfterRemoving
  <2>2. IsWork(a, w) /\ w.pc = "idle"
    BY <2>1 DEF IsWork, Resting
  <2>3. gone = {}
    BY <1>4
  <2> QED BY <1>4, <2>2, <2>3
<1> QED BY <1>2, <1>3, <1>4

LEMMA RemovalIs ==
  ASSUME NEW ids, NEW gone, NEW removed, NEW i, NEW g, NEW c,
         NEW v, v = [pc |-> "remove", ids |-> ids, gone |-> gone, removed |-> removed],
         NEW r, r = [v EXCEPT !.ids = i, !.gone = g, !.removed = c]
  PROVE  r = [pc |-> "remove", ids |-> i, gone |-> g, removed |-> c]
<1>1. r = [x \in {"pc", "ids", "gone", "removed"} |-> r[x]]
  OBVIOUS
<1>2. r.pc = "remove" /\ r.ids = i /\ r.gone = g /\ r.removed = c
  OBVIOUS
<1> QED BY <1>1, <1>2

LEMMA RemovesOne ==
  ASSUME IngestInv, NEW a \in Requests, NEW d \in DOMAIN docs, RemoveOne(a, d)
  PROVE  IngestInv'
<1>1. a \in Actors /\ a \notin Readers /\ Readers \subseteq Actors /\ Requests \subseteq Actors
  BY IngestionAssumption DEF IngestionAssumption, Actors
<1>2. PICK v : v = actor[a]
  OBVIOUS
<1>3. PICK ids, gone, removed : ids = v.ids /\ gone = v.gone /\ removed = v.removed
  OBVIOUS
<1>4. actor[a].pc = "remove" /\ IsWork(a, actor[a])
  BY <1>1, WorkIs DEF RemoveOne, Is
<1>5. /\ v = [pc |-> "remove", ids |-> ids, gone |-> gone, removed |-> removed]
      /\ ids \subseteq DOMAIN docs /\ removed \in BOOLEAN /\ (gone # {} => removed)
  BY <1>2, <1>3, <1>4 DEF IsWork, Resting
<1>6. Counting(a) <=> removed
  BY <1>2, <1>3, <1>4 DEF Counting
<1>7. UNCHANGED review /\ UNCHANGED queue /\ UNCHANGED counted /\ UNCHANGED torn /\ UNCHANGED unread
  BY DEF RemoveOne
<1>8. \A b \in Committing(d) : actor[b].replaced = {}
  BY DEF RemoveOne
\* What the request has yet to look for, and whether it has to count.
<1>9. PICK c, more :
        /\ actor' = [actor EXCEPT ![a] =
             AfterRemoving([pc |-> "remove", ids |-> ids \ {d}, gone |-> more, removed |-> c])]
        /\ c \in BOOLEAN
        /\ Refused(d) => more = gone /\ (c <=> removed)
        /\ ~Refused(d) => more = gone \cup Texts(rows[d]) /\ c
  <2>1. PICK i, g, b : i = v.ids \ {d} /\ g = (IF Refused(d) THEN v.gone ELSE v.gone \cup Texts(rows[d]))
                        /\ b = (v.removed \/ ~Refused(d))
    OBVIOUS
  <2>2. actor' = [actor EXCEPT ![a] = AfterRemoving([v EXCEPT !.ids = i, !.gone = g, !.removed = b])]
    BY <1>2, <2>1, Zenon DEF RemoveOne, Turn
  <2>3. i = ids \ {d} /\ b \in BOOLEAN
    BY <1>3, <2>1, Zenon
  <2>4. PICK r : r = [v EXCEPT !.ids = i, !.gone = g, !.removed = b]
    OBVIOUS
  <2>5. r = [pc |-> "remove", ids |-> i, gone |-> g, removed |-> b]
    BY <1>5, <2>4, RemovalIs
  <2>6. actor' = [actor EXCEPT ![a] =
           AfterRemoving([pc |-> "remove", ids |-> ids \ {d}, gone |-> g, removed |-> b])]
    BY <2>2, <2>3, <2>4, <2>5, Zenon
  <2>7. Refused(d) => g = gone /\ (b <=> removed)
    BY <1>3, <2>1, Zenon
  <2>8. ~Refused(d) => g = gone \cup Texts(rows[d]) /\ b
    BY <1>3, <2>1, Zenon
  <2> QED BY <2>3, <2>6, <2>7, <2>8, Zenon
<1>10. PICK w : w = AfterRemoving([pc |-> "remove", ids |-> ids \ {d}, gone |-> more, removed |-> c])
  OBVIOUS
<1>11. actor' = [actor EXCEPT ![a] = w]
  BY <1>9, <1>10, Zenon
<1>12. /\ IsWork(a, w) /\ w.pc \in {"remove", "meter", "idle"}
       /\ more # {} => "gone" \in DOMAIN w /\ w.gone = more
       /\ c => w.pc = "meter" \/ (w.pc = "remove" /\ w.removed)
  <2>1. ids \ {d} \subseteq DOMAIN docs /\ (more # {} => c) /\ c \in BOOLEAN
    BY <1>5, <1>9
  <2> QED BY <1>10, <2>1, RemovalGoesOn
<1>13. CASE Refused(d)
  <2>1. UNCHANGED <<docs, rows, review>> /\ UNCHANGED pulled
    BY <1>7, <1>13 DEF RemoveOne, record
  <2>2. IsABag(queue') /\ BagToSet(queue') \subseteq Jobs /\ QueueStands
    BY <1>7, QueueRests
  <2>3. "gone" \in DOMAIN actor[a] /\ actor[a].gone # {} => "gone" \in DOMAIN w /\ actor[a].gone \subseteq w.gone
    BY <1>2, <1>3, <1>9, <1>12, <1>13
  <2>4. \/ UNCHANGED counted /\ (Counting(a) => w.pc \in {"meter", "write"})
        \/ stale' \/ meter' = Ledger' \/ w.pc \in {"meter", "write"} \/ (w.pc = "remove" /\ w.removed)
    BY <1>6, <1>7, <1>9, <1>12, <1>13
  <2> QED BY <1>1, <1>7, <1>11, <1>12, <2>1, <2>2, <2>3, <2>4, AloneSteps
<1>14. CASE ~Refused(d)
  <2>1. more = gone \cup Texts(rows[d]) /\ c
    BY <1>9, <1>14
  <2>5. PICK r : r = [docs[d] EXCEPT !.present = FALSE]
    OBVIOUS
  <2>6. /\ docs' = [docs EXCEPT ![d] = r] /\ rows' = [rows EXCEPT ![d] = {}]
        /\ pulled' = IF phase = "collecting" THEN pulled ELSE pulled \cup {d}
    BY <1>14, <2>5 DEF RemoveOne
  <2>7. r \in DocRows /\ r.file = docs[d].file /\ r.quarantined = docs[d].quarantined /\ r.present = FALSE
    BY <2>5, FileIs DEF DocRows
  <2>8. docs \in Seq(DocRows) /\ Len(rows) = Len(docs) /\ DOMAIN docs = 1 .. Len(docs)
    BY DEF IngestInv, IngestTypes
  <2>9. /\ docs' \in Seq(DocRows) /\ Len(docs') = Len(docs) /\ DOMAIN docs' = DOMAIN docs
        /\ docs'[d] = r /\ \A e \in DOMAIN docs : e # d => docs'[e] = docs[e]
    BY <2>6, <2>7, <2>8
  <2>10. /\ Len(rows') = Len(docs') /\ \E S : rows' \in Seq(S)
         /\ rows'[d] = {} /\ \A e \in DOMAIN docs : e # d => rows'[e] = rows[e]
    <3>1. PICK S : rows \in Seq(S)
      BY DEF IngestInv, IngestTypes
    <3>2. rows \in Seq(S \cup {{}}) /\ {} \in S \cup {{}} /\ d \in 1 .. Len(rows)
      BY <2>8, <3>1
    <3>3. /\ rows' \in Seq(S \cup {{}}) /\ Len(rows') = Len(rows)
          /\ rows'[d] = {} /\ \A e \in 1 .. Len(rows) : e # d => rows'[e] = rows[e]
      BY <2>6, <3>2
    <3> QED BY <2>8, <2>9, <3>3
  <2>11. /\ IsWork(a, w) /\ w.pc \in {"remove", "meter"} /\ (w.pc = "remove" => w.removed)
         /\ more # {} => "gone" \in DOMAIN w /\ w.gone = more
    BY <1>12, <2>1
  <2>12. actor'[a] = w /\ \A b \in Actors : b # a => actor'[b] = actor[b]
    BY <1>1, <1>11 DEF IngestInv, IngestTypes
  <2>13. IngestTypes'
    <3>1. DOMAIN docs \subseteq DOMAIN docs' /\ Jobs' = Jobs
      BY <2>9 DEF Jobs
    <3>2. IsWork(a, w)' /\ IsABag(queue') /\ BagToSet(queue') \subseteq Jobs'
      BY <1>7, <2>11, <3>1, QueueRests, WorkGrows
    <3> QED BY <1>1, <1>7, <1>11, <2>9, <2>10, <3>1, <3>2, TypesStand DEF IngestInv
  <2>14. \A b \in Readers : actor'[b] = actor[b]
    BY <1>1, <2>12
  <2>15. RowsAreRead'
    <3>1. RowsOf(d)'
      <4>1. RowsOf(d)
        BY DEF IngestInv, RowsAreRead
      <4> QED BY <2>7, <2>9, <2>10, <4>1 DEF RowsOf, FileAt
    <3>2. ASSUME NEW e \in DOMAIN docs, e # d PROVE RowsOf(e)'
      <4>1. RowsOf(e)
        BY DEF IngestInv, RowsAreRead
      <4>2. docs'[e] = docs[e] /\ rows'[e] = rows[e]
        BY <2>9, <2>10, <3>2
      <4> QED BY <4>1, <4>2 DEF RowsOf, FileAt
    <3>3. ASSUME NEW b \in Readers, actor'[b].pc \in {"read", "commit"}
          PROVE  (~FileAt(actor[b].job.doc).infected)'
      <4>1. actor[b].job.doc \in DOMAIN docs /\ ~FileAt(actor[b].job.doc).infected
        BY <2>14, <3>3, ReaderJob DEF IngestInv, RowsAreRead
      <4> QED BY <2>7, <2>9, <2>14, <4>1 DEF FileAt
    <3> QED BY <2>9, <3>1, <3>2, <3>3 DEF RowsAreRead
  <2>16. Replacing'
    <3> SUFFICES ASSUME NEW b \in Readers, actor'[b].pc = "commit", actor'[b].replaced # {}
                 PROVE  actor'[b].replaced = rows'[actor'[b].job.doc] /\ Committing(actor[b].job.doc)' = {b}
      BY DEF Replacing
    <3>1. actor'[b] = actor[b]
      BY <2>14
    <3>2. PICK e : e = actor[b].job.doc
      OBVIOUS
    <3>3. actor[b].replaced = rows[e] /\ Committing(e) = {b} /\ e \in DOMAIN docs
      BY <3>1, <3>2, ReaderJob DEF IngestInv, Replacing
    <3>4. e # d
      BY <1>8, <3>1, <3>3
    <3>5. Committing(e)' = Committing(e)
      BY <2>14 DEF Committing, Is
    <3>6. Committing(actor[b].job.doc)' = {b}
      BY <3>1, <3>2, <3>3, <3>5
    <3> QED BY <2>10, <3>1, <3>2, <3>3, <3>4, <3>6
  <2>17. OverlapBound'
    <3>1. \A t : Billed(t)' \subseteq Billed(t)
      <4> SUFFICES ASSUME NEW t, NEW p \in Billed(t)' PROVE p \in Billed(t)
        OBVIOUS
      <4>1. PICK e \in DOMAIN docs : p \in {e} \X {r1 \in Billable(rows'[e]) : r1.text = t}
        BY <2>9 DEF Billed
      <4>2. e # d
        BY <2>10, <4>1 DEF Billable
      <4>3. p \in {e} \X {r1 \in Billable(rows[e]) : r1.text = t}
        BY <2>10, <4>1, <4>2
      <4> QED BY <4>3 DEF Billed
    <3>2. \A t : WillBill(t)' \subseteq WillBill(t)
      BY <2>14 DEF WillBill
    <3> QED BY <3>1, <3>2, BoundKept DEF IngestInv
  <2>18. DuplicateHasOriginal'
    <3> SUFFICES ASSUME NEW e \in DOMAIN docs, NEW q \in rows'[e], ~q.billable
                 PROVE  q.text \in Kept' \/ q.text \in torn' \/ e \in unread' \/ Rereads(e, q.text)'
      BY <2>9 DEF DuplicateHasOriginal, Kept
    <3>1. e # d /\ q \in rows[e]
      BY <2>10
    <3>2. q.text \in Kept \/ q.text \in torn \/ e \in unread \/ Rereads(e, q.text)
      BY <3>1 DEF IngestInv, DuplicateHasOriginal, Kept
    <3>3. CASE q.text \in Kept
      <4>1. PICK f \in DOMAIN docs : \E s \in Billable(rows[f]) : s.text = q.text /\ s.text # Blank
        BY <3>3 DEF Kept, Texts
      <4>2. CASE f # d
        BY <2>9, <2>10, <4>1, <4>2 DEF Kept, Texts
      <4>3. CASE f = d
        <5>1. q.text \in more
          BY <2>1, <4>1, <4>3 DEF Texts, Billable
        <5> QED BY <2>11, <2>12, <5>1 DEF Rereads
      <4> QED BY <4>2, <4>3
    <3>4. CASE Rereads(e, q.text)
      <4>1. CASE \E k \in BagToSet(queue) : k.doc = e
        BY <1>7, <4>1 DEF Rereads
      <4>2. CASE \E b \in Readers : actor[b].pc \in {"read", "commit"} /\ actor[b].job.doc = e
        BY <2>14, <4>2 DEF Rereads
      <4>3. CASE \E b \in Requests \ {a} : "gone" \in DOMAIN actor[b] /\ q.text \in actor[b].gone
        BY <1>1, <2>12, <4>3 DEF Rereads
      <4>4. CASE "gone" \in DOMAIN actor[a] /\ q.text \in actor[a].gone
        <5>1. q.text \in more
          BY <1>2, <1>3, <2>1, <4>4
        <5> QED BY <2>11, <2>12, <5>1 DEF Rereads
      <4> QED BY <3>4, <4>1, <4>2, <4>3, <4>4 DEF Rereads
    <3> QED BY <1>7, <3>2, <3>3, <3>4
  <2>19. MeterCatchesUp'
    BY <1>1, <2>11, <2>12 DEF MeterCatchesUp, Is
  <2>20. FrozenStays' /\ CitedStays'
    <3>1. \A e : e # d => (Present(e)' <=> Present(e))
      BY <2>9 DEF Present
    <3>2. d \notin cited
      BY <1>14 DEF Refused
    <3>3. phase = "collecting" => frozen = {}
      BY DEF IngestInv, FrozenStays
    <3>4. pulled \subseteq pulled' /\ (phase # "collecting" => d \in pulled')
      BY <2>6
    <3> QED BY <1>7, <3>1, <3>2, <3>3, <3>4 DEF IngestInv, FrozenStays, CitedStays, review
  <2> QED BY <2>13, <2>15, <2>16, <2>17, <2>18, <2>19, <2>20 DEF IngestInv
<1> QED BY <1>13, <1>14
-----------------------------------------------------------------------------
(* The results.                                                            *)

LEMMA IngestStarts == ASSUME IngestInit PROVE IngestInv
<1>1. DOMAIN docs = {}
  BY DEF IngestInit
<1>2. \A a \in Actors : actor[a] = Resting
  BY DEF IngestInit
<1>3. Readers \subseteq Actors
  BY DEF Actors
<1>4. IngestTypes
  <2>1. docs \in Seq(DocRows) /\ Len(rows) = Len(docs) /\ rows \in Seq({})
    BY DEF IngestInit
  <2>2. IsABag(queue) /\ BagToSet(queue) = {}
    BY DEF IngestInit, EmptyBag, IsABag, BagToSet, SetToBag
  <2>3. actor = [a \in Actors |-> actor[a]] /\ \A a \in Actors : IsWork(a, actor[a])
    BY <1>2 DEF IngestInit, IsWork
  <2> QED BY <2>1, <2>2, <2>3 DEF IngestInit, IngestTypes
<1>5. RowsAreRead /\ Replacing
  BY <1>1, <1>2, <1>3 DEF RowsAreRead, Replacing, Resting
<1>6. OverlapBound
  <2>1. \A t : Billed(t) = {} /\ WillBill(t) = {}
    BY <1>1, <1>2, <1>3 DEF Billed, WillBill, Resting
  <2>2. Cardinality(Readers) \in Nat /\ Cardinality({}) = 0 /\ IsFiniteSet({})
    BY IngestionAssumption, FS_EmptySet, FS_CardinalityType DEF IngestionAssumption
  <2>3. Cardinality({}) + Cardinality({}) <= Cardinality(Readers)
    BY <2>2
  <2> QED BY <2>1, <2>2, <2>3 DEF OverlapBound
<1>7. FrozenStays /\ CitedStays /\ DuplicateHasOriginal
  BY <1>1 DEF IngestInit, FrozenStays, CitedStays, DuplicateHasOriginal
<1>8. MeterCatchesUp
  <2>1. \A k \in Kinds : UNION {{d} \X Billable(rows[d]) :
                     d \in {e \in DOMAIN docs : docs[e].present /\ ~docs[e].quarantined /\ docs[e].kind = k}} = {}
    BY <1>1
  <2>2. Ledger = [k \in Kinds |-> 0]
    BY <2>1, FS_EmptySet DEF Ledger, LedgerOf
  <2> QED BY <2>2 DEF IngestInit, MeterCatchesUp
<1> QED BY <1>4, <1>5, <1>6, <1>7, <1>8 DEF IngestInv

LEMMA IngestStutters == ASSUME IngestInv, UNCHANGED ingestVars PROVE IngestInv'
<1>1. /\ UNCHANGED <<docs, rows, queue, actor, meter, stale, torn, pulled, unread>>
      /\ UNCHANGED phase /\ UNCHANGED frozen /\ UNCHANGED cited
  BY DEF ingestVars
<1>2. FrozenStays' /\ CitedStays'
  BY <1>1 DEF IngestInv, FrozenStays, CitedStays, Present
<1>3. frozen' \subseteq DOMAIN docs /\ cited' \subseteq DOMAIN docs
  BY <1>1 DEF IngestInv, IngestTypes
<1> QED BY <1>1, <1>2, <1>3, ReviewSteps

LEMMA IngestStep == ASSUME IngestInv, [IngestNext]_ingestVars PROVE IngestInv'
<1>1. Readers \subseteq Actors /\ Requests \subseteq Actors
  BY DEF Actors
<1>2. CASE \E a \in Readers : Reading(a) \/ ReaderFails(a)
  BY <1>1, <1>2, TakeKeeps, LookKeeps, CommitKeeps, FailuresKeep, MeterReads, MeterWrites DEF Reading
<1>3. CASE \E a \in Requests : Family(a)
  BY <1>3, Uploads, Removes, RemovesOne, ReadsAgain, RequestEnds DEF Family
<1>4. CASE \E a \in Actors : MeterRead(a) \/ MeterWrite(a) \/ MeterFails(a)
  BY <1>4, MeterReads, MeterWrites, MeterFailsKeeps
<1>5. CASE WorkerDies
  BY <1>5, WorkerDeathKeeps
<1>6. CASE Unzip \/ UnzipEntry \/ Unzipped \/ UnzipDies
  BY <1>6, UnzipKeeps, UnzipEntryKeeps, UnzippedKeeps, UnzipDeathKeeps
<1>7. CASE \E d \in DOMAIN docs : Confirm(d) \/ \E i \in Items : Correct(d, i)
  BY <1>7, Confirms, Corrects
<1>8. CASE \E d \in DOMAIN docs, k \in Labels : SetVolume(d, k)
  BY <1>8, Labelled
<1>9. CASE Freeze \/ (\E C \in SUBSET frozen : Cite(C)) \/ CollectAgain
  BY <1>9, Freezes, Cites, CollectsAgain
<1>10. CASE UNCHANGED ingestVars
  BY <1>10, IngestStutters
<1> QED BY <1>2, <1>3, <1>4, <1>5, <1>6, <1>7, <1>8, <1>9, <1>10 DEF IngestNext

\* The record of a case keeps what is known of it, whatever is uploaded, read, retried, removed,
\* counted or analysed, in whatever order (upload, digitize.service, document-removal.service).
THEOREM RecordHolds == IngestSpec => []IngestInv
<1>1. IngestInit => IngestInv
  BY IngestStarts
<1>2. IngestInv /\ [IngestNext]_ingestVars => IngestInv'
  BY IngestStep
<1> QED BY <1>1, <1>2, PTL DEF IngestSpec

\* A page kept as a duplicate has its original in some document, or its document is read again:
\* removing the original never loses its text (document-removal.service), but for the two ways
\* the property names, a reading that overlapped the removal and a re-read nobody queued.
THEOREM NoTextIsLost == IngestSpec => []DuplicateHasOriginal
<1>1. IngestInv => DuplicateHasOriginal
  BY DEF IngestInv
<1> QED BY <1>1, RecordHolds, PTL

\* A text is billed at most once for every reader there is, however often it is uploaded,
\* unzipped, read again or retried (digitize.service's look at the other documents' pages).
THEOREM BilledOncePerReader == IngestSpec => []BilledByOverlapOnly
<1>1. IngestInv => BilledByOverlapOnly
  <2> SUFFICES ASSUME IngestInv, NEW t \in Texts(UNION {rows[d] : d \in DOMAIN docs})
               PROVE  Cardinality(Billed(t)) <= Cardinality(Readers)
    BY DEF BilledByOverlapOnly
  <2>1. t # Blank
    BY DEF Texts
  <2>2. /\ IsFiniteSet(Billed(t))
        /\ Cardinality(Billed(t)) + Cardinality(WillBill(t)) <= Cardinality(Readers)
    BY <2>1 DEF IngestInv, OverlapBound
  <2>3. WillBill(t) \subseteq Readers
    BY DEF WillBill
  <2>4. Cardinality(Billed(t)) \in Nat /\ Cardinality(WillBill(t)) \in Nat /\ Cardinality(Readers) \in Nat
    BY <2>2, <2>3, FewerReaders, FS_CardinalityType
  <2> QED BY <2>2, <2>4
<1> QED BY <1>1, RecordHolds, PTL

\* The stored page count agrees with the page ledger, or somebody is about to count, unless a
\* count failed or was written after a later change (inventory.service).
THEOREM MeterIsCounted == IngestSpec => []MeterCatchesUp
<1>1. IngestInv => MeterCatchesUp
  BY DEF IngestInv
<1> QED BY <1>1, RecordHolds, PTL

\* A document some finding cites is there, but for one a removal older than the analysis took
\* from under it (document-removal.service).
THEOREM CitedAreKept == IngestSpec => []CitedStays
<1>1. IngestInv => CitedStays
  BY DEF IngestInv
<1> QED BY <1>1, RecordHolds, PTL

-----------------------------------------------------------------------------
(* The dates counsel and the family are shown (DeadlineClocks).            *)

\* A set of numbers that has 0, and with each number the next, has them all.
LEMMA FromZeroOn ==
  ASSUME NEW T, 0 \in T, \A n \in Nat : n \in T => n + 1 \in T
  PROVE  Nat \subseteq T
<1>1. SUFFICES ASSUME NEW U, U = {n \in Nat : n \notin T}, U /= {} PROVE FALSE
  OBVIOUS
<1>2. U \subseteq Nat
  BY <1>1
<1>3. PICK x \in U : \A y \in U : ~(<<y, x>> \in OpToRel(<, Nat))
  BY <1>1, <1>2, WFMin, NatLessThanWellFounded, Zenon
<1>4. \A y \in U : ~(y < x)
  BY <1>2, <1>3, Zenon DEF OpToRel
<1>5. x \in Nat \ {0} /\ x \notin T
  BY <1>1, <1>3
<1>6. x - 1 \in Nat /\ x - 1 < x /\ (x - 1) + 1 = x
  BY <1>5
<1>7. x - 1 \in T
  BY <1>1, <1>4, <1>6
<1> QED BY <1>5, <1>6, <1>7

\* The least of some numbers, and the greater and the lesser of two.
LEMMA MinOfSome ==
  ASSUME NEW S, S \subseteq Nat, S /= {}
  PROVE  Min(S) \in S /\ \A y \in S : Min(S) <= y
<1>1. PICK x \in S : \A y \in S : ~(<<y, x>> \in OpToRel(<, Nat))
  BY WFMin, NatLessThanWellFounded, Zenon
<1>2. \A y \in S : ~(y < x)
  BY <1>1, Zenon DEF OpToRel
<1>3. \A y \in S : x <= y
  BY <1>2
<1> QED BY <1>3 DEF Min

LEMMA MaxOfTwo ==
  ASSUME NEW a \in Int, NEW b \in Int
  PROVE  Max({a, b}) = IF a >= b THEN a ELSE b
<1>1. PICK m : m = Max({a, b})
  OBVIOUS
<1>2. \E x \in {a, b} : \A y \in {a, b} : x >= y
  OBVIOUS
<1>3. m \in {a, b} /\ \A y \in {a, b} : m >= y
  BY <1>1, <1>2 DEF Max
<1> QED BY <1>1, <1>3

LEMMA MinOfTwo ==
  ASSUME NEW a \in Int, NEW b \in Int
  PROVE  Min({a, b}) = IF a <= b THEN a ELSE b
<1>1. PICK m : m = Min({a, b})
  OBVIOUS
<1>2. \E x \in {a, b} : \A y \in {a, b} : x <= y
  OBVIOUS
<1>3. m \in {a, b} /\ \A y \in {a, b} : m <= y
  BY <1>1, <1>2 DEF Min
<1> QED BY <1>1, <1>3

LEMMA MaxOfOne ==
  ASSUME NEW a \in Int
  PROVE  Max({a}) = a
BY DEF Max

\* A period ends on the day it is out or, past closed days, within the fourteen that follow.
LEMMA RollForwardWithin ==
  ASSUME NEW d \in Nat
  PROVE  RollForward(d) \in d .. d + 14
<1>1. PICK S : S = {e \in d .. d + 14 : ~Obstacle(e) \/ e = d + 14}
  OBVIOUS
<1>2. d + 14 \in S /\ S \subseteq Nat
  BY <1>1
<1>3. Min(S) \in S
  BY <1>2, MinOfSome
<1> QED BY <1>1, <1>3 DEF RollForward

LEMMA ComputeDueWithin ==
  ASSUME NEW t \in Nat, NEW n \in Nat
  PROVE  ComputeDue(t, n) \in Nat /\ ComputeDue(t, n) >= t + n /\ ComputeDue(t, n) <= t + n + 14
<1>1. PICK d \in Nat : d = t + n
  OBVIOUS
<1>2. RollForward(d) \in d .. d + 14
  BY RollForwardWithin
<1> QED BY <1>1, <1>2 DEF ComputeDue

-----------------------------------------------------------------------------
Dates == Nat \cup {NotRecorded}
Dockets == [Fields -> Dates]

LEMMA VectorIs ==
  ASSUME NEW f, NEW t, NEW n, NEW d, NEW m, NEW r, NEW x, x = Vector(f, t, n, d, m, r)
  PROVE  /\ x.family = f /\ x.trigger = t /\ x.days = n /\ x.filed = d /\ x.mnt = m /\ x.rehearing = r
         /\ x.jurisdictional <=> f \in {"noa", "pdr"}
         /\ x.optional <=> f \in {"mnt", "state_brief", "reply_brief", "rehearing"}
         /\ x.extension <=> t = f
BY DEF Vector

\* What the rules say of one family: the day it is due, from its trigger, and whether it is lost.
Lost(filed, due, now) == IF filed = NotRecorded THEN now > due ELSE filed > ComputeDue(due, 15)

\* A family has one base vector that applies, and its extension.
OneFamily(f, vs, b, e, dk) ==
  /\ f \notin Fields
  /\ b \in vs /\ b.family = f /\ ~b.extension /\ Applies(b, dk) /\ b.jurisdictional /\ ~b.optional
  /\ b.trigger \in Fields /\ b.filed \in Fields /\ b.days \in Nat
  /\ e \in vs /\ e.family = f /\ e.extension /\ Applies(e, dk) /\ e.jurisdictional /\ ~e.optional
  /\ e.trigger = f /\ e.filed = b.filed /\ e.days = 15
  /\ \A x \in vs : x.family = f /\ Applies(x, dk) => x \in {b, e}

LEMMA StatusOfDue ==
  ASSUME NEW x, NEW vs, NEW dk, NEW now \in Nat, ~x.optional, Due(x, vs, dk) \in Dates
  PROVE  /\ Due(x, vs, dk) = NotRecorded => Status(x, vs, dk, now) = "not_yet"
         /\ Due(x, vs, dk) /= NotRecorded /\ dk[x.filed] /= NotRecorded =>
              Status(x, vs, dk, now) = IF x.extension /\ FiledLate(x, vs, dk) THEN "missed" ELSE "done"
         /\ Due(x, vs, dk) /= NotRecorded /\ dk[x.filed] = NotRecorded =>
              Status(x, vs, dk, now) = IF now > Due(x, vs, dk) THEN "missed" ELSE "open"
<1>1. PICK due : due = Due(x, vs, dk)
  OBVIOUS
<1>2. PICK s : s = Status(x, vs, dk, now)
  OBVIOUS
<1>3. due \in Dates
  BY <1>1
<1>4. due = NotRecorded => s = "not_yet"
  BY <1>1, <1>2 DEF Status
<1>5. due /= NotRecorded /\ dk[x.filed] /= NotRecorded =>
        s = IF x.extension /\ FiledLate(x, vs, dk) THEN "missed" ELSE "done"
  BY <1>1, <1>2 DEF Status
<1>6. due /= NotRecorded /\ dk[x.filed] = NotRecorded => s = IF now > due THEN "missed" ELSE "open"
  BY <1>1, <1>2, <1>3 DEF Status, Dates, NotRecorded
<1> QED BY <1>1, <1>2, <1>4, <1>5, <1>6

LEMMA FamilyDues ==
  ASSUME NEW dk \in Dockets, NEW f, NEW vs, NEW b, NEW e, OneFamily(f, vs, b, e, dk)
  PROVE  /\ Due(b, vs, dk) = IF dk[b.trigger] = NotRecorded THEN NotRecorded ELSE ComputeDue(dk[b.trigger], b.days)
         /\ Due(e, vs, dk) = IF dk[b.trigger] = NotRecorded THEN NotRecorded ELSE ComputeDue(Due(b, vs, dk), 15)
         /\ BaseOf(f, vs, dk) = {b}
         /\ dk[b.trigger] /= NotRecorded => Due(b, vs, dk) \in Nat
<1>1. Due(b, vs, dk) = InputDue(b, dk)
  BY DEF Due, OneFamily
<1>2. PICK t : t = dk[b.trigger]
  OBVIOUS
<1>3. t \in Nat \cup {NotRecorded}
  BY <1>2 DEF Dockets, Dates, OneFamily
<1>4. InputDue(b, dk) = IF t = NotRecorded THEN NotRecorded ELSE ComputeDue(t, b.days)
  BY <1>2 DEF InputDue
<1>5. BaseOf(f, vs, dk) = {b}
  BY DEF BaseOf, OneFamily
<1>6. t /= NotRecorded => InputDue(b, dk) \in Nat
  BY <1>3, <1>4, ComputeDueWithin DEF OneFamily
<1>7. PICK base : base = {InputDue(c, dk) : c \in BaseOf(e.trigger, vs, dk)} \ {NotRecorded}
  OBVIOUS
<1>8. base = {InputDue(b, dk)} \ {NotRecorded}
  BY <1>5, <1>7 DEF OneFamily
<1>9. Due(e, vs, dk) = IF base = {} THEN NotRecorded ELSE ComputeDue(Max(base), 15)
  BY <1>7 DEF Due, OneFamily
<1>10. CASE t = NotRecorded
  <2>1. base = {}
    BY <1>4, <1>8, <1>10
  <2> QED BY <1>1, <1>2, <1>4, <1>5, <1>9, <1>10, <2>1
<1>11. CASE t /= NotRecorded
  <2>1. PICK d \in Nat : d = InputDue(b, dk)
    BY <1>6, <1>11
  <2>2. base = {d} /\ Max({d}) = d
    BY <1>8, <2>1, MaxOfOne DEF NotRecorded
  <2> QED BY <1>1, <1>2, <1>4, <1>5, <1>9, <1>11, <2>1, <2>2
<1> QED BY <1>10, <1>11

\* The step the clock shows for a vector.
StepOf(x, vs, dk, now) ==
  [vector |-> x, due |-> Due(x, vs, dk), late |-> FiledLate(x, vs, dk), status |-> Status(x, vs, dk, now)]
Shown(x, vs, dk, now) ==
  Applies(x, dk) /\ Matters(x, vs, dk, now) /\ Status(x, vs, dk, now) /= "dropped"

LEMMA StepsAre ==
  ASSUME NEW v, NEW dk, NEW now
  PROVE  Steps(v, dk, now) =
           {StepOf(x, VectorsFor(v), dk, now) : x \in {x \in VectorsFor(v) : Shown(x, VectorsFor(v), dk, now)}}
BY DEF Steps, StepOf, Shown

\* A family is reported missed exactly when the rules, read one deadline at a time, say it is lost.
LEMMA FamilyMissed ==
  ASSUME NEW dk \in Dockets, NEW now \in Nat, NEW v, NEW f, NEW vs, vs = VectorsFor(v), NEW b, NEW e,
         OneFamily(f, vs, b, e, dk)
  PROVE  (\E s \in Steps(v, dk, now) : s.vector.family = f /\ Missed(s, Steps(v, dk, now)))
           <=> (dk[b.trigger] /= NotRecorded /\ Lost(dk[b.filed], ComputeDue(dk[b.trigger], b.days), now))
<1>1. PICK S : S = Steps(v, dk, now)
  OBVIOUS
<1>2. PICK sb, se : sb = StepOf(b, vs, dk, now) /\ se = StepOf(e, vs, dk, now)
  OBVIOUS
<1>3. \A s \in S : s.vector.family = f => s = sb \/ (s = se /\ Matters(e, vs, dk, now))
  <2>1. SUFFICES ASSUME NEW s \in S, s.vector.family = f
                 PROVE  s = sb \/ (s = se /\ Matters(e, vs, dk, now))
    OBVIOUS
  <2>2. PICK x \in vs : Shown(x, vs, dk, now) /\ s = StepOf(x, vs, dk, now)
    BY <1>1, <2>1, StepsAre
  <2>3. x.family = f /\ Applies(x, dk) /\ Matters(x, vs, dk, now)
    BY <2>1, <2>2 DEF StepOf, Shown
  <2>4. x \in {b, e}
    BY <2>3 DEF OneFamily
  <2> QED BY <1>2, <2>2, <2>3, <2>4
<1>4. /\ Due(b, vs, dk) = IF dk[b.trigger] = NotRecorded THEN NotRecorded ELSE ComputeDue(dk[b.trigger], b.days)
      /\ Due(e, vs, dk) = IF dk[b.trigger] = NotRecorded THEN NotRecorded ELSE ComputeDue(Due(b, vs, dk), 15)
      /\ BaseOf(f, vs, dk) = {b}
      /\ dk[b.trigger] /= NotRecorded => Due(b, vs, dk) \in Nat
  BY FamilyDues
<1>5. PICK p, fd, D, X : p = dk[b.trigger] /\ fd = dk[b.filed] /\ D = Due(b, vs, dk) /\ X = Due(e, vs, dk)
  OBVIOUS
<1>6. p \in Dates /\ fd \in Dates
  BY <1>5 DEF Dockets, OneFamily
<1>7. D \in Dates /\ X \in Dates /\ (p = NotRecorded => D = NotRecorded /\ X = NotRecorded)
      /\ (p /= NotRecorded => D \in Nat /\ X \in Nat /\ X >= D + 15 /\ X = ComputeDue(D, 15) /\ D = ComputeDue(p, b.days))
  BY <1>4, <1>5, ComputeDueWithin DEF Dates
<1>8. /\ sb.vector = b /\ sb.late = FiledLate(b, vs, dk) /\ sb.status = Status(b, vs, dk, now)
      /\ se.vector = e /\ se.late = FiledLate(e, vs, dk) /\ se.status = Status(e, vs, dk, now)
  BY <1>2 DEF StepOf
<1>9. /\ FiledLate(b, vs, dk) <=> (fd /= NotRecorded /\ fd > D)
      /\ FiledLate(e, vs, dk) <=> (fd /= NotRecorded /\ fd > X)
  BY <1>5 DEF FiledLate, OneFamily
<1>10. /\ p = NotRecorded => sb.status = "not_yet" /\ se.status = "not_yet"
       /\ p /= NotRecorded /\ fd /= NotRecorded => sb.status = "done" /\ se.status = IF fd > X THEN "missed" ELSE "done"
       /\ p /= NotRecorded /\ fd = NotRecorded =>
            sb.status = (IF now > D THEN "missed" ELSE "open") /\ se.status = (IF now > X THEN "missed" ELSE "open")
  <2>1. ~b.optional /\ ~e.optional /\ e.filed = b.filed /\ ~b.extension /\ e.extension
    BY DEF OneFamily
  <2>2. /\ D = NotRecorded => Status(b, vs, dk, now) = "not_yet"
        /\ D /= NotRecorded /\ fd /= NotRecorded => Status(b, vs, dk, now) = "done"
        /\ D /= NotRecorded /\ fd = NotRecorded => Status(b, vs, dk, now) = IF now > D THEN "missed" ELSE "open"
    BY <1>5, <1>7, <2>1, StatusOfDue
  <2>3. /\ X = NotRecorded => Status(e, vs, dk, now) = "not_yet"
        /\ X /= NotRecorded /\ fd /= NotRecorded =>
             Status(e, vs, dk, now) = IF FiledLate(e, vs, dk) THEN "missed" ELSE "done"
        /\ X /= NotRecorded /\ fd = NotRecorded => Status(e, vs, dk, now) = IF now > X THEN "missed" ELSE "open"
    BY <1>5, <1>7, <2>1, StatusOfDue
  <2>4. p /= NotRecorded => D /= NotRecorded /\ X /= NotRecorded
    BY <1>7 DEF NotRecorded
  <2> QED BY <1>7, <1>8, <1>9, <2>2, <2>3, <2>4
<1>11. Matters(e, vs, dk, now) <=> (sb.status /= "not_yet" /\ (sb.status = "done" => sb.late))
  BY <1>4, <1>8 DEF Matters, OneFamily
<1>12. /\ sb.status /= "dropped" => sb \in S
       /\ Matters(e, vs, dk, now) /\ se.status /= "dropped" => se \in S
  <2>1. Matters(b, vs, dk, now) /\ Applies(b, dk) /\ Applies(e, dk) /\ b \in vs /\ e \in vs
    BY DEF Matters, OneFamily
  <2> QED BY <1>1, <1>2, <1>8, <2>1, StepsAre DEF Shown
<1>13. sb.status /= "dropped" /\ se.status /= "dropped"
  BY <1>6, <1>10 DEF Dates
<1>14. ExtensionMet(sb, S) <=> (Matters(e, vs, dk, now) /\ se.status = "done")
  <2>1. e.extension /\ e.family = f /\ b.family = f /\ ~b.extension
    BY DEF OneFamily
  <2> QED BY <1>3, <1>8, <1>12, <1>13, <2>1 DEF ExtensionMet
<1>15. /\ Missed(sb, S) <=> (sb.status = "missed" \/ (sb.status = "done" /\ sb.late /\ ~ExtensionMet(sb, S)))
       /\ Missed(se, S) <=> (se.status = "missed")
  BY <1>8 DEF Missed, OneFamily
<1>16. (\E s \in S : s.vector.family = f /\ Missed(s, S))
         <=> (Missed(sb, S) \/ (Matters(e, vs, dk, now) /\ Missed(se, S)))
  <2>1. b.family = f /\ e.family = f
    BY DEF OneFamily
  <2> QED BY <1>3, <1>8, <1>12, <1>13, <2>1
<1>17. PICK lost : lost = (Missed(sb, S) \/ (Matters(e, vs, dk, now) /\ Missed(se, S)))
  OBVIOUS
<1>18. CASE p = NotRecorded
  BY <1>1, <1>5, <1>10, <1>11, <1>15, <1>16, <1>18
<1>19. CASE p /= NotRecorded /\ fd = NotRecorded
  <2>1. Missed(sb, S) <=> (now > D)
    BY <1>7, <1>10, <1>15, <1>19
  <2>2. Missed(se, S) => now > X
    BY <1>10, <1>15, <1>19
  <2>3. D \in Nat /\ X \in Nat /\ X >= D + 15
    BY <1>7, <1>19
  <2>4. Missed(se, S) => now > D
    BY <2>2, <2>3
  <2>5. (\E s \in S : s.vector.family = f /\ Missed(s, S)) <=> (now > D)
    BY <1>16, <2>1, <2>4
  <2>6. D = ComputeDue(p, b.days)
    BY <1>7, <1>19
  <2> QED BY <1>1, <1>5, <1>19, <2>5, <2>6 DEF Lost
<1>20. CASE p /= NotRecorded /\ fd /= NotRecorded
  <2>1. fd \in Nat
    BY <1>6, <1>20 DEF Dates
  <2>2. Matters(e, vs, dk, now) <=> (fd > D)
    <3>1. sb.late <=> (fd > D)
      BY <1>8, <1>9, <1>20
    <3>2. sb.status = "done"
      BY <1>10, <1>20
    <3> QED BY <1>11, <3>1, <3>2
  <2>3. ExtensionMet(sb, S) <=> (fd > D /\ ~(fd > X))
    BY <1>10, <1>14, <1>20, <2>2
  <2>4. Missed(se, S) <=> (fd > X)
    BY <1>10, <1>15, <1>20
  <2>5. Missed(sb, S) <=> (fd > D /\ fd > X)
    BY <1>8, <1>9, <1>10, <1>15, <1>20, <2>3
  <2>6. D \in Nat /\ X \in Nat /\ X >= D + 15 /\ D = ComputeDue(p, b.days) /\ X = ComputeDue(D, 15)
    BY <1>7, <1>20
  <2>7. (\E s \in S : s.vector.family = f /\ Missed(s, S)) <=> (fd > X)
    BY <1>16, <2>1, <2>2, <2>4, <2>5, <2>6
  <2> QED BY <1>1, <1>5, <1>20, <2>6, <2>7 DEF Lost
<1> QED BY <1>18, <1>19, <1>20

-----------------------------------------------------------------------------
NoticeVectors ==
  {Vector("noa", "sentenceImposed", 30, "noticeOfAppeal", "none", "any"),
   Vector("noa", "sentenceImposed", 90, "noticeOfAppeal", "timely", "any"),
   Vector("noa", "noa", 15, "noticeOfAppeal", "any", "any")}
PetitionVectors ==
  {Vector("pdr", "coaJudgment", 30, "pdrFiled", "any", "none"),
   Vector("pdr", "rehearingDenied", 30, "pdrFiled", "any", "filed"),
   Vector("pdr", "pdr", 15, "pdrFiled", "any", "any")}

LEMMA TrialCourtFamilies ==
  /\ NoticeVectors \subseteq TrialCourtVectors
  /\ \A x \in TrialCourtVectors :
       /\ x.family = "noa" => x \in NoticeVectors
       /\ x.family /= "pdr"
       /\ (x.jurisdictional <=> x.family \in {"noa", "pdr"})
<1>1. NoticeVectors \subseteq TrialCourtVectors
  BY DEF NoticeVectors, TrialCourtVectors
<1>2. \A x \in TrialCourtVectors :
        x \in NoticeVectors
        \/ (x.family \in {"mnt", "record", "brief", "state_brief", "reply_brief"} /\ ~x.jurisdictional)
  BY VectorIs DEF NoticeVectors, TrialCourtVectors
<1>3. \A x \in NoticeVectors : x.family = "noa" /\ x.jurisdictional
  BY VectorIs DEF NoticeVectors
<1> QED BY <1>1, <1>2, <1>3

LEMMA PdrFamilies ==
  /\ PetitionVectors \subseteq PdrVectors
  /\ \A x \in PdrVectors :
       /\ x.family = "pdr" => x \in PetitionVectors
       /\ x.family /= "noa"
       /\ (x.jurisdictional <=> x.family \in {"noa", "pdr"})
<1>1. PetitionVectors \subseteq PdrVectors
  BY DEF PetitionVectors, PdrVectors
<1>2. \A x \in PdrVectors :
        x \in PetitionVectors
        \/ (x.family \in {"rehearing", "post_affirmance_notice"} /\ ~x.jurisdictional)
  BY VectorIs DEF PetitionVectors, PdrVectors
<1>3. \A x \in PetitionVectors : x.family = "pdr" /\ x.jurisdictional
  BY VectorIs DEF PetitionVectors
<1> QED BY <1>1, <1>2, <1>3

LEMMA WritFamilies == \A x \in WritChain : ~x.jurisdictional
BY VectorIs DEF WritChain

NoticeDays(dk) == IF MntMode(dk) = "timely" THEN 90 ELSE 30
PetitionFrom(dk) == IF RehearingMode(dk) = "filed" THEN "rehearingDenied" ELSE "coaJudgment"

LEMMA FieldsAre ==
  /\ {"sentenceImposed", "noticeOfAppeal", "coaJudgment", "rehearingDenied", "pdrFiled"} \subseteq Fields
  /\ "noa" \notin Fields /\ "pdr" \notin Fields
BY DEF Fields

LEMMA NoticeIsOneFamily ==
  ASSUME NEW dk, NEW vs, vs = VectorsFor("direct_appeal")
  PROVE  \E b, e : /\ OneFamily("noa", vs, b, e, dk) /\ b.trigger = "sentenceImposed"
                   /\ b.days = NoticeDays(dk) /\ b.filed = "noticeOfAppeal"
<1>1. PICK m : m = IF MntMode(dk) = "timely" THEN "timely" ELSE "none"
  OBVIOUS
<1>2. MntMode(dk) \in {"timely", "none"} /\ MntMode(dk) = m /\ NoticeDays(dk) \in Nat
  BY <1>1 DEF MntMode, NoticeDays
<1>3. PICK b : b = Vector("noa", "sentenceImposed", NoticeDays(dk), "noticeOfAppeal", m, "any")
  OBVIOUS
<1>4. PICK e : e = Vector("noa", "noa", 15, "noticeOfAppeal", "any", "any")
  OBVIOUS
<1>5. /\ b.family = "noa" /\ b.trigger = "sentenceImposed" /\ b.days = NoticeDays(dk) /\ b.filed = "noticeOfAppeal"
      /\ b.mnt = m /\ b.rehearing = "any" /\ b.jurisdictional /\ ~b.optional /\ ~b.extension
  BY <1>3, VectorIs
<1>6. /\ e.family = "noa" /\ e.trigger = "noa" /\ e.days = 15 /\ e.filed = "noticeOfAppeal"
      /\ e.mnt = "any" /\ e.rehearing = "any" /\ e.jurisdictional /\ ~e.optional /\ e.extension
  BY <1>4, VectorIs
<1>7. b \in NoticeVectors /\ e \in NoticeVectors
  BY <1>1, <1>3, <1>4 DEF NoticeVectors, NoticeDays
<1>8. vs = TrialCourtVectors \cup PdrVectors
  BY DEF VectorsFor
<1>9. \A x \in NoticeVectors : x \in {b, e} \/ x.mnt \in {"timely", "none"} \ {m}
  BY <1>1, <1>3, <1>4, VectorIs DEF NoticeVectors, NoticeDays
<1>10. \A x \in vs : x.family = "noa" /\ Applies(x, dk) => x \in {b, e}
  <2>1. SUFFICES ASSUME NEW x \in vs, x.family = "noa", Applies(x, dk) PROVE x \in {b, e}
    OBVIOUS
  <2>2. x \in NoticeVectors
    BY <1>8, <2>1, TrialCourtFamilies, PdrFamilies
  <2>3. x.mnt \in {"any", m}
    BY <1>2, <2>1 DEF Applies
  <2> QED BY <1>1, <1>9, <2>2, <2>3
<1>11. Applies(b, dk) /\ Applies(e, dk)
  BY <1>2, <1>5, <1>6 DEF Applies
<1>12. b \in vs /\ e \in vs
  BY <1>7, <1>8, TrialCourtFamilies
<1>13. OneFamily("noa", vs, b, e, dk)
  BY <1>2, <1>5, <1>6, <1>10, <1>11, <1>12, FieldsAre DEF OneFamily
<1> QED BY <1>5, <1>13

LEMMA PetitionIsOneFamily ==
  ASSUME NEW dk, NEW v \in {"direct_appeal", "pdr_clock"}, NEW vs, vs = VectorsFor(v)
  PROVE  \E b, e : /\ OneFamily("pdr", vs, b, e, dk) /\ b.trigger = PetitionFrom(dk)
                   /\ b.days = 30 /\ b.filed = "pdrFiled"
<1>1. PICK m : m = IF RehearingMode(dk) = "filed" THEN "filed" ELSE "none"
  OBVIOUS
<1>2. RehearingMode(dk) = m /\ PetitionFrom(dk) \in {"rehearingDenied", "coaJudgment"}
  BY <1>1 DEF RehearingMode, PetitionFrom
<1>3. PICK b : b = Vector("pdr", PetitionFrom(dk), 30, "pdrFiled", "any", m)
  OBVIOUS
<1>4. PICK e : e = Vector("pdr", "pdr", 15, "pdrFiled", "any", "any")
  OBVIOUS
<1>5. /\ b.family = "pdr" /\ b.trigger = PetitionFrom(dk) /\ b.days = 30 /\ b.filed = "pdrFiled"
      /\ b.mnt = "any" /\ b.rehearing = m /\ b.jurisdictional /\ ~b.optional /\ ~b.extension
  BY <1>2, <1>3, VectorIs
<1>6. /\ e.family = "pdr" /\ e.trigger = "pdr" /\ e.days = 15 /\ e.filed = "pdrFiled"
      /\ e.mnt = "any" /\ e.rehearing = "any" /\ e.jurisdictional /\ ~e.optional /\ e.extension
  BY <1>4, VectorIs
<1>7. b \in PetitionVectors /\ e \in PetitionVectors
  BY <1>1, <1>3, <1>4 DEF PetitionVectors, PetitionFrom
<1>8. PdrVectors \subseteq vs /\ vs \subseteq TrialCourtVectors \cup PdrVectors
  BY DEF VectorsFor
<1>9. \A x \in PetitionVectors : x \in {b, e} \/ x.rehearing \in {"filed", "none"} \ {m}
  BY <1>1, <1>3, <1>4, VectorIs DEF PetitionVectors, PetitionFrom
<1>10. \A x \in vs : x.family = "pdr" /\ Applies(x, dk) => x \in {b, e}
  <2>1. SUFFICES ASSUME NEW x \in vs, x.family = "pdr", Applies(x, dk) PROVE x \in {b, e}
    OBVIOUS
  <2>2. x \in PetitionVectors
    BY <1>8, <2>1, TrialCourtFamilies, PdrFamilies
  <2>3. x.rehearing \in {"any", m}
    BY <1>2, <2>1 DEF Applies
  <2> QED BY <1>1, <1>9, <2>2, <2>3
<1>11. Applies(b, dk) /\ Applies(e, dk)
  BY <1>2, <1>5, <1>6 DEF Applies
<1>12. b \in vs /\ e \in vs
  BY <1>7, <1>8, PdrFamilies
<1>13. OneFamily("pdr", vs, b, e, dk)
  BY <1>2, <1>5, <1>6, <1>10, <1>11, <1>12, FieldsAre DEF OneFamily
<1> QED BY <1>5, <1>13

\* What the clock reports missed, family by family.
NoticeIsLost(dk, now) ==
  dk.sentenceImposed /= NotRecorded
  /\ Lost(dk.noticeOfAppeal, ComputeDue(dk.sentenceImposed, NoticeDays(dk)), now)
PetitionIsLost(dk, now) ==
  dk[PetitionFrom(dk)] /= NotRecorded /\ Lost(dk.pdrFiled, ComputeDue(dk[PetitionFrom(dk)], 30), now)

LEMMA DatedIs ==
  ASSUME NEW dk \in Dockets
  PROVE  /\ Dated(dk) \in Dockets
         /\ Dated(dk)["sentenceImposed"] =
              IF dk["sentenceImposed"] = NotRecorded THEN dk["judgmentSigned"] ELSE dk["sentenceImposed"]
         /\ \A f \in Fields \ {"sentenceImposed"} : Dated(dk)[f] = dk[f]
<1>1. "sentenceImposed" \in Fields /\ "judgmentSigned" \in Fields
  BY DEF Fields
<1>2. PICK d : d = IF dk["sentenceImposed"] = NotRecorded THEN dk["judgmentSigned"] ELSE dk["sentenceImposed"]
  OBVIOUS
<1>3. d \in Dates
  BY <1>1, <1>2 DEF Dockets
<1>4. Dated(dk) = [dk EXCEPT !["sentenceImposed"] = d]
  BY <1>2 DEF Dated
<1> QED BY <1>1, <1>2, <1>3, <1>4 DEF Dockets

LEMMA MissedIs ==
  ASSUME NEW v, NEW dk, NEW now, NEW f
  PROVE  f \in MissedJurisdictional(v, dk, now) <=>
           \E s \in Steps(v, Dated(dk), now) : s.vector.family = f /\ Missed(s, Steps(v, Dated(dk), now))
<1>1. PICK S : S = Steps(v, Dated(dk), now)
  OBVIOUS
<1>2. MissedJurisdictional(v, dk, now) = {s.vector.family : s \in {s \in S : Missed(s, S)}}
  BY <1>1 DEF MissedJurisdictional
<1> QED BY <1>1, <1>2

LEMMA MissedFamilies ==
  ASSUME NEW v, NEW dk \in Dockets, NEW now \in Nat, NEW f
  PROVE  f \in MissedJurisdictional(v, dk, now) <=>
           \/ f = "noa" /\ v = "direct_appeal" /\ NoticeIsLost(Dated(dk), now)
           \/ f = "pdr" /\ v \in {"direct_appeal", "pdr_clock"} /\ PetitionIsLost(Dated(dk), now)
<1>1. PICK d \in Dockets : d = Dated(dk)
  BY DatedIs
<1>2. PICK S : S = Steps(v, d, now)
  OBVIOUS
<1>3. f \in MissedJurisdictional(v, dk, now) <=> \E s \in S : s.vector.family = f /\ Missed(s, S)
  BY <1>1, <1>2, MissedIs
<1>4. \A s \in S : s.vector \in VectorsFor(v)
  BY <1>2, StepsAre DEF StepOf
<1>5. \A s \in S : Missed(s, S) => s.vector.jurisdictional
  BY DEF Missed
<1>6. CASE v = "direct_appeal"
  <2>1. VectorsFor(v) = TrialCourtVectors \cup PdrVectors
    BY <1>6 DEF VectorsFor
  <2>2. \A s \in S : Missed(s, S) => s.vector.family \in {"noa", "pdr"}
    BY <1>4, <1>5, <2>1, TrialCourtFamilies, PdrFamilies
  <2>3. ASSUME f = "noa" PROVE (\E s \in S : s.vector.family = f /\ Missed(s, S)) <=> NoticeIsLost(d, now)
    <3>1. PICK vs : vs = VectorsFor(v)
      OBVIOUS
    <3>2. PICK b, e : /\ OneFamily("noa", vs, b, e, d) /\ b.trigger = "sentenceImposed"
                      /\ b.days = NoticeDays(d) /\ b.filed = "noticeOfAppeal"
      BY <1>6, <3>1, NoticeIsOneFamily
    <3>3. (\E s \in S : s.vector.family = "noa" /\ Missed(s, S))
            <=> (d[b.trigger] /= NotRecorded /\ Lost(d[b.filed], ComputeDue(d[b.trigger], b.days), now))
      BY <1>2, <3>1, <3>2, FamilyMissed
    <3> QED BY <2>3, <3>2, <3>3 DEF NoticeIsLost
  <2>4. ASSUME f = "pdr" PROVE (\E s \in S : s.vector.family = f /\ Missed(s, S)) <=> PetitionIsLost(d, now)
    <3>1. PICK vs : vs = VectorsFor(v)
      OBVIOUS
    <3>2. PICK b, e : /\ OneFamily("pdr", vs, b, e, d) /\ b.trigger = PetitionFrom(d)
                      /\ b.days = 30 /\ b.filed = "pdrFiled"
      BY <1>6, <3>1, PetitionIsOneFamily
    <3>3. (\E s \in S : s.vector.family = "pdr" /\ Missed(s, S))
            <=> (d[b.trigger] /= NotRecorded /\ Lost(d[b.filed], ComputeDue(d[b.trigger], b.days), now))
      BY <1>2, <3>1, <3>2, FamilyMissed
    <3> QED BY <2>4, <3>2, <3>3 DEF PetitionIsLost
  <2> QED BY <1>1, <1>3, <1>6, <2>2, <2>3, <2>4
<1>7. CASE v = "pdr_clock"
  <2>1. VectorsFor(v) = PdrVectors
    BY <1>7 DEF VectorsFor
  <2>2. \A s \in S : Missed(s, S) => s.vector.family = "pdr"
    BY <1>4, <1>5, <2>1, PdrFamilies
  <2>3. ASSUME f = "pdr" PROVE (\E s \in S : s.vector.family = f /\ Missed(s, S)) <=> PetitionIsLost(d, now)
    <3>1. PICK vs : vs = VectorsFor(v)
      OBVIOUS
    <3>2. PICK b, e : /\ OneFamily("pdr", vs, b, e, d) /\ b.trigger = PetitionFrom(d)
                      /\ b.days = 30 /\ b.filed = "pdrFiled"
      BY <1>7, <3>1, PetitionIsOneFamily
    <3>3. (\E s \in S : s.vector.family = "pdr" /\ Missed(s, S))
            <=> (d[b.trigger] /= NotRecorded /\ Lost(d[b.filed], ComputeDue(d[b.trigger], b.days), now))
      BY <1>2, <3>1, <3>2, FamilyMissed
    <3> QED BY <2>3, <3>2, <3>3 DEF PetitionIsLost
  <2> QED BY <1>1, <1>3, <1>7, <2>2, <2>3
<1>8. CASE v \notin {"direct_appeal", "pdr_clock"}
  <2>1. VectorsFor(v) \subseteq WritChain
    BY <1>8 DEF VectorsFor
  <2>2. \A s \in S : ~Missed(s, S)
    BY <1>4, <1>5, <2>1, WritFamilies
  <2> QED BY <1>3, <1>8, <2>2
<1> QED BY <1>6, <1>7, <1>8

-----------------------------------------------------------------------------
\* Every date is recorded on a day that has come.
ClockTypeOK ==
  /\ today \in Nat /\ evening \in BOOLEAN /\ docket \in Dockets
  /\ writs \in Seq([filed : Nat, disposed : Dates])

\* A date is recorded on its day: the docket and the writs hold days, whatever was taken back.
LEMMA ClockInitTyped == ClockInit => ClockTypeOK
<1>1. SUFFICES ASSUME ClockInit PROVE ClockTypeOK
  OBVIOUS
<1>2. today \in Nat
  BY <1>1, ClockAssumption, MinOfSome DEF ClockInit
<1>3. docket \in Dockets
  <2>1. PICK g : g = (CASE vehicle = "2254" -> "judgmentSigned" [] vehicle = "11.07" -> "stateReceipt"
                           [] vehicle = "pdr_clock" -> "coaJudgment" [] OTHER -> "sentenceImposed")
    OBVIOUS
  <2>2. docket = [f \in Fields |-> IF f = g THEN today ELSE NotRecorded]
    BY <1>1, <2>1 DEF ClockInit
  <2> QED BY <1>2, <2>2 DEF Dockets, Dates
<1>4. evening \in BOOLEAN /\ writs = << >>
  BY <1>1 DEF ClockInit
<1> QED BY <1>2, <1>3, <1>4 DEF ClockTypeOK

LEMMA ClockStepTyped == ClockTypeOK /\ [ClockNext]_clockVars => ClockTypeOK'
<1>1. SUFFICES ASSUME ClockTypeOK, [ClockNext]_clockVars PROVE ClockTypeOK'
  OBVIOUS
<1>2. today \in Dates /\ NotRecorded \in Dates
  BY <1>1 DEF ClockTypeOK, Dates
<1>3. CASE UNCHANGED clockVars
  BY <1>1, <1>3 DEF clockVars, ClockTypeOK
<1>4. CASE Pass
  BY <1>1, <1>4, ClockAssumption DEF Pass, ClockTypeOK
<1>5. CASE Dusk
  BY <1>1, <1>5 DEF Dusk, ClockTypeOK
<1>6. CASE FileWrit
  <2>1. [filed |-> today, disposed |-> NotRecorded] \in [filed : Nat, disposed : Dates]
    BY <1>1, <1>2 DEF ClockTypeOK
  <2>2. writs' \in Seq([filed : Nat, disposed : Dates])
    BY <1>1, <1>6, <2>1 DEF FileWrit, ClockTypeOK
  <2> QED BY <1>1, <1>6, <2>2 DEF FileWrit, ClockTypeOK
<1>7. CASE \E f \in Recordable : Record(f)
  <2>1. PICK f \in Recordable : Record(f)
    BY <1>7
  <2>2. PICK d \in {today, NotRecorded} : docket' = [docket EXCEPT ![f] = d]
    BY <2>1 DEF Record
  <2>3. docket' \in Dockets
    BY <1>1, <1>2, <2>2 DEF ClockTypeOK, Dockets
  <2> QED BY <1>1, <2>1, <2>3 DEF Record, ClockTypeOK
<1>8. CASE \E i \in DOMAIN writs : DisposeWrit(i)
  <2>1. PICK i \in DOMAIN writs : DisposeWrit(i)
    BY <1>8
  <2>2. PICK w : w = [writs[i] EXCEPT !.disposed = today]
    OBVIOUS
  <2>3. w \in [filed : Nat, disposed : Dates]
    <3>1. writs[i] \in [filed : Nat, disposed : Dates]
      <4>1. PICK R : R = [filed : Nat, disposed : Dates]
        OBVIOUS
      <4>2. writs \in Seq(R) /\ i \in DOMAIN writs
        BY <1>1, <2>1, <4>1 DEF ClockTypeOK
      <4>3. writs[i] \in R
        BY <4>2
      <4> QED BY <4>1, <4>3
    <3> QED BY <1>1, <1>2, <2>2, <3>1 DEF ClockTypeOK
  <2>4. writs' = [writs EXCEPT ![i] = w]
    BY <2>1, <2>2 DEF DisposeWrit
  <2>5. writs' \in Seq([filed : Nat, disposed : Dates])
    BY <1>1, <2>3, <2>4 DEF ClockTypeOK
  <2> QED BY <1>1, <2>1, <2>5 DEF DisposeWrit, ClockTypeOK
<1> QED BY <1>1, <1>3, <1>4, <1>5, <1>6, <1>7, <1>8 DEF ClockNext

\* The page and the packet know the sentencing, or the judgment, and the notice; no more of the appeal.
LEMMA SurfacesAre ==
  ASSUME NEW dk \in Dockets, NEW now \in Nat
  PROVE  /\ TrapInputs(dk) \in Dockets
         /\ ~PetitionIsLost(Dated(TrapInputs(dk)), now)
         /\ NoticeIsLost(Dated(TrapInputs(dk)), now) <=>
              /\ Dated(dk).sentenceImposed /= NotRecorded
              /\ Lost(Dated(dk).noticeOfAppeal, ComputeDue(Dated(dk).sentenceImposed, 30), now)
<1>1. PICK tk : tk = TrapInputs(dk)
  OBVIOUS
<1>2. tk = [f \in Fields |-> IF f \in MatterDates THEN dk[f] ELSE NotRecorded]
  BY <1>1 DEF TrapInputs
<1>3. tk \in Dockets
  BY <1>2 DEF Dockets, Dates
<1>4. /\ tk["sentenceImposed"] = dk["sentenceImposed"] /\ tk["judgmentSigned"] = dk["judgmentSigned"]
      /\ tk["noticeOfAppeal"] = dk["noticeOfAppeal"] /\ tk["motionForNewTrial"] = NotRecorded
      /\ tk["rehearingDenied"] = NotRecorded /\ tk["coaJudgment"] = NotRecorded
  BY <1>2 DEF Fields, MatterDates
<1>5. PICK dt \in Dockets : dt = Dated(tk)
  BY <1>3, DatedIs
<1>6. /\ dt["sentenceImposed"] = Dated(dk)["sentenceImposed"] /\ dt["noticeOfAppeal"] = Dated(dk)["noticeOfAppeal"]
      /\ dt["motionForNewTrial"] = NotRecorded
      /\ dt["rehearingDenied"] = NotRecorded /\ dt["coaJudgment"] = NotRecorded
  BY <1>3, <1>4, <1>5, DatedIs DEF Fields
<1>7. ~PetitionIsLost(dt, now)
  BY <1>6 DEF PetitionIsLost, PetitionFrom
<1>8. NoticeDays(dt) = 30
  BY <1>6 DEF NoticeDays, MntMode, Timely
<1> QED BY <1>1, <1>3, <1>5, <1>6, <1>7, <1>8 DEF NoticeIsLost

\* The clock says of any docket, on any day, what the rules say.
LEMMA NoticeRule ==
  ASSUME NEW dk \in Dockets, NEW now \in Nat
  PROVE  /\ NoticeIsLost(Dated(dk), now) <=> NoticeLost(dk, now)
         /\ PetitionIsLost(Dated(dk), now) <=> PetitionLost(dk, now)
<1>1. PICK dt \in Dockets : dt = Dated(dk)
  BY DatedIs
<1>2. /\ dt.noticeOfAppeal = dk.noticeOfAppeal /\ dt.motionForNewTrial = dk.motionForNewTrial
      /\ dt.rehearingFiled = dk.rehearingFiled /\ dt.rehearingDenied = dk.rehearingDenied
      /\ dt.coaJudgment = dk.coaJudgment /\ dt.pdrFiled = dk.pdrFiled
  BY <1>1, DatedIs DEF Fields
<1>3. NoticeIsLost(dt, now) <=> NoticeLost(dk, now)
  <2>1. ASSUME dt.sentenceImposed /= NotRecorded
        PROVE  NoticeDays(dt) = IF MotionInTime(dk) THEN 90 ELSE 30
    BY <1>1, <1>2, <2>1 DEF NoticeDays, MntMode, Timely, MotionInTime
  <2>2. ASSUME dt.sentenceImposed /= NotRecorded
        PROVE  ComputeDue(dt.sentenceImposed, NoticeDays(dt)) = NoticeDue(dk)
    BY <1>1, <2>1, <2>2 DEF NoticeDue
  <2> QED BY <1>1, <1>2, <2>2 DEF NoticeIsLost, NoticeLost, Lost, OutOfTime
<1>4. PetitionIsLost(dt, now) <=> PetitionLost(dk, now)
  <2>1. PICK moved : moved = (\/ /\ dk.rehearingFiled /= NotRecorded
                                 /\ dk.coaJudgment /= NotRecorded =>
                                      dk.rehearingFiled <= ComputeDue(dk.coaJudgment, 15)
                              \/ dk.rehearingFiled = NotRecorded /\ dk.rehearingDenied /= NotRecorded)
    OBVIOUS
  <2>2. dt[PetitionFrom(dt)] = IF moved THEN dk.rehearingDenied ELSE dk.coaJudgment
    BY <1>2, <2>1 DEF PetitionFrom, RehearingMode, Timely
  <2> QED BY <1>2, <2>1, <2>2 DEF PetitionIsLost, PetitionLost, Lost, OutOfTime
<1> QED BY <1>1, <1>3, <1>4

LEMMA ClockFollowsRules == ClockTypeOK => MissedMeansLate
<1>1. SUFFICES ASSUME ClockTypeOK, vehicle \in {"direct_appeal", "pdr_clock"},
                      NEW dk \in {docket, TrapInputs(docket)}, NEW now \in {today, PageDay}
               PROVE  MissedJurisdictional(vehicle, dk, now)
                        = {f \in {"noa"} : vehicle = "direct_appeal" /\ NoticeLost(dk, now)}
                            \cup {f \in {"pdr"} : PetitionLost(dk, now)}
  BY DEF MissedMeansLate
<1>2. dk \in Dockets
  BY <1>1, SurfacesAre DEF ClockTypeOK
<1>3. now \in Nat
  BY <1>1 DEF ClockTypeOK, PageDay
<1>4. \A f : f \in MissedJurisdictional(vehicle, dk, now) <=>
              \/ f = "noa" /\ vehicle = "direct_appeal" /\ NoticeLost(dk, now)
              \/ f = "pdr" /\ vehicle \in {"direct_appeal", "pdr_clock"} /\ PetitionLost(dk, now)
  BY <1>2, <1>3, MissedFamilies, NoticeRule
<1> QED BY <1>1, <1>4

\* What is lost on a day is lost on the next, and what the longer period has run out, so has the shorter.
LEMMA LostIsLost ==
  ASSUME NEW filed \in Dates, NEW due \in Nat, NEW late \in Nat, NEW now \in Nat, NEW later \in Nat,
         now <= later, late = due \/ late >= due + 15, Lost(filed, late, now)
  PROVE  Lost(filed, due, later)
<1>1. CASE filed = NotRecorded
  BY <1>1 DEF Lost
<1>2. CASE filed /= NotRecorded
  <2>1. filed \in Nat
    BY <1>2 DEF Dates
  <2>2. /\ ComputeDue(due, 15) \in Nat /\ ComputeDue(due, 15) <= due + 29
        /\ ComputeDue(late, 15) \in Nat /\ ComputeDue(late, 15) >= late + 15
    <3>1. 15 \in Nat
      OBVIOUS
    <3>2. ComputeDue(due, 15) \in Nat /\ ComputeDue(due, 15) <= due + 15 + 14
      BY <3>1, ComputeDueWithin
    <3>3. ComputeDue(late, 15) \in Nat /\ ComputeDue(late, 15) >= late + 15
      BY <3>1, ComputeDueWithin
    <3> QED BY <3>2, <3>3
  <2>3. filed > ComputeDue(late, 15)
    BY <1>2 DEF Lost
  <2>4. filed > ComputeDue(due, 15)
    BY <2>1, <2>2, <2>3
  <2> QED BY <1>2, <2>4 DEF Lost
<1> QED BY <1>1, <1>2

\* The page and the packet read the notice over a sentencing day and no motion: what they say
\* beyond the full docket, a motion in time or the evening of the last day accounts for.
LEMMA SurfacesFollow == ClockTypeOK => SurfacesSay
<1>1. SUFFICES ASSUME ClockTypeOK PROVE SurfacesSay
  OBVIOUS
<1>2. docket \in Dockets /\ today \in Nat /\ evening \in BOOLEAN
  BY <1>1 DEF ClockTypeOK
<1>3. PageDay \in Nat /\ today <= PageDay
  BY <1>2 DEF PageDay
<1>4. PICK s, n : s = Dated(docket)["sentenceImposed"] /\ n = Dated(docket)["noticeOfAppeal"]
  OBVIOUS
<1>5. s \in Dates /\ n \in Dates
  BY <1>2, <1>4, DatedIs, FieldsAre DEF Dockets
<1>6. \A f : f \in Packet <=>
              f = "noa" /\ vehicle = "direct_appeal" /\ s /= NotRecorded /\ Lost(n, ComputeDue(s, 30), today)
  <2>1. ~PetitionIsLost(Dated(TrapInputs(docket)), today)
        /\ (NoticeIsLost(Dated(TrapInputs(docket)), today) <=>
              s /= NotRecorded /\ Lost(n, ComputeDue(s, 30), today))
    BY <1>2, <1>4, SurfacesAre
  <2>2. TrapInputs(docket) \in Dockets
    BY <1>2, SurfacesAre
  <2> QED BY <1>2, <2>1, <2>2, MissedFamilies DEF Packet
<1>7. \A f : f \in MatterPage <=>
              f = "noa" /\ vehicle = "direct_appeal" /\ s /= NotRecorded /\ Lost(n, ComputeDue(s, 30), PageDay)
  <2>1. ~PetitionIsLost(Dated(TrapInputs(docket)), PageDay)
        /\ (NoticeIsLost(Dated(TrapInputs(docket)), PageDay) <=>
              s /= NotRecorded /\ Lost(n, ComputeDue(s, 30), PageDay))
    BY <1>2, <1>3, <1>4, SurfacesAre
  <2>2. TrapInputs(docket) \in Dockets
    BY <1>2, SurfacesAre
  <2> QED BY <1>3, <2>1, <2>2, MissedFamilies DEF MatterPage
<1>8. ASSUME s /= NotRecorded
      PROVE  /\ ComputeDue(s, 30) \in Nat /\ ComputeDue(s, 90) \in Nat
             /\ ComputeDue(s, 90) >= ComputeDue(s, 30) + 15
  <2>1. s \in Nat /\ 30 \in Nat /\ 90 \in Nat
    BY <1>5, <1>8 DEF Dates
  <2>2. ComputeDue(s, 30) \in Nat /\ ComputeDue(s, 30) <= s + 30 + 14
    BY <2>1, ComputeDueWithin
  <2>3. ComputeDue(s, 90) \in Nat /\ ComputeDue(s, 90) >= s + 90
    BY <2>1, ComputeDueWithin
  <2> QED BY <2>1, <2>2, <2>3
<1>9. Packet \subseteq MatterPage /\ MatterPage \subseteq {"noa"}
  BY <1>2, <1>3, <1>5, <1>6, <1>7, <1>8, LostIsLost
<1>10. PICK m : m = MotionInTime(docket)
  OBVIOUS
<1>11. NoticeLost(docket, today) <=>
         s /= NotRecorded /\ Lost(n, IF m THEN ComputeDue(s, 90) ELSE ComputeDue(s, 30), today)
  <2>1. docket.noticeOfAppeal = n
    BY <1>2, <1>4, DatedIs DEF Fields
  <2> QED BY <1>4, <1>10, <2>1 DEF NoticeLost, NoticeDue, Lost, OutOfTime
<1>12. ASSUME vehicle = "direct_appeal", NoticeLost(docket, today) PROVE "noa" \in Packet
  <2>1. s /= NotRecorded /\ Lost(n, IF m THEN ComputeDue(s, 90) ELSE ComputeDue(s, 30), today)
    BY <1>11, <1>12
  <2>2. Lost(n, ComputeDue(s, 30), today)
    BY <1>2, <1>5, <1>8, <2>1, LostIsLost
  <2> QED BY <1>6, <1>12, <2>1, <2>2
<1>13. "noa" \in Packet => NoticeLost(docket, today) \/ MotionInTime(docket)
  BY <1>6, <1>10, <1>11
<1>14. ASSUME "noa" \in MatterPage \ Packet PROVE evening /\ today = NoticeDue(TrapInputs(docket))
  <2>1. /\ s /= NotRecorded /\ Lost(n, ComputeDue(s, 30), PageDay) /\ ~Lost(n, ComputeDue(s, 30), today)
    BY <1>6, <1>7, <1>14
  <2>2. ComputeDue(s, 30) \in Nat
    BY <1>8, <2>1
  <2>3. n = NotRecorded /\ PageDay > ComputeDue(s, 30) /\ ~(today > ComputeDue(s, 30))
    BY <2>1 DEF Lost
  <2>4. evening /\ today = ComputeDue(s, 30)
    BY <1>2, <2>2, <2>3 DEF PageDay
  <2>5. PICK tk \in Dockets : tk = TrapInputs(docket)
    BY <1>2, SurfacesAre
  <2>6. /\ tk["sentenceImposed"] = docket["sentenceImposed"] /\ tk["judgmentSigned"] = docket["judgmentSigned"]
        /\ tk["motionForNewTrial"] = NotRecorded
    BY <2>5 DEF TrapInputs, MatterDates, Fields
  <2>7. Dated(tk)["sentenceImposed"] = s /\ ~MotionInTime(tk)
    BY <1>2, <1>4, <2>5, <2>6, DatedIs DEF MotionInTime
  <2> QED BY <2>4, <2>5, <2>7 DEF NoticeDue
<1> QED BY <1>9, <1>12, <1>13, <1>14 DEF SurfacesSay

-----------------------------------------------------------------------------
\* The loop over the writs: what it has added up after each of them.
AddsUp(tolled) ==
  tolled = [n \in 0 .. Len(writs) |-> IF n = 0 THEN 0 ELSE tolled[n - 1] + Tolled(writs[n])]

LEMMA DaysTolledIs == DaysTolled = (CHOOSE tolled : AddsUp(tolled))[Len(writs)]
BY Zenon DEF DaysTolled, AddsUp

LEMMA AddsUpSomehow ==
  ASSUME Len(writs) \in Nat
  PROVE  \E tolled : AddsUp(tolled)
<1>1. PICK T : T = {n \in Nat : \E g : g = [m \in 0 .. n |-> IF m = 0 THEN 0 ELSE g[m - 1] + Tolled(writs[m])]}
  OBVIOUS
<1>2. 0 \in T
  <2>1. PICK g : g = [m \in 0 .. 0 |-> 0]
    OBVIOUS
  <2>2. g = [m \in 0 .. 0 |-> IF m = 0 THEN 0 ELSE g[m - 1] + Tolled(writs[m])]
    BY <2>1
  <2> QED BY <1>1, <2>2
<1>3. \A n \in Nat : n \in T => n + 1 \in T
  <2>1. SUFFICES ASSUME NEW n \in Nat, n \in T PROVE n + 1 \in T
    OBVIOUS
  <2>2. PICK g : g = [m \in 0 .. n |-> IF m = 0 THEN 0 ELSE g[m - 1] + Tolled(writs[m])]
    BY <1>1, <2>1
  <2>3. PICK h : h = [m \in 0 .. n + 1 |-> IF m = n + 1 THEN g[n] + Tolled(writs[m]) ELSE g[m]]
    OBVIOUS
  <2>4. \A m \in 0 .. n : h[m] = g[m]
    BY <2>3
  <2>5. ASSUME NEW m \in 0 .. n + 1 PROVE h[m] = IF m = 0 THEN 0 ELSE h[m - 1] + Tolled(writs[m])
    <3>1. CASE m = n + 1
      <4>1. m /= 0 /\ m - 1 = n /\ n \in 0 .. n
        BY <3>1
      <4> QED BY <2>3, <2>4, <3>1, <4>1
    <3>2. CASE m /= n + 1
      <4>1. m \in 0 .. n /\ (m = 0 \/ m - 1 \in 0 .. n)
        BY <3>2
      <4> QED BY <2>2, <2>4, <4>1
    <3> QED BY <3>1, <3>2
  <2>6. h = [m \in 0 .. n + 1 |-> IF m = 0 THEN 0 ELSE h[m - 1] + Tolled(writs[m])]
    <3>1. h = [m \in 0 .. n + 1 |-> h[m]]
      BY <2>3
    <3> QED BY <2>5, <3>1
  <2> QED BY <1>1, <2>6
<1>4. Len(writs) \in T
  BY <1>2, <1>3, FromZeroOn
<1> QED BY <1>1, <1>4 DEF AddsUp

\* The days of one writ are those it was pending, between finality and today.
PendingDays(w) == {d \in SinceFinality : Pending(w, d)}

LEMMA FinalityIsADay ==
  ASSUME ClockTypeOK
  PROVE  Finality \in Int
<1>1. /\ docket["certDisposed"] \in Int /\ docket["pdrDisposed"] \in Int /\ docket["coaJudgment"] \in Int
      /\ docket["judgmentSigned"] \in Int
  BY DEF ClockTypeOK, Dockets, Dates, NotRecorded, Fields
<1>2. PICK ext \in Int : ext = IF docket["motionForNewTrial"] /= NotRecorded THEN 90 ELSE 30
  OBVIOUS
<1> QED BY <1>1, <1>2 DEF Finality

\* What the loop takes off for one writ is the number of those days.
LEMMA TolledIsPending ==
  ASSUME ClockTypeOK, NEW w \in [filed : Nat, disposed : Dates]
  PROVE  IsFiniteSet(PendingDays(w)) /\ Tolled(w) = Cardinality(PendingDays(w))
<1>1. PICK F \in Int : F = Finality
  BY FinalityIsADay
<1>2. PICK f, z : f = w.filed /\ z = IF Disposed(w) THEN w.disposed ELSE today
  OBVIOUS
<1>3. f \in Nat /\ z \in Nat /\ today \in Nat
  BY <1>2 DEF ClockTypeOK, Dates, Disposed
<1>4. PICK a \in Int : a = IF f - F >= 0 THEN f - F ELSE 0
  <2>1. f \in Int /\ F \in Int
    BY <1>1, <1>3
  <2>2. CASE f - F >= 0
    <3>1. f - F \in Int
      BY <2>1
    <3> QED BY <2>2, <3>1
  <2>3. CASE ~(f - F >= 0)
    <3>1. 0 \in Int
      OBVIOUS
    <3> QED BY <2>3, <3>1
  <2> QED BY <2>2, <2>3
<1>5. PICK b \in Int : b = IF z - F <= today - F THEN z - F ELSE today - F
  BY <1>3
<1>6. Max({f - F, 0}) = a
  BY <1>3, <1>4, MaxOfTwo
<1>7. Min({z - F, today - F}) = b
  BY <1>3, <1>5, MinOfTwo
<1>8. Max({b - a, 0}) = IF b - a >= 0 THEN b - a ELSE 0
  BY MaxOfTwo
<1>9. Tolled(w) = Max({b - a, 0})
  BY <1>1, <1>2, <1>6, <1>7, Zenon DEF Tolled
<1>10. PendingDays(w) = (F + a) .. (F + b - 1)
  <2>1. \A d \in Int : Pending(w, d) /\ d <= today - 1 <=> f <= d /\ d <= z - 1 /\ d <= today - 1
    BY <1>2, <1>3 DEF Pending, Disposed, Dates
  <2>2. \A d \in Int : d \in PendingDays(w) <=> F <= d /\ f <= d /\ d <= z - 1 /\ d <= today - 1
    BY <1>1, <1>3, <2>1 DEF PendingDays, SinceFinality
  <2>3. \A d \in Int : d \in (F + a) .. (F + b - 1) <=> F + a <= d /\ d <= F + b - 1
    OBVIOUS
  <2>4. \A d \in Int : (F <= d /\ f <= d <=> F + a <= d) /\ (d <= z - 1 /\ d <= today - 1 <=> d <= F + b - 1)
    BY <1>3, <1>4, <1>5
  <2>5. PendingDays(w) \subseteq Int /\ (F + a) .. (F + b - 1) \subseteq Int
    BY <1>1, <1>3 DEF PendingDays, SinceFinality
  <2> QED BY <2>2, <2>3, <2>4, <2>5
<1>11. PICK p, q \in Int : p = F + a /\ q = F + b - 1
  OBVIOUS
<1>12. IsFiniteSet(p .. q) /\ Cardinality(p .. q) = IF p > q THEN 0 ELSE q - p + 1
  BY FS_Interval
<1> QED BY <1>8, <1>9, <1>10, <1>11, <1>12

\* The days of the first n writs.
DaysOfFirst(n) == {p \in (1 .. n) \X SinceFinality : Pending(writs[p[1]], p[2])}

\* What the loop adds up is the days of each writ, one on which two were pending twice.
LEMMA TolledDays == ASSUME ClockTypeOK PROVE IsFiniteSet(WritDays) /\ DaysTolled = Cardinality(WritDays)
<1>1. PICK W : W = [filed : Nat, disposed : Dates]
  OBVIOUS
<1>2. /\ writs \in Seq(W) /\ Len(writs) \in Nat /\ DOMAIN writs = 1 .. Len(writs)
      /\ \A i \in DOMAIN writs : writs[i] \in W
  <2>1. writs \in Seq(W)
    BY <1>1 DEF ClockTypeOK
  <2>2. Len(writs) \in Nat /\ DOMAIN writs = 1 .. Len(writs)
    BY <2>1
  <2>3. ASSUME NEW i \in DOMAIN writs PROVE writs[i] \in W
    BY <2>1, <2>2
  <2> QED BY <2>1, <2>2, <2>3
<1>3. PICK g : g = (CHOOSE tolled : AddsUp(tolled))
  OBVIOUS
<1>4. AddsUp(g)
  BY <1>2, <1>3, AddsUpSomehow
<1>5. g[0] = 0 /\ \A n \in 0 .. Len(writs) : n /= 0 => g[n] = g[n - 1] + Tolled(writs[n])
  BY <1>2, <1>4 DEF AddsUp
<1>6. PICK I : I = SinceFinality
  OBVIOUS
<1>7. PICK T : T = {n \in Nat : n <= Len(writs) =>
                      IsFiniteSet(DaysOfFirst(n)) /\ g[n] = Cardinality(DaysOfFirst(n))}
  OBVIOUS
<1>8. 0 \in T
  <2>1. DaysOfFirst(0) = {}
    BY DEF DaysOfFirst
  <2>2. IsFiniteSet({}) /\ Cardinality({}) = 0
    BY FS_EmptySet
  <2>3. g[0] = 0
    BY <1>5
  <2>4. IsFiniteSet(DaysOfFirst(0)) /\ g[0] = Cardinality(DaysOfFirst(0))
    BY <2>1, <2>2, <2>3
  <2>5. 0 \in Nat
    OBVIOUS
  <2> QED BY <1>7, <2>4, <2>5, Zenon
<1>9. \A n \in Nat : n \in T => n + 1 \in T
  <2>1. SUFFICES ASSUME NEW n \in Nat, n \in T, n + 1 <= Len(writs) PROVE n + 1 \in T
    <3>1. ASSUME NEW n \in Nat, ~(n + 1 <= Len(writs)) PROVE n + 1 \in T
      BY <1>7, <3>1
    <3> QED BY <3>1
  <2>2. PICK A, B, C : A = DaysOfFirst(n) /\ B = PendingDays(writs[n + 1]) /\ C = {n + 1} \X B
    OBVIOUS
  <2>3. n + 1 \in DOMAIN writs /\ writs[n + 1] \in W
    BY <1>2, <2>1
  <2>4. IsFiniteSet(A) /\ g[n] = Cardinality(A)
    <3>1. n <= Len(writs)
      BY <1>2, <2>1
    <3> QED BY <1>7, <2>1, <2>2, <3>1
  <2>5. IsFiniteSet(B) /\ Tolled(writs[n + 1]) = Cardinality(B)
    BY <1>1, <2>2, <2>3, TolledIsPending
  <2>6. IsFiniteSet(C) /\ Cardinality(C) = Cardinality(B)
    <3>1. IsFiniteSet({n + 1}) /\ Cardinality({n + 1}) = 1
      BY FS_Singleton
    <3>2. IsFiniteSet(C) /\ Cardinality(C) = 1 * Cardinality(B)
      BY <2>2, <2>5, <3>1, FS_Product
    <3>3. Cardinality(B) \in Nat
      BY <2>5, FS_CardinalityType
    <3> QED BY <3>2, <3>3
  <2>7. DaysOfFirst(n + 1) = A \cup C /\ A \cap C = {}
    <3>1. \A i : i \in 1 .. n + 1 <=> i \in 1 .. n \/ i = n + 1
      OBVIOUS
    <3>2. n + 1 \notin 1 .. n
      OBVIOUS
    <3> QED BY <2>2, <3>1, <3>2 DEF PendingDays, DaysOfFirst
  <2>8. IsFiniteSet(A \cup C) /\ Cardinality(A \cup C) = Cardinality(A) + Cardinality(B)
    <3>1. /\ IsFiniteSet(A \cup C)
          /\ Cardinality(A \cup C) = Cardinality(A) + Cardinality(C) - Cardinality(A \cap C)
      BY <2>4, <2>6, FS_Union
    <3>2. Cardinality(A \cap C) = 0
      BY <2>7, FS_EmptySet
    <3>3. Cardinality(A) \in Nat /\ Cardinality(B) \in Nat
      BY <2>4, <2>5, FS_CardinalityType
    <3> QED BY <2>6, <3>1, <3>2, <3>3
  <2>9. g[n + 1] = g[n] + Tolled(writs[n + 1])
    BY <1>2, <1>5, <2>1
  <2>10. IsFiniteSet(DaysOfFirst(n + 1)) /\ g[n + 1] = Cardinality(DaysOfFirst(n + 1))
    BY <2>4, <2>5, <2>7, <2>8, <2>9
  <2>11. n + 1 \in Nat
    BY <2>1
  <2> QED BY <1>7, <2>10, <2>11, Zenon
<1>10. Len(writs) \in T
  BY <1>2, <1>8, <1>9, FromZeroOn
<1>11. DaysTolled = g[Len(writs)]
  BY <1>3, DaysTolledIs
<1>12. DaysOfFirst(Len(writs)) = WritDays
  BY <1>2 DEF DaysOfFirst, WritDays
<1>13. IsFiniteSet(DaysOfFirst(Len(writs))) /\ g[Len(writs)] = Cardinality(DaysOfFirst(Len(writs)))
  BY <1>2, <1>7, <1>10
<1> QED BY <1>11, <1>12, <1>13

\* The days on which some writ was pending are as many, or fewer if two were pending on one of them.
LEMMA DaysAreFewer ==
  ASSUME IsFiniteSet(WritDays), NEW P, P = {d \in SinceFinality : \E i \in DOMAIN writs : Pending(writs[i], d)}
  PROVE  /\ IsFiniteSet(P) /\ Cardinality(P) <= Cardinality(WritDays)
         /\ ~Overlap => Cardinality(P) = Cardinality(WritDays)
<1>1. PICK W : W = WritDays
  OBVIOUS
<1>2. PICK f : f = [p \in W |-> p[2]]
  OBVIOUS
<1>3. \A p \in W : p[2] \in P
  BY <1>1 DEF WritDays
<1>4. ASSUME NEW d \in P PROVE \E p \in W : f[p] = d
  <2>1. PICK i \in DOMAIN writs : Pending(writs[i], d)
    OBVIOUS
  <2>2. PICK p : p = <<i, d>>
    OBVIOUS
  <2>3. p[1] = i /\ p[2] = d /\ p \in (DOMAIN writs) \X SinceFinality
    BY <2>2
  <2>4. p \in W
    BY <1>1, <2>1, <2>3 DEF WritDays
  <2> QED BY <1>2, <2>3, <2>4
<1>5. f \in Surjection(W, P)
  BY <1>2, <1>3, <1>4 DEF Surjection
<1>6. IsFiniteSet(P) /\ Cardinality(P) <= Cardinality(W) /\ (Cardinality(P) = Cardinality(W) <=> f \in Injection(W, P))
  BY <1>1, <1>5, FS_Surjection
<1>7. ~Overlap => f \in Injection(W, P)
  <2>1. SUFFICES ASSUME ~Overlap PROVE f \in Injection(W, P)
    OBVIOUS
  <2>2. ASSUME NEW p \in W, NEW q \in W, f[p] = f[q] PROVE p = q
    <3>1. p[2] = q[2]
      BY <1>2, <2>2
    <3> QED BY <1>1, <2>1, <2>2, <3>1 DEF Overlap
  <2>3. f \in [W -> P]
    BY <1>2, <1>3
  <2> QED BY <2>2, <2>3 DEF Injection, IsInjective
<1> QED BY <1>1, <1>6, <1>7

\* The year is what is left of the days since finality.
LEMMA YearCounts == ClockTypeOK => YearIsTheDaysThatRan
<1>1. SUFFICES ASSUME ClockTypeOK
               PROVE  /\ DaysElapsed = Max({Cardinality(SinceFinality) - Cardinality(WritDays), 0})
                      /\ DaysElapsed <= Cardinality(DaysThatRan)
                      /\ ~Overlap => DaysElapsed = Cardinality(DaysThatRan)
  BY DEF YearIsTheDaysThatRan
<1>2. PICK F \in Int : F = Finality
  BY <1>1, FinalityIsADay
<1>3. today \in Nat
  BY <1>1 DEF ClockTypeOK
<1>4. PICK I : I = SinceFinality
  OBVIOUS
<1>5. PICK P : P = {d \in I : \E i \in DOMAIN writs : Pending(writs[i], d)}
  OBVIOUS
<1>6. PICK W : W = WritDays
  OBVIOUS
<1>7. IsFiniteSet(W) /\ DaysTolled = Cardinality(W)
  BY <1>1, <1>6, TolledDays
<1>8. /\ IsFiniteSet(P) /\ Cardinality(P) <= Cardinality(W)
      /\ ~Overlap => Cardinality(P) = Cardinality(W)
  BY <1>4, <1>5, <1>6, <1>7, DaysAreFewer
<1>9. PICK R : R = DaysThatRan
  OBVIOUS
<1>10. PICK q \in Int : q = today - 1
  BY <1>3
<1>11. IsFiniteSet(I) /\ Cardinality(I) = IF F > q THEN 0 ELSE q - F + 1
  BY <1>2, <1>4, <1>10, FS_Interval DEF SinceFinality
<1>12. I = P \cup R /\ P \cap R = {} /\ R \subseteq I
  BY <1>4, <1>5, <1>9 DEF DaysThatRan
<1>13. IsFiniteSet(R)
  BY <1>11, <1>12, FS_Subset
<1>14. /\ Cardinality(I) = Cardinality(P) + Cardinality(R)
       /\ Cardinality(P) \in Nat /\ Cardinality(R) \in Nat /\ Cardinality(W) \in Nat
  <2>1. Cardinality(P \cup R) = Cardinality(P) + Cardinality(R) - Cardinality(P \cap R)
    BY <1>8, <1>13, FS_Union
  <2>2. Cardinality(P \cap R) = 0
    BY <1>12, FS_EmptySet
  <2>3. Cardinality(P) \in Nat /\ Cardinality(R) \in Nat /\ Cardinality(W) \in Nat
    BY <1>7, <1>8, <1>13, FS_CardinalityType
  <2> QED BY <1>12, <2>1, <2>2, <2>3
<1>15. Max({today - F, 0}) = Cardinality(I)
  BY <1>3, <1>10, <1>11, MaxOfTwo
<1>16. PICK c, p, r, w \in Nat : /\ c = Cardinality(I) /\ p = Cardinality(P) /\ r = Cardinality(R) /\ w = Cardinality(W)
                                 /\ c = p + r /\ p <= w /\ (~Overlap => p = w)
  BY <1>8, <1>14
<1>17. PICK e : e = Max({c - w, 0})
  OBVIOUS
<1>18. e = IF c - w >= 0 THEN c - w ELSE 0
  BY <1>16, <1>17, MaxOfTwo
<1>19. e <= r /\ (~Overlap => e = r)
  BY <1>16, <1>18
<1>20. DaysElapsed = e
  BY <1>2, <1>7, <1>15, <1>16, <1>17, Zenon DEF DaysElapsed
<1> QED BY <1>4, <1>6, <1>9, <1>16, <1>17, <1>19, <1>20

\* For any holidays, any recorded dates and any writs: the clock reports a jurisdictional step of
\* an appeal missed exactly when the rules say so of the dates it was given. The page and the
\* packet, given four of them, say so of every notice that is lost and of no petition; of a notice
\* that is not, only when a motion in time saved it or, the page, on the evening of its last day.
\* The federal year has run on the days no writ was pending, less each day on which two were
\* (trap/clock.ts, matters.ts, deadlines.ts).
THEOREM ClocksStayRight == ClockSpec => []ClocksAreRight
<1>1. ClockSpec => []ClockTypeOK
  BY ClockInitTyped, ClockStepTyped, PTL DEF ClockSpec
<1>2. ClockTypeOK => ClocksAreRight
  BY ClockFollowsRules, SurfacesFollow, YearCounts DEF ClocksAreRight
<1> QED BY <1>1, <1>2, PTL
=============================================================================
