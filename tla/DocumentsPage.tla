---------------------------- MODULE DocumentsPage ---------------------------
(***************************************************************************)
(* The family's documents page (documents/page.tsx) against the api: files *)
(* sent one after the other, a zip that unpacks in the background, a poll  *)
(* with a budget, and every button ending in a refresh of three fetches. A *)
(* drop on the page starts a second batch beside the first; answers come   *)
(* late, out of order, or not at all. The page keeps what it shows in its  *)
(* own state, and decides by that what it lets the family do. It has one   *)
(* line for errors: Retry stands in it, and goes with it.                  *)
(***************************************************************************)
EXTENDS Naturals, FiniteSets

CONSTANTS
  Papers,       \* the family's files
  Zip,          \* its archive
  Inside,       \* the document in the archive
  Batches,      \* runs of handleFiles
  Hand,         \* the refresh of a button
  Timer,        \* the refresh of the poll
  Cap,          \* pages the purchase includes, a page a document
  PollBudget,   \* bounds pollBudget (24 and 36 in the code)
  MaxSkew,      \* how far, in summaries, the browser's clock is from the server's
  MaxGestures,  \* bounds what the family does
  MaxBreaks     \* bounds the requests that fail

Documents == Papers \cup {Inside}
Callers == Batches \cup {Hand, Timer}
ASSUME PageAssumption ==
  /\ Zip \notin Documents /\ Inside \notin Papers /\ Hand \notin Batches /\ Timer \notin Batches /\ Hand /= Timer
  /\ Cap \in Nat /\ PollBudget \in Nat /\ MaxSkew \in Nat

VARIABLES
  rows,       \* the server: Documents -> how many Document rows hold it
  read,       \* the documents read and named
  jobs,       \* the zip queue
  zips,       \* zip.ingested events
  running,    \* records are complete
  data,       \* the page: the checklist's answer it shows
  zip,        \* zipBusy, and zipStartedAt as the summaries of that time by the browser's clock
  budget,     \* pollBudget
  armed,      \* the poll's setTimeout
  failed,     \* failedFiles
  error,      \* there is a message
  progress,   \* there is a bar
  cancelled,  \* cancelled.current
  batch,      \* Batches -> the run of handleFiles
  get,        \* Callers -> the refresh in flight
  gestures, breaks,
  wanted,     \* history: files chosen, and not taken back since
  passedOver, \* history: files that failed, and whose message was cleared since
  twice,      \* history: a file was sent that the page should have, or had, asked about
  muddled,    \* history: files were dropped while the page was busy
  hushed,     \* history: an answer the page waited for never came
  hasty,      \* history: a zip was unpacked before its upload was answered, or never will be
  skewed      \* history: the browser's clock was not the server's when a zip was handed over

serverVars == <<rows, read, jobs, zips, running>>
pollVars == <<zip, budget, armed>>
noteVars == <<error, progress, passedOver>>
batchVars == <<failed, cancelled, batch, noteVars>>
talesVars == <<wanted, twice, muddled, hushed, hasty, skewed>>
docVars == <<serverVars, data, pollVars, batchVars, get, gestures, breaks, talesVars>>

Resting == [pc |-> "idle", at |-> Zip, rest |-> {}, failed |-> {}]
NoGet == [pc |-> "none"]
None == [d \in Documents |-> 0]

PageInit ==
  /\ rows = None /\ read = {} /\ jobs = 0 /\ zips = 0 /\ running = FALSE
  /\ data = [rows |-> None, read |-> {}, zips |-> 0, running |-> FALSE, stale |-> FALSE]
  /\ zip = [busy |-> "no", since |-> 0] /\ budget = 0 /\ armed = FALSE
  /\ failed = {} /\ cancelled = FALSE /\ error = FALSE /\ progress = FALSE /\ passedOver = {}
  /\ batch = [b \in Batches |-> Resting] /\ get = [c \in Callers |-> NoGet]
  /\ gestures = 0 /\ breaks = 0
  /\ wanted = {} /\ twice = {} /\ muddled = FALSE /\ hushed = FALSE /\ hasty = FALSE /\ skewed = FALSE
-----------------------------------------------------------------------------
Active == {b \in Batches : batch[b].pc /= "idle"}
Shown(f) == f \in Documents /\ data.rows[f] > 0
Busy == Active /= {} \/ zip.busy /= "no"
Editable == ~data.running
\* What the pages endpoint counts: a repeated document is billed once.
Billable == Cardinality({d \in read : rows[d] > 0})
Gesture == gestures < MaxGestures /\ ~running /\ gestures' = gestures + 1
Breaks == breaks < MaxBreaks /\ breaks' = breaks + 1
\* Retry is a part of the error's line, and of no other screen than this.
RetryOffered == error /\ failed /= {} /\ ~progress /\ ~running
\* A button clears the message, and sets one of its own if it fails.
Failures == failed \cup UNION {batch[b].failed : b \in Batches}
Says(fails) == error' = fails /\ passedOver' = passedOver \cup Failures /\ UNCHANGED progress

\* Mutant: the budget bounds the wait for a zip as well.
ArmedFlawed(busy, left, d) ==
  left > 0 /\ (busy = "unpacking" \/ \E f \in Documents : d.rows[f] > 0 /\ f \notin d.read)
\* The poll's effect runs anew when zipBusy, pollBudget or the data change.
Armed(busy, left, d) ==
  busy = "unpacking" \/ (left > 0 /\ \E f \in Documents : d.rows[f] > 0 /\ f \notin d.read)

\* The loop of handleFiles: the next file, whose upload clears the message of the one
\* before, or the end of the batch; bad says that the file it was at failed.
Begin(b, q, busy) ==
  \E f \in q.rest :
    /\ batch' = [batch EXCEPT ![b] = [q EXCEPT !.pc = "presign", !.at = f, !.rest = @ \ {f}]]
    /\ zip' = [zip EXCEPT !.busy = IF f = Zip THEN "uploading" ELSE busy]
    /\ error' = FALSE /\ progress' = TRUE
Loop(b, q, busy, bad) ==
  \/ Begin(b, q, busy) /\ UNCHANGED failed /\ passedOver' = passedOver \cup q.failed
  \/ /\ q.rest = {}
     /\ failed' = q.failed /\ batch' = [batch EXCEPT ![b] = Resting]
     /\ zip' = [zip EXCEPT !.busy = busy]
     /\ error' = (error \/ bad) /\ progress' = FALSE
     /\ passedOver' = IF bad THEN passedOver \ q.failed ELSE passedOver
AfterUpload(b) == IF batch[b].at = Zip /\ zip.busy = "uploading" THEN "no" ELSE zip.busy

\* Mutant: a cancel keeps the file it stopped, and drops the rest of the batch.
StoppedFlawed(b, stop) == [batch[b] EXCEPT !.failed = @ \cup {batch[b].at}, !.rest = IF stop THEN {} ELSE @]
\* "A cancel stops the whole batch; the rest can be retried together."
Stopped(b, stop) ==
  [batch[b] EXCEPT !.failed = @ \cup {batch[b].at} \cup (IF stop THEN batch[b].rest ELSE {}),
                   !.rest = IF stop THEN {} ELSE @]
UploadFails(b, stop) ==
  /\ Loop(b, Stopped(b, stop), AfterUpload(b), TRUE)
  /\ armed' = Armed(zip'.busy, budget, data)

\* A picker, a drop, or Retry while it is there: who chooses others then turns from the
\* failed ones. Files the page shows are asked about; no is kept out.
ChooseFiles(b, chosen, no) ==
  LET sent == chosen \ no
  IN  /\ batch[b] = Resting /\ chosen /= {} /\ \A f \in no : Shown(f)
      /\ Gesture
      /\ wanted' = (wanted \ (IF RetryOffered THEN failed ELSE {})) \cup sent
      /\ passedOver' = passedOver \ sent
      /\ twice' = twice \cup {f \in sent : Shown(f) \/ data.stale}
      /\ muddled' = (muddled \/ (sent /= {} /\ Busy))
      /\ IF sent = {} THEN failed' = {} /\ UNCHANGED <<batch, zip, error, progress>>
         ELSE failed' = {} /\ Begin(b, [Resting EXCEPT !.rest = sent], zip.busy)
      /\ armed' = Armed(zip'.busy, budget, data)
      /\ UNCHANGED <<serverVars, data, budget, cancelled, get, breaks, hushed, hasty, skewed>>

Presign(b) ==
  /\ batch[b].pc = "presign"
  /\ \/ /\ batch' = [batch EXCEPT ![b].pc = "put"] /\ cancelled' = FALSE
        /\ UNCHANGED <<zip, armed, failed, breaks, noteVars>>
     \/ Breaks /\ UploadFails(b, cancelled) /\ UNCHANGED cancelled
  /\ UNCHANGED <<serverVars, data, budget, get, gestures, talesVars>>
\* The PUT ends: loaded, an error, or aborted by the watchdog of a silent connection.
PutEnds(b) ==
  /\ batch[b].pc = "put"
  /\ \/ batch' = [batch EXCEPT ![b].pc = "complete"] /\ UNCHANGED <<zip, armed, failed, breaks, noteVars>>
     \/ Breaks /\ UploadFails(b, cancelled)
  /\ UNCHANGED <<serverVars, data, budget, cancelled, get, gestures, talesVars>>
\* Cancel aborts the PUT in flight; between two requests it only leaves its mark.
CancelUpload ==
  /\ Active /= {} /\ Gesture
  /\ \/ /\ \A b \in Batches : batch[b].pc /= "put"
        /\ cancelled' = TRUE /\ UNCHANGED <<batch, failed, zip, armed, noteVars>>
     \/ \E b \in Batches :
          /\ batch[b].pc = "put"
          /\ cancelled' = TRUE
          /\ UploadFails(b, TRUE)
  /\ UNCHANGED <<serverVars, data, budget, get, breaks, talesVars>>

\* POST /upload/complete on the server: a row, or a job for the archive.
Registered(b) ==
  /\ batch[b].pc = "complete"
  /\ \/ /\ batch[b].at = Zip /\ jobs' = jobs + 1 /\ UNCHANGED rows
     \/ /\ batch[b].at /= Zip /\ rows' = [rows EXCEPT ![batch[b].at] = @ + 1] /\ UNCHANGED jobs
  /\ batch' = [batch EXCEPT ![b].pc = "answer"]
  /\ UNCHANGED <<read, zips, running, data, pollVars, failed, cancelled, noteVars, get, gestures, breaks, talesVars>>
CompleteFails(b) ==
  /\ batch[b].pc = "complete" /\ Breaks /\ UploadFails(b, cancelled)
  /\ UNCHANGED <<serverVars, data, budget, cancelled, get, gestures, talesVars>>
\* Date.now(), as a number of the server's summaries.
BrowserNow == {n \in 0 .. zips + MaxSkew : n + MaxSkew >= zips}
Completed(b) ==
  /\ batch[b].pc = "answer"
  /\ \/ /\ batch' = [batch EXCEPT ![b].pc = "refresh"]
        /\ get' = [get EXCEPT ![b] = [pc |-> "asked"]]
        /\ budget' = PollBudget
        /\ IF batch[b].at = Zip
           THEN \E now \in BrowserNow :
                  zip' = [busy |-> "unpacking", since |-> now] /\ skewed' = (skewed \/ now /= zips)
           ELSE UNCHANGED <<zip, skewed>>
        /\ hasty' = (hasty \/ (batch[b].at = Zip /\ jobs = 0))
        /\ armed' = Armed(zip'.busy, PollBudget, data)
        /\ UNCHANGED <<failed, breaks, hushed, noteVars>>
     \/ Breaks /\ UploadFails(b, cancelled) /\ hushed' = TRUE /\ UNCHANGED <<get, budget, hasty, skewed>>
  /\ UNCHANGED <<serverVars, data, cancelled, gestures, wanted, twice, muddled>>
-----------------------------------------------------------------------------
(* refresh *)
ListRead(c) ==
  /\ get[c].pc = "asked"
  /\ get' = [d \in Callers |->
       IF d = c THEN [pc |-> "list", rows |-> rows, read |-> read, zips |-> zips, running |-> running, stale |-> FALSE]
       ELSE IF get[d].pc = "list" THEN [get[d] EXCEPT !.stale = TRUE] ELSE get[d]]
  /\ UNCHANGED <<serverVars, data, pollVars, batchVars, gestures, breaks, talesVars>>
\* "Unpack-complete detection": a summary newer than the hand-over, the server's time
\* of the one against the browser's of the other.
Unpacked(d) == zip.busy = "unpacking" /\ d.zips > zip.since
\* Shown as soon as it comes; the meter and the inventory are asked for after it, and
\* a fetch that rejects ends the refresh, and the upload that awaits it with an error.
ListShown(c) ==
  /\ get[c].pc = "list"
  /\ data' = [f \in DOMAIN data |-> get[c][f]]
  /\ get' = [get EXCEPT ![c] = NoGet]
  /\ LET busy == IF Unpacked(get[c]) THEN "no" ELSE zip.busy
     IN  IF c \in Batches
         THEN \/ Loop(c, batch[c], busy, FALSE) /\ UNCHANGED <<breaks, hushed>>
              \/ Breaks /\ hushed' = TRUE /\ Loop(c, Stopped(c, cancelled), busy, TRUE)
         ELSE zip' = [zip EXCEPT !.busy = busy] /\ UNCHANGED <<batch, failed, noteVars, breaks, hushed>>
  /\ armed' = Armed(zip'.busy, budget, data')
  /\ UNCHANGED <<serverVars, budget, cancelled, gestures, wanted, twice, muddled, hasty, skewed>>
RefreshFails(c) ==
  /\ get[c] /= NoGet /\ Breaks
  /\ get' = [get EXCEPT ![c] = NoGet]
  /\ hushed' = TRUE
  /\ IF c \in Batches THEN UploadFails(c, cancelled) ELSE UNCHANGED <<batch, failed, noteVars, zip, armed>>
  /\ UNCHANGED <<serverVars, data, budget, cancelled, gestures, wanted, twice, muddled, hasty, skewed>>

\* setPollBudget at 0 changes nothing, and arms no timer: the answer has to.
Poll ==
  /\ armed /\ get[Timer] = NoGet
  /\ get' = [get EXCEPT ![Timer] = [pc |-> "asked"]]
  /\ budget' = IF budget = 0 THEN 0 ELSE budget - 1
  /\ armed' = (budget > 0 /\ Armed(zip.busy, budget - 1, data))
  /\ UNCHANGED <<serverVars, data, zip, batchVars, gestures, breaks, talesVars>>
-----------------------------------------------------------------------------
(* The buttons: a request, then a refresh *)
Asks(c) == get[c] = NoGet /\ get' = [get EXCEPT ![c] = [pc |-> "asked"]]
\* A row asks about the name it has, and offers to be named once the poll has given up.
CanName(d) == Shown(d) /\ (budget = 0 \/ d \in data.read)
\* confirm and correct: what a save came to is looked up whether it failed or not.
Verdict(d) ==
  /\ Gesture /\ CanName(d)
  /\ \/ rows[d] > 0 /\ read' = read \cup {d} /\ Says(FALSE) /\ UNCHANGED breaks
     \/ rows[d] = 0 /\ Says(TRUE) /\ UNCHANGED <<read, breaks>>
     \/ Breaks /\ Says(TRUE) /\ read' \in {read, read \cup {e \in {d} : rows[e] > 0}}
  /\ Asks(Hand)
  /\ UNCHANGED <<rows, jobs, zips, running, data, pollVars, failed, cancelled, batch, talesVars>>
\* The label of a volume names nothing; a save that fails is not looked up, and one whose
\* request is lost is not even said to have failed.
SaveVolume(d) ==
  /\ Gesture /\ Shown(d) /\ Editable /\ ~Busy
  /\ \/ rows[d] > 0 /\ Says(FALSE) /\ Asks(Hand) /\ UNCHANGED breaks
     \/ rows[d] = 0 /\ Says(TRUE) /\ UNCHANGED <<get, breaks>>
     \/ Breaks /\ (Says(TRUE) \/ Says(FALSE)) /\ UNCHANGED get
  /\ UNCHANGED <<serverVars, data, pollVars, failed, cancelled, batch, talesVars>>
DownloadFails(d) ==
  /\ Gesture /\ Shown(d) /\ error' = TRUE
  /\ (rows[d] = 0 /\ UNCHANGED breaks) \/ Breaks
  /\ UNCHANGED <<serverVars, data, pollVars, failed, cancelled, batch, progress, passedOver, get, talesVars>>

CanRemove == Editable /\ ~Busy /\ get[Hand] = NoGet
\* What a removal was answered, refused documents included, is looked up again; what it
\* came to when the request was lost is not.
Removed(gone) ==
  /\ rows' = [d \in Documents |-> IF d \in gone /\ rows[d] > 0 THEN rows[d] - 1 ELSE rows[d]]
  /\ read' = {d \in read : rows'[d] > 0}
RemoveFiles(gone) ==
  /\ Gesture /\ CanRemove
  /\ gone /= {} /\ \A d \in gone : Shown(d)
  /\ wanted' = wanted \ gone
  /\ \/ Removed(gone) /\ Says(FALSE) /\ Asks(Hand) /\ UNCHANGED <<breaks, hushed>>
     \/ Breaks /\ UNCHANGED <<rows, read, hushed>> /\ Says(TRUE) /\ Asks(Hand)
     \/ Breaks /\ Removed(gone) /\ hushed' = TRUE /\ Says(TRUE) /\ UNCHANGED get
  /\ UNCHANGED <<jobs, zips, running, data, pollVars, failed, cancelled, batch, twice, muddled, hasty, skewed>>

\* The button of step 2 does not wait for an upload.
CanStart == Editable /\ \E d \in Documents : Shown(d)
\* markComplete: 402 becomes the overage offer, another refusal a message, success the
\* page's last screen; a request that is lost leaves nothing.
MarkComplete ==
  /\ Gesture /\ CanStart
  /\ \/ Billable > Cap /\ Says(FALSE) /\ Asks(Hand) /\ UNCHANGED <<running, breaks>>
     \/ /\ Billable <= Cap /\ \E d \in Documents : rows[d] > 0
        /\ running' = TRUE /\ Says(FALSE) /\ UNCHANGED <<get, breaks>>
     \/ /\ Billable <= Cap /\ \A d \in Documents : rows[d] = 0
        /\ Says(TRUE) /\ UNCHANGED <<running, get, breaks>>
     \/ Breaks /\ (Says(TRUE) \/ Says(FALSE)) /\ UNCHANGED <<running, get>>
  /\ UNCHANGED <<rows, read, jobs, zips, data, pollVars, failed, cancelled, batch, talesVars>>
-----------------------------------------------------------------------------
(* The workers *)
Unpack ==
  /\ jobs > 0 /\ jobs' = jobs - 1
  /\ rows' = [rows EXCEPT ![Inside] = @ + 1] /\ zips' = zips + 1
  /\ UNCHANGED <<read, running, data, pollVars, batchVars, get, gestures, breaks, talesVars>>
\* A job that fails for good leaves no summary.
UnpackFails ==
  /\ jobs > 0 /\ Breaks /\ jobs' = jobs - 1
  /\ hasty' = TRUE
  /\ UNCHANGED <<rows, read, zips, running, data, pollVars, batchVars, get, gestures, wanted, twice, muddled, hushed, skewed>>
Classify(d) ==
  /\ rows[d] > 0 /\ d \notin read /\ read' = read \cup {d}
  /\ UNCHANGED <<rows, jobs, zips, running, data, pollVars, batchVars, get, gestures, breaks, talesVars>>

PageNext ==
  \/ \E b \in Batches :
       \/ \E chosen \in SUBSET (Papers \cup {Zip}) : \E no \in SUBSET (chosen \cap Documents) : ChooseFiles(b, chosen, no)
       \/ Presign(b) \/ PutEnds(b) \/ Registered(b) \/ CompleteFails(b) \/ Completed(b)
  \/ \E c \in Callers : ListRead(c) \/ ListShown(c) \/ RefreshFails(c)
  \/ \E d \in Documents : Verdict(d) \/ SaveVolume(d) \/ DownloadFails(d) \/ Classify(d)
  \/ \E gone \in SUBSET Documents : RemoveFiles(gone)
  \/ CancelUpload \/ MarkComplete \/ Poll \/ Unpack \/ UnpackFails

PageSpec == PageInit /\ [][PageNext]_docVars
-----------------------------------------------------------------------------
Pending(b) == batch[b].rest \cup batch[b].failed \cup (IF batch[b].pc = "idle" THEN {} ELSE {batch[b].at})
AtRest == Active = {} /\ ~armed /\ \A c \in Callers : get[c] = NoGet

\* No file is lost and none sent twice behind the family's back. A file it chose, and did
\* not remove or turn from when Retry was offered, is on the server, under way, or offered
\* for Retry; or it failed, and then the page moved past it: a later file of its batch
\* did not fail, a button was pressed, or the review was started, and took the message
\* with Retry off the page. Two batches at once share the one Retry. And unless an answer
\* was lost, the list was old, or the family said yes, a file is there once.
NoFileForgotten ==
  /\ muddled \/ \A f \in wanted \cap Papers :
       \/ rows[f] > 0 \/ \E b \in Batches : f \in Pending(b)
       \/ f \in failed /\ (RetryOffered \/ running)
       \/ f \in passedOver
  /\ muddled \/ hushed \/ \A f \in Papers : rows[f] <= 1 \/ f \in twice

\* A page that opens a zip asks on, and what it waits for is to come: a zip is in the queue
\* or its summary is there, unless one failed for good or was unpacked before the page
\* was told it had begun, or the clocks are apart. What it shows when it has come to rest
\* is what is there, unless besides an answer was lost or an older one came last.
PageSettles ==
  /\ zip.busy = "unpacking" =>
       /\ armed \/ get[Timer] /= NoGet \/ hushed
       /\ jobs > 0 \/ zips > zip.since \/ hasty \/ skewed
  /\ AtRest => muddled \/ hushed \/ hasty \/ skewed \/ data.stale \/ running \/ data.rows = rows

\* Every file is accounted for, on the server and, at rest, on the page.
FilesAccountedFor == NoFileForgotten /\ PageSettles
=============================================================================
