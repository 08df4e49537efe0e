------------------------ MODULE IntakePipelineProofs ------------------------
(***************************************************************************)
(* What holds of an intake job for every number of files, facts, activity  *)
(* events, stops and failures: the type invariant, the four safety         *)
(* invariants of IntakePipeline and that an ended job is history.          *)
(*                                                                         *)
(* None of them is inductive.  RunInv relates the place of the run to the  *)
(* folder, the case, the job and the service; LogInv the activity in the   *)
(* log to last_sequence and the fetched events; PageInv the page's         *)
(* timeline to the log and the status it has read to the job's.            *)
(***************************************************************************)
EXTENDS IntakePipeline, SequenceTheorems, TLAPS

Over == {"none", "ended", "lost"}
Ends == {"completed", "failed"}

\* Before the case, while it advances, and from the manifest on.
BeforeCase == {"none", "received", "validating", "document", "stage", "staged",
               "submitting", "ingest", "forward", "collect", "rest", "extracting",
               "extract", "metric", "facts", "gating", "retrieve", "assembling", "create"}
Ready == {"announce", "succeeded", "complete"}
AllStaged == (Pipeline \ {"validating", "document", "stage", "staged"}) \cup Ready

Counting ==
  /\ run.pc \in {"document", "stage", "staged"} => run.n <= NFiles
  /\ run.pc \in {"collect", "rest", "extracting", "extract", "metric"} => run.n <= NFacts
  /\ run.n >= 1

Progress ==
  /\ run.pc = "staged" => folder.staged = run.n
  /\ run.pc \in AllStaged => folder.staged = NFiles
  /\ run.pc \in BeforeCase => case = 0
  /\ run.pc = "advance" => case \in 1..(AwaitingHuman - 1)
  /\ run.pc \in Ready \cup {"manifest"} => case = AwaitingHuman
  /\ run.pc \in Ready => folder.manifest /\ ~folder.failed

JobOfRun ==
  /\ run.pc = "none" <=> job.status = "none"
  /\ run.pc = "received" => job.status = "queued"
  /\ run.pc \in Pipeline \cup Handlers => job.status = "running"
  /\ service = "down" => run.pc \in Over
  /\ service = "stopping" => run.pc \in Over \cup {"failing", "finish"}

Outcome ==
  /\ run.error # "service_restarted"
  /\ run.pc = "finish" =>
       log # <<>> /\ LastEvent = [stage |-> "failed", of |-> 0, error |-> run.error]
  /\ run.pc = "complete" => log # <<>> /\ LastEvent.stage = "completed"

RunInv == Counting /\ Progress /\ JobOfRun /\ Outcome /\ CompletedIsReady /\ FailureIsReported

\* The fetched events follow last_sequence; the log has those up to it.
LogInv ==
  /\ run.last + Len(run.pending) <= batch.produced
  /\ \A i \in 1..Len(run.pending) : run.pending[i] = run.last + i
  /\ \A i \in 1..Len(log) : IsActivity(i) => log[i].of \in 1..run.last
  /\ \A k \in 1..run.last : \E i \in 1..Len(log) : IsActivity(i) /\ log[i].of = k
  /\ ForwardedOnce

PageInv ==
  /\ page.pc # "none" => job.status # "none"
  /\ page.cursor <= Len(log)
  /\ page.seen = SubSeq(log, 1, page.cursor)
  /\ page.pc \in {"answer", "closed"} /\ page.status \in Ends => job.status = page.status
  /\ page.pc = "closed" => page.status \in Ends /\ page.cursor = Len(log)

Inv == TypeOK /\ RunInv /\ LogInv /\ PageInv

\* What append does to the log and to the job's row.
LEMMA AppendedFacts ==
  ASSUME TypeOK, NEW e \in Events, Appended(e)
  PROVE  /\ log' \in Seq(Events) /\ log' # <<>>
         /\ Len(log') = Len(log) + 1
         /\ \A i \in 1..Len(log) : log'[i] = log[i]
         /\ log'[Len(log')] = e
         /\ \A c \in 0..Len(log) : SubSeq(log', 1, c) = SubSeq(log, 1, c)
         /\ job' \in Rows
         /\ job'.error = job.error
         /\ job'.status = IF job.status = "queued" THEN "running" ELSE job.status
<1>1. log \in Seq(Events) /\ job \in Rows
  BY DEF TypeOK
<1>2. log' = Append(log, e)
  BY DEF Appended
<1>3. /\ log' \in Seq(Events) /\ log' # <<>>
      /\ Len(log') = Len(log) + 1
      /\ \A i \in 1..Len(log) : log'[i] = log[i]
      /\ log'[Len(log')] = e
  BY <1>1, <1>2, AppendProperties
<1>4. ASSUME NEW c \in 0..Len(log) PROVE SubSeq(log', 1, c) = SubSeq(log, 1, c)
  <2>1. Len(log) \in Nat
    BY <1>1
  <2>2. /\ SubSeq(log, 1, c) \in Seq(Events) /\ Len(SubSeq(log, 1, c)) = c
        /\ \A i \in 1..c : SubSeq(log, 1, c)[i] = log[i]
    BY <1>1, <2>1, SubSeqProperties
  <2>3. /\ SubSeq(log', 1, c) \in Seq(Events) /\ Len(SubSeq(log', 1, c)) = c
        /\ \A i \in 1..c : SubSeq(log', 1, c)[i] = log'[i]
    BY <1>3, <2>1, SubSeqProperties
  <2>4. \A i \in 1..c : SubSeq(log', 1, c)[i] = SubSeq(log, 1, c)[i]
    BY <1>3, <2>1, <2>2, <2>3
  <2> QED BY <2>2, <2>3, <2>4, SeqEqual
<1>5. /\ job' \in Rows
      /\ job'.error = job.error
      /\ job'.status = IF job.status = "queued" THEN "running" ELSE job.status
  BY <1>1 DEF Appended, Rows, JobStatuses
<1> QED BY <1>3, <1>4, <1>5

\* A report that is not activity leaves the forwarding where it is.
LEMMA LogInvReported ==
  ASSUME TypeOK, LogInv, NEW e \in Events, e.stage # "activity", Appended(e),
         run'.last = run.last, run'.pending = run.pending, batch'.produced = batch.produced
  PROVE  LogInv'
<1>1. /\ Len(log') = Len(log) + 1 /\ Len(log) \in Nat
      /\ \A i \in 1..Len(log) : log'[i] = log[i]
      /\ log'[Len(log')] = e
  BY AppendedFacts DEF TypeOK
<1>2. \A i \in 1..Len(log') : log'[i].stage = "activity" => i \in 1..Len(log)
  BY <1>1
<1>3. \A i \in 1..Len(log') : log'[i].stage = "activity" => log'[i].of \in 1..run.last
  BY <1>1, <1>2 DEF LogInv, IsActivity
<1>4. \A k \in 1..run.last :
        \E i \in 1..Len(log') : log'[i].stage = "activity" /\ log'[i].of = k
  <2>1. \A k \in 1..run.last : \E i \in 1..Len(log) : log[i].stage = "activity" /\ log[i].of = k
    BY DEF LogInv, IsActivity
  <2>2. \A i \in 1..Len(log) : i \in 1..Len(log') /\ log'[i] = log[i]
    BY <1>1
  <2> QED BY <2>1, <2>2, Zenon
<1>5. ForwardedOnce'
  <2> SUFFICES ASSUME NEW i \in 1..Len(log'), log'[i].stage = "activity"
               PROVE  /\ \A j \in 1..(i - 1) : log'[j].stage = "activity" => log'[j].of < log'[i].of
                      /\ log'[i].of > 1 => \E j \in 1..(i - 1) :
                                             log'[j].stage = "activity" /\ log'[j].of = log'[i].of - 1
    BY DEF ForwardedOnce, IsActivity
  <2>1. i \in 1..Len(log) /\ log'[i] = log[i] /\ \A j \in 1..(i - 1) : log'[j] = log[j]
    BY <1>1, <1>2
  <2>2. /\ \A j \in 1..(i - 1) : log[j].stage = "activity" => log[j].of < log[i].of
        /\ log[i].of > 1 => \E j \in 1..(i - 1) :
                               log[j].stage = "activity" /\ log[j].of = log[i].of - 1
    <3>1. log[i].stage = "activity" /\ ForwardedOnce
      BY <2>1 DEF LogInv
    <3> QED BY <2>1, <3>1, Zenon DEF ForwardedOnce, IsActivity
  <2> HIDE DEF LogInv
  <2> QED BY <2>1, <2>2, Zenon
<1> QED BY <1>3, <1>4, <1>5 DEF LogInv, IsActivity

\* So does a step that reports nothing and fetches nothing.
LEMMA LogInvKept ==
  ASSUME TypeOK, LogInv, UNCHANGED log, run'.last = run.last, run'.pending = run.pending,
         batch'.produced \in Nat, batch'.produced >= batch.produced
  PROVE  LogInv'
<1>1. run.last \in Nat /\ Len(run.pending) \in Nat /\ batch.produced \in Nat
  BY DEF TypeOK, Runs
<1>2. ForwardedOnce'
  BY Zenon DEF LogInv, ForwardedOnce, IsActivity
<1> QED BY <1>1, <1>2 DEF LogInv, IsActivity

\* An append while the page is where it was: the job has not ended, so the page
\* has not closed, and what it has seen is still a prefix.
LEMMA PageInvReported ==
  ASSUME TypeOK, PageInv, NEW e \in Events, Appended(e), job.status \in {"queued", "running"},
         page'.seen = page.seen, page'.cursor = page.cursor, page'.status = page.status,
         page'.pc = page.pc \/ page'.pc = "poll"
  PROVE  PageInv'
<1>1. /\ Len(log') = Len(log) + 1 /\ Len(log) \in Nat
      /\ \A c \in 0..Len(log) : SubSeq(log', 1, c) = SubSeq(log, 1, c)
      /\ job'.status \in {"queued", "running"}
  BY AppendedFacts DEF TypeOK
<1>2. page.cursor \in 0..Len(log)
  BY <1>1 DEF PageInv, TypeOK, Pages
<1>3. page'.cursor <= Len(log') /\ page'.seen = SubSeq(log', 1, page'.cursor)
  BY <1>1, <1>2 DEF PageInv
<1>4. ~(page.pc \in {"answer", "closed"} /\ page.status \in Ends)
  BY DEF PageInv, Ends
<1> QED BY <1>1, <1>3, <1>4 DEF PageInv, Ends

\* A step that leaves page and log alone and ends the job at most.
LEMMA PageInvKept ==
  ASSUME TypeOK, PageInv, UNCHANGED <<page, log>>,
         job.status \in Ends => UNCHANGED job, job.status # "none" => job'.status # "none"
  PROVE  PageInv'
  BY DEF PageInv, Ends

\* Every part of the invariant holds of the initial states.
LEMMA InvInit == Init => Inv
<1> SUFFICES ASSUME Init PROVE Inv
  OBVIOUS
<1> USE IntakeAssumption DEF Init
<1>1. TypeOK
  BY DEF TypeOK, Rows, Runs, Folders, Pages, JobStatuses, Errors, Numbers, AwaitingHuman,
         CaseStates
<1>2. RunInv
  BY DEF RunInv, Counting, Progress, JobOfRun, Outcome, CompletedIsReady, FailureIsReported,
         Pipeline, Handlers, Over, BeforeCase, Ready, AllStaged
<1>3. LogInv
  BY DEF LogInv, ForwardedOnce
<1>4. PageInv
  BY SubSeqEmpty DEF PageInv, Ends
<1> QED BY <1>1, <1>2, <1>3, <1>4 DEF Inv

Places == Pipeline \cup Handlers \cup {"none", "received", "ended", "lost"}

\* The constants and the counters are natural numbers.
LEMMA ConstantNumbers ==
  /\ NFiles \in Nat \ {0} /\ NFacts \in Nat \ {0} /\ MaxActivity \in Nat
  /\ Numbers \subseteq Nat /\ 0 \in Numbers /\ 1 \in Numbers
  /\ \A n \in Nat : n <= NFiles \/ n <= NFacts => n \in Numbers
  /\ 1..MaxActivity \subseteq Numbers
  BY IntakeAssumption DEF Numbers

LEMMA RunNumbers ==
  ASSUME run \in Runs
  PROVE  /\ run.n \in Numbers /\ run.n \in Nat /\ run.last \in 0..MaxActivity
         /\ run.pending \in Seq(1..MaxActivity) /\ run.error \in Errors
  BY ConstantNumbers DEF Runs

\* After a report the job runs, and the report is the last event.
LEMMA ReportedFacts ==
  ASSUME TypeOK, RunInv, NEW e \in Events, Appended(e), job.status \in {"queued", "running"}
  PROVE  /\ job'.status = "running" /\ CompletedIsReady' /\ FailureIsReported'
         /\ log' # <<>> /\ LastEvent' = e
  BY AppendedFacts DEF RunInv, CompletedIsReady, FailureIsReported, LastEvent

\* What a step does to the run: it goes on, it counts, or it raises an error.
LEMMA GoesFacts ==
  ASSUME run \in Runs, NEW pc \in Places, Goes(pc)
  PROVE  /\ run' \in Runs /\ run'.pc = pc /\ run'.n = run.n /\ run'.error = run.error
         /\ run'.last = run.last /\ run'.pending = run.pending
  BY DEF Runs, Goes, Places

LEMMA GoesToFacts ==
  ASSUME run \in Runs, NEW pc \in Places, NEW n \in Numbers, GoesTo(pc, n)
  PROVE  /\ run' \in Runs /\ run'.pc = pc /\ run'.n = n /\ run'.error = run.error
         /\ run'.last = run.last /\ run'.pending = run.pending
  BY DEF Runs, GoesTo, Places

LEMMA RaisesFacts ==
  ASSUME run \in Runs, folder \in Folders, NEW e \in Errors, Raises(e)
  PROVE  /\ run' \in Runs /\ run'.pc = "failing" /\ run'.n = run.n /\ run'.error = e
         /\ run'.last = run.last /\ run'.pending = run.pending
         /\ folder' \in Folders
  BY DEF Runs, Raises, Folders, Handlers, Pipeline

\* What FinDocIQ answers follows last_sequence.
LEMMA ActivityFacts ==
  ASSUME TypeOK, LogInv
  PROVE  /\ ActivityAfter(run.last) \in Seq(1..MaxActivity)
         /\ run.last + Len(ActivityAfter(run.last)) <= batch.produced
         /\ \A i \in 1..Len(ActivityAfter(run.last)) :
              ActivityAfter(run.last)[i] = run.last + i
<1>1. /\ run.last \in Nat /\ batch.produced \in Nat /\ Len(run.pending) \in Nat
      /\ batch.produced <= MaxActivity /\ MaxActivity \in Nat
  BY ConstantNumbers, RunNumbers DEF TypeOK
<1>2. run.last <= batch.produced
  BY <1>1 DEF LogInv
<1>3. CASE run.last < batch.produced
  <2> DEFINE n == batch.produced - run.last
             s == [i \in 1..n |-> run.last + i]
  <2>1. n \in Nat /\ run.last + n = batch.produced /\ \A i \in 1..n : run.last + i \in 1..MaxActivity
    BY <1>1, <1>3
  <2>2. ActivityAfter(run.last) = s
    BY <1>3 DEF ActivityAfter
  <2> HIDE DEF n
  <2>3. s \in Seq(1..MaxActivity) /\ Len(s) = n /\ \A i \in 1..n : s[i] = run.last + i
    BY <2>1
  <2> HIDE DEF s
  <2> QED BY <2>1, <2>2, <2>3, <1>1
<1>4. CASE ~(run.last < batch.produced)
  BY <1>1, <1>2, <1>4 DEF ActivityAfter
<1> QED BY <1>3, <1>4

\* The events after the cursor complete the page's timeline.
LEMMA SeenFacts ==
  ASSUME TypeOK, PageInv
  PROVE  WithEvents = [page EXCEPT !.seen = log, !.cursor = Len(log)]
<1>1. log \in Seq(Events) /\ Len(log) \in Nat /\ page.cursor \in 0..Len(log)
  BY DEF TypeOK, PageInv, Pages
<1>2. 1 \in 1..(Len(log) + 1) /\ page.cursor \in (1 - 1)..Len(log) /\ Len(log) \in page.cursor..Len(log)
  BY <1>1
<1>3. SubSeq(log, 1, page.cursor) \o SubSeq(log, page.cursor + 1, Len(log))
        = SubSeq(log, 1, Len(log))
  BY <1>1, <1>2, ConcatAdjacentSubSeq
<1>4. SubSeq(log, 1, Len(log)) = log
  BY <1>1, SubSeqFull
<1> QED BY <1>3, <1>4 DEF WithEvents, PageInv

(***************************************************************************)
(* A report, and the way on.                                               *)
(***************************************************************************)

LEMMA AcceptUploadInv == Inv /\ AcceptUpload => Inv'
<1> SUFFICES ASSUME Inv, AcceptUpload PROVE Inv'
  OBVIOUS
<1>1. /\ Appended(Event("upload_received", 0)) /\ Event("upload_received", 0) \in Events
      /\ (Event("upload_received", 0)).stage # "activity"
  BY RunNumbers, ConstantNumbers DEF AcceptUpload, Reports, Event, Events, Errors,
     Inv, TypeOK
<1>2. /\ run' \in Runs /\ run'.pc = "validating" /\ run'.n = run.n /\ run'.error = run.error
      /\ run'.last = run.last /\ run'.pending = run.pending
  BY GoesFacts DEF AcceptUpload, Inv, TypeOK, Pipeline, Handlers, Places
<1>3. UNCHANGED <<batch, folder, case, service, spent>> /\ run.pc = "received"
      /\ page' \in Pages /\ page'.pc = "poll" /\ page'.seen = page.seen
      /\ page'.cursor = page.cursor /\ page'.status = page.status
  BY DEF AcceptUpload, At, Inv, TypeOK, Pages
<1>4. job.status = "queued" /\ service # "down"
  BY <1>3 DEF Inv, RunInv, JobOfRun, Over, Pipeline, Handlers
<1>5. TypeOK'
  BY <1>1, <1>2, <1>3, <1>4, AppendedFacts DEF Inv, TypeOK, Pages, JobStatuses
<1>6. RunInv'
  <2>1. /\ job'.status = "running" /\ CompletedIsReady' /\ FailureIsReported'
        /\ log' # <<>> /\ LastEvent' = Event("upload_received", 0)
    BY <1>1, <1>4, ReportedFacts DEF Inv
  <2>2. Counting'
    BY <1>2, <1>3, RunNumbers, ConstantNumbers DEF Inv, TypeOK, RunInv, Counting
  <2>3. Progress'
    BY <1>2, <1>3, RunNumbers, ConstantNumbers DEF Inv, TypeOK, RunInv, Counting,
       Progress, Pipeline, BeforeCase, Ready, AllStaged
  <2>4. JobOfRun' /\ Outcome'
    BY <1>2, <1>3, <1>4, <2>1 DEF Inv, RunInv, JobOfRun, Outcome, Pipeline, Handlers,
       Over, Event
  <2> QED BY <2>1, <2>2, <2>3, <2>4 DEF RunInv
<1>7. LogInv'
  BY <1>1, <1>2, <1>3, LogInvReported DEF Inv
<1>8. PageInv'
  BY <1>1, <1>2, <1>3, <1>4, PageInvReported DEF Inv
<1> QED BY <1>5, <1>6, <1>7, <1>8 DEF Inv

LEMMA ReportValidatingInv == Inv /\ ReportValidating => Inv'
<1> SUFFICES ASSUME Inv, ReportValidating PROVE Inv'
  OBVIOUS
<1>1. /\ Appended(Event("validating_upload", 0)) /\ Event("validating_upload", 0) \in Events
      /\ (Event("validating_upload", 0)).stage # "activity"
  BY RunNumbers, ConstantNumbers DEF ReportValidating, Reports, Event, Events, Errors,
     Inv, TypeOK
<1>2. /\ run' \in Runs /\ run'.pc = "document" /\ run'.n = 1 /\ run'.error = run.error
      /\ run'.last = run.last /\ run'.pending = run.pending
  BY GoesToFacts, ConstantNumbers DEF ReportValidating, Inv, TypeOK, Pipeline, Places
<1>3. UNCHANGED <<batch, folder, case, page, service, spent>> /\ run.pc = "validating"
  BY DEF ReportValidating, At
<1>4. job.status = "running" /\ service # "down"
  BY <1>3 DEF Inv, RunInv, JobOfRun, Over, Pipeline, Handlers
<1>5. TypeOK'
  BY <1>1, <1>2, <1>3, <1>4, AppendedFacts DEF Inv, TypeOK
<1>6. RunInv'
  <2>1. /\ job'.status = "running" /\ CompletedIsReady' /\ FailureIsReported'
        /\ log' # <<>> /\ LastEvent' = Event("validating_upload", 0)
    BY <1>1, <1>4, ReportedFacts DEF Inv
  <2>2. Counting'
    BY <1>2, <1>3, RunNumbers, ConstantNumbers DEF Inv, TypeOK, RunInv, Counting
  <2>3. Progress'
    BY <1>2, <1>3, RunNumbers, ConstantNumbers DEF Inv, TypeOK, RunInv, Counting,
       Progress, Pipeline, BeforeCase, Ready, AllStaged
  <2>4. JobOfRun' /\ Outcome'
    BY <1>2, <1>3, <1>4, <2>1 DEF Inv, RunInv, JobOfRun, Outcome, Pipeline, Handlers,
       Over, Event
  <2> QED BY <2>1, <2>2, <2>3, <2>4 DEF RunInv
<1>7. LogInv'
  BY <1>1, <1>2, <1>3, LogInvReported DEF Inv
<1>8. PageInv'
  BY <1>1, <1>2, <1>3, <1>4, PageInvReported DEF Inv
<1> QED BY <1>5, <1>6, <1>7, <1>8 DEF Inv

LEMMA ReportDocumentInv == Inv /\ ReportDocument => Inv'
<1> SUFFICES ASSUME Inv, ReportDocument PROVE Inv'
  OBVIOUS
<1>1. /\ Appended(Event("validating_document", run.n)) /\ Event("validating_document", run.n) \in Events
      /\ (Event("validating_document", run.n)).stage # "activity"
  BY RunNumbers, ConstantNumbers DEF ReportDocument, Reports, Event, Events, Errors,
     Inv, TypeOK
<1>2. /\ run' \in Runs /\ run'.pc = "stage" /\ run'.n = run.n /\ run'.error = run.error
      /\ run'.last = run.last /\ run'.pending = run.pending
  BY GoesFacts DEF ReportDocument, Inv, TypeOK, Pipeline, Handlers, Places
<1>3. UNCHANGED <<batch, folder, case, page, service, spent>> /\ run.pc = "document"
  BY DEF ReportDocument, At
<1>4. job.status = "running" /\ service # "down"
  BY <1>3 DEF Inv, RunInv, JobOfRun, Over, Pipeline, Handlers
<1>5. TypeOK'
  BY <1>1, <1>2, <1>3, <1>4, AppendedFacts DEF Inv, TypeOK
<1>6. RunInv'
  <2>1. /\ job'.status = "running" /\ CompletedIsReady' /\ FailureIsReported'
        /\ log' # <<>> /\ LastEvent' = Event("validating_document", run.n)
    BY <1>1, <1>4, ReportedFacts DEF Inv
  <2>2. Counting'
    BY <1>2, <1>3, RunNumbers, ConstantNumbers DEF Inv, TypeOK, RunInv, Counting
  <2>3. Progress'
    BY <1>2, <1>3, RunNumbers, ConstantNumbers DEF Inv, TypeOK, RunInv, Counting,
       Progress, Pipeline, BeforeCase, Ready, AllStaged
  <2>4. JobOfRun' /\ Outcome'
    BY <1>2, <1>3, <1>4, <2>1 DEF Inv, RunInv, JobOfRun, Outcome, Pipeline, Handlers,
       Over, Event
  <2> QED BY <2>1, <2>2, <2>3, <2>4 DEF RunInv
<1>7. LogInv'
  BY <1>1, <1>2, <1>3, LogInvReported DEF Inv
<1>8. PageInv'
  BY <1>1, <1>2, <1>3, <1>4, PageInvReported DEF Inv
<1> QED BY <1>5, <1>6, <1>7, <1>8 DEF Inv

LEMMA ReportStagedInv == Inv /\ ReportStaged => Inv'
<1> SUFFICES ASSUME Inv, ReportStaged PROVE Inv'
  OBVIOUS
<1>1. /\ Appended(Event("staged_document", run.n)) /\ Event("staged_document", run.n) \in Events
      /\ (Event("staged_document", run.n)).stage # "activity"
  BY RunNumbers, ConstantNumbers DEF ReportStaged, Reports, Event, Events, Errors,
     Inv, TypeOK
<1>2. /\ run' \in Runs /\ run'.error = run.error /\ run'.last = run.last /\ run'.pending = run.pending
      /\ \/ run.n < NFiles /\ run'.pc = "document" /\ run'.n = run.n + 1
         \/ ~(run.n < NFiles) /\ run'.pc = "submitting" /\ run'.n = run.n
  <2>1. CASE run.n < NFiles
    <3>1. run.n + 1 \in Numbers
      BY <2>1, RunNumbers, ConstantNumbers DEF Inv, TypeOK
    <3> QED
      BY <2>1, <3>1, GoesToFacts DEF ReportStaged, Inv, TypeOK, Pipeline, Places
  <2>2. CASE ~(run.n < NFiles)
    BY <2>2, GoesFacts DEF ReportStaged, Inv, TypeOK, Pipeline, Places
  <2> QED BY <2>1, <2>2
<1>3. UNCHANGED <<batch, folder, case, page, service, spent>> /\ run.pc = "staged"
  BY DEF ReportStaged, At
<1>4. job.status = "running" /\ service # "down"
  BY <1>3 DEF Inv, RunInv, JobOfRun, Over, Pipeline, Handlers
<1>5. TypeOK'
  BY <1>1, <1>2, <1>3, <1>4, AppendedFacts DEF Inv, TypeOK
<1>6. RunInv'
  <2>1. /\ job'.status = "running" /\ CompletedIsReady' /\ FailureIsReported'
        /\ log' # <<>> /\ LastEvent' = Event("staged_document", run.n)
    BY <1>1, <1>4, ReportedFacts DEF Inv
  <2>2. Counting'
    <3>1. run.n \in Nat /\ run.n >= 1 /\ NFiles \in Nat
      BY RunNumbers, ConstantNumbers DEF Inv, TypeOK, RunInv, Counting
    <3> HIDE DEF Inv
    <3> QED BY <1>2, <3>1 DEF Counting
  <2>3. Progress'
    BY <1>2, <1>3, RunNumbers, ConstantNumbers DEF Inv, TypeOK, RunInv, Counting,
       Progress, Pipeline, BeforeCase, Ready, AllStaged
  <2>4. JobOfRun' /\ Outcome'
    BY <1>2, <1>3, <1>4, <2>1 DEF Inv, RunInv, JobOfRun, Outcome, Pipeline, Handlers,
       Over, Event
  <2> QED BY <2>1, <2>2, <2>3, <2>4 DEF RunInv
<1>7. LogInv'
  BY <1>1, <1>2, <1>3, LogInvReported DEF Inv
<1>8. PageInv'
  BY <1>1, <1>2, <1>3, <1>4, PageInvReported DEF Inv
<1> QED BY <1>5, <1>6, <1>7, <1>8 DEF Inv

LEMMA SubmitBatchInv == Inv /\ SubmitBatch => Inv'
<1> SUFFICES ASSUME Inv, SubmitBatch PROVE Inv'
  OBVIOUS
<1>1. /\ Appended(Event("submitting_batch", 0)) /\ Event("submitting_batch", 0) \in Events
      /\ (Event("submitting_batch", 0)).stage # "activity"
  BY RunNumbers, ConstantNumbers DEF SubmitBatch, Reports, Event, Events, Errors, Inv,
     TypeOK
<1>2. /\ run' \in Runs /\ run'.pc = "ingest" /\ run'.n = run.n /\ run'.error = run.error
      /\ run'.last = run.last /\ run'.pending = run.pending
  BY GoesFacts DEF SubmitBatch, Inv, TypeOK, Pipeline, Handlers, Places
<1>3. UNCHANGED <<folder, case, page, service, spent>> /\ run.pc = "submitting"
      /\ batch'.produced = batch.produced
      /\ batch' \in [status: {"none", "working", "done", "failed"}, produced: 0..MaxActivity]
  BY DEF SubmitBatch, At, Inv, TypeOK
<1>4. job.status = "running" /\ service # "down"
  BY <1>3 DEF Inv, RunInv, JobOfRun, Over, Pipeline, Handlers
<1>5. TypeOK'
  BY <1>1, <1>2, <1>3, <1>4, AppendedFacts DEF Inv, TypeOK
<1>6. RunInv'
  <2>1. /\ job'.status = "running" /\ CompletedIsReady' /\ FailureIsReported'
        /\ log' # <<>> /\ LastEvent' = Event("submitting_batch", 0)
    BY <1>1, <1>4, ReportedFacts DEF Inv
  <2>2. Counting'
    BY <1>2, <1>3, RunNumbers, ConstantNumbers DEF Inv, TypeOK, RunInv, Counting
  <2>3. Progress'
    BY <1>2, <1>3, RunNumbers, ConstantNumbers DEF Inv, TypeOK, RunInv, Counting,
       Progress, Pipeline, BeforeCase, Ready, AllStaged
  <2>4. JobOfRun' /\ Outcome'
    BY <1>2, <1>3, <1>4, <2>1 DEF Inv, RunInv, JobOfRun, Outcome, Pipeline, Handlers,
       Over, Event
  <2> QED BY <2>1, <2>2, <2>3, <2>4 DEF RunInv
<1>7. LogInv'
  BY <1>1, <1>2, <1>3, LogInvReported DEF Inv
<1>8. PageInv'
  BY <1>1, <1>2, <1>3, <1>4, PageInvReported DEF Inv
<1> QED BY <1>5, <1>6, <1>7, <1>8 DEF Inv

LEMMA ReportExtractingInv == Inv /\ ReportExtracting => Inv'
<1> SUFFICES ASSUME Inv, ReportExtracting PROVE Inv'
  OBVIOUS
<1>1. /\ Appended(Event("extracting_metric", run.n)) /\ Event("extracting_metric", run.n) \in Events
      /\ (Event("extracting_metric", run.n)).stage # "activity"
  BY RunNumbers, ConstantNumbers DEF ReportExtracting, Reports, Event, Events, Errors,
     Inv, TypeOK
<1>2. /\ run' \in Runs /\ run'.pc = "extract" /\ run'.n = run.n /\ run'.error = run.error
      /\ run'.last = run.last /\ run'.pending = run.pending
  BY GoesFacts DEF ReportExtracting, Inv, TypeOK, Pipeline, Handlers, Places
<1>3. UNCHANGED <<batch, folder, case, page, service, spent>> /\ run.pc = "extracting"
  BY DEF ReportExtracting, At
<1>4. job.status = "running" /\ service # "down"
  BY <1>3 DEF Inv, RunInv, JobOfRun, Over, Pipeline, Handlers
<1>5. TypeOK'
  BY <1>1, <1>2, <1>3, <1>4, AppendedFacts DEF Inv, TypeOK
<1>6. RunInv'
  <2>1. /\ job'.status = "running" /\ CompletedIsReady' /\ FailureIsReported'
        /\ log' # <<>> /\ LastEvent' = Event("extracting_metric", run.n)
    BY <1>1, <1>4, ReportedFacts DEF Inv
  <2>2. Counting'
    BY <1>2, <1>3, RunNumbers, ConstantNumbers DEF Inv, TypeOK, RunInv, Counting
  <2>3. Progress'
    BY <1>2, <1>3, RunNumbers, ConstantNumbers DEF Inv, TypeOK, RunInv, Counting,
       Progress, Pipeline, BeforeCase, Ready, AllStaged
  <2>4. JobOfRun' /\ Outcome'
    BY <1>2, <1>3, <1>4, <2>1 DEF Inv, RunInv, JobOfRun, Outcome, Pipeline, Handlers,
       Over, Event
  <2> QED BY <2>1, <2>2, <2>3, <2>4 DEF RunInv
<1>7. LogInv'
  BY <1>1, <1>2, <1>3, LogInvReported DEF Inv
<1>8. PageInv'
  BY <1>1, <1>2, <1>3, <1>4, PageInvReported DEF Inv
<1> QED BY <1>5, <1>6, <1>7, <1>8 DEF Inv

LEMMA ReportMetricInv == Inv /\ ReportMetric => Inv'
<1> SUFFICES ASSUME Inv, ReportMetric PROVE Inv'
  OBVIOUS
<1>1. /\ Appended(Event("metric_completed", run.n)) /\ Event("metric_completed", run.n) \in Events
      /\ (Event("metric_completed", run.n)).stage # "activity"
  BY RunNumbers, ConstantNumbers DEF ReportMetric, Reports, Event, Events, Errors,
     Inv, TypeOK
<1>2. /\ run' \in Runs /\ run'.error = run.error /\ run'.last = run.last /\ run'.pending = run.pending
      /\ \/ run.n < NFacts /\ run'.pc = "extracting" /\ run'.n = run.n + 1
         \/ ~(run.n < NFacts) /\ run'.pc = "facts" /\ run'.n = run.n
  <2>1. CASE run.n < NFacts
    <3>1. run.n + 1 \in Numbers
      BY <2>1, RunNumbers, ConstantNumbers DEF Inv, TypeOK
    <3> QED
      BY <2>1, <3>1, GoesToFacts DEF ReportMetric, Inv, TypeOK, Pipeline, Places
  <2>2. CASE ~(run.n < NFacts)
    BY <2>2, GoesFacts DEF ReportMetric, Inv, TypeOK, Pipeline, Places
  <2> QED BY <2>1, <2>2
<1>3. UNCHANGED <<batch, folder, case, page, service, spent>> /\ run.pc = "metric"
  BY DEF ReportMetric, At
<1>4. job.status = "running" /\ service # "down"
  BY <1>3 DEF Inv, RunInv, JobOfRun, Over, Pipeline, Handlers
<1>5. TypeOK'
  BY <1>1, <1>2, <1>3, <1>4, AppendedFacts DEF Inv, TypeOK
<1>6. RunInv'
  <2>1. /\ job'.status = "running" /\ CompletedIsReady' /\ FailureIsReported'
        /\ log' # <<>> /\ LastEvent' = Event("metric_completed", run.n)
    BY <1>1, <1>4, ReportedFacts DEF Inv
  <2>2. Counting'
    BY <1>2, <1>3, RunNumbers, ConstantNumbers DEF Inv, TypeOK, RunInv, Counting
  <2>3. Progress'
    BY <1>2, <1>3, RunNumbers, ConstantNumbers DEF Inv, TypeOK, RunInv, Counting,
       Progress, Pipeline, BeforeCase, Ready, AllStaged
  <2>4. JobOfRun' /\ Outcome'
    BY <1>2, <1>3, <1>4, <2>1 DEF Inv, RunInv, JobOfRun, Outcome, Pipeline, Handlers,
       Over, Event
  <2> QED BY <2>1, <2>2, <2>3, <2>4 DEF RunInv
<1>7. LogInv'
  BY <1>1, <1>2, <1>3, LogInvReported DEF Inv
<1>8. PageInv'
  BY <1>1, <1>2, <1>3, <1>4, PageInvReported DEF Inv
<1> QED BY <1>5, <1>6, <1>7, <1>8 DEF Inv

LEMMA ReportGatingInv == Inv /\ ReportGating => Inv'
<1> SUFFICES ASSUME Inv, ReportGating PROVE Inv'
  OBVIOUS
<1>1. /\ Appended(Event("rule_gating", 0)) /\ Event("rule_gating", 0) \in Events
      /\ (Event("rule_gating", 0)).stage # "activity"
  BY RunNumbers, ConstantNumbers DEF ReportGating, Reports, Event, Events, Errors,
     Inv, TypeOK
<1>2. /\ run' \in Runs /\ run'.pc = "retrieve" /\ run'.n = run.n /\ run'.error = run.error
      /\ run'.last = run.last /\ run'.pending = run.pending
  BY GoesFacts DEF ReportGating, Inv, TypeOK, Pipeline, Handlers, Places
<1>3. UNCHANGED <<batch, folder, case, page, service, spent>> /\ run.pc = "gating"
  BY DEF ReportGating, At
<1>4. job.status = "running" /\ service # "down"
  BY <1>3 DEF Inv, RunInv, JobOfRun, Over, Pipeline, Handlers
<1>5. TypeOK'
  BY <1>1, <1>2, <1>3, <1>4, AppendedFacts DEF Inv, TypeOK
<1>6. RunInv'
  <2>1. /\ job'.status = "running" /\ CompletedIsReady' /\ FailureIsReported'
        /\ log' # <<>> /\ LastEvent' = Event("rule_gating", 0)
    BY <1>1, <1>4, ReportedFacts DEF Inv
  <2>2. Counting'
    BY <1>2, <1>3, RunNumbers, ConstantNumbers DEF Inv, TypeOK, RunInv, Counting
  <2>3. Progress'
    BY <1>2, <1>3, RunNumbers, ConstantNumbers DEF Inv, TypeOK, RunInv, Counting,
       Progress, Pipeline, BeforeCase, Ready, AllStaged
  <2>4. JobOfRun' /\ Outcome'
    BY <1>2, <1>3, <1>4, <2>1 DEF Inv, RunInv, JobOfRun, Outcome, Pipeline, Handlers,
       Over, Event
  <2> QED BY <2>1, <2>2, <2>3, <2>4 DEF RunInv
<1>7. LogInv'
  BY <1>1, <1>2, <1>3, LogInvReported DEF Inv
<1>8. PageInv'
  BY <1>1, <1>2, <1>3, <1>4, PageInvReported DEF Inv
<1> QED BY <1>5, <1>6, <1>7, <1>8 DEF Inv

LEMMA ReportAssemblingInv == Inv /\ ReportAssembling => Inv'
<1> SUFFICES ASSUME Inv, ReportAssembling PROVE Inv'
  OBVIOUS
<1>1. /\ Appended(Event("assembling_suggestions", 0)) /\ Event("assembling_suggestions", 0) \in Events
      /\ (Event("assembling_suggestions", 0)).stage # "activity"
  BY RunNumbers, ConstantNumbers DEF ReportAssembling, Reports, Event, Events, Errors,
     Inv, TypeOK
<1>2. /\ run' \in Runs /\ run'.pc = "create" /\ run'.n = run.n /\ run'.error = run.error
      /\ run'.last = run.last /\ run'.pending = run.pending
  BY GoesFacts DEF ReportAssembling, Inv, TypeOK, Pipeline, Handlers, Places
<1>3. UNCHANGED <<batch, folder, case, page, service, spent>> /\ run.pc = "assembling"
  BY DEF ReportAssembling, At
<1>4. job.status = "running" /\ service # "down"
  BY <1>3 DEF Inv, RunInv, JobOfRun, Over, Pipeline, Handlers
<1>5. TypeOK'
  BY <1>1, <1>2, <1>3, <1>4, AppendedFacts DEF Inv, TypeOK
<1>6. RunInv'
  <2>1. /\ job'.status = "running" /\ CompletedIsReady' /\ FailureIsReported'
        /\ log' # <<>> /\ LastEvent' = Event("assembling_suggestions", 0)
    BY <1>1, <1>4, ReportedFacts DEF Inv
  <2>2. Counting'
    BY <1>2, <1>3, RunNumbers, ConstantNumbers DEF Inv, TypeOK, RunInv, Counting
  <2>3. Progress'
    BY <1>2, <1>3, RunNumbers, ConstantNumbers DEF Inv, TypeOK, RunInv, Counting,
       Progress, Pipeline, BeforeCase, Ready, AllStaged
  <2>4. JobOfRun' /\ Outcome'
    BY <1>2, <1>3, <1>4, <2>1 DEF Inv, RunInv, JobOfRun, Outcome, Pipeline, Handlers,
       Over, Event
  <2> QED BY <2>1, <2>2, <2>3, <2>4 DEF RunInv
<1>7. LogInv'
  BY <1>1, <1>2, <1>3, LogInvReported DEF Inv
<1>8. PageInv'
  BY <1>1, <1>2, <1>3, <1>4, PageInvReported DEF Inv
<1> QED BY <1>5, <1>6, <1>7, <1>8 DEF Inv

LEMMA AnnounceInv == Inv /\ Announce => Inv'
<1> SUFFICES ASSUME Inv, Announce PROVE Inv'
  OBVIOUS
<1>1. /\ Appended(Event("awaiting_human", 0)) /\ Event("awaiting_human", 0) \in Events
      /\ (Event("awaiting_human", 0)).stage # "activity"
  BY RunNumbers, ConstantNumbers DEF Announce, Reports, Event, Events, Errors, Inv,
     TypeOK
<1>2. /\ run' \in Runs /\ run'.pc = "succeeded" /\ run'.n = run.n /\ run'.error = run.error
      /\ run'.last = run.last /\ run'.pending = run.pending
  BY GoesFacts DEF Announce, Inv, TypeOK, Pipeline, Handlers, Places
<1>3. UNCHANGED <<batch, folder, case, page, service, spent>> /\ run.pc = "announce"
  BY DEF Announce, At
<1>4. job.status = "running" /\ service # "down"
  BY <1>3 DEF Inv, RunInv, JobOfRun, Over, Pipeline, Handlers
<1>5. TypeOK'
  BY <1>1, <1>2, <1>3, <1>4, AppendedFacts DEF Inv, TypeOK
<1>6. RunInv'
  <2>1. /\ job'.status = "running" /\ CompletedIsReady' /\ FailureIsReported'
        /\ log' # <<>> /\ LastEvent' = Event("awaiting_human", 0)
    BY <1>1, <1>4, ReportedFacts DEF Inv
  <2>2. Counting'
    BY <1>2, <1>3, RunNumbers, ConstantNumbers DEF Inv, TypeOK, RunInv, Counting
  <2>3. Progress'
    BY <1>2, <1>3, RunNumbers, ConstantNumbers DEF Inv, TypeOK, RunInv, Counting,
       Progress, Pipeline, BeforeCase, Ready, AllStaged
  <2>4. JobOfRun' /\ Outcome'
    BY <1>2, <1>3, <1>4, <2>1 DEF Inv, RunInv, JobOfRun, Outcome, Pipeline, Handlers,
       Over, Event
  <2> QED BY <2>1, <2>2, <2>3, <2>4 DEF RunInv
<1>7. LogInv'
  BY <1>1, <1>2, <1>3, LogInvReported DEF Inv
<1>8. PageInv'
  BY <1>1, <1>2, <1>3, <1>4, PageInvReported DEF Inv
<1> QED BY <1>5, <1>6, <1>7, <1>8 DEF Inv

LEMMA ReportFailedInv == Inv /\ ReportFailed => Inv'
<1> SUFFICES ASSUME Inv, ReportFailed PROVE Inv'
  OBVIOUS
<1>1. /\ Appended([stage |-> "failed", of |-> 0, error |-> run.error]) /\ [stage |-> "failed", of |-> 0, error |-> run.error] \in Events
      /\ ([stage |-> "failed", of |-> 0, error |-> run.error]).stage # "activity"
  BY RunNumbers, ConstantNumbers DEF ReportFailed, Reports, Event, Events, Errors,
     Inv, TypeOK
<1>2. /\ run' \in Runs /\ run'.pc = "finish" /\ run'.n = run.n /\ run'.error = run.error
      /\ run'.last = run.last /\ run'.pending = run.pending
  BY GoesFacts DEF ReportFailed, Inv, TypeOK, Pipeline, Handlers, Places
<1>3. UNCHANGED <<batch, folder, case, page, service, spent>> /\ run.pc = "failing"
  BY DEF ReportFailed, At
<1>4. job.status = "running" /\ service # "down"
  BY <1>3 DEF Inv, RunInv, JobOfRun, Over, Pipeline, Handlers
<1>5. TypeOK'
  BY <1>1, <1>2, <1>3, <1>4, AppendedFacts DEF Inv, TypeOK
<1>6. RunInv'
  <2>1. /\ job'.status = "running" /\ CompletedIsReady' /\ FailureIsReported'
        /\ log' # <<>> /\ LastEvent' = [stage |-> "failed", of |-> 0, error |-> run.error]
    BY <1>1, <1>4, ReportedFacts DEF Inv
  <2>2. Counting'
    BY <1>2, <1>3, RunNumbers, ConstantNumbers DEF Inv, TypeOK, RunInv, Counting
  <2>3. Progress'
    BY <1>2, <1>3, RunNumbers, ConstantNumbers DEF Inv, TypeOK, RunInv, Counting,
       Progress, Pipeline, BeforeCase, Ready, AllStaged
  <2>4. JobOfRun' /\ Outcome'
    BY <1>2, <1>3, <1>4, <2>1 DEF Inv, RunInv, JobOfRun, Outcome, Pipeline, Handlers,
       Over
  <2> QED BY <2>1, <2>2, <2>3, <2>4 DEF RunInv
<1>7. LogInv'
  BY <1>1, <1>2, <1>3, LogInvReported DEF Inv
<1>8. PageInv'
  BY <1>1, <1>2, <1>3, <1>4, PageInvReported DEF Inv
<1> QED BY <1>5, <1>6, <1>7, <1>8 DEF Inv

LEMMA ReportCompletedInv == Inv /\ ReportCompleted => Inv'
<1> SUFFICES ASSUME Inv, ReportCompleted PROVE Inv'
  OBVIOUS
<1>1. /\ Appended(Event("completed", 0)) /\ Event("completed", 0) \in Events
      /\ (Event("completed", 0)).stage # "activity"
  BY RunNumbers, ConstantNumbers DEF ReportCompleted, Reports, Event, Events, Errors,
     Inv, TypeOK
<1>2. /\ run' \in Runs /\ run'.pc = "complete" /\ run'.n = run.n /\ run'.error = run.error
      /\ run'.last = run.last /\ run'.pending = run.pending
  BY GoesFacts DEF ReportCompleted, Inv, TypeOK, Pipeline, Handlers, Places
<1>3. UNCHANGED <<batch, folder, case, page, service, spent>> /\ run.pc = "succeeded"
  BY DEF ReportCompleted, At
<1>4. job.status = "running" /\ service # "down"
  BY <1>3 DEF Inv, RunInv, JobOfRun, Over, Pipeline, Handlers
<1>5. TypeOK'
  BY <1>1, <1>2, <1>3, <1>4, AppendedFacts DEF Inv, TypeOK
<1>6. RunInv'
  <2>1. /\ job'.status = "running" /\ CompletedIsReady' /\ FailureIsReported'
        /\ log' # <<>> /\ LastEvent' = Event("completed", 0)
    BY <1>1, <1>4, ReportedFacts DEF Inv
  <2>2. Counting'
    BY <1>2, <1>3, RunNumbers, ConstantNumbers DEF Inv, TypeOK, RunInv, Counting
  <2>3. Progress'
    BY <1>2, <1>3, RunNumbers, ConstantNumbers DEF Inv, TypeOK, RunInv, Counting,
       Progress, Pipeline, BeforeCase, Ready, AllStaged
  <2>4. JobOfRun' /\ Outcome'
    BY <1>2, <1>3, <1>4, <2>1 DEF Inv, RunInv, JobOfRun, Outcome, Pipeline, Handlers,
       Over, Event
  <2> QED BY <2>1, <2>2, <2>3, <2>4 DEF RunInv
<1>7. LogInv'
  BY <1>1, <1>2, <1>3, LogInvReported DEF Inv
<1>8. PageInv'
  BY <1>1, <1>2, <1>3, <1>4, PageInvReported DEF Inv
<1> QED BY <1>5, <1>6, <1>7, <1>8 DEF Inv

(***************************************************************************)
(* The other steps of the task.                                            *)
(***************************************************************************)
Spent == [stops: 0..MaxStops, failures: 0..MaxFailures, reloads: 0..MaxReloads]

\* Any error of the pipeline, wherever it is raised.
LEMMA RaisesInv ==
  ASSUME Inv, NEW e \in Errors, e # "service_restarted", run.pc \in Pipeline, Raises(e),
         UNCHANGED <<job, log, batch, page, service>>, spent' \in Spent,
         case' \in 0..AwaitingHuman
  PROVE  Inv'
<1>1. /\ run' \in Runs /\ run'.pc = "failing" /\ run'.n = run.n /\ run'.error = e
      /\ run'.last = run.last /\ run'.pending = run.pending
      /\ folder' \in Folders
  BY RaisesFacts DEF Inv, TypeOK
<1>2. TypeOK'
  BY <1>1 DEF Inv, TypeOK, Spent
<1>3. RunInv'
  <2>1. job.status = "running"
    BY DEF Inv, RunInv, JobOfRun
  <2>2. Counting' /\ Progress'
    BY <1>1, RunNumbers
       DEF Inv, TypeOK, RunInv, Counting, Progress, Pipeline, AllStaged, BeforeCase, Ready
  <2>3. JobOfRun' /\ Outcome'
    BY <1>1, <2>1 DEF Inv, RunInv, JobOfRun, Outcome, Pipeline, Handlers, Over
  <2>4. CompletedIsReady' /\ FailureIsReported'
    BY <2>1 DEF Inv, RunInv, CompletedIsReady, FailureIsReported
  <2> QED BY <2>2, <2>3, <2>4 DEF RunInv
<1>4. LogInv'
  BY <1>1, LogInvKept, ConstantNumbers DEF Inv, TypeOK
<1>5. PageInv'
  BY PageInvKept DEF Inv
<1> QED BY <1>2, <1>3, <1>4, <1>5 DEF Inv

\* A step that leaves the log's side and the page's side as they are.
LEMMA QuietInv ==
  ASSUME Inv, TypeOK', RunInv', UNCHANGED <<page, log>>,
         run'.last = run.last, run'.pending = run.pending, batch'.produced = batch.produced,
         job.status \in Ends => UNCHANGED job, job.status # "none" => job'.status # "none"
  PROVE  Inv'
<1>1. LogInv'
  BY LogInvKept, ConstantNumbers DEF Inv, TypeOK
<1>2. PageInv'
  BY PageInvKept DEF Inv
<1> QED BY <1>1, <1>2 DEF Inv

\* A step after which the task goes on, the job and its log as they were.
LEMMA GoesOnInv ==
  ASSUME Inv, NEW pc \in Pipeline, run.pc \in Pipeline, Goes(pc),
         UNCHANGED <<job, log, batch, page, service, spent>>,
         folder' \in Folders, case' \in 0..AwaitingHuman, Counting', Progress'
  PROVE  Inv'
<1>1. /\ run' \in Runs /\ run'.pc = pc /\ run'.n = run.n /\ run'.error = run.error
      /\ run'.last = run.last /\ run'.pending = run.pending
  BY GoesFacts DEF Inv, TypeOK, Places
<1>2. TypeOK'
  BY <1>1 DEF Inv, TypeOK
<1>3. RunInv'
  <2>1. job.status = "running"
    BY DEF Inv, RunInv, JobOfRun
  <2>2. JobOfRun' /\ Outcome'
    BY <1>1, <2>1 DEF Inv, RunInv, JobOfRun, Outcome, Pipeline, Handlers, Over
  <2>3. CompletedIsReady' /\ FailureIsReported'
    BY <2>1 DEF Inv, RunInv, CompletedIsReady, FailureIsReported
  <2> QED BY <2>2, <2>3 DEF RunInv
<1> QED BY <1>1, <1>2, <1>3, QuietInv DEF Inv, Ends

LEMMA StageDocumentInv == Inv /\ StageDocument => Inv'
<1> SUFFICES ASSUME Inv, StageDocument PROVE Inv'
  OBVIOUS
<1>1. run.pc = "stage" /\ UNCHANGED <<job, log, batch, case, page, service, spent>>
  BY DEF StageDocument, At
<1>2. CASE folder' = [folder EXCEPT !.staged = run.n] /\ Goes("staged")
  <2>1. run' \in Runs /\ run'.pc = "staged" /\ run'.n = run.n
    BY <1>2, GoesFacts DEF Inv, TypeOK, Pipeline, Places
  <2>2. folder' \in Folders /\ folder'.staged = run.n
    <3>1. folder \in Folders
      BY DEF Inv, TypeOK
    <3>2. run.n \in 0..NFiles
      BY <1>1, RunNumbers, ConstantNumbers DEF Inv, TypeOK, RunInv, Counting
    <3> QED BY <1>2, <3>1, <3>2 DEF Folders
  <2>3. Counting' /\ Progress'
    BY <1>1, <1>2, <2>1, <2>2 DEF Inv, RunInv, Counting, Progress, Pipeline,
       BeforeCase, Ready, AllStaged
  <2> QED
    BY <1>1, <1>2, <2>2, <2>3, GoesOnInv DEF Inv, TypeOK, Pipeline
<1>3. CASE Raises("intake_validation_failed")
  BY <1>1, <1>3, RaisesInv DEF Inv, TypeOK, Spent, Pipeline, Errors
<1> QED BY <1>2, <1>3 DEF StageDocument

LEMMA ExtractInv == Inv /\ Extract => Inv'
<1> SUFFICES ASSUME Inv, Extract PROVE Inv'
  OBVIOUS
<1>1. run.pc = "extract" /\ UNCHANGED <<job, log, batch, case, page, service, spent>>
  BY DEF Extract, At
<1>2. CASE Goes("metric") /\ UNCHANGED folder
  <2>1. run' \in Runs /\ run'.pc = "metric" /\ run'.n = run.n
    BY <1>2, GoesFacts DEF Inv, TypeOK, Pipeline, Places
  <2>3. Counting' /\ Progress'
    BY <1>1, <1>2, <2>1 DEF Inv, RunInv, Counting, Progress, Pipeline, BeforeCase,
       Ready, AllStaged
  <2> QED
    BY <1>1, <1>2, <2>3, GoesOnInv DEF Inv, TypeOK, Pipeline
<1>3. CASE \E e \in ClientErrors \cup FigureErrors : Raises(e)
  BY <1>1, <1>3, RaisesInv DEF Inv, TypeOK, Spent, Pipeline, Errors, ClientErrors,
     FigureErrors
<1> QED BY <1>2, <1>3 DEF Extract

LEMMA BuildApplicationInv == Inv /\ BuildApplication => Inv'
<1> SUFFICES ASSUME Inv, BuildApplication PROVE Inv'
  OBVIOUS
<1>1. run.pc = "facts" /\ UNCHANGED <<job, log, batch, case, page, service, spent>>
  BY DEF BuildApplication, At
<1>2. CASE Goes("gating") /\ UNCHANGED folder
  <2>1. run' \in Runs /\ run'.pc = "gating" /\ run'.n = run.n
    BY <1>2, GoesFacts DEF Inv, TypeOK, Pipeline, Places
  <2>3. Counting' /\ Progress'
    BY <1>1, <1>2, <2>1 DEF Inv, RunInv, Counting, Progress, Pipeline, BeforeCase,
       Ready, AllStaged
  <2> QED
    BY <1>1, <1>2, <2>3, GoesOnInv DEF Inv, TypeOK, Pipeline
<1>3. CASE \E e \in FactErrors : Raises(e)
  BY <1>1, <1>3, RaisesInv DEF Inv, TypeOK, Spent, Pipeline, Errors, FactErrors
<1> QED BY <1>2, <1>3 DEF BuildApplication

LEMMA RetrieveInv == Inv /\ Retrieve => Inv'
<1> SUFFICES ASSUME Inv, Retrieve PROVE Inv'
  OBVIOUS
<1>1. run.pc = "retrieve" /\ UNCHANGED <<job, log, batch, case, page, service, spent>>
  BY DEF Retrieve, At
<1>2. CASE Goes("assembling") /\ UNCHANGED folder
  <2>1. run' \in Runs /\ run'.pc = "assembling" /\ run'.n = run.n
    BY <1>2, GoesFacts DEF Inv, TypeOK, Pipeline, Places
  <2>3. Counting' /\ Progress'
    BY <1>1, <1>2, <2>1 DEF Inv, RunInv, Counting, Progress, Pipeline, BeforeCase,
       Ready, AllStaged
  <2> QED
    BY <1>1, <1>2, <2>3, GoesOnInv DEF Inv, TypeOK, Pipeline
<1>3. CASE Raises("internal_processing_error")
  BY <1>1, <1>3, RaisesInv DEF Inv, TypeOK, Spent, Pipeline, Errors
<1> QED BY <1>2, <1>3 DEF Retrieve

LEMMA CreateCaseInv == Inv /\ CreateCase => Inv'
<1> SUFFICES ASSUME Inv, CreateCase PROVE Inv'
  OBVIOUS
<1>1. /\ run.pc = "create" /\ Goes("advance") /\ case' = 1
      /\ UNCHANGED <<job, log, batch, folder, page, service, spent>>
  BY DEF CreateCase, At
<1>2. run' \in Runs /\ run'.pc = "advance" /\ run'.n = run.n
  BY <1>1, GoesFacts DEF Inv, TypeOK, Pipeline, Places
<1>3. Counting' /\ Progress'
  BY <1>1, <1>2 DEF Inv, RunInv, Counting, Progress, Pipeline, BeforeCase, Ready, AllStaged,
     AwaitingHuman, CaseStates
<1> QED
  BY <1>1, <1>3, GoesOnInv DEF Inv, TypeOK, Pipeline, AwaitingHuman, CaseStates

LEMMA AdvanceInv == Inv /\ Advance => Inv'
<1> SUFFICES ASSUME Inv, Advance PROVE Inv'
  OBVIOUS
<1> DEFINE pc == IF case + 1 < AwaitingHuman THEN "advance" ELSE "manifest"
<1>1. /\ run.pc = "advance" /\ Goes(pc) /\ case' = case + 1
      /\ UNCHANGED <<job, log, batch, folder, page, service, spent>>
  BY DEF Advance, At
<1>2. case \in 1..(AwaitingHuman - 1) /\ AwaitingHuman = 5
  BY <1>1 DEF Inv, RunInv, Progress, AwaitingHuman, CaseStates
<1>3. run' \in Runs /\ run'.pc = pc /\ run'.n = run.n
  BY <1>1, GoesFacts DEF Inv, TypeOK, Pipeline, Places
<1>4. Counting' /\ Progress'
  BY <1>1, <1>2, <1>3
     DEF Inv, RunInv, Counting, Progress, Pipeline, BeforeCase, Ready, AllStaged
<1>5. pc \in Pipeline /\ run.pc \in Pipeline /\ case' \in 0..AwaitingHuman
  BY <1>1, <1>2 DEF Pipeline
<1> QED
  BY <1>1, <1>4, <1>5, GoesOnInv DEF Inv, TypeOK

LEMMA WriteManifestInv == Inv /\ WriteManifest => Inv'
<1> SUFFICES ASSUME Inv, WriteManifest PROVE Inv'
  OBVIOUS
<1>1. /\ run.pc = "manifest" /\ Goes("announce")
      /\ folder' = [folder EXCEPT !.manifest = TRUE, !.failed = FALSE]
      /\ UNCHANGED <<job, log, batch, case, page, service, spent>>
  BY DEF WriteManifest, At
<1>2. folder' \in Folders /\ folder'.staged = folder.staged /\ folder'.manifest /\ ~folder'.failed
  BY <1>1 DEF Inv, TypeOK, Folders
<1>3. run' \in Runs /\ run'.pc = "announce" /\ run'.n = run.n
  BY <1>1, GoesFacts DEF Inv, TypeOK, Pipeline, Places
<1>4. Counting' /\ Progress'
  BY <1>1, <1>2, <1>3
     DEF Inv, RunInv, Counting, Progress, Pipeline, BeforeCase, Ready, AllStaged
<1> QED
  BY <1>1, <1>2, <1>4, GoesOnInv DEF Inv, TypeOK, Pipeline

LEMMA BatchAnsweredInv == Inv /\ BatchAnswered => Inv'
<1> SUFFICES ASSUME Inv, BatchAnswered PROVE Inv'
  OBVIOUS
<1>1. run.pc = "ingest" /\ UNCHANGED <<job, log, batch, case, page, service, spent>>
  BY DEF BatchAnswered, At
<1>2. CASE GoesTo("collect", 1) /\ UNCHANGED folder
  <2>1. /\ run' \in Runs /\ run'.pc = "collect" /\ run'.n = 1 /\ run'.error = run.error
        /\ run'.last = run.last /\ run'.pending = run.pending
    BY <1>2, GoesToFacts, ConstantNumbers DEF Inv, TypeOK, Pipeline, Places
  <2>2. job.status = "running" /\ service = "up"
    BY <1>1 DEF Inv, TypeOK, RunInv, JobOfRun, Pipeline, Over
  <2>3. TypeOK'
    BY <1>1, <1>2, <2>1 DEF Inv, TypeOK
  <2>4. Counting' /\ Progress'
    BY <1>1, <1>2, <2>1, ConstantNumbers
       DEF Inv, RunInv, Counting, Progress, Pipeline, BeforeCase, Ready, AllStaged
  <2>5. JobOfRun' /\ Outcome'
    BY <1>1, <2>1, <2>2 DEF Inv, RunInv, JobOfRun, Outcome, Pipeline, Handlers, Over
  <2>6. CompletedIsReady' /\ FailureIsReported'
    BY <1>1, <2>2 DEF Inv, RunInv, CompletedIsReady, FailureIsReported
  <2> QED BY <1>1, <2>1, <2>3, <2>4, <2>5, <2>6, QuietInv DEF RunInv
<1>3. CASE \E e \in ClientErrors : Raises(e)
  BY <1>1, <1>3, RaisesInv DEF Inv, TypeOK, Spent, Pipeline, Errors, ClientErrors
<1> QED BY <1>2, <1>3 DEF BatchAnswered


\* The task takes up the events after last_sequence.
LEMMA FetchedInv ==
  ASSUME Inv, run.pc \in {"ingest", "collect"}, NEW pc \in {"forward", "rest"},
         pc = "rest" => run.pc = "collect",
         run' = [run EXCEPT !.pc = pc, !.pending = ActivityAfter(run.last)],
         UNCHANGED <<job, log, batch, folder, case, page, service, spent>>
  PROVE  Inv'
<1>1. /\ ActivityAfter(run.last) \in Seq(1..MaxActivity)
      /\ run.last + Len(ActivityAfter(run.last)) <= batch.produced
      /\ \A i \in 1..Len(ActivityAfter(run.last)) : ActivityAfter(run.last)[i] = run.last + i
  BY ActivityFacts DEF Inv
<1>2. /\ run' \in Runs /\ run'.pc = pc /\ run'.n = run.n /\ run'.error = run.error
      /\ run'.last = run.last /\ run'.pending = ActivityAfter(run.last)
  BY <1>1 DEF Inv, TypeOK, Runs, Pipeline
<1>3. TypeOK'
  BY <1>2 DEF Inv, TypeOK
<1>4. RunInv'
  <2>1. job.status = "running" /\ service = "up"
    BY DEF Inv, TypeOK, RunInv, JobOfRun, Pipeline, Over
  <2>2. Counting' /\ Progress'
    BY <1>2 DEF Inv, RunInv, Counting, Progress, Pipeline, BeforeCase, Ready, AllStaged
  <2>3. JobOfRun' /\ Outcome'
    BY <1>2, <2>1 DEF Inv, RunInv, JobOfRun, Outcome, Pipeline, Handlers, Over
  <2>4. CompletedIsReady' /\ FailureIsReported'
    BY <2>1 DEF Inv, RunInv, CompletedIsReady, FailureIsReported
  <2> QED BY <2>2, <2>3, <2>4 DEF RunInv
<1>5. LogInv'
  BY <1>1, <1>2 DEF Inv, LogInv, ForwardedOnce, IsActivity
<1>6. PageInv'
  BY PageInvKept DEF Inv
<1> QED BY <1>3, <1>4, <1>5, <1>6 DEF Inv

LEMMA FetchActivityInv == Inv /\ FetchActivity => Inv'
  BY FetchedInv DEF FetchActivity, At

LEMMA CollectRestInv == Inv /\ CollectRest => Inv'
<1> SUFFICES ASSUME Inv, CollectRest PROVE Inv'
  OBVIOUS
<1>1. run.pc = "collect" /\ UNCHANGED <<job, log, batch, folder, case, page, service, spent>>
  BY DEF CollectRest, At
<1>2. CASE run' = [run EXCEPT !.pc = "rest", !.pending = ActivityAfter(run.last)]
  BY <1>1, <1>2, FetchedInv
<1>3. CASE Goes("extracting")
  <2>1. run' \in Runs /\ run'.pc = "extracting" /\ run'.n = run.n
    BY <1>3, GoesFacts DEF Inv, TypeOK, Pipeline, Places
  <2>2. Counting' /\ Progress'
    BY <1>1, <2>1 DEF Inv, RunInv, Counting, Progress, Pipeline, BeforeCase, Ready, AllStaged
  <2> QED BY <1>1, <1>3, <2>2, GoesOnInv DEF Inv, TypeOK, Pipeline
<1> QED BY <1>2, <1>3 DEF CollectRest

\* The next event of FinDocIQ has the next number, and is in the log with it.
LEMMA ForwardedLog ==
  ASSUME TypeOK, LogInv, run.pending # <<>>, Appended(Event("activity", Head(run.pending))),
         Event("activity", Head(run.pending)) \in Events,
         run'.last = Head(run.pending), run'.pending = Tail(run.pending), UNCHANGED batch
  PROVE  LogInv'
<1> DEFINE e == Event("activity", Head(run.pending))
<1>1. /\ Len(log') = Len(log) + 1 /\ Len(log) \in Nat
      /\ \A i \in 1..Len(log) : log'[i] = log[i]
      /\ log'[Len(log')] = e
  BY AppendedFacts DEF TypeOK
<1>2. /\ run.pending \in Seq(1..MaxActivity) /\ run.last \in Nat /\ Len(run.pending) \in Nat \ {0}
  BY RunNumbers, ConstantNumbers DEF TypeOK
<1>3. Head(run.pending) = run.pending[1]
  BY <1>2
<1>4. run'.last = run.last + 1
  BY <1>2, <1>3 DEF LogInv
<1>5. /\ Len(Tail(run.pending)) = Len(run.pending) - 1
      /\ \A i \in 1..Len(Tail(run.pending)) : Tail(run.pending)[i] = run.pending[i + 1]
  BY <1>2, HeadTailProperties
<1>6. /\ run'.last + Len(run'.pending) <= batch'.produced
      /\ \A i \in 1..Len(run'.pending) : run'.pending[i] = run'.last + i
  <2>1. run'.last + Len(run'.pending) <= batch'.produced
    <3>1. batch'.produced = batch.produced /\ batch.produced \in Nat
      BY ConstantNumbers DEF TypeOK
    <3>2. run.last + Len(run.pending) <= batch.produced
      BY DEF LogInv
    <3>3. Len(run'.pending) = Len(run.pending) - 1
      BY <1>5
    <3> QED BY <1>2, <1>4, <3>1, <3>2, <3>3
  <2>2. ASSUME NEW i \in 1..Len(Tail(run.pending))
        PROVE  Tail(run.pending)[i] = run.last + 1 + i
    <3>1. i \in Nat /\ i + 1 \in 1..Len(run.pending)
      BY <1>2, <1>5
    <3>2. run.pending[i + 1] = run.last + (i + 1)
      BY <3>1 DEF LogInv
    <3>3. Tail(run.pending)[i] = run.pending[i + 1]
      BY <1>5
    <3>4. i \in Nat /\ run.last \in Nat
      BY <1>2, <3>1
    <3>5. run.last + (i + 1) = run.last + 1 + i
      BY <3>4
    <3> QED BY <3>2, <3>3, <3>5
  <2> QED BY <1>4, <2>1, <2>2
<1>7. e.stage = "activity" /\ e.of = run.last + 1
  BY <1>2, <1>4 DEF Event
<1> HIDE DEF e
<1>8. \A i \in 1..Len(log') : i \in 1..Len(log) \/ i = Len(log')
  BY <1>1
<1>9. \A i \in 1..Len(log') : log'[i].stage = "activity" => log'[i].of \in 1..run'.last
  <2> SUFFICES ASSUME NEW i \in 1..Len(log'), log'[i].stage = "activity"
               PROVE  log'[i].of \in 1..run'.last
    OBVIOUS
  <2>1. CASE i \in 1..Len(log)
    <3>1. log[i].of \in 1..run.last
      BY <1>1, <2>1 DEF LogInv, IsActivity
    <3> QED BY <1>1, <1>2, <1>4, <2>1, <3>1
  <2>2. CASE i = Len(log')
    BY <1>1, <1>2, <1>4, <1>7, <2>2
  <2> QED BY <1>8, <2>1, <2>2
<1>10. \A k \in 1..run'.last :
         \E i \in 1..Len(log') : log'[i].stage = "activity" /\ log'[i].of = k
  <2> SUFFICES ASSUME NEW k \in 1..run'.last
               PROVE  \E i \in 1..Len(log') : log'[i].stage = "activity" /\ log'[i].of = k
    OBVIOUS
  <2>1. CASE k = run.last + 1
    BY <1>1, <1>7, <2>1
  <2>2. CASE k # run.last + 1
    <3>1. k \in 1..run.last
      BY <1>2, <1>4, <2>2
    <3>2. PICK i \in 1..Len(log) : log[i].stage = "activity" /\ log[i].of = k
      BY <3>1 DEF LogInv, IsActivity
    <3> QED BY <1>1, <3>2
  <2> QED BY <2>1, <2>2
<1>11. ForwardedOnce'
  <2> SUFFICES ASSUME NEW i \in 1..Len(log'), log'[i].stage = "activity"
               PROVE  /\ \A j \in 1..(i - 1) : log'[j].stage = "activity" => log'[j].of < log'[i].of
                      /\ log'[i].of > 1 => \E j \in 1..(i - 1) :
                                             log'[j].stage = "activity" /\ log'[j].of = log'[i].of - 1
    BY DEF ForwardedOnce, IsActivity
  <2>1. CASE i \in 1..Len(log)
    <3>1. log'[i] = log[i] /\ \A j \in 1..(i - 1) : log'[j] = log[j]
      BY <1>1, <2>1
    <3>2. log[i].stage = "activity" /\ ForwardedOnce
      BY <3>1 DEF LogInv
    <3>3. /\ \A j \in 1..(i - 1) : log[j].stage = "activity" => log[j].of < log[i].of
          /\ log[i].of > 1 => \E j \in 1..(i - 1) :
                                 log[j].stage = "activity" /\ log[j].of = log[i].of - 1
      BY <2>1, <3>2, Zenon DEF ForwardedOnce, IsActivity
    <3> HIDE DEF LogInv
    <3> QED BY <3>1, <3>3, Zenon
  <2>2. CASE i = Len(log')
    <3>1. log'[i].of = run.last + 1 /\ 1..(i - 1) = 1..Len(log)
      BY <1>1, <1>7, <2>2
    <3>2. \A j \in 1..Len(log) : log'[j].stage = "activity" => log'[j].of \in 1..run.last
      BY <1>1 DEF LogInv, IsActivity
    <3>3. ASSUME run.last > 0
          PROVE  \E j \in 1..Len(log) : log'[j].stage = "activity" /\ log'[j].of = run.last
      <4>1. run.last \in 1..run.last
        BY <1>2, <3>3
      <4>2. PICK j \in 1..Len(log) : log[j].stage = "activity" /\ log[j].of = run.last
        BY <4>1 DEF LogInv, IsActivity
      <4> QED BY <1>1, <4>2
    <3>4. \A j \in 1..(i - 1) : log'[j].stage = "activity" => log'[j].of < log'[i].of
      BY <1>2, <3>1, <3>2
    <3>5. log'[i].of > 1 =>
            \E j \in 1..(i - 1) : log'[j].stage = "activity" /\ log'[j].of = log'[i].of - 1
      BY <1>2, <3>1, <3>3
    <3> QED BY <3>4, <3>5
  <2> QED BY <1>1, <2>1, <2>2
<1> QED BY <1>6, <1>9, <1>10, <1>11 DEF LogInv, IsActivity

\* The two loops that forward, the second on its way to the facts.
LEMMA ForwardInv ==
  ASSUME Inv, NEW pc, NEW after, Forward(pc, after),
         \/ pc = "forward" /\ after = "ingest"
         \/ pc = "rest" /\ after = "extracting"
  PROVE  Inv'
<1>1. run.pc = pc /\ UNCHANGED <<batch, folder, case, page, service, spent>>
  BY DEF Forward, At
<1>2. CASE run.pending = <<>>
  <2>1. Goes(after) /\ UNCHANGED <<job, log>>
    BY <1>2 DEF Forward
  <2>2. run' \in Runs /\ run'.pc = after /\ run'.n = run.n
    BY <2>1, GoesFacts DEF Inv, TypeOK, Pipeline, Places
  <2>3. Counting' /\ Progress'
    BY <1>1, <2>2 DEF Inv, RunInv, Counting, Progress, Pipeline, BeforeCase, Ready, AllStaged
  <2> QED BY <1>1, <2>1, <2>3, GoesOnInv DEF Inv, TypeOK, Pipeline
<1>3. CASE run.pending # <<>>
  <2> DEFINE e == Event("activity", Head(run.pending))
  <2>1. /\ Head(run.pending) \in 1..MaxActivity /\ Tail(run.pending) \in Seq(1..MaxActivity)
    BY <1>3, RunNumbers, HeadTailProperties DEF Inv, TypeOK
  <2>2. Appended(e) /\ run' = [run EXCEPT !.last = Head(run.pending), !.pending = Tail(@)]
    BY <1>3 DEF Forward, Reports
  <2>3. e \in Events
    BY <2>1, ConstantNumbers DEF Event, Events, Errors
  <2>4. /\ run' \in Runs /\ run'.pc = pc /\ run'.n = run.n /\ run'.error = run.error
        /\ run'.last = Head(run.pending) /\ run'.pending = Tail(run.pending)
    <3>1. run \in Runs
      BY DEF Inv, TypeOK
    <3>2. Head(run.pending) \in 0..MaxActivity
      BY <2>1, ConstantNumbers
    <3> HIDE DEF e
    <3> QED BY <1>1, <2>1, <2>2, <3>1, <3>2 DEF Runs
  <2>5. LogInv'
    <3>1. TypeOK /\ LogInv /\ UNCHANGED batch
      BY <1>1 DEF Inv
    <3> QED BY <1>3, <2>2, <2>3, <2>4, <3>1, ForwardedLog
  <2> HIDE DEF e
  <2>6. job.status = "running" /\ service # "down"
    BY <1>1 DEF Inv, RunInv, JobOfRun, Pipeline, Over
  <2>7. TypeOK'
    BY <1>1, <2>2, <2>3, <2>4, <2>6, AppendedFacts DEF Inv, TypeOK
  <2>8. RunInv'
    <3>1. job'.status = "running" /\ CompletedIsReady' /\ FailureIsReported'
      BY <2>2, <2>3, <2>6, ReportedFacts DEF Inv
    <3>2. Counting' /\ Progress'
      BY <1>1, <2>4 DEF Inv, RunInv, Counting, Progress
    <3>3. JobOfRun' /\ Outcome'
      BY <1>1, <2>4, <2>6, <3>1 DEF Inv, RunInv, JobOfRun, Outcome, Pipeline
    <3> QED BY <3>1, <3>2, <3>3 DEF RunInv
  <2>9. PageInv'
    BY <1>1, <2>2, <2>3, <2>6, PageInvReported DEF Inv
  <2> QED BY <2>5, <2>7, <2>8, <2>9 DEF Inv
<1> QED BY <1>2, <1>3

LEMMA ForwardActivityInv == Inv /\ ForwardActivity => Inv'
<1>1. "forward" = "forward" /\ "ingest" = "ingest"
  OBVIOUS
<1> QED BY <1>1, ForwardInv DEF ForwardActivity

LEMMA ForwardRestInv == Inv /\ ForwardRest => Inv'
  BY ForwardInv DEF ForwardRest

(***************************************************************************)
(* Failures, the ends of the job, and the service.                         *)
(***************************************************************************)
\* A step after which nothing runs any more; the job ends, or is left.
LEMMA EndsInv ==
  ASSUME Inv, run.pc # "none", NEW pc \in {"ended", "lost"}, Goes(pc),
         UNCHANGED <<log, batch, folder, case, page, service>>, spent' \in Spent,
         \/ UNCHANGED job
         \/ /\ job' \in Rows /\ job'.status \in Ends /\ job.status \notin Ends
            /\ CompletedIsReady' /\ FailureIsReported'
  PROVE  Inv'
<1>1. /\ run' \in Runs /\ run'.pc = pc /\ run'.n = run.n /\ run'.error = run.error
      /\ run'.last = run.last /\ run'.pending = run.pending
  BY GoesFacts DEF Inv, TypeOK, Places
<1>2. TypeOK'
  BY <1>1 DEF Inv, TypeOK, Spent, Ends
<1>3. RunInv'
  <2>1. Counting' /\ Progress'
    BY <1>1 DEF Inv, RunInv, Counting, Progress, Pipeline, BeforeCase, Ready, AllStaged
  <2>2. job'.status # "none"
    BY DEF Inv, RunInv, JobOfRun, Ends
  <2>3. JobOfRun' /\ Outcome'
    BY <1>1, <2>2 DEF Inv, RunInv, JobOfRun, Outcome, Pipeline, Handlers, Over
  <2>4. CompletedIsReady' /\ FailureIsReported'
    BY DEF Inv, RunInv, CompletedIsReady, FailureIsReported, LastEvent
  <2> QED BY <2>1, <2>3, <2>4 DEF RunInv
<1> QED BY <1>1, <1>2, <1>3, QuietInv DEF Ends

LEMMA StatementFailsInv == Inv /\ StatementFails => Inv'
<1> SUFFICES ASSUME Inv, StatementFails PROVE Inv'
  OBVIOUS
<1>1. spent' \in Spent /\ UNCHANGED <<job, log, batch, page, service>>
  BY IntakeAssumption DEF StatementFails, Spend, Inv, TypeOK, Spent
<1>2. CASE run.pc \in Pipeline /\ Raises("internal_processing_error") /\ case' \in {case, case + 1}
           /\ (run.pc \in {"create", "advance"} \/ UNCHANGED case)
  <2>1. case' \in 0..AwaitingHuman
    BY <1>2 DEF Inv, TypeOK, RunInv, Progress, AwaitingHuman, CaseStates, BeforeCase
  <2> QED BY <1>1, <1>2, <2>1, RaisesInv DEF Errors
<1>3. CASE run.pc \in Handlers \cup {"received"} /\ Goes("lost") /\ UNCHANGED <<folder, case>>
  BY <1>1, <1>3, EndsInv DEF Handlers
<1> QED BY <1>2, <1>3 DEF StatementFails, Pipeline

LEMMA FinishFailedInv == Inv /\ FinishFailed => Inv'
<1> SUFFICES ASSUME Inv, FinishFailed PROVE Inv'
  OBVIOUS
<1>1. /\ run.pc = "finish" /\ Goes("ended")
      /\ job' = [status |-> "failed", error |-> run.error]
      /\ UNCHANGED <<log, batch, folder, case, page, service, spent>>
  BY DEF FinishFailed, At
<1>2. /\ job.status = "running" /\ run.error # "service_restarted"
      /\ log # <<>> /\ LastEvent = [stage |-> "failed", of |-> 0, error |-> run.error]
  BY <1>1 DEF Inv, RunInv, JobOfRun, Outcome, Handlers
<1>3. job' \in Rows /\ CompletedIsReady' /\ FailureIsReported'
  BY <1>1, <1>2, RunNumbers
     DEF Inv, TypeOK, Rows, JobStatuses, CompletedIsReady, FailureIsReported, LastEvent
<1> QED BY <1>1, <1>2, <1>3, EndsInv DEF Inv, TypeOK, Spent, Ends

LEMMA FinishCompletedInv == Inv /\ FinishCompleted => Inv'
<1> SUFFICES ASSUME Inv, FinishCompleted PROVE Inv'
  OBVIOUS
<1>1. /\ run.pc = "complete" /\ Goes("ended") /\ job' = [job EXCEPT !.status = "completed"]
      /\ UNCHANGED <<log, batch, folder, case, page, service, spent>>
  BY DEF FinishCompleted, At
<1>2. /\ job.status = "running" /\ job.error = "none"
      /\ log # <<>> /\ LastEvent.stage = "completed"
  BY <1>1 DEF Inv, RunInv, JobOfRun, Outcome, Handlers, FailureIsReported
<1>3. folder = [staged |-> NFiles, manifest |-> TRUE, failed |-> FALSE] /\ case = AwaitingHuman
  BY <1>1 DEF Inv, TypeOK, Folders, RunInv, Progress, Ready, AllStaged
<1>4. job' \in Rows /\ job'.status = "completed" /\ job'.error = "none"
  BY <1>1, <1>2 DEF Inv, TypeOK, Rows, JobStatuses
<1>5. CompletedIsReady' /\ FailureIsReported'
  BY <1>1, <1>2, <1>3, <1>4 DEF CompletedIsReady, FailureIsReported, LastEvent
<1> QED BY <1>1, <1>2, <1>4, <1>5, EndsInv DEF Inv, TypeOK, Spent, Ends

LEMMA CreateIntakeJobInv == Inv /\ CreateIntakeJob => Inv'
<1> SUFFICES ASSUME Inv, CreateIntakeJob PROVE Inv'
  OBVIOUS
<1>1. /\ run.pc = "none" /\ service = "up" /\ Goes("received")
      /\ job' = [job EXCEPT !.status = "queued"]
      /\ UNCHANGED <<log, batch, folder, case, page, service, spent>>
  BY DEF CreateIntakeJob, At
<1>2. /\ run' \in Runs /\ run'.pc = "received" /\ run'.n = run.n /\ run'.error = run.error
      /\ run'.last = run.last /\ run'.pending = run.pending
  BY <1>1, GoesFacts DEF Inv, TypeOK, Places
<1>3. job.status = "none" /\ job.error = "none"
  BY <1>1 DEF Inv, RunInv, JobOfRun, FailureIsReported
<1>4. job' \in Rows /\ job'.status = "queued" /\ job'.error = "none"
  BY <1>1, <1>3 DEF Inv, TypeOK, Rows, JobStatuses
<1>5. TypeOK'
  BY <1>1, <1>2, <1>3, <1>4 DEF Inv, TypeOK
<1>6. Counting' /\ Progress'
  BY <1>1, <1>2 DEF Inv, RunInv, Counting, Progress, Pipeline, BeforeCase, Ready, AllStaged
<1>7. JobOfRun' /\ Outcome'
  BY <1>1, <1>2, <1>4 DEF Inv, RunInv, JobOfRun, Outcome, Pipeline, Handlers
<1>8. CompletedIsReady' /\ FailureIsReported'
  BY <1>4 DEF CompletedIsReady, FailureIsReported
<1> QED BY <1>1, <1>2, <1>3, <1>4, <1>5, <1>6, <1>7, <1>8, QuietInv DEF RunInv, Ends

\* FinDocIQ and the page leave the run's side alone.
LEMMA RunInvKept ==
  ASSUME RunInv, UNCHANGED <<job, log, run, folder, case, service>>
  PROVE  RunInv'
  BY DEF RunInv, Counting, Progress, JobOfRun, Outcome, CompletedIsReady, FailureIsReported,
         LastEvent

LEMMA ProduceInv == Inv /\ (Produce \/ BatchEnds) => Inv'
<1> SUFFICES ASSUME Inv, Produce \/ BatchEnds PROVE Inv'
  OBVIOUS
<1>1. /\ UNCHANGED <<job, log, run, folder, case, page, service, spent>>
      /\ batch' \in [status: {"none", "working", "done", "failed"}, produced: 0..MaxActivity]
      /\ batch'.produced >= batch.produced
  BY ConstantNumbers DEF Produce, BatchEnds, Inv, TypeOK
<1>2. TypeOK'
  BY <1>1 DEF Inv, TypeOK
<1>3. RunInv'
  BY <1>1, RunInvKept DEF Inv
<1>4. LogInv'
  BY <1>1, LogInvKept, ConstantNumbers DEF Inv
<1>5. PageInv'
  BY <1>1, PageInvKept DEF Inv
<1> QED BY <1>2, <1>3, <1>4, <1>5 DEF Inv

\* The page keeps its promise: typed, and PageInv.
LEMMA PageSideInv ==
  ASSUME Inv, UNCHANGED <<job, log, run, batch, folder, case, service>>,
         page' \in Pages, spent' \in Spent, PageInv'
  PROVE  Inv'
<1>1. TypeOK'
  BY DEF Inv, TypeOK, Spent
<1>2. RunInv' /\ LogInv'
  BY RunInvKept, LogInvKept, ConstantNumbers DEF Inv, TypeOK
<1> QED BY <1>1, <1>2 DEF Inv

LEMMA PollInv == Inv /\ Poll => Inv'
<1> SUFFICES ASSUME Inv, Poll PROVE Inv'
  OBVIOUS
<1>1. /\ UNCHANGED <<job, log, run, batch, folder, case, service, spent>>
      /\ log \in Seq(Events) /\ Len(log) \in Nat /\ page \in Pages /\ job \in Rows
  BY DEF Poll, Inv, TypeOK
<1>2. CASE page.pc = "poll" /\ page' = [page EXCEPT !.pc = "answer", !.status = job.status]
  <2>1. job.status # "none"
    BY <1>2 DEF Inv, PageInv
  <2>2. /\ page' \in Pages /\ page'.pc = "answer" /\ page'.status = job.status
        /\ page'.seen = page.seen /\ page'.cursor = page.cursor
    BY <1>1, <1>2, <2>1 DEF Pages, Rows
  <2>3. PageInv'
    BY <1>1, <2>1, <2>2 DEF Inv, PageInv
  <2> QED BY <1>1, <2>2, <2>3, PageSideInv DEF Inv, TypeOK, Spent
<1>3. CASE page.pc = "answer" /\ page' = [WithEvents EXCEPT !.pc = ClosesOn(page.status)]
  <2>1. page' = [page EXCEPT !.seen = log, !.cursor = Len(log), !.pc = ClosesOn(page.status)]
    BY <1>1, <1>3, SeenFacts DEF Inv, Pages
  <2>2. /\ page' \in Pages /\ page'.pc = ClosesOn(page.status) /\ page'.status = page.status
        /\ page'.seen = log /\ page'.cursor = Len(log)
    BY <1>1, <2>1 DEF Pages, ClosesOn
  <2>3. page'.seen = SubSeq(log, 1, page'.cursor)
    BY <1>1, <2>2, SubSeqFull
  <2>4. page'.pc = "closed" => page.status \in Ends
    BY <1>1, <2>2 DEF ClosesOn, Ends, Pages, JobStatuses
  <2>5. page'.pc # "answer" /\ page.status \in Ends => job.status = page.status
    BY <1>3 DEF Inv, PageInv
  <2>6. PageInv'
    BY <1>1, <1>3, <2>2, <2>3, <2>4, <2>5 DEF Inv, PageInv, ClosesOn
  <2> QED BY <1>1, <2>2, <2>6, PageSideInv DEF Inv, TypeOK, Spent
<1> QED BY <1>2, <1>3 DEF Poll

LEMMA PollFailsInv == Inv /\ PollFails => Inv'
<1> SUFFICES ASSUME Inv, PollFails PROVE Inv'
  OBVIOUS
<1>1. /\ UNCHANGED <<job, log, run, batch, folder, case, service, spent>>
      /\ page.pc = "poll" /\ page' = [page EXCEPT !.pc = "lost"]
  BY DEF PollFails
<1>2. page' \in Pages /\ PageInv'
  BY <1>1 DEF Inv, TypeOK, Pages, PageInv
<1> QED BY <1>1, <1>2, PageSideInv DEF Inv, TypeOK, Spent

LEMMA ReloadInv == Inv /\ Reload => Inv'
<1> SUFFICES ASSUME Inv, Reload PROVE Inv'
  OBVIOUS
<1>1. /\ UNCHANGED <<job, log, run, batch, folder, case, service>>
      /\ page.pc # "none"
      /\ page' = [pc |-> "poll", status |-> "queued", seen |-> <<>>, cursor |-> 0]
  BY DEF Reload
<1>2. spent' \in Spent
  BY IntakeAssumption DEF Reload, Spend, Inv, TypeOK, Spent
<1>3. page' \in Pages
  BY <1>1 DEF Pages, JobStatuses
<1>4. PageInv'
  BY <1>1, SubSeqEmpty DEF Inv, TypeOK, PageInv
<1> QED BY <1>1, <1>2, <1>3, <1>4, PageSideInv

LEMMA StopInv == Inv /\ Stop => Inv'
<1> SUFFICES ASSUME Inv, Stop PROVE Inv'
  OBVIOUS
<1>1. /\ service = "up" /\ run.pc # "received" /\ service' = "stopping"
      /\ UNCHANGED <<job, log, batch, folder, case, page>>
  BY DEF Stop
<1>2. spent' \in Spent
  <2>1. spent \in Spent
    BY DEF Inv, TypeOK, Spent
  <2>2. spent.stops < MaxStops /\ Spend("stops")
    BY DEF Stop
  <2> HIDE DEF Inv, Stop
  <2> QED BY <2>1, <2>2, IntakeAssumption DEF Spend, Spent
<1>3. /\ run' \in Runs /\ run'.n = run.n /\ run'.last = run.last /\ run'.pending = run.pending
      /\ \/ /\ run.pc \in Pipeline /\ run'.pc = "failing" /\ run'.error = "service_stopped"
         \/ /\ run.pc \in Handlers /\ run'.pc = "ended" /\ run'.error = run.error
         \/ /\ run.pc \in Over /\ run'.pc = run.pc /\ run'.error = run.error
  <2> DEFINE pc == IF run.pc \in Pipeline THEN "failing"
                   ELSE IF run.pc \in Handlers THEN "ended" ELSE run.pc
             error == IF run.pc \in Pipeline THEN "service_stopped" ELSE run.error
  <2>1. /\ run \in Runs /\ run.pc \in Pipeline \cup Handlers \cup Over
        /\ \A p \in Handlers : p \notin Pipeline
        /\ \A p \in Over : p \notin Pipeline \cup Handlers
    <3>1. run \in Runs
      BY DEF Inv, TypeOK
    <3> HIDE DEF Inv
    <3>2. run.pc \in Pipeline \cup Handlers \cup Over
      BY <1>1, <3>1 DEF Runs, Over
    <3>3. \A p \in Handlers : p \notin Pipeline
      BY DEF Pipeline, Handlers
    <3>4. \A p \in Over : p \notin Pipeline \cup Handlers
      BY DEF Pipeline, Handlers, Over
    <3> QED BY <3>1, <3>2, <3>3, <3>4
  <2>2. run' = [run EXCEPT !.pc = pc, !.error = error]
    BY DEF Stop
  <2>3. pc \in Handlers \cup Over /\ error \in Errors
    BY <2>1 DEF Handlers, Over, Errors, Runs
  <2>4. run' \in Runs /\ run'.pc = pc /\ run'.error = error /\ run'.n = run.n
        /\ run'.last = run.last /\ run'.pending = run.pending
    <3> HIDE DEF pc, error
    <3> QED BY <2>1, <2>2, <2>3 DEF Runs, Over
  <2> QED BY <2>1, <2>4
<1>4. TypeOK'
  BY <1>1, <1>2, <1>3 DEF Inv, TypeOK, Spent
<1>5. Counting' /\ Progress'
  BY <1>1, <1>3
     DEF Inv, RunInv, Counting, Progress, Pipeline, Handlers, Over, BeforeCase, Ready, AllStaged
<1>6. JobOfRun' /\ Outcome'
  BY <1>1, <1>3 DEF Inv, RunInv, JobOfRun, Outcome, Pipeline, Handlers, Over
<1>7. CompletedIsReady' /\ FailureIsReported'
  BY <1>1 DEF Inv, RunInv, CompletedIsReady, FailureIsReported, LastEvent
<1> QED BY <1>1, <1>3, <1>4, <1>5, <1>6, <1>7, QuietInv DEF RunInv

LEMMA StoppedInv == Inv /\ Stopped => Inv'
<1> SUFFICES ASSUME Inv, Stopped PROVE Inv'
  OBVIOUS
<1>1. /\ run.pc \in Over /\ service' = "down"
      /\ UNCHANGED <<job, log, run, batch, folder, case, page, spent>>
  BY DEF Stopped, Over
<1>2. TypeOK'
  BY <1>1 DEF Inv, TypeOK
<1>3. RunInv'
  BY <1>1 DEF Inv, RunInv, Counting, Progress, JobOfRun, Outcome, CompletedIsReady,
              FailureIsReported, LastEvent
<1> QED BY <1>1, <1>2, <1>3, QuietInv

LEMMA CrashInv == Inv /\ Crash => Inv'
<1> SUFFICES ASSUME Inv, Crash PROVE Inv'
  OBVIOUS
<1>1. service' = "down" /\ UNCHANGED <<job, log, batch, folder, case>>
  BY DEF Crash
<1>2. spent' \in Spent
  BY IntakeAssumption DEF Crash, Spend, Inv, TypeOK, Spent
<1>3. /\ run' \in Runs /\ run'.n = run.n /\ run'.last = run.last /\ run'.pending = run.pending
      /\ run'.error = run.error /\ run'.pc \in {"none", "ended"}
      /\ run'.pc = "none" <=> run.pc = "none"
  BY DEF Crash, Inv, TypeOK, Runs
<1>4. page' \in Pages /\ PageInv'
  BY <1>1 DEF Crash, Inv, TypeOK, Pages, PageInv
<1>5. TypeOK'
  BY <1>1, <1>2, <1>3, <1>4 DEF Inv, TypeOK, Spent
<1>6. Counting' /\ Progress'
  BY <1>1, <1>3 DEF Inv, RunInv, Counting, Progress, Pipeline, BeforeCase, Ready, AllStaged
<1>7. JobOfRun' /\ Outcome'
  BY <1>1, <1>3 DEF Inv, RunInv, JobOfRun, Outcome, Pipeline, Handlers, Over
<1>8. CompletedIsReady' /\ FailureIsReported'
  BY <1>1 DEF Inv, RunInv, CompletedIsReady, FailureIsReported, LastEvent
<1>9. LogInv'
  BY <1>1, <1>3, LogInvKept, ConstantNumbers DEF Inv, TypeOK
<1> QED BY <1>4, <1>5, <1>6, <1>7, <1>8, <1>9 DEF Inv, RunInv

LEMMA StartInv == Inv /\ Start => Inv'
<1> SUFFICES ASSUME Inv, Start PROVE Inv'
  OBVIOUS
<1>1. /\ service = "down" /\ service' = "up" /\ job' = Interrupted
      /\ UNCHANGED <<log, run, batch, folder, case, page, spent>>
  BY DEF Start
<1>2. run.pc \in Over
  BY <1>1 DEF Inv, RunInv, JobOfRun
<1>3. /\ job' \in Rows /\ (job'.status = "none" <=> job.status = "none")
      /\ \/ UNCHANGED job
         \/ job' = [status |-> "failed", error |-> "service_restarted"] /\ Active
  BY <1>1 DEF Interrupted, Active, Inv, TypeOK, Rows, JobStatuses, Errors
<1>4. TypeOK'
  BY <1>1, <1>3 DEF Inv, TypeOK
<1>5. Counting' /\ Progress'
  BY <1>1 DEF Inv, RunInv, Counting, Progress
<1>6. JobOfRun' /\ Outcome'
  BY <1>1, <1>2, <1>3 DEF Inv, RunInv, JobOfRun, Outcome, Over, Pipeline, Handlers, LastEvent
<1>7. CompletedIsReady' /\ FailureIsReported'
  BY <1>1, <1>3 DEF Inv, RunInv, CompletedIsReady, FailureIsReported, LastEvent
<1>8. job.status \in Ends => UNCHANGED job
  BY <1>1 DEF Interrupted, Active, Ends
<1> QED BY <1>1, <1>3, <1>4, <1>5, <1>6, <1>7, <1>8, QuietInv DEF RunInv

\* The invariant is inductive.
LEMMA InvNext == Inv /\ [Next]_vars => Inv'
<1> SUFFICES ASSUME Inv, [Next]_vars PROVE Inv'
  OBVIOUS
<1>1. CASE StageFiles
  BY <1>1, ReportValidatingInv, ReportDocumentInv, StageDocumentInv, ReportStagedInv
     DEF StageFiles
<1>2. CASE IngestBatch
  BY <1>2, SubmitBatchInv, FetchActivityInv, ForwardActivityInv, BatchAnsweredInv,
     CollectRestInv, ForwardRestInv DEF IngestBatch
<1>3. CASE ExtractFacts
  BY <1>3, ReportExtractingInv, ExtractInv, ReportMetricInv, BuildApplicationInv
     DEF ExtractFacts
<1>4. CASE AdvanceCase
  BY <1>4, ReportGatingInv, RetrieveInv, ReportAssemblingInv, CreateCaseInv, AdvanceInv,
     WriteManifestInv, AnnounceInv DEF AdvanceCase
<1>5. CASE Handle
  BY <1>5, ReportFailedInv, FinishFailedInv, ReportCompletedInv, FinishCompletedInv DEF Handle
<1>6. CASE CreateIntakeJob \/ AcceptUpload \/ StatementFails
  BY <1>6, CreateIntakeJobInv, AcceptUploadInv, StatementFailsInv
<1>7. CASE Produce \/ BatchEnds \/ Poll \/ PollFails \/ Reload
  BY <1>7, ProduceInv, PollInv, PollFailsInv, ReloadInv
<1>8. CASE Stop \/ Stopped \/ Crash \/ Start
  BY <1>8, StopInv, StoppedInv, CrashInv, StartInv
<1>9. CASE UNCHANGED vars
  <2>1. UNCHANGED <<job, log, run, batch, folder, case, page, service, spent>>
    BY <1>9 DEF vars
  <2>2. TypeOK' /\ RunInv'
    BY <2>1, RunInvKept DEF Inv, TypeOK
  <2> QED BY <2>1, <2>2, QuietInv
<1> QED BY <1>1, <1>2, <1>3, <1>4, <1>5, <1>6, <1>7, <1>8, <1>9 DEF Next, RunStep

LEMMA Invariance == Spec => []Inv
<1> QED BY InvInit, InvNext, PTL DEF Spec

(***************************************************************************)
(* The theorems.                                                           *)
(***************************************************************************)
\* Types, for every number of files, facts, activity events, stops and failures.
THEOREM IntakeTypeCorrect == Spec => []TypeOK
<1>1. Inv => TypeOK
  BY DEF Inv
<1> QED BY <1>1, Invariance, PTL

\* FinDocIQ's activity is in the job's log once and in order.
THEOREM ForwardedOnceCorrect == Spec => []ForwardedOnce
<1>1. Inv => ForwardedOnce
  BY DEF Inv, LogInv
<1> QED BY <1>1, Invariance, PTL

\* A completed job has its case before a reviewer and says completed last.
THEOREM CompletedIsReadyCorrect == Spec => []CompletedIsReady
<1>1. Inv => CompletedIsReady
  BY DEF Inv, RunInv
<1> QED BY <1>1, Invariance, PTL

\* A failed job's log ends with its error, unless a restart ended it.
THEOREM FailureIsReportedCorrect == Spec => []FailureIsReported
<1>1. Inv => FailureIsReported
  BY DEF Inv, RunInv
<1> QED BY <1>1, Invariance, PTL

\* A page that has stopped following has the job's status and its whole log.
THEOREM LastPageIsWholeCorrect == Spec => []LastPageIsWhole
<1>1. ASSUME Inv PROVE LastPageIsWhole
  <2>1. log \in Seq(Events) /\ (page.pc = "closed" => page.seen = SubSeq(log, 1, Len(log)))
    BY <1>1 DEF Inv, TypeOK, PageInv
  <2>2. SubSeq(log, 1, Len(log)) = log
    BY <2>1, SubSeqFull
  <2> QED BY <1>1, <2>1, <2>2 DEF Inv, PageInv, LastPageIsWhole
<1> QED BY <1>1, Invariance, PTL

\* A job that has ended is history: its row and its log no longer change.
THEOREM EndedForGoodCorrect == Spec => EndedForGood
<1>1. ASSUME Inv, [Next]_vars, job.status \in {"completed", "failed"} PROVE UNCHANGED <<job, log>>
  <2>1. run.pc \in Over
    BY <1>1 DEF Inv, TypeOK, Runs, RunInv, JobOfRun, Over
  <2>2. run.pc # "none"
    BY <1>1 DEF Inv, RunInv, JobOfRun
  <2>3. CASE RunStep
    BY <2>1, <2>3
       DEF RunStep, StageFiles, IngestBatch, ExtractFacts, AdvanceCase, Handle, Over, At,
           Pipeline, Handlers, AcceptUpload, ReportValidating, ReportDocument, StageDocument,
           ReportStaged, SubmitBatch, FetchActivity, ForwardActivity, ForwardRest, Forward,
           BatchAnswered, CollectRest, ReportExtracting, Extract, ReportMetric,
           BuildApplication, ReportGating, Retrieve, ReportAssembling, CreateCase, Advance,
           WriteManifest, Announce, StatementFails, ReportFailed, FinishFailed,
           ReportCompleted, FinishCompleted
  <2>4. CASE CreateIntakeJob
    BY <2>2, <2>4 DEF CreateIntakeJob, At
  <2>5. CASE Start
    BY <1>1, <2>5 DEF Start, Interrupted, Active
  <2>6. CASE \/ Produce \/ BatchEnds \/ Poll \/ PollFails \/ Reload \/ Stop \/ Stopped \/ Crash
             \/ UNCHANGED vars
    BY <2>6 DEF Produce, BatchEnds, Poll, PollFails, Reload, Stop, Stopped, Crash, vars
  <2> QED BY <1>1, <2>3, <2>4, <2>5, <2>6 DEF Next
<1>2. Inv /\ [Next]_vars =>
        [job.status \in {"completed", "failed"} => UNCHANGED <<job, log>>]_vars
  BY <1>1
<1> QED BY <1>2, Invariance, PTL DEF Spec, EndedForGood
=============================================================================
