---------------------------- MODULE AdviceProofs ----------------------------
(***************************************************************************)
(* What a reviewer is shown, for any policy files, guardrail policies,     *)
(* facts, answers, funders, precedents, similarities and weights, and any  *)
(* number of failures, send-backs, restarts and changes of the corpus.     *)
(*                                                                         *)
(* The argument: an artifact that is in the workspace for a worker that is *)
(* done follows from the evidence and the eligibility of the checkpoint,   *)
(* since a rewind drops the two together; a worker's own artifact follows  *)
(* from what it held when it saved it, and nothing else writes one.  What  *)
(* the process runs under may change at every restart: of the policy files *)
(* the invariant says only that there is one which explains the results.   *)
(***************************************************************************)
EXTENDS Advice, FiniteSetTheorems, TLAPS

App(e) == [evidence |-> e, profile |-> ProfileOf(e)]
Sound(results, e) == \E b \in Books : results = EvaluateAll(ProfileOf(e), b)
FailedOf(results) == [f \in DOMAIN results |-> results[f].failed]

\* Results that checkpoint c has the outcome of and follow from its evidence.
Settled(results, c) == Sound(results, c.evidence) /\ c.eligibility = FailedOf(results)

\* Suggestion s is what the assembler draws from retrieval r for checkpoint c.
Drawn(s, r, c) ==
  /\ s.application = App(c.evidence)
  /\ s.candidates = [f \in EligibleIn(r.eligibility) |-> MatchesOf(f, r.matches)]
  /\ s.excluded = [f \in DOMAIN r.eligibility \ EligibleIn(r.eligibility) |->
                     r.eligibility[f].failed]
  /\ s.cited = ListedIn(r.matches)

\* The workers that are done in checkpoint c.
Past(c) == IF c.status = "waiting_for_review" THEN Workers ELSE Before(c.current)

\* A record is what its fields are.
CpIs(c) == c = [x \in {"current", "status", "receipts", "evidence", "eligibility"} |-> c[x]]
DiskIs(d) ==
  d = [x \in {"documents", "figures", "application", "eligibility", "retrieval", "suggestion"} |->
         d[x]]
RunIs(r) ==
  r = [x \in {"pc", "figures", "application", "eligibility", "hits", "retrieval", "suggestion"} |->
         r[x]]
Shaped == CpIs(cp) /\ DiskIs(disk) /\ RunIs(run)

Posted(c, r) ==
  /\ c.status \in {"running", "failed_retryable", "needs_attention", "failed_terminal",
                   "waiting_for_review"}
  /\ r.pc # "idle" <=> c.status = "running"
  /\ c.current \in Workers
  /\ r.pc \in {"idle", "start", "extract", "search", "comments", "verify", "advance", "commit"}
  /\ r.pc = "advance" => c.current \notin {"precedent_retrieval", "guardrails"}
  /\ c.status = "waiting_for_review" => c.current = "human_review"

\* A checkpoint's fields are those of the workers that are done.
Recorded(c) ==
  /\ DOMAIN c.receipts = Past(c)
  /\ c.evidence # Nothing <=> "financial_analysis" \in Past(c)
  /\ c.eligibility # Nothing <=> "eligibility" \in Past(c)

SentOK(h, s, c) ==
  /\ h \in BOOLEAN /\ s \in Stages \cup {NoValue}
  /\ h /\ s = NoValue => c.current = "human_review"
  /\ s # NoValue => h /\ Index(c.current) >= Index(s)

DiskOK(d, c) ==
  /\ "financial_analysis" \in Past(c) /\ d.application # NoValue => d.application = App(c.evidence)
  /\ "eligibility" \in Past(c) /\ d.eligibility # NoValue => Settled(d.eligibility, c)
  /\ "precedent_retrieval" \in Past(c) /\ d.retrieval # NoValue
       => Settled(d.retrieval.eligibility, c)
  /\ "suggestion" \in Past(c) /\ d.retrieval # NoValue /\ d.suggestion # NoValue
       => Drawn(d.suggestion, d.retrieval, c)

\* What the worker under way holds, and has saved unless it was invalidated.
RunOK(r, d, c) ==
  /\ c.current = "financial_analysis" /\ r.pc \in {"advance", "commit"} =>
       /\ DOMAIN r.application.evidence = Facts
       /\ r.application = App(r.application.evidence)
       /\ d.application \in {NoValue, r.application}
  /\ c.current = "eligibility" /\ r.pc \in {"advance", "commit"} =>
       /\ Sound(r.eligibility, c.evidence)
       /\ d.eligibility \in {NoValue, r.eligibility}
  /\ r.pc \in {"search", "comments"} =>
       r.application = App(c.evidence) /\ Settled(r.eligibility, c)
  /\ c.current = "precedent_retrieval" /\ r.pc = "commit" /\ d.retrieval # NoValue =>
       Settled(d.retrieval.eligibility, c)
  /\ c.current = "suggestion" /\ r.pc \in {"advance", "commit"}
       /\ d.retrieval # NoValue /\ d.suggestion # NoValue => Drawn(d.suggestion, d.retrieval, c)
  /\ r.pc = "verify" =>
       /\ r.application = App(c.evidence)
       /\ Settled(r.retrieval.eligibility, c) /\ Drawn(r.suggestion, r.retrieval, c)

\* The guardrails are done, or about to be.
Passing(c, r) == "guardrails" \in Past(c) \/ (c.current = "guardrails" /\ r.pc = "commit")

GuardedOK(g, r, c) ==
  Passing(c, r) =>
    /\ g # Nothing
    /\ Settled(g.retrieval.eligibility, c) /\ Drawn(g.suggestion, g.retrieval, c)
    /\ \A p \in ListedIn(g.retrieval.matches) : FunderOf[p] \in EligibleIn(g.retrieval.eligibility)

\* Until a send-back there is one retrieval, and all is drawn from it.
CaseOK(o, g, r, d, c) ==
  /\ o # NoValue => /\ c.current \in {"suggestion", "guardrails", "human_review"}
                    /\ Drawn(o, d.retrieval, c)
  /\ "suggestion" \in Past(c) \/ (c.current = "suggestion" /\ r.pc = "commit")
       => Drawn(o, d.retrieval, c)
  /\ c.current = "suggestion" /\ r.pc = "advance" => Drawn(r.suggestion, d.retrieval, c)
  /\ r.pc = "verify" => r.retrieval = d.retrieval
  /\ Passing(c, r) => Drawn(g.suggestion, d.retrieval, c)

ProcessOK == book \in Books /\ hash \in Hashes /\ stored \in [Precedents -> PrecedentStates]

AdviceInv ==
  /\ ProcessOK
  /\ Shaped /\ Posted(cp, run) /\ Recorded(cp) /\ SentOK(handed, sent, cp)
  /\ DiskOK(disk, cp) /\ RunOK(run, disk, cp)
  /\ GuardedOK(guarded, run, cp)
  /\ sent = NoValue => CaseOK(onCase, guarded, run, disk, cp)

(***************************************************************************)
(* The order of the workers.                                               *)
(***************************************************************************)
LEMMA TheOrder ==
  /\ Order[1] = "document_processing" /\ Order[2] = "financial_analysis"
  /\ Order[3] = "eligibility" /\ Order[4] = "precedent_retrieval" /\ Order[5] = "suggestion"
  /\ Order[6] = "guardrails" /\ Order[7] = "human_review"
  /\ \A i, j \in 1..7 : Order[i] = Order[j] => i = j
  BY DEF Order

LEMMA TheWorkers ==
  Workers = {"document_processing", "financial_analysis", "eligibility", "precedent_retrieval",
             "suggestion", "guardrails", "human_review"}
<1>1. \A i \in 1..7 : i = 1 \/ i = 2 \/ i = 3 \/ i = 4 \/ i = 5 \/ i = 6 \/ i = 7
  OBVIOUS
<1> QED BY <1>1, TheOrder DEF Workers

LEMMA IndexOf ==
  ASSUME NEW i \in 1..7
  PROVE  Index(Order[i]) = i
<1> DEFINE P(j) == Order[j] = Order[i]
<1>1. P(i) /\ \A j \in 1..7 : P(j) => j = i
  BY TheOrder
<1>2. Index(Order[i]) = CHOOSE j \in 1..7 : P(j)
  BY DEF Index
<1> HIDE DEF P
<1> QED BY <1>1, <1>2

LEMMA Indices ==
  /\ Index("document_processing") = 1 /\ Index("financial_analysis") = 2
  /\ Index("eligibility") = 3 /\ Index("precedent_retrieval") = 4 /\ Index("suggestion") = 5
  /\ Index("guardrails") = 6 /\ Index("human_review") = 7
  BY IndexOf, TheOrder

LEMMA Befores ==
  /\ Before("document_processing") = {}
  /\ Before("financial_analysis") = {"document_processing"}
  /\ Before("eligibility") = {"document_processing", "financial_analysis"}
  /\ Before("precedent_retrieval") = {"document_processing", "financial_analysis", "eligibility"}
  /\ Before("suggestion") = {"document_processing", "financial_analysis", "eligibility",
                             "precedent_retrieval"}
  /\ Before("guardrails") = {"document_processing", "financial_analysis", "eligibility",
                             "precedent_retrieval", "suggestion"}
  /\ Before("human_review") = {"document_processing", "financial_analysis", "eligibility",
                               "precedent_retrieval", "suggestion", "guardrails"}
<1>1. \A w, n : Index(w) = n /\ n \in 1..7 => Before(w) = {Order[i] : i \in 1..(n - 1)}
  BY DEF Before
<1> DEFINE First(n) == {Order[i] : i \in 1..(n - 1)}
<1>2. First(1) = {}
  OBVIOUS
<1>3. First(2) = {Order[1]}
  OBVIOUS
<1>4. First(3) = {Order[1], Order[2]}
  OBVIOUS
<1>5. First(4) = {Order[1], Order[2], Order[3]}
  OBVIOUS
<1>6. First(5) = {Order[1], Order[2], Order[3], Order[4]}
  <2>1. \A i : i \in 1..4 <=> i \in {1, 2, 3, 4}
    OBVIOUS
  <2> QED BY <2>1
<1>7. First(6) = {Order[1], Order[2], Order[3], Order[4], Order[5]}
  <2>1. \A i : i \in 1..5 <=> i \in {1, 2, 3, 4, 5}
    OBVIOUS
  <2> QED BY <2>1
<1>8. First(7) = {Order[1], Order[2], Order[3], Order[4], Order[5], Order[6]}
  <2>1. \A i : i \in 1..6 <=> i \in {1, 2, 3, 4, 5, 6}
    OBVIOUS
  <2> QED BY <2>1
<1>9. \A w, n : Index(w) = n /\ n \in 1..7 => Before(w) = First(n)
  BY <1>1
<1> HIDE DEF First
<1> QED BY <1>2, <1>3, <1>4, <1>5, <1>6, <1>7, <1>8, <1>9, TheOrder, Indices

\* The worker after w, and that w is done there.
LEMMA NextInOrder ==
  ASSUME NEW w \in Stages
  PROVE  /\ Order[Index(w) + 1] \in Workers
         /\ Index(Order[Index(w) + 1]) = Index(w) + 1
         /\ Before(Order[Index(w) + 1]) = Before(w) \cup {w}
  BY TheWorkers, TheOrder, Indices, Befores DEF Stages

\* Who is done in a checkpoint that has not ended.
LEMMA PastStays ==
  ASSUME NEW c, NEW k, c.current = k.current, c.status # "waiting_for_review",
         k.status # "waiting_for_review"
  PROVE  Past(c) = Past(k)
  BY DEF Past

LEMMA IdleRun ==
  /\ Idle.pc = "idle" /\ Starting.pc = "start"
  /\ RunIs(Idle)
  /\ RunIs(Starting)
  BY DEF Idle, Starting, RunIs

LEMMA SameClaims ==
  ASSUME NEW c, NEW k, c.evidence = k.evidence, c.eligibility = k.eligibility
  PROVE  /\ \A x : Settled(x, c) <=> Settled(x, k)
         /\ \A s, r : Drawn(s, r, c) <=> Drawn(s, r, k)
  BY DEF Settled, Drawn

(***************************************************************************)
(* A failure, a limit or a resume: the thread stops or starts at its       *)
(* worker.                                                                 *)
(***************************************************************************)
Parks(status) ==
  /\ cp' = [cp EXCEPT !.status = status]
  /\ run' \in {Idle, Starting} /\ (run' = Idle <=> status # "running")
  /\ UNCHANGED <<process, corpus, disk, case, guarded>>

LEMMA ParksKeeps ==
  ASSUME AdviceInv, NEW status, Parks(status), cp.status # "waiting_for_review",
         status \in {"running", "failed_retryable", "needs_attention", "failed_terminal"}
  PROVE  AdviceInv'
<1> DEFINE c == cp
           k == cp'
<1>1. /\ k.current = c.current /\ k.status = status /\ k.receipts = c.receipts
      /\ k.evidence = c.evidence /\ k.eligibility = c.eligibility
      /\ CpIs(k)
  BY DEF Parks, AdviceInv, Shaped, CpIs
<1>2. /\ run'.pc = IF status = "running" THEN "start" ELSE "idle"
      /\ RunIs(run')
  BY IdleRun DEF Parks
<1>3. UNCHANGED <<book, hash, stored, disk, onCase, handed, sent, guarded>>
  BY DEF Parks, process, corpus, case
<1>4. Past(k) = Past(c)
  BY <1>1, PastStays
<1>5. /\ \A x : Settled(x, c) <=> Settled(x, k)
      /\ \A s, r : Drawn(s, r, c) <=> Drawn(s, r, k)
  BY <1>1, SameClaims
<1> HIDE DEF k, c
<1>6. Shaped'
  <2>1. CpIs(cp')
    BY <1>1 DEF k
  <2> QED BY <1>2, <1>3, <2>1 DEF AdviceInv, Shaped
<1>7. Posted(k, run')
  BY <1>1, <1>2 DEF AdviceInv, Posted, c
<1>8. Recorded(k) /\ SentOK(handed, sent, k)
  BY <1>1, <1>4 DEF AdviceInv, Recorded, SentOK, c
<1>9. DiskOK(disk, k)
  BY <1>1, <1>4, <1>5 DEF AdviceInv, DiskOK, c
<1>10. RunOK(run', disk, k)
  BY <1>2 DEF RunOK
<1>11. Passing(k, run') => Passing(c, run)
  BY <1>2, <1>4 DEF Passing
<1>12. GuardedOK(guarded, run', k)
  BY <1>5, <1>11 DEF AdviceInv, GuardedOK, c
<1>13. sent = NoValue => CaseOK(onCase, guarded, run', disk, k)
  BY <1>1, <1>2, <1>4, <1>5, <1>11 DEF AdviceInv, CaseOK, c
<1> QED
  BY <1>3, <1>6, <1>7, <1>8, <1>9, <1>10, <1>12, <1>13 DEF AdviceInv, ProcessOK, k

(***************************************************************************)
(* What a worker loads, computes and saves.                                *)
(***************************************************************************)
LEMMA SavesKeeps ==
  ASSUME AdviceInv, NEW d, NEW r, Saves(d, r), cp.status = "running",
         DiskIs(d),
         RunIs(r),
         Posted(cp, r), DiskOK(d, cp), RunOK(r, d, cp),
         r.pc = "commit" => cp.current = "precedent_retrieval",
         sent = NoValue => CaseOK(onCase, guarded, r, d, cp)
  PROVE  AdviceInv'
<1>1. /\ UNCHANGED <<book, hash, stored, cp, onCase, handed, sent, guarded>>
      /\ disk' = d /\ run' = r
  BY DEF Saves, process, corpus, case
<1>2. Passing(cp, r) => Passing(cp, run)
  BY DEF Passing
<1>3. GuardedOK(guarded, r, cp)
  BY <1>2 DEF AdviceInv, GuardedOK
<1>4. Shaped'
  BY <1>1 DEF AdviceInv, Shaped
<1> QED BY <1>1, <1>3, <1>4 DEF AdviceInv, ProcessOK

\* The worker goes on, holding nothing yet that it will save.
LEMMA LoadsKeeps ==
  ASSUME AdviceInv, NEW r, Loads(r), cp.status = "running",
         RunIs(r),
         \/ r.pc = "extract"
         \/ r.pc = "advance" /\ cp.current \in {"document_processing", "human_review"}
  PROVE  AdviceInv'
<1>1. Saves(disk, r) /\ cp.current \in Workers
  BY DEF Loads, AdviceInv, Posted
<1>2. Posted(cp, r) /\ RunOK(r, disk, cp)
  BY DEF AdviceInv, Posted, RunOK
<1>3. Passing(cp, r) => Passing(cp, run)
  BY DEF Passing
<1>4. sent = NoValue => CaseOK(onCase, guarded, r, disk, cp)
  BY <1>3 DEF AdviceInv, CaseOK
<1> QED BY <1>1, <1>2, <1>4, SavesKeeps DEF AdviceInv, Shaped

\* Its own artifact is not one of an earlier worker's.
LEMMA EarlierKept ==
  ASSUME NEW d, NEW e, NEW c, DiskOK(d, c), c.status = "running",
         \/ /\ c.current = "document_processing"
         \/ /\ c.current = "financial_analysis"
         \/ /\ c.current = "eligibility" /\ e.application = d.application
         \/ /\ c.current = "precedent_retrieval" /\ e.application = d.application
            /\ e.eligibility = d.eligibility
         \/ /\ c.current = "suggestion" /\ e.application = d.application
            /\ e.eligibility = d.eligibility /\ e.retrieval = d.retrieval
  PROVE  DiskOK(e, c)
<1>1. /\ c.current = "document_processing" => Past(c) = {}
      /\ c.current = "financial_analysis" => Past(c) = {"document_processing"}
      /\ c.current = "eligibility" => Past(c) = {"document_processing", "financial_analysis"}
      /\ c.current = "precedent_retrieval" =>
           Past(c) = {"document_processing", "financial_analysis", "eligibility"}
      /\ c.current = "suggestion" =>
           Past(c) = {"document_processing", "financial_analysis", "eligibility",
                      "precedent_retrieval"}
  BY Befores DEF Past
<1> QED BY <1>1 DEF DiskOK

\* Before the suggestion nothing is on the case.
LEMMA CaseEarly ==
  ASSUME NEW o, NEW g, NEW q, NEW d, NEW c, CaseOK(o, g, q, d, c), c.status = "running",
         c.current \in {"document_processing", "financial_analysis", "eligibility",
                        "precedent_retrieval"},
         NEW r, NEW e, r.pc # "verify"
  PROVE  CaseOK(o, g, r, e, c)
<1>1. "suggestion" \notin Past(c) /\ "guardrails" \notin Past(c)
  BY Befores DEF Past
<1> QED BY <1>1 DEF CaseOK, Passing

LEMMA ProcessDocumentsKeeps == AdviceInv /\ ProcessDocuments => AdviceInv'
<1> SUFFICES ASSUME AdviceInv, ProcessDocuments PROVE AdviceInv'
  OBVIOUS
<1> DEFINE d == [disk EXCEPT !.documents = TRUE]
           r == [run EXCEPT !.pc = "advance"]
<1>1. /\ cp.current = "document_processing" /\ cp.status = "running"
      /\ run.pc = "start" /\ Saves(d, r)
  BY DEF ProcessDocuments, On, At
<1>2. /\ DiskIs(d)
      /\ RunIs(r)
      /\ r.pc = "advance"
  <2>1. DiskIs(disk) /\ RunIs(run)
    BY DEF AdviceInv, Shaped
  <2> QED BY <2>1 DEF DiskIs, RunIs
<1> HIDE DEF d, r
<1>3. DiskOK(d, cp)
  BY <1>1, EarlierKept DEF AdviceInv
<1>4. RunOK(r, d, cp) /\ Posted(cp, r)
  BY <1>1, <1>2 DEF AdviceInv, RunOK, Posted
<1>5. sent = NoValue => CaseOK(onCase, guarded, r, d, cp)
  BY <1>1, <1>2, CaseEarly DEF AdviceInv
<1> QED BY <1>1, <1>2, <1>3, <1>4, <1>5, SavesKeeps

LEMMA ExtractKeeps == AdviceInv /\ Extract => AdviceInv'
<1> SUFFICES ASSUME AdviceInv, Extract PROVE AdviceInv'
  OBVIOUS
<1>1. PICK v : Saves([disk EXCEPT !.figures[NextFact] = v], [run EXCEPT !.figures = Append(@, v)])
  BY DEF Extract
<1> DEFINE fs == [disk.figures EXCEPT ![NextFact] = v]
           gs == Append(run.figures, v)
           d == [disk EXCEPT !.figures = fs]
           r == [run EXCEPT !.figures = gs]
<1>2. /\ cp.current = "financial_analysis" /\ cp.status = "running"
      /\ run.pc = "extract" /\ Saves(d, r)
  BY <1>1 DEF Extract, Extracting, At
<1> HIDE DEF fs, gs
<1>3. /\ DiskIs(d)
      /\ RunIs(r)
      /\ r.pc = "extract"
  <2>1. DiskIs(disk) /\ RunIs(run)
    BY DEF AdviceInv, Shaped
  <2> QED BY <1>2, <2>1 DEF DiskIs, RunIs
<1> HIDE DEF d, r
<1>4. DiskOK(d, cp)
  BY <1>2, EarlierKept DEF AdviceInv
<1>5. RunOK(r, d, cp) /\ Posted(cp, r)
  BY <1>2, <1>3 DEF AdviceInv, RunOK, Posted
<1>6. sent = NoValue => CaseOK(onCase, guarded, r, d, cp)
  BY <1>2, <1>3, CaseEarly DEF AdviceInv
<1> QED BY <1>2, <1>3, <1>4, <1>5, <1>6, SavesKeeps

LEMMA FormProfileKeeps == AdviceInv /\ FormProfile => AdviceInv'
<1> SUFFICES ASSUME AdviceInv, FormProfile PROVE AdviceInv'
  OBVIOUS
<1> DEFINE evidence == [m \in Facts |->
                          run.figures[CHOOSE i \in DOMAIN FactOrder : FactOrder[i] = m]]
           a == [evidence |-> evidence, profile |-> ProfileOf(evidence)]
           d == [disk EXCEPT !.application = a]
           r == [run EXCEPT !.pc = "advance", !.application = a]
<1>1. /\ cp.current = "financial_analysis" /\ cp.status = "running"
      /\ run.pc = "extract" /\ Saves(d, r)
  BY DEF FormProfile, At
<1>2. DOMAIN evidence = Facts
  OBVIOUS
<1> HIDE DEF evidence
<1>3. a = App(a.evidence) /\ DOMAIN a.evidence = Facts
  BY <1>2 DEF App
<1> HIDE DEF a
<1>4. /\ DiskIs(d)
      /\ RunIs(r)
      /\ r.pc = "advance" /\ r.application = a /\ d.application = a
  <2>1. DiskIs(disk) /\ RunIs(run)
    BY DEF AdviceInv, Shaped
  <2> QED BY <2>1 DEF DiskIs, RunIs
<1> HIDE DEF d, r
<1>5. DiskOK(d, cp)
  BY <1>1, EarlierKept DEF AdviceInv
<1>6. RunOK(r, d, cp) /\ Posted(cp, r)
  BY <1>1, <1>3, <1>4 DEF AdviceInv, RunOK, Posted
<1>7. sent = NoValue => CaseOK(onCase, guarded, r, d, cp)
  BY <1>1, <1>4, CaseEarly DEF AdviceInv
<1> QED BY <1>1, <1>4, <1>5, <1>6, <1>7, SavesKeeps

LEMMA EvaluateKeeps == AdviceInv /\ Evaluate => AdviceInv'
<1> SUFFICES ASSUME AdviceInv, Evaluate PROVE AdviceInv'
  OBVIOUS
<1> DEFINE results == EvaluateAll(disk.application.profile, book)
           d == [disk EXCEPT !.eligibility = results]
           r == [run EXCEPT !.pc = "advance", !.eligibility = results]
<1>1. /\ cp.current = "eligibility" /\ cp.status = "running" /\ disk.application # NoValue
      /\ run.pc = "start" /\ Saves(d, r)
  BY DEF Evaluate, On, At
<1>2. Sound(results, cp.evidence)
  <2>1. disk.application = App(cp.evidence)
    BY <1>1, Befores DEF AdviceInv, DiskOK, Past
  <2>2. results = EvaluateAll(ProfileOf(cp.evidence), book)
    BY <2>1 DEF App
  <2> QED BY <2>2 DEF Sound, AdviceInv, ProcessOK
<1> HIDE DEF results
<1>3. /\ DiskIs(d)
      /\ RunIs(r)
      /\ r.pc = "advance" /\ r.eligibility = results /\ d.eligibility = results
      /\ d.application = disk.application
  <2>1. DiskIs(disk) /\ RunIs(run)
    BY DEF AdviceInv, Shaped
  <2> QED BY <2>1 DEF DiskIs, RunIs
<1> HIDE DEF d, r
<1>4. DiskOK(d, cp)
  BY <1>1, <1>3, EarlierKept DEF AdviceInv
<1>5. RunOK(r, d, cp) /\ Posted(cp, r)
  BY <1>1, <1>2, <1>3 DEF AdviceInv, RunOK, Posted
<1>6. sent = NoValue => CaseOK(onCase, guarded, r, d, cp)
  BY <1>1, <1>3, CaseEarly DEF AdviceInv
<1> QED BY <1>1, <1>3, <1>4, <1>5, <1>6, SavesKeeps

LEMMA RetrieveKeeps == AdviceInv /\ (Retrieve \/ SearchProfile) => AdviceInv'
<1> SUFFICES ASSUME AdviceInv, Retrieve \/ SearchProfile PROVE AdviceInv'
  OBVIOUS
<1>1. PICK r : /\ Saves(disk, r)
               /\ RunIs(r)
               /\ r.pc \in {"search", "comments"}
               /\ r.application = App(cp.evidence) /\ Settled(r.eligibility, cp)
  <2>1. CASE Retrieve
    <3> DEFINE r == [run EXCEPT !.pc = "search", !.application = disk.application,
                                !.eligibility = disk.eligibility]
    <3>1. /\ disk.application = App(cp.evidence) /\ Settled(disk.eligibility, cp)
          /\ Saves(disk, r)
      BY <2>1, Befores DEF Retrieve, On, At, AdviceInv, DiskOK, Past, Loads
    <3>2. /\ RunIs(r)
          /\ r.pc = "search" /\ r.application = disk.application
          /\ r.eligibility = disk.eligibility
      <4>1. DiskIs(disk) /\ RunIs(run)
        BY DEF AdviceInv, Shaped
      <4> QED BY <4>1 DEF DiskIs, RunIs
    <3> HIDE DEF r
    <3> QED BY <3>1, <3>2
  <2>2. CASE SearchProfile
    <3>1. PICK h : Loads([run EXCEPT !.pc = "comments", !.hits = [p \in h |-> stored[p]]])
      BY <2>2 DEF SearchProfile
    <3> DEFINE hits == [p \in h |-> stored[p]]
               r == [run EXCEPT !.pc = "comments", !.hits = hits]
    <3>2. Saves(disk, r)
      BY <3>1 DEF Loads
    <3> HIDE DEF hits
    <3>3. /\ RunIs(r)
          /\ r.pc = "comments" /\ r.application = run.application
          /\ r.eligibility = run.eligibility
      <4>1. DiskIs(disk) /\ RunIs(run)
        BY DEF AdviceInv, Shaped
      <4> QED BY <4>1 DEF DiskIs, RunIs
    <3>4. run.application = App(cp.evidence) /\ Settled(run.eligibility, cp)
      BY <2>2 DEF SearchProfile, At, AdviceInv, RunOK
    <3> HIDE DEF r
    <3> QED BY <3>2, <3>3, <3>4
  <2> QED BY <2>1, <2>2
<1>2. cp.current = "precedent_retrieval" /\ cp.status = "running"
  BY DEF Retrieve, SearchProfile, On, At
<1>3. RunOK(r, disk, cp) /\ Posted(cp, r)
  BY <1>1, <1>2 DEF AdviceInv, RunOK, Posted
<1>4. sent = NoValue => CaseOK(onCase, guarded, r, disk, cp)
  BY <1>1, <1>2, CaseEarly DEF AdviceInv
<1> QED BY <1>1, <1>2, <1>3, <1>4, SavesKeeps DEF AdviceInv, Shaped

LEMMA StopKeeps ==
  ASSUME AdviceInv, NEW status \in {"failed_retryable", "needs_attention", "failed_terminal"},
         Stop(status), cp.status = "running"
  PROVE  AdviceInv'
<1>1. Parks(status)
  BY DEF Stop, Parks
<1> QED BY <1>1, ParksKeeps

LEMMA RetrievedKeeps ==
  ASSUME AdviceInv, NEW results, NEW matches, Retrieved(results, matches),
         cp.current = "precedent_retrieval", cp.status = "running",
         run.pc \in {"search", "comments"}
  PROVE  AdviceInv'
<1>1. CASE results # run.eligibility
  BY <1>1, StopKeeps DEF Retrieved
<1>2. CASE results = run.eligibility
  <2> DEFINE retrieval == [eligibility |-> results, matches |-> matches]
             d == [disk EXCEPT !.retrieval = retrieval]
             r == [run EXCEPT !.pc = "commit"]
  <2>1. Saves(d, r)
    BY <1>2 DEF Retrieved
  <2>2. Settled(retrieval.eligibility, cp)
    BY <1>2 DEF AdviceInv, RunOK
  <2> HIDE DEF retrieval
  <2>3. /\ DiskIs(d) /\ RunIs(r)
        /\ r.pc = "commit" /\ d.retrieval = retrieval
        /\ d.application = disk.application /\ d.eligibility = disk.eligibility
    <3>1. DiskIs(disk) /\ RunIs(run)
      BY DEF AdviceInv, Shaped
    <3> QED BY <3>1 DEF DiskIs, RunIs
  <2> HIDE DEF d, r
  <2>4. DiskOK(d, cp)
    BY <2>3, EarlierKept DEF AdviceInv
  <2>5. RunOK(r, d, cp) /\ Posted(cp, r)
    BY <2>2, <2>3 DEF AdviceInv, RunOK, Posted
  <2>6. sent = NoValue => CaseOK(onCase, guarded, r, d, cp)
    BY <2>3, CaseEarly DEF AdviceInv
  <2> QED BY <2>1, <2>3, <2>4, <2>5, <2>6, SavesKeeps
<1> QED BY <1>1, <1>2

LEMMA SearchesKeep == AdviceInv /\ (NobodyEligible \/ SearchComments) => AdviceInv'
<1> SUFFICES ASSUME AdviceInv, NobodyEligible \/ SearchComments PROVE AdviceInv'
  OBVIOUS
<1>1. /\ cp.current = "precedent_retrieval" /\ cp.status = "running"
      /\ run.pc \in {"search", "comments"}
  BY DEF NobodyEligible, SearchComments, At
<1>2. \E results, matches : Retrieved(results, matches)
  BY DEF NobodyEligible, SearchComments
<1> QED BY <1>1, <1>2, RetrievedKeeps

\* The assembler is given every result, since the policy file names the funders of them.
LEMMA AssembleDraws ==
  ASSUME NEW a, NEW q, NEW c, a = App(c.evidence), Covers(q)
  PROVE  Drawn(Assemble(a, q), q, c)
  BY DEF Drawn, Assemble, Covers

LEMMA SuggestKeeps == AdviceInv /\ Suggest => AdviceInv'
<1> SUFFICES ASSUME AdviceInv, Suggest PROVE AdviceInv'
  OBVIOUS
<1> DEFINE s == Assemble(disk.application, disk.retrieval)
           d == [disk EXCEPT !.suggestion = s]
           r == [run EXCEPT !.pc = "advance", !.suggestion = s]
<1>1. /\ cp.current = "suggestion" /\ cp.status = "running" /\ run.pc = "start"
      /\ disk.application # NoValue /\ disk.retrieval # NoValue /\ Covers(disk.retrieval)
      /\ Saves(d, r)
  BY DEF Suggest, On, At
<1>2. Drawn(s, disk.retrieval, cp)
  <2>1. disk.application = App(cp.evidence)
    BY <1>1, Befores DEF AdviceInv, DiskOK, Past
  <2> QED BY <1>1, <2>1, AssembleDraws
<1> HIDE DEF s
<1>3. /\ DiskIs(d) /\ RunIs(r)
      /\ r.pc = "advance" /\ r.suggestion = s /\ d.suggestion = s
      /\ d.application = disk.application /\ d.eligibility = disk.eligibility
      /\ d.retrieval = disk.retrieval
  <2>1. DiskIs(disk) /\ RunIs(run)
    BY DEF AdviceInv, Shaped
  <2> QED BY <2>1 DEF DiskIs, RunIs
<1> HIDE DEF d, r
<1>4. DiskOK(d, cp)
  BY <1>1, <1>3, EarlierKept DEF AdviceInv
<1>5. RunOK(r, d, cp) /\ Posted(cp, r)
  BY <1>1, <1>2, <1>3 DEF AdviceInv, RunOK, Posted
<1>6. sent = NoValue => CaseOK(onCase, guarded, r, d, cp)
  <2>1. "suggestion" \notin Past(cp) /\ "guardrails" \notin Past(cp)
    BY <1>1, Befores DEF Past
  <2> QED BY <1>1, <1>2, <1>3, <2>1 DEF AdviceInv, CaseOK, Passing
<1> QED BY <1>1, <1>3, <1>4, <1>5, <1>6, SavesKeeps

LEMMA LoadArtifactsKeeps == AdviceInv /\ LoadArtifacts => AdviceInv'
<1> SUFFICES ASSUME AdviceInv, LoadArtifacts PROVE AdviceInv'
  OBVIOUS
<1> DEFINE r == [run EXCEPT !.pc = "verify", !.application = disk.application,
                            !.retrieval = disk.retrieval, !.suggestion = disk.suggestion]
<1>1. /\ cp.current = "guardrails" /\ cp.status = "running" /\ run.pc = "start"
      /\ disk.application # NoValue /\ disk.retrieval # NoValue /\ disk.suggestion # NoValue
      /\ Saves(disk, r)
  BY DEF LoadArtifacts, Loads, On, At
<1>2. /\ RunIs(r) /\ r.pc = "verify" /\ r.application = disk.application
      /\ r.retrieval = disk.retrieval /\ r.suggestion = disk.suggestion
  <2>1. RunIs(run)
    BY DEF AdviceInv, Shaped
  <2> QED BY <2>1 DEF RunIs
<1> HIDE DEF r
<1>3. /\ Past(cp) = {"document_processing", "financial_analysis", "eligibility",
                     "precedent_retrieval", "suggestion"}
  BY <1>1, Befores DEF Past
<1>4. /\ disk.application = App(cp.evidence) /\ Settled(disk.retrieval.eligibility, cp)
      /\ Drawn(disk.suggestion, disk.retrieval, cp)
  BY <1>1, <1>3 DEF AdviceInv, DiskOK
<1>5. RunOK(r, disk, cp) /\ Posted(cp, r)
  BY <1>1, <1>2, <1>4 DEF AdviceInv, RunOK, Posted
<1>6. sent = NoValue => CaseOK(onCase, guarded, r, disk, cp)
  BY <1>1, <1>2, <1>3 DEF AdviceInv, CaseOK, Passing
<1> QED BY <1>1, <1>2, <1>5, <1>6, SavesKeeps DEF AdviceInv, Shaped

\* Documents are read, and the case is handed over, with nothing saved yet.
LEMMA LoadingKeeps == AdviceInv /\ (LoadDocuments \/ HandOff) => AdviceInv'
<1> SUFFICES ASSUME AdviceInv, LoadDocuments \/ HandOff PROVE AdviceInv'
  OBVIOUS
<1>1. RunIs(run)
  BY DEF AdviceInv, Shaped
<1>2. CASE LoadDocuments
  <2> DEFINE r == [run EXCEPT !.pc = "extract"]
  <2>1. Loads(r) /\ cp.status = "running"
    BY <1>2 DEF LoadDocuments, On, At
  <2>2. RunIs(r) /\ r.pc = "extract"
    BY <1>1 DEF RunIs
  <2> HIDE DEF r
  <2> QED BY <2>1, <2>2, LoadsKeeps
<1>3. CASE HandOff
  <2> DEFINE r == [run EXCEPT !.pc = "advance"]
  <2>1. Loads(r) /\ cp.status = "running" /\ cp.current = "human_review"
    BY <1>3 DEF HandOff, On, At
  <2>2. RunIs(r) /\ r.pc = "advance"
    BY <1>1 DEF RunIs
  <2> HIDE DEF r
  <2> QED BY <2>1, <2>2, LoadsKeeps
<1> QED BY <1>2, <1>3

\* Every way a worker fails, meets a limit or refuses.
LEMMA StoppingKeeps ==
  AdviceInv /\ (Blocked \/ FactMissing \/ FactUnusable \/ CheckReceipts \/ Refuse
                \/ Fails \/ LimitReached) => AdviceInv'
<1> SUFFICES ASSUME AdviceInv, Blocked \/ FactMissing \/ FactUnusable \/ CheckReceipts \/ Refuse
                               \/ Fails \/ LimitReached
             PROVE  AdviceInv'
  OBVIOUS
<1>1. cp.status = "running"
  BY DEF Blocked, FactMissing, FactUnusable, CheckReceipts, Refuse, Fails, LimitReached,
         Extracting, On, At, AdviceInv, Posted
<1>2. \E s \in {"failed_retryable", "needs_attention", "failed_terminal"} : Stop(s)
  <2>1. CASE Blocked
    BY <2>1 DEF Blocked
  <2>2. CASE FactUnusable
    BY <2>2 DEF FactUnusable
  <2>3. CASE Refuse
    BY <2>3 DEF Refuse, Verdict
  <2> QED
    BY <2>1, <2>2, <2>3 DEF FactMissing, CheckReceipts, Fails, LimitReached
<1> QED BY <1>1, <1>2, StopKeeps

LEMMA ResumeKeeps == AdviceInv /\ Resume => AdviceInv'
<1> SUFFICES ASSUME AdviceInv, Resume PROVE AdviceInv'
  OBVIOUS
<1>1. Parks("running") /\ cp.status # "waiting_for_review"
  <2>1. Starting # Idle
    BY IdleRun
  <2> QED BY <2>1 DEF Resume, Parks
<1> QED BY <1>1, ParksKeeps

LEMMA AdvanceKeeps == AdviceInv /\ Advance => AdviceInv'
<1> SUFFICES ASSUME AdviceInv, Advance PROVE AdviceInv'
  OBVIOUS
<1> DEFINE r == [run EXCEPT !.pc = "commit"]
<1>1. /\ run.pc = "advance" /\ cp.status = "running" /\ run' = r
      /\ UNCHANGED <<book, hash, stored, disk, cp, sent, guarded>>
      /\ onCase' = IF cp.current = "suggestion" /\ onCase = NoValue
                   THEN run.suggestion ELSE onCase
      /\ handed' = (handed \/ cp.current = "human_review")
  BY DEF Advance, process, corpus
<1>2. cp.current \in Workers \ {"precedent_retrieval", "guardrails"}
  BY <1>1 DEF AdviceInv, Posted
<1>3. /\ RunIs(r) /\ r.pc = "commit" /\ r.application = run.application
      /\ r.eligibility = run.eligibility
  <2>1. RunIs(run)
    BY DEF AdviceInv, Shaped
  <2> QED BY <2>1 DEF RunIs
<1> HIDE DEF r
<1>4. Posted(cp, r) /\ SentOK(handed', sent, cp)
  BY <1>1, <1>2, <1>3 DEF AdviceInv, Posted, SentOK
<1>5. RunOK(r, disk, cp)
  BY <1>1, <1>2, <1>3 DEF AdviceInv, RunOK
<1>6. Passing(cp, r) => Passing(cp, run)
  BY <1>2 DEF Passing
<1>7. GuardedOK(guarded, r, cp)
  BY <1>6 DEF AdviceInv, GuardedOK
<1>8. sent = NoValue => CaseOK(onCase', guarded, r, disk, cp)
  BY <1>1, <1>2, <1>3, <1>6 DEF AdviceInv, CaseOK
<1>9. Shaped'
  BY <1>1, <1>3 DEF AdviceInv, Shaped
<1> QED BY <1>1, <1>4, <1>5, <1>7, <1>8, <1>9 DEF AdviceInv, ProcessOK

LEMMA PassKeeps == AdviceInv /\ Pass => AdviceInv'
<1> SUFFICES ASSUME AdviceInv, Pass PROVE AdviceInv'
  OBVIOUS
<1> DEFINE r == [run EXCEPT !.pc = "commit"]
           g == [retrieval |-> run.retrieval, suggestion |-> run.suggestion]
<1>1. /\ cp.current = "guardrails" /\ cp.status = "running" /\ run.pc = "verify"
      /\ run' = r /\ guarded' = g
      /\ UNCHANGED <<book, hash, stored, disk, cp, onCase, handed, sent>>
  BY DEF Pass, At, process, corpus, case
<1>2. RunIs(r) /\ r.pc = "commit"
  <2>1. RunIs(run)
    BY DEF AdviceInv, Shaped
  <2> QED BY <2>1 DEF RunIs
<1>3. g.retrieval = run.retrieval /\ g.suggestion = run.suggestion /\ g # Nothing
  BY DEF Nothing
<1> HIDE DEF r, g
<1>4. Settled(run.retrieval.eligibility, cp) /\ Drawn(run.suggestion, run.retrieval, cp)
  BY <1>1 DEF AdviceInv, RunOK
<1>5. \A p \in ListedIn(run.retrieval.matches) :
        FunderOf[p] \in EligibleIn(run.retrieval.eligibility)
  <2>1. EligibleOnly
    BY DEF Pass, Verdict
  <2> DEFINE e == run.retrieval.eligibility
  <2>2. cp.eligibility = [f \in DOMAIN e |-> e[f].failed]
    BY <1>4 DEF Settled, FailedOf
  <2> HIDE DEF e
  <2>3. {f \in DOMAIN cp.eligibility : cp.eligibility[f] = {}} = EligibleIn(e)
    BY <2>2 DEF EligibleIn
  <2> QED BY <2>1, <2>3 DEF EligibleOnly, e
<1>6. GuardedOK(g, r, cp)
  BY <1>3, <1>4, <1>5 DEF GuardedOK
<1>7. Posted(cp, r) /\ RunOK(r, disk, cp)
  BY <1>1, <1>2 DEF AdviceInv, Posted, RunOK
<1>8. sent = NoValue => CaseOK(onCase, g, r, disk, cp)
  BY <1>1, <1>2, <1>3, <1>4 DEF AdviceInv, CaseOK
<1>9. Shaped'
  BY <1>1, <1>2 DEF AdviceInv, Shaped
<1> QED BY <1>1, <1>6, <1>7, <1>8, <1>9 DEF AdviceInv, ProcessOK

(***************************************************************************)
(* A worker is done: the checkpoint takes what it stands for.              *)
(***************************************************************************)
LEMMA Committed ==
  ASSUME AdviceInv, Commit
  PROVE  /\ UNCHANGED <<book, hash, stored, disk, onCase, handed, sent, guarded>>
         /\ CpIs(cp') /\ RunIs(run')
         /\ cp.status = "running" /\ run.pc = "commit"
         /\ cp'.status = IF cp.current = "human_review" THEN "waiting_for_review" ELSE "running"
         /\ cp'.current = IF cp.current = "human_review"
                          THEN cp.current ELSE Order[Index(cp.current) + 1]
         /\ run'.pc = IF cp.current = "human_review" THEN "idle" ELSE "start"
         /\ DOMAIN cp'.receipts = DOMAIN cp.receipts \cup {cp.current}
         /\ cp'.evidence = IF cp.current = "financial_analysis"
                           THEN run.application.evidence ELSE cp.evidence
         /\ cp'.eligibility = IF cp.current = "eligibility"
                              THEN FailedOf(run.eligibility) ELSE cp.eligibility
<1> DEFINE status == IF cp.current = "human_review" THEN "waiting_for_review" ELSE "running"
           current == IF cp.current = "human_review"
                      THEN cp.current ELSE Order[Index(cp.current) + 1]
           receipts == [x \in DOMAIN cp.receipts \cup {cp.current} |->
                          IF x = cp.current THEN hash ELSE cp.receipts[x]]
           evidence == IF cp.current = "financial_analysis"
                       THEN run.application.evidence ELSE cp.evidence
           eligibility == IF cp.current = "eligibility"
                          THEN FailedOf(run.eligibility) ELSE cp.eligibility
           k == [cp EXCEPT !.status = status, !.current = current, !.receipts = receipts,
                           !.evidence = evidence, !.eligibility = eligibility]
<1>1. /\ UNCHANGED <<book, hash, stored, disk, onCase, handed, sent, guarded>>
      /\ run.pc = "commit" /\ cp.status = "running"
      /\ run' = IF cp.current = "human_review" THEN Idle ELSE Starting
  BY DEF Commit, process, corpus, case
<1>2. cp' = k
  BY DEF Commit, FailedOf
<1>3. DOMAIN receipts = DOMAIN cp.receipts \cup {cp.current}
  OBVIOUS
<1> HIDE DEF status, current, receipts, evidence, eligibility
<1>4. /\ CpIs(k) /\ k.status = status /\ k.current = current /\ k.receipts = receipts
      /\ k.evidence = evidence /\ k.eligibility = eligibility
  <2>1. CpIs(cp)
    BY DEF AdviceInv, Shaped
  <2> QED BY <2>1 DEF CpIs
<1> HIDE DEF k
<1> QED
  BY <1>1, <1>2, <1>3, <1>4, IdleRun DEF status, current, evidence, eligibility

\* What stands behind evidence or results is something.
LEMMA SomeEvidence ==
  ASSUME NEW e, DOMAIN e = Facts
  PROVE  e # Nothing
  BY AdviceAssumption DEF Nothing

LEMMA SomeResults ==
  ASSUME NEW results, NEW e, Sound(results, e)
  PROVE  FailedOf(results) # Nothing
<1>1. PICK b \in Books : results = EvaluateAll(ProfileOf(e), b)
  BY DEF Sound
<1>2. DOMAIN FailedOf(results) # {}
  BY <1>1, AdviceAssumption DEF FailedOf, EvaluateAll
<1> QED BY <1>2 DEF Nothing

LEMMA CommitKeeps == AdviceInv /\ Commit => AdviceInv'
<1> SUFFICES ASSUME AdviceInv, Commit PROVE AdviceInv'
  OBVIOUS
<1>0. PICK w, k, r : w = cp.current /\ k = cp' /\ r = run'
  OBVIOUS
<1>1. /\ UNCHANGED <<book, hash, stored, disk, onCase, handed, sent, guarded>>
      /\ CpIs(k) /\ RunIs(r)
      /\ cp.status = "running" /\ run.pc = "commit" /\ w = cp.current
      /\ k.status = IF w = "human_review" THEN "waiting_for_review" ELSE "running"
      /\ k.current = IF w = "human_review" THEN w ELSE Order[Index(w) + 1]
      /\ r.pc = IF w = "human_review" THEN "idle" ELSE "start"
      /\ DOMAIN k.receipts = DOMAIN cp.receipts \cup {w}
      /\ k.evidence = IF w = "financial_analysis" THEN run.application.evidence ELSE cp.evidence
      /\ k.eligibility = IF w = "eligibility" THEN FailedOf(run.eligibility) ELSE cp.eligibility
  BY <1>0, Committed
<1>2. w \in Workers
  BY <1>1 DEF AdviceInv, Posted
<1>3. /\ Past(k) = Past(cp) \cup {w} /\ k.current \in Workers
      /\ w \notin Past(cp)
      /\ Past(cp) = Before(w)
  <2>1. CASE w = "human_review"
    BY <1>1, <2>1, Befores, TheWorkers DEF Past
  <2>2. CASE w # "human_review"
    BY <1>1, <1>2, <2>2, NextInOrder, TheWorkers, Befores DEF Past, Stages
  <2> QED BY <2>1, <2>2
<1>4. /\ w # "financial_analysis" /\ w # "eligibility"
           => /\ \A x : Settled(x, cp) <=> Settled(x, k)
              /\ \A s, q : Drawn(s, q, cp) <=> Drawn(s, q, k)
  BY <1>1, SameClaims
<1>5. Posted(k, r)
  BY <1>1, <1>3 DEF Posted
<1>6. Recorded(k)
  <2>1. w = "financial_analysis" => k.evidence # Nothing
    BY <1>1, SomeEvidence DEF AdviceInv, RunOK
  <2>2. w = "eligibility" => k.eligibility # Nothing
    BY <1>1, SomeResults DEF AdviceInv, RunOK
  <2> QED BY <1>1, <1>3, <2>1, <2>2 DEF AdviceInv, Recorded
<1>7. SentOK(handed, sent, k)
  <2>1. Index(k.current) >= Index(w) /\ Index(w) \in 1..7 /\ Index(k.current) \in 1..7
    <3>1. CASE w = "human_review"
      BY <1>1, <3>1, Indices
    <3>2. CASE w # "human_review"
      BY <1>1, <1>2, <3>2, NextInOrder, Indices, TheWorkers DEF Stages
    <3> QED BY <3>1, <3>2
  <2>2. \A s \in Stages : Index(s) \in 1..7
    BY Indices, TheWorkers DEF Stages
  <2> QED BY <1>1, <2>1, <2>2 DEF AdviceInv, SentOK
<1>8. DiskOK(disk, k)
  <2>1. CASE w = "financial_analysis"
    <3>1. Past(k) = {"document_processing", "financial_analysis"}
      BY <1>3, <2>1, Befores
    <3>2. disk.application # NoValue => disk.application = App(k.evidence)
      BY <1>1, <2>1 DEF AdviceInv, RunOK
    <3> QED BY <3>1, <3>2 DEF DiskOK
  <2>2. CASE w = "eligibility"
    <3>1. Past(k) = {"document_processing", "financial_analysis", "eligibility"}
      BY <1>3, <2>2, Befores
    <3>2. disk.application # NoValue => disk.application = App(k.evidence)
      BY <1>1, <1>3, <2>2, Befores DEF AdviceInv, DiskOK
    <3>3. disk.eligibility # NoValue => Settled(disk.eligibility, k)
      BY <1>1, <2>2 DEF AdviceInv, RunOK, Settled
    <3> QED BY <3>1, <3>2, <3>3 DEF DiskOK
  <2>3. CASE w # "financial_analysis" /\ w # "eligibility"
    <3>1. DiskOK(disk, cp) /\ RunOK(run, disk, cp) /\ k.evidence = cp.evidence
      BY <1>1, <2>3 DEF AdviceInv
    <3> QED BY <1>1, <1>3, <1>4, <2>3, <3>1 DEF DiskOK, RunOK
  <2> QED BY <2>1, <2>2, <2>3
<1>9. RunOK(r, disk, k)
  BY <1>1 DEF RunOK
<1>10. Passing(k, r) => Passing(cp, run) /\ w # "financial_analysis" /\ w # "eligibility"
  BY <1>1, <1>3, Befores DEF Passing
<1>11. GuardedOK(guarded, r, k)
  BY <1>4, <1>10 DEF AdviceInv, GuardedOK
<1>12. sent = NoValue => CaseOK(onCase, guarded, r, disk, k)
  <2> SUFFICES ASSUME sent = NoValue PROVE CaseOK(onCase, guarded, r, disk, k)
    OBVIOUS
  <2>1. CaseOK(onCase, guarded, run, disk, cp)
    BY DEF AdviceInv
  <2>2. w \in {"suggestion", "guardrails", "human_review"}
          => k.current \in {"suggestion", "guardrails", "human_review"}
    BY <1>1, Indices, TheOrder
  <2>3. "suggestion" \in Past(k) => w \in {"suggestion", "guardrails", "human_review"}
    BY <1>2, <1>3, Befores, TheWorkers
  <2> QED BY <1>1, <1>3, <1>4, <1>10, <2>1, <2>2, <2>3 DEF CaseOK
<1>13. Shaped'
  BY <1>0, <1>1 DEF AdviceInv, Shaped
<1> QED
  BY <1>0, <1>1, <1>5, <1>6, <1>7, <1>8, <1>9, <1>11, <1>12, <1>13 DEF AdviceInv, ProcessOK

(***************************************************************************)
(* A send-back: the artifacts from its worker on go, and so do the claims  *)
(* of the checkpoint, unless the call is cut off before the rewind.        *)
(***************************************************************************)
LEMMA InvalidatedIs ==
  ASSUME NEW w \in Stages
  PROVE  LET d == Invalidated(w)
         IN  /\ DiskIs(d)
             /\ d.application \in {NoValue, disk.application}
             /\ d.eligibility \in {NoValue, disk.eligibility}
             /\ d.retrieval \in {NoValue, disk.retrieval}
             /\ d.suggestion \in {NoValue, disk.suggestion}
  BY DEF Invalidated, DiskIs

\* Nothing that is left is anything else than it was.
LEMMA LessIsKept ==
  ASSUME NEW d, NEW e, NEW c, DiskOK(d, c),
         e.application \in {NoValue, d.application}, e.eligibility \in {NoValue, d.eligibility},
         e.retrieval \in {NoValue, d.retrieval}, e.suggestion \in {NoValue, d.suggestion}
  PROVE  DiskOK(e, c) /\ \A r : RunOK(r, d, c) => RunOK(r, e, c)
<1>1. DiskOK(e, c)
  BY DEF DiskOK
<1>2. ASSUME NEW r, RunOK(r, d, c) PROVE RunOK(r, e, c)
  BY <1>2 DEF RunOK
<1> QED BY <1>1, <1>2

LEMMA AskedKeeps ==
  ASSUME AdviceInv, NEW w \in Stages, Asks(w)
  PROVE  /\ handed /\ sent' = w /\ w # NoValue
         /\ Index(cp.current) >= Index(w) /\ Index(w) \in 1..6
         /\ UNCHANGED <<book, hash, stored, onCase, handed, guarded>>
<1>1. /\ UNCHANGED <<book, hash, stored, onCase, handed, guarded>>
      /\ sent' = w /\ w # NoValue
      /\ (handed /\ sent = NoValue) \/ sent = w
  BY AdviceAssumption DEF Asks, process, corpus
<1>2. Index(w) \in 1..6
  BY Indices, TheWorkers DEF Stages
<1>3. handed /\ Index(cp.current) >= Index(w)
  BY <1>1, <1>2, Indices DEF AdviceInv, SentOK
<1> QED BY <1>1, <1>2, <1>3

LEMMA SendBackFailsKeeps ==
  ASSUME AdviceInv, NEW w \in Stages, SendBackFails(w)
  PROVE  AdviceInv'
<1> DEFINE d == Invalidated(w)
<1>1. Asks(w) /\ disk' = d /\ UNCHANGED <<cp, run>>
  BY DEF SendBackFails, Asks
<1>2. /\ handed /\ sent' = w /\ w # NoValue /\ Index(cp.current) >= Index(w)
      /\ UNCHANGED <<book, hash, stored, onCase, handed, guarded>>
  BY <1>1, AskedKeeps
<1>3. /\ DiskIs(d)
      /\ d.application \in {NoValue, disk.application}
      /\ d.eligibility \in {NoValue, disk.eligibility}
      /\ d.retrieval \in {NoValue, disk.retrieval}
      /\ d.suggestion \in {NoValue, disk.suggestion}
  BY InvalidatedIs
<1> HIDE DEF d
<1>4. DiskOK(d, cp) /\ RunOK(run, d, cp)
  BY <1>3, LessIsKept DEF AdviceInv
<1>5. SentOK(handed, w, cp)
  BY <1>2 DEF AdviceInv, SentOK
<1>6. Shaped'
  BY <1>1, <1>3 DEF AdviceInv, Shaped
<1> QED BY <1>1, <1>2, <1>4, <1>5, <1>6 DEF AdviceInv, ProcessOK

\* What the earlier workers left is kept with the claims it is held against.
LEMMA SendBackKeeps ==
  ASSUME AdviceInv, NEW w \in Stages, SendBack(w)
  PROVE  AdviceInv'
<1> DEFINE d == Invalidated(w)
           k == Rewound(w)
<1>1. /\ Asks(w) /\ disk' = d /\ cp' = k /\ run' = Starting
      /\ cp.status \in {"waiting_for_review", "needs_attention"}
  BY DEF SendBack, Asks
<1>2. /\ handed /\ sent' = w /\ w # NoValue
      /\ Index(cp.current) >= Index(w) /\ Index(w) \in 1..6
      /\ UNCHANGED <<book, hash, stored, onCase, handed, guarded>>
  BY <1>1, AskedKeeps
<1>3. /\ CpIs(k) /\ k.current = w /\ k.status = "running"
      /\ DOMAIN k.receipts = DOMAIN cp.receipts \cap Before(w)
      /\ k.evidence = IF Index(w) <= Index("financial_analysis") THEN Nothing ELSE cp.evidence
      /\ k.eligibility = IF Index(w) <= Index("eligibility") THEN Nothing ELSE cp.eligibility
  BY DEF Rewound, CpIs
<1>4. /\ DiskIs(d)
      /\ d.application \in {NoValue, disk.application}
      /\ d.eligibility \in {NoValue, disk.eligibility}
      /\ d.retrieval \in {NoValue, disk.retrieval}
      /\ d.suggestion \in {NoValue, disk.suggestion}
  BY InvalidatedIs
<1> HIDE DEF d, k
<1>5. Past(k) = Before(w) /\ Before(w) \subseteq Past(cp)
  <2>1. cp.current \in Workers
    BY DEF AdviceInv, Posted
  <2>2. Before(w) \subseteq Workers
    BY TheWorkers, Befores DEF Stages
  <2>3. Index(cp.current) \in 1..7
    BY <2>1, TheWorkers, Indices
  <2>4. Before(w) \subseteq Before(cp.current)
    BY <1>2, <2>3 DEF Before
  <2> QED BY <1>1, <1>3, <2>2, <2>4 DEF Past
<1>6. /\ "financial_analysis" \in Before(w) <=> ~(Index(w) <= Index("financial_analysis"))
      /\ "eligibility" \in Before(w) <=> ~(Index(w) <= Index("eligibility"))
      /\ "eligibility" \in Before(w) => "financial_analysis" \in Before(w)
      /\ "precedent_retrieval" \in Before(w) => "eligibility" \in Before(w)
      /\ "suggestion" \in Before(w) => "precedent_retrieval" \in Before(w)
      /\ "guardrails" \notin Before(w)
  BY Befores, Indices, TheWorkers DEF Stages
<1>7. Posted(k, Starting)
  BY <1>3, IdleRun DEF Posted, Stages
<1>8. Recorded(k)
  BY <1>3, <1>5, <1>6 DEF AdviceInv, Recorded
<1>9. SentOK(handed, w, k)
  BY <1>2, <1>3 DEF AdviceInv, SentOK
<1>10. DiskOK(d, k)
  <2>1. DiskOK(d, cp)
    BY <1>4, LessIsKept DEF AdviceInv
  <2>2. "financial_analysis" \in Past(k) => k.evidence = cp.evidence
    BY <1>3, <1>5, <1>6
  <2>3. "eligibility" \in Past(k) => k.eligibility = cp.eligibility /\ k.evidence = cp.evidence
    BY <1>3, <1>5, <1>6
  <2>4. "eligibility" \in Past(k) => /\ \A x : Settled(x, cp) <=> Settled(x, k)
                                     /\ \A s, q : Drawn(s, q, cp) <=> Drawn(s, q, k)
    BY <2>3, SameClaims
  <2> QED BY <1>5, <1>6, <2>1, <2>2, <2>4 DEF DiskOK
<1>11. RunOK(Starting, d, k) /\ GuardedOK(guarded, Starting, k)
  BY <1>5, <1>6, IdleRun DEF RunOK, GuardedOK, Passing
<1>12. Shaped'
  BY <1>1, <1>3, <1>4, IdleRun DEF Shaped
<1> QED
  BY <1>1, <1>2, <1>7, <1>8, <1>9, <1>10, <1>11, <1>12 DEF AdviceInv, ProcessOK

(***************************************************************************)
(* The world, and the whole.                                               *)
(***************************************************************************)
LEMMA WorldKeeps ==
  AdviceInv /\ ((\E p \in Precedents : PrecedentChanges(p)) \/ Restart) => AdviceInv'
<1> SUFFICES ASSUME AdviceInv, (\E p \in Precedents : PrecedentChanges(p)) \/ Restart
             PROVE  AdviceInv'
  OBVIOUS
<1>1. ProcessOK' /\ UNCHANGED <<disk, cp, run, onCase, handed, sent, guarded>>
  <2>1. CASE Restart
    BY <2>1 DEF Restart, AdviceInv, ProcessOK, corpus, case
  <2>2. CASE \E p \in Precedents : PrecedentChanges(p)
    BY <2>2 DEF PrecedentChanges, AdviceInv, ProcessOK, process, case
  <2> QED BY <2>1, <2>2
<1> QED BY <1>1 DEF AdviceInv, Shaped

LEMMA AdviceStarts == Init => AdviceInv
<1> SUFFICES ASSUME Init PROVE AdviceInv
  OBVIOUS
<1>1. /\ cp.current = "document_processing" /\ cp.status = "running"
      /\ cp.receipts = Nothing /\ cp.evidence = Nothing /\ cp.eligibility = Nothing
      /\ CpIs(cp)
  BY TheOrder DEF Init, CpIs
<1>2. DiskIs(disk)
  BY DEF Init, EmptyDisk, DiskIs
<1>3. run.pc = "start" /\ RunIs(run)
  BY IdleRun DEF Init
<1>4. onCase = NoValue /\ handed = FALSE /\ sent = NoValue
  BY DEF Init
<1>5. ProcessOK
  BY AdviceAssumption DEF Init, ProcessOK, PrecedentStates
<1>6. Past(cp) = {} /\ "document_processing" \in Workers
  BY <1>1, Befores, TheWorkers DEF Past
<1>7. Posted(cp, run) /\ Recorded(cp) /\ SentOK(handed, sent, cp)
  <2>1. Posted(cp, run)
    BY <1>1, <1>3, <1>6 DEF Posted
  <2>2. DOMAIN Nothing = {}
    BY DEF Nothing
  <2>3. Recorded(cp)
    BY <1>1, <1>6, <2>2 DEF Recorded
  <2> QED BY <1>4, <2>1, <2>3 DEF SentOK
<1>8. DiskOK(disk, cp) /\ RunOK(run, disk, cp) /\ GuardedOK(guarded, run, cp)
  BY <1>1, <1>3, <1>6 DEF DiskOK, RunOK, GuardedOK, Passing
<1>9. CaseOK(onCase, guarded, run, disk, cp)
  BY <1>1, <1>3, <1>4, <1>6 DEF CaseOK, Passing
<1> QED BY <1>1, <1>2, <1>3, <1>5, <1>7, <1>8, <1>9 DEF AdviceInv, Shaped

LEMMA AdviceStutters == AdviceInv /\ UNCHANGED vars => AdviceInv'
<1> SUFFICES ASSUME AdviceInv, UNCHANGED vars PROVE AdviceInv'
  OBVIOUS
<1>1. UNCHANGED <<book, hash, stored, disk, cp, run, onCase, handed, sent, guarded>>
  BY DEF vars, process, corpus, case
<1> QED BY <1>1 DEF AdviceInv, ProcessOK, Shaped

\* The artifacts, what the worker under way holds, the checkpoint, the case and what the
\* guardrails let through agree at every step.
THEOREM AdviceInvariant == Spec => []AdviceInv
<1>1. AdviceInv /\ [Next]_vars => AdviceInv'
  <2> SUFFICES ASSUME AdviceInv, [Next]_vars PROVE AdviceInv'
    OBVIOUS
  <2>1. CASE ProcessDocuments \/ Extract \/ FormProfile \/ Evaluate \/ Retrieve \/ SearchProfile
    BY <2>1, ProcessDocumentsKeeps, ExtractKeeps, FormProfileKeeps, EvaluateKeeps, RetrieveKeeps
  <2>2. CASE \/ NobodyEligible \/ SearchComments \/ Suggest
             \/ LoadArtifacts \/ LoadDocuments \/ HandOff
    BY <2>2, SearchesKeep, SuggestKeeps, LoadArtifactsKeeps, LoadingKeeps
  <2>3. CASE \/ Blocked \/ FactMissing \/ FactUnusable \/ CheckReceipts \/ Refuse
             \/ Fails \/ LimitReached \/ Resume
    BY <2>3, StoppingKeeps, ResumeKeeps
  <2>4. CASE Advance \/ Pass \/ Commit
    BY <2>4, AdvanceKeeps, PassKeeps, CommitKeeps
  <2>5. CASE \E w \in Stages : SendBack(w) \/ SendBackFails(w)
    BY <2>5, SendBackKeeps, SendBackFailsKeeps
  <2>6. CASE (\E p \in Precedents : PrecedentChanges(p)) \/ Restart
    BY <2>6, WorldKeeps
  <2>7. CASE UNCHANGED vars
    BY <2>7, AdviceStutters
  <2> QED BY <2>1, <2>2, <2>3, <2>4, <2>5, <2>6, <2>7 DEF Next
<1> QED BY <1>1, AdviceStarts, PTL DEF Spec

\* Every variable has its type; and the checkpoint holds the evidence, the eligibility and
\* the receipts of the workers that are done and of no other, through any number of
\* failures, resumes and rewinds.
THEOREM AdviceTypeCorrect == Spec => []TypeOK
<1>1. AdviceInv => TypeOK
  <2> SUFFICES ASSUME AdviceInv PROVE TypeOK
    OBVIOUS
  <2>1. Past(cp) = Done
    BY DEF Past, Done
  <2> QED BY <2>1 DEF AdviceInv, ProcessOK, Posted, Recorded, SentOK, TypeOK
<1> QED BY <1>1, AdviceInvariant, PTL

\* Until a send-back, the suggestion on the case that waits for its reviewer says what the
\* guardrails let through, whatever failed, ran again, restarted or changed in between.
THEOREM ReviewedCorrect == Spec => []ReviewedIsValidated
<1>1. AdviceInv => ReviewedIsValidated
  <2> SUFFICES ASSUME AdviceInv, sent = NoValue, cp.status = "waiting_for_review"
               PROVE  guarded # Nothing /\ SaysTheSame(onCase, guarded.suggestion)
    BY DEF ReviewedIsValidated
  <2>1. "suggestion" \in Past(cp) /\ "guardrails" \in Past(cp)
    BY TheWorkers DEF Past
  <2>2. /\ guarded # Nothing
        /\ Drawn(onCase, disk.retrieval, cp) /\ Drawn(guarded.suggestion, disk.retrieval, cp)
    BY <2>1 DEF AdviceInv, GuardedOK, CaseOK, Passing
  <2> QED BY <2>2 DEF SaysTheSame, Drawn
<1> QED BY <1>1, AdviceInvariant, PTL

\* What waits for a reviewer, before or after a send-back, follows from the checkpoint's
\* evidence under one policy file: who passed is a candidate, who failed is excluded for
\* what failed, and each precedent shown is one of the retrieved, shown to its funder.
THEOREM GroundedCorrect == Spec => []AdviceIsGrounded
<1>1. AdviceInv => AdviceIsGrounded
  <2> SUFFICES ASSUME AdviceInv, cp.status = "waiting_for_review"
               PROVE  AdviceIsGrounded
    BY DEF AdviceIsGrounded
  <2> DEFINE r == guarded.retrieval
             s == guarded.suggestion
             e == r.eligibility
             policies == [f \in DOMAIN e |-> e[f].requirement]
  <2>1. "guardrails" \in Past(cp)
    BY TheWorkers DEF Past
  <2>2. /\ Settled(e, cp) /\ Drawn(s, r, cp)
        /\ \A p \in ListedIn(r.matches) : FunderOf[p] \in EligibleIn(e)
    BY <2>1 DEF AdviceInv, GuardedOK, Passing
  <2>3. PICK b \in Books : e = EvaluateAll(ProfileOf(cp.evidence), b)
    BY <2>2 DEF Settled, Sound
  <2>4. policies = b
    <3>1. b = [f \in DOMAIN b |-> b[f]]
      BY AdviceAssumption
    <3>2. DOMAIN e = DOMAIN b /\ \A f \in DOMAIN b : e[f].requirement = b[f]
      BY <2>3 DEF EvaluateAll
    <3> QED BY <3>1, <3>2
  <2>5. cp.eligibility = [f \in DOMAIN e |-> e[f].failed]
    BY <2>2 DEF Settled, FailedOf
  <2>6. /\ s.application = [evidence |-> cp.evidence, profile |-> ProfileOf(cp.evidence)]
        /\ s.candidates = [f \in EligibleIn(e) |-> MatchesOf(f, r.matches)]
        /\ s.excluded = [f \in DOMAIN e \ EligibleIn(e) |-> e[f].failed]
        /\ s.cited = ListedIn(r.matches)
    BY <2>2 DEF Drawn, App
  <2> HIDE DEF e, policies
  <2>7. policies \in Books /\ e = EvaluateAll(ProfileOf(cp.evidence), policies)
    BY <2>3, <2>4
  <2>8. DOMAIN s.candidates = EligibleIn(e)
    BY <2>6
  <2>9. \A f \in DOMAIN cp.eligibility \ EligibleIn(e) :
          f \in DOMAIN s.excluded /\ s.excluded[f] = cp.eligibility[f]
    BY <2>5, <2>6
  <2>10. \A f \in DOMAIN s.candidates, p \in s.cited : p \in s.candidates[f] <=> FunderOf[p] = f
    BY <2>6 DEF MatchesOf
  <2>11. s.cited = UNION {s.candidates[f] : f \in DOMAIN s.candidates}
    <3>1. \A f \in EligibleIn(e) : s.candidates[f] = {p \in s.cited : FunderOf[p] = f}
      BY <2>6 DEF MatchesOf
    <3>2. \A p \in s.cited : FunderOf[p] \in EligibleIn(e)
      BY <2>2, <2>6 DEF e
    <3> QED BY <2>8, <3>1, <3>2
  <2>12. Results(r) = cp.eligibility
    BY <2>5 DEF Results, e
  <2> QED
    BY <2>6, <2>7, <2>8, <2>9, <2>10, <2>11, <2>12 DEF AdviceIsGrounded, e, policies
<1> QED BY <1>1, AdviceInvariant, PTL

(***************************************************************************)
(* The ranking: a precedent's place is the number of those ahead of it     *)
(* plus one, and every place up to their number is somebody's.             *)
(***************************************************************************)
Ahead(score, p, q) == score[p] > score[q] \/ (score[p] = score[q] /\ p < q)
PlaceOf(found, score, p) == 1 + Cardinality({q \in found : Ahead(score, q, p)})

LEMMA PlacesFollow ==
  ASSUME NEW found, found \subseteq Nat, IsFiniteSet(found),
         NEW score, \A p \in found : score[p] \in Int
  PROVE  /\ \A p \in found : PlaceOf(found, score, p) \in 1..Cardinality(found)
         /\ \A p, q \in found :
              Ahead(score, p, q) => PlaceOf(found, score, p) < PlaceOf(found, score, q)
         /\ \A p, q \in found :
              PlaceOf(found, score, p) < PlaceOf(found, score, q) => Ahead(score, p, q)
         /\ \A p, q \in found : PlaceOf(found, score, p) = PlaceOf(found, score, q) => p = q
<1> DEFINE First(p) == {q \in found : Ahead(score, q, p)}
<1>1. Cardinality(found) \in Nat
  BY FS_CardinalityType
<1>2. ASSUME NEW p \in found
      PROVE  /\ Cardinality(First(p)) \in Nat /\ Cardinality(First(p)) <= Cardinality(found) - 1
             /\ IsFiniteSet(First(p)) /\ p \notin First(p)
  <2>1. p \notin First(p)
    BY DEF Ahead
  <2>2. First(p) \in SUBSET (found \ {p})
    BY <2>1
  <2> HIDE DEF First
  <2>3. IsFiniteSet(found \ {p}) /\ Cardinality(found \ {p}) = Cardinality(found) - 1
    BY FS_RemoveElement
  <2>4. IsFiniteSet(First(p)) /\ Cardinality(First(p)) <= Cardinality(found \ {p})
    BY <2>2, <2>3, FS_Subset
  <2> QED BY <2>1, <2>3, <2>4, FS_CardinalityType
<1>3. ASSUME NEW p \in found, NEW q \in found, Ahead(score, p, q)
      PROVE  Cardinality(First(p)) < Cardinality(First(q))
  <2>1. First(p) \in SUBSET First(q)
    <3>1. ASSUME NEW x \in found, Ahead(score, x, p) PROVE Ahead(score, x, q)
      <4>1. score[x] \in Int /\ score[p] \in Int /\ score[q] \in Int
        OBVIOUS
      <4>2. x \in Nat /\ p \in Nat /\ q \in Nat
        OBVIOUS
      <4> QED BY <1>3, <3>1, <4>1, <4>2 DEF Ahead
    <3> QED BY <3>1
  <2>2. p \in First(q) /\ p \notin First(p)
    BY <1>2, <1>3
  <2> HIDE DEF First
  <2>3. /\ Cardinality(First(p)) <= Cardinality(First(q))
        /\ Cardinality(First(p)) # Cardinality(First(q))
    BY <1>2, <2>1, <2>2, FS_Subset
  <2> QED BY <1>2, <2>3
<1>4. \A p, q \in found : p = q \/ Ahead(score, p, q) \/ Ahead(score, q, p)
  BY DEF Ahead
<1>5. \A p : PlaceOf(found, score, p) = 1 + Cardinality(First(p))
  BY DEF PlaceOf
<1> HIDE DEF First
<1>6. \A p \in found : Cardinality(First(p)) \in Nat
  BY <1>2
<1>7. \A p, q \in found :
        Ahead(score, p, q) => PlaceOf(found, score, p) < PlaceOf(found, score, q)
  BY <1>3, <1>5, <1>6
<1>8. \A p \in found : PlaceOf(found, score, p) \in 1..Cardinality(found)
  BY <1>1, <1>2, <1>5
<1> QED BY <1>1, <1>4, <1>7, <1>8

LEMMA RankedIsBest ==
  ASSUME NEW found, found \subseteq Nat, IsFiniteSet(found),
         NEW score, \A p \in found : score[p] \in Int,
         NEW m, m = Ranked(found, score)
  PROVE  /\ Len(m) = Lesser(TopK, Cardinality(found)) /\ ListedIn(m) \subseteq found
         /\ \A i, j \in DOMAIN m : i < j => Ahead(score, m[i], m[j])
         /\ \A p \in ListedIn(m), q \in found \ ListedIn(m) : Ahead(score, p, q)
<1> DEFINE N == Cardinality(found)
           n == Lesser(TopK, N)
           Place(p) == PlaceOf(found, score, p)
           f == [p \in found |-> Place(p)]
<1>1. N \in Nat /\ n \in 0..N
  BY FS_CardinalityType, AdviceAssumption DEF Lesser
<1>2. m = [i \in 1..n |-> CHOOSE p \in found : Place(p) = i]
  BY DEF Ranked, PlaceOf, Ahead
<1>3. /\ \A p \in found : Place(p) \in 1..N
      /\ \A p, q \in found : Place(p) < Place(q) => Ahead(score, p, q)
      /\ \A p, q \in found : Place(p) = Place(q) => p = q
  BY PlacesFollow
<1> HIDE DEF Place, n, N
<1>4. f \in Surjection(found, 1..N)
  <2>1. f \in Injection(found, 1..N)
    BY <1>3 DEF Injection, IsInjective
  <2>2. IsFiniteSet(1..N) /\ Cardinality(1..N) = N
    BY <1>1, FS_Interval
  <2> QED BY <2>1, <2>2, FS_Injection DEF N
<1>5. \A i \in 1..N : \E p \in found : Place(p) = i
  BY <1>4 DEF Surjection
<1>6. DOMAIN m = 1..n /\ \A i \in 1..n : m[i] \in found /\ Place(m[i]) = i
  <2>1. \A i \in 1..n : i \in 1..N
    BY <1>1
  <2>2. ASSUME NEW i \in 1..n PROVE m[i] \in found /\ Place(m[i]) = i
    <3>1. \E p \in found : Place(p) = i
      BY <1>5, <2>1
    <3>2. m[i] = CHOOSE p \in found : Place(p) = i
      BY <1>2
    <3> QED BY <3>1, <3>2
  <2> QED BY <1>2, <2>2
<1>7. Len(m) = n
  <2>1. m \in Seq(found)
    <3>1. m \in [1..n -> found] /\ n \in Nat
      BY <1>1, <1>2, <1>6
    <3> QED BY <3>1
  <2> QED BY <1>1, <1>6, <2>1
<1>8. ListedIn(m) \subseteq found
  BY <1>6 DEF ListedIn
<1>9. \A i, j \in DOMAIN m : i < j => Ahead(score, m[i], m[j])
  BY <1>3, <1>6
<1>10. ASSUME NEW p \in ListedIn(m), NEW q \in found \ ListedIn(m) PROVE Ahead(score, p, q)
  <2>1. PICK i \in 1..n : p = m[i]
    BY <1>6 DEF ListedIn
  <2>2. Place(q) \notin 1..n
    <3>1. SUFFICES ASSUME Place(q) \in 1..n PROVE FALSE
      OBVIOUS
    <3>2. m[Place(q)] = q
      BY <1>3, <1>6, <3>1
    <3> QED BY <1>6, <3>1, <3>2 DEF ListedIn
  <2>3. Place(p) < Place(q)
    BY <1>1, <1>3, <1>6, <2>1, <2>2
  <2> QED BY <1>3, <1>8, <2>3
<1> QED BY <1>7, <1>8, <1>9, <1>10 DEF n, N

\* When both queries return the pool, as it is now, each of its precedents has its full score.
LEMMA WholePool ==
  ASSUME NEW pool, NEW hits, hits = [p \in pool |-> stored[p]]
  PROVE  Matches(hits, pool)
           = Ranked({p \in pool : stored[p] = "active" /\ FullScore(p) >= MinScore},
                    [p \in pool |-> FullScore(p)])
<1> DEFINE payload == [p \in DOMAIN hits \cup pool |-> IF p \in pool THEN stored[p] ELSE hits[p]]
           score == [p \in DOMAIN payload |-> Combined(p, DOMAIN hits, pool)]
           found == {p \in DOMAIN payload : /\ payload[p] = "active" /\ stored[p] # "lapsed"
                                            /\ score[p] >= MinScore}
<1>1. DOMAIN hits = pool
  OBVIOUS
<1>2. DOMAIN payload = pool /\ \A p \in pool : payload[p] = stored[p]
  BY <1>1
<1> HIDE DEF payload
<1>3. \A p \in pool : Combined(p, DOMAIN hits, pool) = FullScore(p)
  BY <1>1 DEF Combined, FullScore
<1>4. score = [p \in pool |-> FullScore(p)]
  BY <1>2, <1>3
<1>5. \A p \in pool : score[p] = FullScore(p)
  BY <1>4
<1> HIDE DEF score
<1>6. found = {p \in pool : stored[p] = "active" /\ FullScore(p) >= MinScore}
  BY <1>2, <1>5
<1>7. Matches(hits, pool) = Ranked(found, score)
  BY DEF Matches, payload, score
<1> HIDE DEF found
<1> QED BY <1>4, <1>6, <1>7

\* A pool that fits the limit is returned whole.
LEMMA NearestIsAll ==
  ASSUME NEW pool \in SUBSET Precedents, NEW score, NEW h \in Nearest(pool, score),
         Cardinality(pool) <= CandidateLimit
  PROVE  h = pool
<1>1. IsFiniteSet(pool)
  BY AdviceAssumption, FS_Subset
<1>2. Cardinality(pool) \in Nat
  BY <1>1, FS_CardinalityType
<1>3. h \in SUBSET pool /\ Cardinality(h) = Cardinality(pool)
  BY <1>2, AdviceAssumption DEF Nearest, Lesser
<1> QED BY <1>1, <1>3, FS_Subset

LEMMA OnlySearchEnds ==
  ASSUME [Next]_vars, run.pc = "comments", run'.pc = "commit"
  PROVE  SearchComments
<1>1. UNCHANGED run => FALSE
  OBVIOUS
<1>2. run' \in {Idle, Starting} => FALSE
  BY IdleRun
<1>3. ~UNCHANGED vars
  BY <1>1 DEF vars
<1>4. ~\E w \in Stages : SendBack(w) \/ SendBackFails(w)
  BY <1>1, <1>2 DEF SendBack, SendBackFails
<1>5. ~(\/ Restart \/ (\E p \in Precedents : PrecedentChanges(p)) \/ Resume \/ Fails)
  BY <1>1, <1>2 DEF Restart, PrecedentChanges, Resume, Fails, Stop
<1> QED
  BY <1>3, <1>4, <1>5
  DEF Next, ProcessDocuments, Blocked, LoadDocuments, Extract, FactMissing, FactUnusable,
      FormProfile, Extracting, Evaluate, Retrieve, NobodyEligible, SearchProfile, Suggest, HandOff,
      Advance, CheckReceipts, LoadArtifacts, Refuse, Pass, Commit, LimitReached, On, At

\* While the eligible funders' precedents fit the limit and none changes between the two
\* queries, the matches are the best of those in force that reach the minimum on both
\* vectors, in order: for any scores, weights, limits and number of precedents.
THEOREM RankingCorrect == Spec => RankingIsBest
<1> DEFINE pool == Pool(EligibleIn(Evaluated))
           best == {p \in pool : stored[p] = "active" /\ FullScore(p) >= MinScore}
           m == disk'.retrieval.matches
           Holds == /\ run.pc = "comments" /\ run'.pc = "commit"
                    /\ Cardinality(pool) <= CandidateLimit
                    /\ run.hits = [p \in pool |-> stored[p]]
                    => /\ Len(m) = Lesser(TopK, Cardinality(best))
                       /\ ListedIn(m) \subseteq best
                       /\ \A i, j \in DOMAIN m : i < j => Better(m[i], m[j])
                       /\ \A p \in ListedIn(m), q \in best \ ListedIn(m) : Better(p, q)
<1>1. AdviceInv /\ [Next]_vars => Holds
  <2> SUFFICES ASSUME AdviceInv, [Next]_vars, run.pc = "comments", run'.pc = "commit",
                      Cardinality(pool) <= CandidateLimit,
                      run.hits = [p \in pool |-> stored[p]]
               PROVE  /\ Len(m) = Lesser(TopK, Cardinality(best))
                      /\ ListedIn(m) \subseteq best
                      /\ \A i, j \in DOMAIN m : i < j => Better(m[i], m[j])
                      /\ \A p \in ListedIn(m), q \in best \ ListedIn(m) : Better(p, q)
    OBVIOUS
  <2> DEFINE score == [p \in pool |-> FullScore(p)]
  <2>1. pool \in SUBSET Precedents
    BY DEF Pool
  <2>2. \A p \in Precedents : FullScore(p) \in Int
    BY AdviceAssumption DEF FullScore
  <2>3. m = Matches(run.hits, pool)
    <3>1. PICK h \in Nearest(pool, CommentsScore) : Retrieved(Evaluated, Matches(run.hits, h))
      BY OnlySearchEnds DEF SearchComments
    <3>2. h = pool
      BY <2>1, <3>1, NearestIsAll
    <3>3. Retrieved(Evaluated, Matches(run.hits, pool))
      BY <3>1, <3>2
    <3> DEFINE retrieval == [eligibility |-> Evaluated, matches |-> Matches(run.hits, pool)]
    <3>4. disk' = [disk EXCEPT !.retrieval = retrieval]
      <4>1. ~Stop("needs_attention")
        BY IdleRun DEF Stop
      <4> QED BY <3>3, <4>1 DEF Retrieved, Saves
    <3>5. retrieval.matches = Matches(run.hits, pool)
      OBVIOUS
    <3> HIDE DEF retrieval
    <3>6. disk'.retrieval = retrieval
      <4>1. DiskIs(disk)
        BY DEF AdviceInv, Shaped
      <4> QED BY <3>4, <4>1 DEF DiskIs
    <3> QED BY <3>5, <3>6
  <2>4. m = Ranked(best, score)
    BY <2>3, WholePool
  <2>5. best \subseteq Nat /\ IsFiniteSet(best) /\ best \subseteq pool
    BY <2>1, AdviceAssumption, FS_Subset
  <2>6. \A p \in pool : score[p] = FullScore(p) /\ score[p] \in Int
    BY <2>1, <2>2
  <2>7. \A p, q \in pool : Ahead(score, p, q) => Better(p, q)
    BY <2>6 DEF Ahead, Better
  <2> HIDE DEF pool, best, score, m
  <2>8. \A p \in best : score[p] \in Int
    BY <2>5, <2>6
  <2>9. /\ Len(m) = Lesser(TopK, Cardinality(best)) /\ ListedIn(m) \subseteq best
        /\ \A i, j \in DOMAIN m : i < j => Ahead(score, m[i], m[j])
        /\ \A p \in ListedIn(m), q \in best \ ListedIn(m) : Ahead(score, p, q)
    BY <2>4, <2>5, <2>8, RankedIsBest
  <2>10. \A i \in DOMAIN m : m[i] \in ListedIn(m)
    BY DEF ListedIn
  <2> QED BY <2>5, <2>7, <2>9, <2>10
<1> QED BY <1>1, AdviceInvariant, PTL DEF Spec, RankingIsBest
=============================================================================
