------------------------------- MODULE Advice -------------------------------
(***************************************************************************)
(* What the workers of the agent compute: one application's thread goes    *)
(* from its documents to the advice a reviewer sees, through the artifacts *)
(* of its workspace.  Workers fail and are resumed, a reviewer sends the   *)
(* thread back, precedents change while it runs, and the process restarts  *)
(* under another policy file or guardrail policy.  This is the production  *)
(* composition.  Attempts are not counted (AgentCase does) but may run     *)
(* out; overlapping runs, cancels and decisions are AgentCase's too.       *)
(***************************************************************************)
EXTENDS Integers, Sequences, FiniteSets

CONSTANTS
  Books,           \* the funder policy files: a policy, by criterion, for each funder
  FirstBook,
  Hashes,          \* the guardrail policies the process runs under
  FirstHash,
  FactOrder,       \* the criteria extracted from the documents, in order
  Answers,         \* what FinDocIQ may answer for each of them
  Missing,         \* an answer: no figure, or several
  Invalid,         \* an answer: a figure that is not a value of the fact
  Foreign,         \* an answer: a figure cited from another application's document
  Padded, Whole,   \* an answer: a whole number with a fraction (7.0), and its value
  Given,           \* the value of every other criterion
  Precedents,      \* case ids, numbers in the order of the ids
  FunderOf,        \* the funder who decided each precedent
  Seeded,          \* the precedents stored at first
  ProfileScore, CommentsScore,   \* similarity to the application, in hundredths
  ProfileWeight, CommentsWeight, \* in quarters
  MinScore,        \* in quarters of hundredths
  TopK, CandidateLimit,
  NoValue,         \* null
  MaxRestarts,     \* bound: restarts of the process
  MaxChanges       \* bound: changes of the stored precedents

Criteria == {"industry", "region", "loan_type", "requested_amount", "dscr",
             "debt_to_ebitda", "collateral_cover", "years_operating"}
OneOf == {"industry", "region", "loan_type"}
Facts == {FactOrder[i] : i \in DOMAIN FactOrder}
AtLeast == {"dscr", "collateral_cover", "years_operating"}

Order == <<"document_processing", "financial_analysis", "eligibility",
           "precedent_retrieval", "suggestion", "guardrails", "human_review">>
Workers == {Order[i] : i \in 1..7}
Stages == Workers \ {"human_review"}

ASSUME AdviceAssumption ==
  /\ FirstBook \in Books /\ FirstHash \in Hashes
  /\ \A b \in Books : DOMAIN b # {} /\ b = [f \in DOMAIN b |-> b[f]]
  /\ Facts # {} /\ Facts \subseteq Criteria
  /\ Precedents \subseteq Nat /\ IsFiniteSet(Precedents) /\ Seeded \subseteq Precedents
  /\ ProfileScore \in [Precedents -> Int] /\ CommentsScore \in [Precedents -> Int]
  /\ ProfileWeight \in Nat /\ CommentsWeight \in Nat /\ ProfileWeight + CommentsWeight = 4
  /\ MinScore \in Int
  /\ TopK \in Nat \ {0} /\ CandidateLimit \in Nat /\ TopK <= CandidateLimit
  /\ NoValue \notin Stages
  /\ MaxRestarts \in Nat /\ MaxChanges \in Nat

VARIABLES
  book, hash,  \* the policy file and the guardrail policy of the process
  stored,      \* the state of each precedent in Qdrant
  disk,        \* the artifacts of the workspace
  cp,          \* the checkpoint
  run,         \* the worker under way and what it holds in memory
  onCase,      \* the suggestion recorded on the workflow case
  handed,      \* the case has been put before a reviewer
  sent,        \* the worker the reviewer sent the thread back to
  restarts, changes,
  guarded      \* history: what the guardrails last let through

process == <<book, hash, restarts>>
corpus == <<stored, changes>>
case == <<onCase, handed, sent>>
vars == <<process, corpus, disk, cp, run, case, guarded>>

(***************************************************************************)
(* The rules engine.                                                       *)
(***************************************************************************)
Passed(policy, profile, c) ==
  \/ c \in OneOf /\ profile[c] \in policy[c]
  \/ c \in AtLeast /\ profile[c] >= policy[c]
  \/ c = "debt_to_ebitda" /\ profile[c] <= policy[c]
  \/ c = "requested_amount" /\ policy[c].min <= profile[c] /\ profile[c] <= policy[c].max

FailedChecks(policy, profile) == {c \in Criteria : ~Passed(policy, profile, c)}

\* A check carries the actual value and the requirement it was held against.
EvaluateAll(profile, policies) ==
  [f \in DOMAIN policies |->
     [actual |-> profile, requirement |-> policies[f],
      failed |-> FailedChecks(policies[f], profile)]]

EligibleIn(results) == {f \in DOMAIN results : results[f].failed = {}}

\* years_operating, an int, loses the notation of the figure it is read from.
Value(figure) == IF figure = Padded THEN Whole ELSE figure
ProfileOf(facts) == [c \in Criteria |-> IF c \in Facts THEN Value(facts[c]) ELSE Given[c]]

(***************************************************************************)
(* The rule-gated retriever.  A stored precedent is active, lapsed (active *)
(* past its valid_until), revoked or superseded, or absent.                *)
(***************************************************************************)
PrecedentStates == {"active", "lapsed", "revoked", "absent"}
Lesser(a, b) == IF a <= b THEN a ELSE b

\* What the filter on funder and lifecycle_status lets through.
Pool(funders) == {p \in Precedents : FunderOf[p] \in funders /\ stored[p] \in {"active", "lapsed"}}

\* A query returns the candidate_limit nearest points of the pool, ties broken at will.
Nearest(pool, score) ==
  {h \in SUBSET pool :
     /\ Cardinality(h) = Lesser(CandidateLimit, Cardinality(pool))
     /\ \A p \in h, q \in pool \ h : score[p] >= score[q]}

\* Fault: a comment hit overwrites the profile hit of the same precedent.
CombinedOverwriting(p, profileHits, commentHits) ==
  ProfileWeight * (IF p \in profileHits \ commentHits THEN ProfileScore[p] ELSE 0)
    + CommentsWeight * (IF p \in commentHits THEN CommentsScore[p] ELSE 0)

\* A precedent that one of the queries did not return scores zero there.
Combined(p, profileHits, commentHits) ==
  ProfileWeight * (IF p \in profileHits THEN ProfileScore[p] ELSE 0)
    + CommentsWeight * (IF p \in commentHits THEN CommentsScore[p] ELSE 0)

\* The best top_k of a set, by descending score and then by case id.
Ranked(found, score) ==
  LET Before(p, q) == score[p] > score[q] \/ (score[p] = score[q] /\ p < q)
      Place(p) == 1 + Cardinality({q \in found : Before(q, p)})
  IN  [i \in 1..Lesser(TopK, Cardinality(found)) |-> CHOOSE p \in found : Place(p) = i]

\* hits are the payloads of the profile query; those of the comments query are
\* as the precedents are now, and replace them.
Matches(hits, commentHits) ==
  LET payload == [p \in DOMAIN hits \cup commentHits |->
                    IF p \in commentHits THEN stored[p] ELSE hits[p]]
      score == [p \in DOMAIN payload |-> Combined(p, DOMAIN hits, commentHits)]
  IN  Ranked({p \in DOMAIN payload : /\ payload[p] = "active" /\ stored[p] # "lapsed"
                                     /\ score[p] >= MinScore}, score)

ListedIn(matches) == {matches[i] : i \in DOMAIN matches}
MatchesOf(f, matches) == {p \in ListedIn(matches) : FunderOf[p] = f}

(***************************************************************************)
(* The suggestion assembler.                                               *)
(***************************************************************************)
Covers(retrieval) == DOMAIN retrieval.eligibility = DOMAIN book

\* Fault: the precedents no longer in force are left out.
AssembleInForce(application, retrieval) ==
  LET eligible == EligibleIn(retrieval.eligibility)
      shown == {p \in ListedIn(retrieval.matches) : stored[p] = "active"}
  IN  [application |-> application,
       candidates |-> [f \in eligible |-> {p \in shown : FunderOf[p] = f}],
       excluded |-> [f \in DOMAIN book \ eligible |-> retrieval.eligibility[f].failed],
       cited |-> shown,
       hash |-> hash]

Assemble(application, retrieval) ==
  LET eligible == EligibleIn(retrieval.eligibility)
  IN  [application |-> application,
       candidates |-> [f \in eligible |-> MatchesOf(f, retrieval.matches)],
       excluded |-> [f \in DOMAIN book \ eligible |-> retrieval.eligibility[f].failed],
       cited |-> ListedIn(retrieval.matches),
       hash |-> hash]

(***************************************************************************)
(* The workers, in their order, and their artifacts.                       *)
(***************************************************************************)
Index(w) == CHOOSE i \in 1..7 : Order[i] = w
EmptyDisk == [documents |-> FALSE, figures |-> [m \in Facts |-> NoValue],
              application |-> NoValue, eligibility |-> NoValue,
              retrieval |-> NoValue, suggestion |-> NoValue]

Nothing == <<>>
Idle == [pc |-> "idle", figures |-> Nothing, application |-> NoValue, eligibility |-> NoValue,
         hits |-> Nothing, retrieval |-> NoValue, suggestion |-> NoValue]
Starting == [Idle EXCEPT !.pc = "start"]
At(w, pc) == cp.status = "running" /\ cp.current = w /\ run.pc = pc
On(w) == At(w, "start")

\* A failure or a limit is checkpointed with the thread where it was.
Stop(status) ==
  /\ cp' = [cp EXCEPT !.status = status]
  /\ run' = Idle
  /\ UNCHANGED <<process, corpus, disk, case, guarded>>

\* An unavailable service, a deadline, a missing artifact, a policy file that names
\* other funders: wherever the worker is, the thread becomes retryable.
Fails ==
  /\ run.pc # "idle"
  /\ Stop("failed_retryable")

LimitReached ==
  /\ run.pc = "start"
  /\ Stop("failed_terminal")

\* The worker saves its artifact and goes on to the next thing it does.
Saves(artifacts, held) ==
  /\ disk' = artifacts
  /\ run' = held
  /\ UNCHANGED <<process, corpus, cp, case, guarded>>

Loads(held) == Saves(disk, held)

\* Ingests the documents, unless they were.
ProcessDocuments ==
  /\ On("document_processing")
  /\ Saves([disk EXCEPT !.documents = TRUE], [run EXCEPT !.pc = "advance"])

\* The input policy blocks a document, or a receipt does not match.
Blocked ==
  /\ On("document_processing") /\ ~disk.documents
  /\ \E s \in {"needs_attention", "failed_terminal"} : Stop(s)

\* One call after another for each fact, in order, unless its figure is in the
\* workspace; a figure is saved before it is examined.
LoadDocuments ==
  /\ On("financial_analysis") /\ disk.documents
  /\ Loads([run EXCEPT !.pc = "extract"])

Unusable == Len(run.figures) > 0 /\ run.figures[Len(run.figures)] \in {Invalid, Foreign}
Extracting == At("financial_analysis", "extract") /\ ~Unusable /\ Len(run.figures) < Len(FactOrder)
NextFact == FactOrder[Len(run.figures) + 1]

Extract ==
  /\ Extracting
  /\ \E v \in IF disk.figures[NextFact] = NoValue
              THEN Answers[NextFact] \ {Missing} ELSE {disk.figures[NextFact]} :
       Saves([disk EXCEPT !.figures[NextFact] = v], [run EXCEPT !.figures = Append(@, v)])

FactMissing ==
  /\ Extracting /\ disk.figures[NextFact] = NoValue /\ Missing \in Answers[NextFact]
  /\ Stop("needs_attention")

FactUnusable ==
  /\ At("financial_analysis", "extract") /\ Unusable
  /\ Stop(IF run.figures[Len(run.figures)] = Foreign
          THEN "failed_terminal" ELSE "needs_attention")

FormProfile ==
  /\ At("financial_analysis", "extract") /\ ~Unusable /\ Len(run.figures) = Len(FactOrder)
  /\ LET evidence == [m \in Facts |->
                        run.figures[CHOOSE i \in DOMAIN FactOrder : FactOrder[i] = m]]
         application == [evidence |-> evidence, profile |-> ProfileOf(evidence)]
     IN  Saves([disk EXCEPT !.application = application],
               [run EXCEPT !.pc = "advance", !.application = application])

Evaluate ==
  /\ On("eligibility") /\ disk.application # NoValue
  /\ LET results == EvaluateAll(disk.application.profile, book)
     IN  Saves([disk EXCEPT !.eligibility = results],
               [run EXCEPT !.pc = "advance", !.eligibility = results])

\* Fault: what the retriever evaluated is not compared with what was checkpointed.
RetrievedUnchecked(results, matches) ==
  LET retrieval == [eligibility |-> results, matches |-> matches]
  IN  Saves([disk EXCEPT !.retrieval = retrieval], [run EXCEPT !.pc = "commit"])

\* The retrieval is back: saved unless its eligibility is not what it was.
Retrieved(results, matches) ==
  LET retrieval == [eligibility |-> results, matches |-> matches]
  IN  IF results # run.eligibility
      THEN Stop("needs_attention")
      ELSE Saves([disk EXCEPT !.retrieval = retrieval], [run EXCEPT !.pc = "commit"])

\* The retriever evaluates the rules again; with nobody eligible it asks Qdrant nothing.
Retrieve ==
  /\ On("precedent_retrieval")
  /\ disk.application # NoValue /\ disk.eligibility # NoValue
  /\ Loads([run EXCEPT !.pc = "search", !.application = disk.application,
                       !.eligibility = disk.eligibility])

Evaluated == EvaluateAll(run.application.profile, book)

NobodyEligible ==
  /\ At("precedent_retrieval", "search") /\ EligibleIn(Evaluated) = {}
  /\ Retrieved(Evaluated, <<>>)

SearchProfile ==
  /\ At("precedent_retrieval", "search")
  /\ LET pool == Pool(EligibleIn(Evaluated))
     IN  /\ EligibleIn(Evaluated) # {}
         /\ \E h \in Nearest(pool, ProfileScore) :
              Loads([run EXCEPT !.pc = "comments", !.hits = [p \in h |-> stored[p]]])

SearchComments ==
  /\ At("precedent_retrieval", "comments")
  /\ \E h \in Nearest(Pool(EligibleIn(Evaluated)), CommentsScore) :
       Retrieved(Evaluated, Matches(run.hits, h))

Suggest ==
  /\ On("suggestion")
  /\ disk.application # NoValue /\ disk.retrieval # NoValue /\ Covers(disk.retrieval)
  /\ LET suggestion == Assemble(disk.application, disk.retrieval)
     IN  Saves([disk EXCEPT !.suggestion = suggestion],
               [run EXCEPT !.pc = "advance", !.suggestion = suggestion])

HandOff ==
  /\ On("human_review")
  /\ Loads([run EXCEPT !.pc = "advance"])

\* _advance: the case takes a state once, whose command is replayed ever after.
\* The suggestion is recorded with AI_SUGGESTED.
Advance ==
  /\ run.pc = "advance" /\ cp.status = "running"
  /\ onCase' = IF cp.current = "suggestion" /\ onCase = NoValue THEN run.suggestion ELSE onCase
  /\ handed' = (handed \/ cp.current = "human_review")
  /\ run' = [run EXCEPT !.pc = "commit"]
  /\ UNCHANGED <<process, corpus, disk, cp, sent, guarded>>

(***************************************************************************)
(* The guardrails.                                                         *)
(***************************************************************************)
ReceiptsStand == \A w \in DOMAIN cp.receipts : cp.receipts[w] = hash

CheckReceipts ==
  /\ On("guardrails") /\ ~ReceiptsStand
  /\ Stop("failed_terminal")

LoadArtifacts ==
  /\ On("guardrails") /\ ReceiptsStand
  /\ disk.application # NoValue /\ disk.retrieval # NoValue /\ disk.suggestion # NoValue
  /\ Loads([run EXCEPT !.pc = "verify", !.application = disk.application,
                       !.retrieval = disk.retrieval, !.suggestion = disk.suggestion])

\* Values are compared as texts.
EvidenceStands == \A m \in DOMAIN cp.evidence : cp.evidence[m] = run.application.profile[m]
EligibleOnly ==
  LET eligible == {f \in DOMAIN cp.eligibility : cp.eligibility[f] = {}}
  IN  /\ \A p \in ListedIn(run.retrieval.matches) : FunderOf[p] \in eligible
      /\ DOMAIN run.suggestion.candidates \subseteq eligible
\* The resolver asks only whether a precedent is stored.
PrecedentsResolve == \A p \in ListedIn(run.retrieval.matches) : stored[p] # "absent"
ClaimsStand ==
  /\ run.suggestion.application.evidence = cp.evidence
  /\ run.suggestion.cited \subseteq ListedIn(run.retrieval.matches)

Verdict ==
  IF ~EvidenceStands THEN "needs_attention"
  ELSE IF ~EligibleOnly THEN "failed_terminal"
  ELSE IF ~PrecedentsResolve THEN "needs_attention"
  ELSE IF run.suggestion.hash # hash THEN "failed_terminal"
  ELSE IF ~ClaimsStand THEN "needs_attention"
  ELSE "passed"

Refuse == At("guardrails", "verify") /\ Verdict # "passed" /\ Stop(Verdict)

Pass ==
  /\ At("guardrails", "verify") /\ Verdict = "passed"
  /\ run' = [run EXCEPT !.pc = "commit"]
  /\ guarded' = [retrieval |-> run.retrieval, suggestion |-> run.suggestion]
  /\ UNCHANGED <<process, corpus, disk, cp, case>>

(***************************************************************************)
(* The checkpoint.                                                         *)
(***************************************************************************)
Commit ==
  /\ run.pc = "commit" /\ cp.status = "running"
  /\ LET w == cp.current
         last == w = "human_review"
     IN  /\ cp' = [cp EXCEPT
              !.status = IF last THEN "waiting_for_review" ELSE "running",
              !.current = IF last THEN w ELSE Order[Index(w) + 1],
              !.receipts = [x \in DOMAIN @ \cup {w} |-> IF x = w THEN hash ELSE @[x]],
              !.evidence = IF w = "financial_analysis" THEN run.application.evidence ELSE @,
              !.eligibility = IF w = "eligibility"
                              THEN [f \in DOMAIN run.eligibility |-> run.eligibility[f].failed]
                              ELSE @]
         /\ run' = IF last THEN Idle ELSE Starting
  /\ UNCHANGED <<process, corpus, disk, case, guarded>>

Resume ==
  /\ cp.status \in {"failed_retryable", "needs_attention"}
  /\ cp' = [cp EXCEPT !.status = "running"]
  /\ run' = Starting
  /\ UNCHANGED <<process, corpus, disk, case, guarded>>

Before(w) == {Order[i] : i \in 1..(Index(w) - 1)}

\* invalidate_from.
Invalidated(w) ==
  LET kept(x, value, none) == IF x \in Before(w) THEN value ELSE none
  IN  [documents |-> kept("document_processing", disk.documents, FALSE),
       figures |-> kept("financial_analysis", disk.figures, EmptyDisk.figures),
       application |-> kept("financial_analysis", disk.application, NoValue),
       eligibility |-> kept("eligibility", disk.eligibility, NoValue),
       retrieval |-> kept("precedent_retrieval", disk.retrieval, NoValue),
       suggestion |-> kept("suggestion", disk.suggestion, NoValue)]

\* Fault: the fields of the worker itself are kept.
RewoundPast(w) ==
  [current |-> w, status |-> "running",
   receipts |-> [x \in DOMAIN cp.receipts \cap Before(w) |-> cp.receipts[x]],
   evidence |-> IF Index(w) < Index("financial_analysis") THEN Nothing ELSE cp.evidence,
   eligibility |-> IF Index(w) < Index("eligibility") THEN Nothing ELSE cp.eligibility]

Rewound(w) ==
  [current |-> w, status |-> "running",
   receipts |-> [x \in DOMAIN cp.receipts \cap Before(w) |-> cp.receipts[x]],
   evidence |-> IF Index(w) <= Index("financial_analysis") THEN Nothing ELSE cp.evidence,
   eligibility |-> IF Index(w) <= Index("eligibility") THEN Nothing ELSE cp.eligibility]

\* The reviewer's one send-back, or its delivery again: the case takes no other.
Asks(w) ==
  /\ (handed /\ sent = NoValue) \/ sent = w
  /\ sent' = w
  /\ disk' = Invalidated(w)
  /\ UNCHANGED <<process, corpus, onCase, handed, guarded>>

SendBack(w) ==
  /\ cp.status \in {"waiting_for_review", "needs_attention"}
  /\ Asks(w)
  /\ cp' = Rewound(w) /\ run' = Starting

\* The artifacts go before the thread's status is asked for: the rewind is refused,
\* or the call is cut off before it.
SendBackFails(w) ==
  /\ Asks(w)
  /\ UNCHANGED <<cp, run>>

(***************************************************************************)
(* The world.                                                              *)
(***************************************************************************)
\* A write-back or a seed, the end of its validity, set_lifecycle, a new collection.
PrecedentChanges(p) ==
  /\ changes < MaxChanges
  /\ changes' = changes + 1
  /\ \E s \in PrecedentStates \ {stored[p]} :
       /\ stored[p] = "absent" => s = "active"
       /\ stored[p] = "lapsed" => s # "active"
       /\ stored' = [stored EXCEPT ![p] = s]
  /\ UNCHANGED <<process, disk, cp, run, case, guarded>>

\* A restart between two runs.  One that loses a worker leaves the thread running
\* for good, out of reach of resumes and send-backs: AgentCase studies that.
Restart ==
  /\ restarts < MaxRestarts /\ run.pc = "idle"
  /\ restarts' = restarts + 1
  /\ book' \in Books /\ hash' \in Hashes
  /\ UNCHANGED <<corpus, disk, cp, run, case, guarded>>

Init ==
  /\ book = FirstBook /\ hash = FirstHash /\ restarts = 0
  /\ stored = [p \in Precedents |-> IF p \in Seeded THEN "active" ELSE "absent"] /\ changes = 0
  /\ disk = EmptyDisk
  /\ cp = [current |-> Order[1], status |-> "running", receipts |-> Nothing,
           evidence |-> Nothing, eligibility |-> Nothing]
  /\ run = Starting
  /\ onCase = NoValue /\ handed = FALSE /\ sent = NoValue
  /\ guarded = Nothing

Next ==
  \/ ProcessDocuments \/ Blocked
  \/ LoadDocuments \/ Extract \/ FactMissing \/ FactUnusable \/ FormProfile
  \/ Evaluate
  \/ Retrieve \/ NobodyEligible \/ SearchProfile \/ SearchComments
  \/ Suggest \/ HandOff \/ Advance
  \/ CheckReceipts \/ LoadArtifacts \/ Refuse \/ Pass
  \/ Commit \/ Resume \/ Fails \/ LimitReached
  \/ \E w \in Stages : SendBack(w) \/ SendBackFails(w)
  \/ \E p \in Precedents : PrecedentChanges(p)
  \/ Restart

Spec == Init /\ [][Next]_vars

(***************************************************************************)
(* Properties.                                                             *)
(***************************************************************************)
Done == IF cp.status = "waiting_for_review" THEN Workers ELSE Before(cp.current)

\* Every variable has its type; and the checkpoint holds the evidence, the
\* eligibility and the receipts of the workers that are done and of no other,
\* through failures, resumes and rewinds.
TypeOK ==
  /\ book \in Books /\ hash \in Hashes
  /\ stored \in [Precedents -> PrecedentStates]
  /\ cp.current \in Workers
  /\ cp.status \in {"running", "failed_retryable", "needs_attention", "failed_terminal",
                    "waiting_for_review"}
  /\ run.pc \in {"idle", "start", "extract", "search", "comments", "verify", "advance", "commit"}
  /\ run.pc # "idle" <=> cp.status = "running"
  /\ sent \in Stages \cup {NoValue} /\ handed \in BOOLEAN
  /\ DOMAIN cp.receipts = Done
  /\ cp.evidence # Nothing <=> "financial_analysis" \in Done
  /\ cp.eligibility # Nothing <=> "eligibility" \in Done

SaysTheSame(a, b) ==
  \A part \in {"application", "candidates", "excluded", "cited"} : a[part] = b[part]

\* The suggestion recorded on the case, which the reviewer reads, says what the
\* guardrails let through, whatever failed, ran again or changed between the two;
\* until a send-back, after which the case keeps the first.  Its claims may name
\* another guardrail policy: the worker may have run twice, each time under one.
ReviewedIsValidated ==
  (sent = NoValue /\ cp.status = "waiting_for_review")
    => guarded # Nothing /\ SaysTheSame(onCase, guarded.suggestion)

Results(retrieval) == [f \in DOMAIN retrieval.eligibility |-> retrieval.eligibility[f].failed]

\* What waits for a reviewer hangs together: the funders' results are those of the
\* checkpoint and follow from its evidence under one policy file; who passed is a
\* candidate and everyone else is excluded for what failed; the precedents shown
\* are the ones retrieved, each of a candidate.
AdviceIsGrounded ==
  cp.status = "waiting_for_review" =>
    LET r == guarded.retrieval
        s == guarded.suggestion
        policies == [f \in DOMAIN r.eligibility |-> r.eligibility[f].requirement]
    IN  /\ Results(r) = cp.eligibility /\ policies \in Books
        /\ r.eligibility = EvaluateAll(ProfileOf(cp.evidence), policies)
        /\ s.application = [evidence |-> cp.evidence, profile |-> ProfileOf(cp.evidence)]
        /\ DOMAIN s.candidates = EligibleIn(r.eligibility)
        /\ \A f \in DOMAIN cp.eligibility \ EligibleIn(r.eligibility) :
             f \in DOMAIN s.excluded /\ s.excluded[f] = cp.eligibility[f]
        /\ s.cited = UNION {s.candidates[f] : f \in DOMAIN s.candidates}
        /\ s.cited = ListedIn(r.matches)
        /\ \A f \in DOMAIN s.candidates, p \in s.cited :
             p \in s.candidates[f] <=> FunderOf[p] = f

FullScore(p) == ProfileWeight * ProfileScore[p] + CommentsWeight * CommentsScore[p]
Better(p, q) == FullScore(p) > FullScore(q) \/ (FullScore(p) = FullScore(q) /\ p < q)

\* Two queries, two cuts and a filter after them find the right precedents: while
\* the eligible funders' precedents fit candidate_limit and none of them changes
\* between the queries, the matches are the best top_k of those in force that
\* reach min_score on both vectors, in order.
RankingIsBest ==
  [][LET pool == Pool(EligibleIn(Evaluated))
         best == {p \in pool : stored[p] = "active" /\ FullScore(p) >= MinScore}
         m == disk'.retrieval.matches
     IN  /\ run.pc = "comments" /\ run'.pc = "commit"
         /\ Cardinality(pool) <= CandidateLimit
         /\ run.hits = [p \in pool |-> stored[p]]
         => /\ Len(m) = Lesser(TopK, Cardinality(best))
            /\ ListedIn(m) \subseteq best
            /\ \A i, j \in DOMAIN m : i < j => Better(m[i], m[j])
            /\ \A p \in ListedIn(m), q \in best \ ListedIn(m) : Better(p, q)
    ]_vars
=============================================================================
