----------------------------- MODULE ApiLimits -----------------------------
(***************************************************************************)
(* The limits the middleware puts before every route: the fixed window of  *)
(* PostgresRateLimiter.allow and the concurrency leases, both in Postgres, *)
(* for requests that come, overlap, fail and are cut off by a stop.        *)
(*                                                                         *)
(* now() is the moment a transaction began, not the moment one of its      *)
(* statements runs: a request that waited for the category's lock counts   *)
(* and dates its lease by the time it began to wait.                       *)
(***************************************************************************)
EXTENDS Naturals, FiniteSets

CONSTANTS
  Requests,      \* the requests, each sent once
  Subjects,      \* hashes of their Authorization headers
  SubjectOf,     \* [Requests -> Subjects]
  RouteOf,       \* [Requests -> Routes]
  Limits,        \* api_limits: [Categories -> ApiLimitPolicy]
  MaxTime        \* bound: the clock, in seconds

(***************************************************************************)
(* _rate_category: the paths the middleware tells apart.                   *)
(***************************************************************************)
Routes == {"health", "asset", "POST intake-jobs", "resume", "decision", "reveal", "other"}
Categories == {"upload", "resume", "review", "reveal", "read"}

RateCategory(route) ==
  CASE route \in {"health", "asset"} -> "none"
    [] route = "POST intake-jobs" -> "upload"
    [] route = "decision" -> "review"
    [] route \in {"resume", "reveal"} -> route
    [] OTHER -> "read"

ApiLimitPolicy ==
  [requests: Nat \ {0}, window_seconds: Nat \ {0},
   max_concurrent: Nat \ {0}, concurrency_lease_seconds: Nat \ {0}]

ASSUME LimitsAssumption ==
  /\ IsFiniteSet(Requests)
  /\ SubjectOf \in [Requests -> Subjects] /\ RouteOf \in [Requests -> Routes]
  /\ Limits \in [Categories -> ApiLimitPolicy]
  /\ MaxTime \in Nat

Category(r) == RateCategory(RouteOf[r])
Policy(r) == Limits[Category(r)]

VARIABLES
  now,      \* the database's clock
  hits,     \* api_rate_limits: request_count by subject, category and window
  leases,   \* api_concurrency_leases: expires_at by request_id
  req       \* a request: its step, and when its statement or transaction began

vars == <<now, hits, leases, req>>

NoLease == 0
Rows(c) == {r \in Requests : Category(r) = c /\ leases[r] # NoLease}

At(r, pc) == req[r].pc = pc
Goes(r, pc) == req' = [req EXCEPT ![r].pc = pc]

\* The request is answered or cut off, and no row of leases tells of it.
Ended(pc) == [pc |-> pc, asked |-> 0, began |-> 0]
Ends(r, pc) == req' = [req EXCEPT ![r] = Ended(pc)]

\* The transaction holds its category's advisory lock until it commits.
LockHeld(c) == \E r \in Requests : Category(r) = c /\ req[r].pc \in {"locked", "insert"}

\* floor(now / window_seconds) * window_seconds
Window(t, policy) == t - (t % policy.window_seconds)

(***************************************************************************)
(* The middleware up to the handler.                                       *)
(***************************************************************************)
\* Health checks, the page and its assets go straight through.
PassUnlimited(r) ==
  /\ At(r, "new") /\ Category(r) = "none"
  /\ Ends(r, "unlimited")
  /\ UNCHANGED <<now, hits, leases>>

Key(r) == <<SubjectOf[r], Category(r), Window(now, Policy(r))>>
Counted(r) == hits' = [hits EXCEPT ![Key(r)] = @ + 1]

\* Fault: the count from before the request is compared.
AllowOneMore(r) ==
  /\ At(r, "new") /\ Category(r) # "none"
  /\ Counted(r)
  /\ IF hits[Key(r)] <= Policy(r).requests
     THEN req' = [req EXCEPT ![r].pc = "allowed", ![r].asked = now]
     ELSE Ends(r, "limited")
  /\ UNCHANGED <<now, leases>>

\* allow, one statement, counts the request into its window, rejected or not.
Allow(r) ==
  /\ At(r, "new") /\ Category(r) # "none"
  /\ Counted(r)
  /\ IF hits[Key(r)] + 1 <= Policy(r).requests
     THEN req' = [req EXCEPT ![r].pc = "allowed", ![r].asked = now]
     ELSE Ends(r, "limited")
  /\ UNCHANGED <<now, leases>>

\* acquire_concurrency begins and asks for the lock ...
Acquire(r) ==
  /\ At(r, "allowed")
  /\ req' = [req EXCEPT ![r].pc = "waiting", ![r].began = now]
  /\ UNCHANGED <<now, hits, leases>>

\* Fault: no lock is taken.
TakeNoLock(r) ==
  /\ At(r, "waiting")
  /\ Goes(r, "locked")
  /\ UNCHANGED <<now, hits, leases>>

\* ... and has it.
TakeLock(r) ==
  /\ At(r, "waiting") /\ ~LockHeld(Category(r))
  /\ Goes(r, "locked")
  /\ UNCHANGED <<now, hits, leases>>

\* Fault: leases stay until they are released.
PurgedNever(t) == leases

\* Every category's leases that had expired when the transaction began are deleted.
Purged(t) == [r \in Requests |-> IF leases[r] <= t THEN NoLease ELSE leases[r]]

\* The purge and the count.
Count(r) ==
  /\ At(r, "locked")
  /\ leases' = Purged(req[r].began)
  /\ Goes(r, IF Cardinality(Rows(Category(r))') >= Policy(r).max_concurrent
             THEN "busy" ELSE "insert")
  /\ UNCHANGED <<now, hits>>

Expiry(r) == req[r].began + Policy(r).concurrency_lease_seconds

\* Fault: the lease is dated from the insert.
EnterFromNow(r) ==
  /\ At(r, "insert")
  /\ leases' = [leases EXCEPT ![r] = now + Policy(r).concurrency_lease_seconds]
  /\ Goes(r, "inside")
  /\ UNCHANGED <<now, hits>>

\* The lease is inserted and the transaction commits.
Enter(r) ==
  /\ At(r, "insert")
  /\ leases' = [leases EXCEPT ![r] = Expiry(r)]
  /\ Goes(r, "inside")
  /\ UNCHANGED <<now, hits>>

(***************************************************************************)
(* After the handler, and what may go wrong.                               *)
(***************************************************************************)
\* The handler ends, and release_concurrency deletes the row, if no one has.
Release(r) ==
  /\ At(r, "inside")
  /\ leases' = [leases EXCEPT ![r] = NoLease]
  /\ Goes(r, "done")
  /\ UNCHANGED <<now, hits>>

BeforeLease == {"allowed", "waiting", "locked", "insert"}

\* A statement fails or is cancelled, and its transaction is rolled back ...
Lose(r) ==
  /\ \/ req[r].pc \in BeforeLease /\ Ends(r, "gone")
     \/ At(r, "inside") /\ Goes(r, "lost")
  /\ UNCHANGED <<now, hits, leases>>

\* ... or its commit is done, but not answered.
LoseAnswer(r) ==
  /\ At(r, "insert")
  /\ leases' = [leases EXCEPT ![r] = Expiry(r)]
  /\ Goes(r, "lost")
  /\ UNCHANGED <<now, hits>>

\* The process stops: what it had under way is gone, its leases stay.
Crash ==
  /\ \E r \in Requests : req[r].pc \in BeforeLease \cup {"inside"}
  /\ req' = [r \in Requests |->
               IF req[r].pc \in BeforeLease THEN Ended("gone")
               ELSE IF At(r, "inside") THEN [req[r] EXCEPT !.pc = "lost"] ELSE req[r]]
  /\ UNCHANGED <<now, hits, leases>>

Tick ==
  /\ now < MaxTime
  /\ now' = now + 1
  /\ UNCHANGED <<hits, leases, req>>

Keys == Subjects \X Categories \X (0..MaxTime)

Init ==
  /\ now = 0
  /\ hits = [k \in Keys |-> 0]
  /\ leases = [r \in Requests |-> NoLease]
  /\ req = [r \in Requests |-> [pc |-> "new", asked |-> 0, began |-> 0]]

Next ==
  \/ \E r \in Requests :
       \/ PassUnlimited(r) \/ Allow(r) \/ Acquire(r) \/ TakeLock(r) \/ Count(r) \/ Enter(r)
       \/ Release(r) \/ Lose(r) \/ LoseAnswer(r)
  \/ Crash \/ Tick

Spec == Init /\ [][Next]_vars

(***************************************************************************)
(* Properties.                                                             *)
(***************************************************************************)
Places == BeforeLease
            \cup {"new", "inside", "unlimited", "limited", "busy", "done", "lost", "gone"}

\* Every variable has its type; a lease is a limited request's and is dated from
\* its transaction's beginning.
TypeOK ==
  /\ now \in 0..MaxTime
  /\ hits \in [Keys -> Nat]
  /\ leases \in [Requests -> Nat]
  /\ req \in [Requests -> [pc: Places, asked: 0..MaxTime, began: 0..MaxTime]]
  /\ \A r \in Requests :
       /\ req[r].asked <= now /\ req[r].began <= now
       /\ req[r].pc # "new" => (Category(r) = "none" <=> req[r].pc = "unlimited")
       /\ leases[r] # NoLease => req[r].pc \in {"inside", "lost"} /\ leases[r] = Expiry(r)

\* A request whose lease has not run out is one of at most max_concurrent in its
\* category, however transactions overlap, wait, purge each other's leases and die.
WithinLease(c) ==
  {r \in Requests : Category(r) = c /\ At(r, "inside") /\ now < leases[r]}
InsideBounded ==
  \A c \in Categories : Cardinality(WithinLease(c)) <= Limits[c].max_concurrent

\* A fixed window lets its quota through on either side of a boundary and no more:
\* in no window_seconds does a subject pass a category more than twice its quota.
Passed(s, c, from, to) ==
  {r \in Requests : /\ SubjectOf[r] = s /\ Category(r) = c /\ req[r].asked \in from..to
                    /\ req[r].pc \in BeforeLease \cup {"inside", "busy", "done", "lost"}}
AdmittedWithinQuota ==
  \A s \in Subjects, c \in Categories, t \in 0..MaxTime :
    Cardinality(Passed(s, c, t, t + Limits[c].window_seconds - 1)) <= 2 * Limits[c].requests

\* A category is closed to a request only by max_concurrent others that are inside,
\* or were cut off, with a lease from less than its length before the request began
\* to wait: nothing that ended properly or died long ago keeps anyone out.
Holding(r) ==
  {q \in Requests : /\ Category(q) = Category(r) /\ req[q].pc \in {"inside", "lost"}
                    /\ req[r].began < Expiry(q)}
RefusedOnlyWhenFull ==
  [][\A r \in Requests : req'[r].pc = "busy" /\ req[r].pc # "busy"
       => Cardinality(Holding(r)) >= Policy(r).max_concurrent]_vars
=============================================================================
