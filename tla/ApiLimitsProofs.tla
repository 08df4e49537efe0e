-------------------------- MODULE ApiLimitsProofs --------------------------
(***************************************************************************)
(* What holds of the API's limits for every set of requests, every policy  *)
(* and every overlap: types, the bound on the requests within their        *)
(* leases, the quota over any span of a window's length, and what it takes *)
(* to be refused.                                                          *)
(*                                                                         *)
(* InsideBounded is not inductive.  RowsInv bounds the rows of a category  *)
(* whether expired or not, and keeps a place for the holder of the lock    *)
(* that has counted; LockInv says that there is one such holder.           *)
(* QuotaInv counts the requests that passed in one window.                 *)
(***************************************************************************)
EXTENDS ApiLimits, FiniteSetTheorems, TLAPS

Holders == {"locked", "insert"}
LockInv ==
  \A r, q \in Requests :
    Category(r) = Category(q) /\ req[r].pc \in Holders /\ req[q].pc \in Holders => r = q

RowsInv ==
  \A c \in Categories :
    /\ Cardinality(Rows(c)) <= Limits[c].max_concurrent
    /\ \A r \in Requests : Category(r) = c /\ At(r, "insert")
                             => Cardinality(Rows(c)) < Limits[c].max_concurrent

PassedPlaces == BeforeLease \cup {"inside", "busy", "done", "lost"}
PassedIn(s, c, w) ==
  {r \in Requests : /\ SubjectOf[r] = s /\ Category(r) = c /\ req[r].pc \in PassedPlaces
                    /\ Window(req[r].asked, Limits[c]) = w}
QuotaInv ==
  \A s \in Subjects, c \in Categories, w \in 0..MaxTime :
    /\ Cardinality(PassedIn(s, c, w)) <= hits[<<s, c, w>>]
    /\ Cardinality(PassedIn(s, c, w)) <= Limits[c].requests

Inv == TypeOK /\ LockInv /\ RowsInv /\ QuotaInv

(***************************************************************************)
(* Windows and finite sets.                                                *)
(***************************************************************************)
LEMMA PolicyTypes ==
  /\ MaxTime \in Nat /\ IsFiniteSet(Requests)
  /\ \A c \in Categories : /\ Limits[c].requests \in Nat \ {0}
                           /\ Limits[c].window_seconds \in Nat \ {0}
                           /\ Limits[c].max_concurrent \in Nat \ {0}
                           /\ Limits[c].concurrency_lease_seconds \in Nat \ {0}
  /\ \A r \in Requests : /\ Category(r) \in Categories \cup {"none"}
                         /\ SubjectOf[r] \in Subjects
BY LimitsAssumption DEF ApiLimitPolicy, Category, RateCategory, Categories, Routes

\* A window begins at the multiple of window_seconds at or before t.
LEMMA WindowFacts ==
  ASSUME NEW t \in Nat, NEW c \in Categories
  PROVE  /\ Window(t, Limits[c]) = Limits[c].window_seconds * (t \div Limits[c].window_seconds)
         /\ t \div Limits[c].window_seconds \in Nat
         /\ Window(t, Limits[c]) \in 0..t
         /\ t < Window(t, Limits[c]) + Limits[c].window_seconds
<1> DEFINE w == Limits[c].window_seconds
<1>1. w \in Nat \ {0}
  BY PolicyTypes
<1> HIDE DEF w
<1>2. t % w \in 0..(w - 1)
  BY <1>1, Z3
<1>3. t = w * (t \div w) + (t % w) /\ (t \div w) \in Nat
  BY <1>1, Z3
<1>4. w * (t \div w) \in Nat
  BY <1>1, <1>3
<1>5. Window(t, Limits[c]) = t - (t % w)
  BY DEF Window, w
<1>6. Window(t, Limits[c]) = w * (t \div w)
  BY <1>1, <1>2, <1>3, <1>4, <1>5
<1>7. w * (t \div w) \in 0..t /\ t < w * (t \div w) + w
  BY <1>1, <1>2, <1>3, <1>4
<1> QED BY <1>3, <1>6, <1>7 DEF w

\* A span of window_seconds meets two windows at most.
LEMMA TwoWindows ==
  ASSUME NEW c \in Categories, NEW t \in Nat,
         NEW u \in t..(t + Limits[c].window_seconds - 1)
  PROVE  \/ Window(u, Limits[c]) = Window(t, Limits[c])
         \/ Window(u, Limits[c]) = Window(t, Limits[c]) + Limits[c].window_seconds
<1> DEFINE w == Limits[c].window_seconds
           a == t \div w
           b == u \div w
<1>1. w \in Nat \ {0} /\ u \in Nat /\ t <= u /\ u < t + w
  BY PolicyTypes
<1>2. /\ Window(t, Limits[c]) = w * a /\ a \in Nat /\ w * a <= t /\ t < w * a + w
      /\ Window(u, Limits[c]) = w * b /\ b \in Nat /\ w * b <= u /\ u < w * b + w
  BY <1>1, WindowFacts
<1> HIDE DEF w, a, b
<1>3. w * a \in Nat /\ w * b \in Nat
  BY <1>1, <1>2
<1>4. w * a < w * b + w /\ w * b < (w * a + w) + w
  BY <1>1, <1>2, <1>3
<1>5. b = a \/ b = a + 1
  <2>1. ~(b < a)
    <3>1. b < a => w * b + w <= w * a
      BY <1>1, <1>2, Z3
    <3> QED BY <1>1, <1>3, <1>4, <3>1
  <2>2. ~(a + 1 < b)
    <3>1. a + 1 < b => w * (a + 1) + w <= w * b
      BY <1>1, <1>2, Z3
    <3>2. w * (a + 1) = w * a + w
      BY <1>1, <1>2, Z3
    <3> QED BY <1>1, <1>3, <1>4, <3>1, <3>2
  <2> QED BY <1>2, <2>1, <2>2
<1>6. w * (a + 1) = w * a + w
  BY <1>1, <1>2, Z3
<1> QED BY <1>2, <1>5, <1>6 DEF w

\* The sets that are counted are sets of requests.
LEMMA Countable ==
  ASSUME NEW S \in SUBSET Requests
  PROVE  IsFiniteSet(S) /\ Cardinality(S) \in Nat
<1>1. IsFiniteSet(S)
  BY PolicyTypes, FS_Subset
<1> QED BY <1>1, FS_CardinalityType

LEMMA CountSmaller ==
  ASSUME NEW S \in SUBSET Requests, NEW T \in SUBSET S
  PROVE  Cardinality(T) <= Cardinality(S)
BY Countable, FS_Subset

(***************************************************************************)
(* What leaves the parts of the invariant alone.                           *)
(***************************************************************************)
LEMMA LockKept ==
  ASSUME LockInv, \A r \in Requests : req'[r].pc \in Holders => req[r].pc \in Holders
  PROVE  LockInv'
BY DEF LockInv

LEMMA RowsKept ==
  ASSUME RowsInv,
         \A r \in Requests : leases'[r] # NoLease => leases[r] # NoLease,
         \A r \in Requests : req'[r].pc = "insert" => req[r].pc = "insert"
  PROVE  RowsInv'
<1> SUFFICES ASSUME NEW c \in Categories
             PROVE  /\ Cardinality(Rows(c)') <= Limits[c].max_concurrent
                    /\ \A r \in Requests : Category(r) = c /\ req'[r].pc = "insert"
                         => Cardinality(Rows(c)') < Limits[c].max_concurrent
  BY DEF RowsInv, At
<1>1. Rows(c)' \in SUBSET Rows(c) /\ Rows(c) \in SUBSET Requests /\ Rows(c)' \in SUBSET Requests
  BY DEF Rows
<1>2. /\ Cardinality(Rows(c)') <= Cardinality(Rows(c))
      /\ Cardinality(Rows(c)') \in Nat /\ Cardinality(Rows(c)) \in Nat
  BY <1>1, CountSmaller, Countable
<1>3. /\ Cardinality(Rows(c)) <= Limits[c].max_concurrent
      /\ \A r \in Requests : Category(r) = c /\ req[r].pc = "insert"
           => Cardinality(Rows(c)) < Limits[c].max_concurrent
  BY DEF RowsInv, At
<1>4. Limits[c].max_concurrent \in Nat
  BY PolicyTypes
<1> QED BY <1>2, <1>3, <1>4

LEMMA QuotaKept ==
  ASSUME QuotaInv, UNCHANGED hits, hits \in [Keys -> Nat],
         \A r \in Requests : req'[r].pc \in PassedPlaces
           => req[r].pc \in PassedPlaces /\ req'[r].asked = req[r].asked
  PROVE  QuotaInv'
<1> SUFFICES ASSUME NEW s \in Subjects, NEW c \in Categories, NEW w \in 0..MaxTime
             PROVE  /\ Cardinality(PassedIn(s, c, w)') <= hits[<<s, c, w>>]
                    /\ Cardinality(PassedIn(s, c, w)') <= Limits[c].requests
  BY DEF QuotaInv
<1>1. /\ PassedIn(s, c, w)' \in SUBSET PassedIn(s, c, w) /\ PassedIn(s, c, w) \in SUBSET Requests
      /\ PassedIn(s, c, w)' \in SUBSET Requests
  BY DEF PassedIn
<1>2. /\ Cardinality(PassedIn(s, c, w)') <= Cardinality(PassedIn(s, c, w))
      /\ Cardinality(PassedIn(s, c, w)') \in Nat /\ Cardinality(PassedIn(s, c, w)) \in Nat
  BY <1>1, CountSmaller, Countable
<1>3. hits[<<s, c, w>>] \in Nat /\ Limits[c].requests \in Nat
  BY PolicyTypes DEF Keys
<1>4. /\ Cardinality(PassedIn(s, c, w)) <= hits[<<s, c, w>>]
      /\ Cardinality(PassedIn(s, c, w)) <= Limits[c].requests
  BY DEF QuotaInv
<1> QED BY <1>2, <1>3, <1>4

(***************************************************************************)
(* One lemma for each way a step changes the requests.                     *)
(***************************************************************************)
LEMMA InitInv == Init => Inv
<1> SUFFICES ASSUME Init PROVE Inv
  OBVIOUS
<1>1. TypeOK /\ LockInv
  BY PolicyTypes DEF Init, TypeOK, Keys, Places, BeforeLease, NoLease, LockInv, Holders
<1>2. RowsInv
  <2>1. \A c \in Categories : Rows(c) = {}
    BY DEF Init, Rows
  <2>2. \A c \in Categories : Cardinality(Rows(c)) = 0
    BY <2>1, FS_EmptySet
  <2>3. \A c \in Categories : 0 < Limits[c].max_concurrent /\ 0 <= Limits[c].max_concurrent
    BY PolicyTypes
  <2> QED BY <2>2, <2>3 DEF RowsInv
<1>3. QuotaInv
  <2>1. \A s, c, w : PassedIn(s, c, w) = {}
    BY DEF Init, PassedIn, PassedPlaces, BeforeLease
  <2>2. \A s \in Subjects, c \in Categories, w \in 0..MaxTime : hits[<<s, c, w>>] = 0
    BY DEF Init, Keys
  <2>3. \A s, c, w : Cardinality(PassedIn(s, c, w)) = 0
    BY <2>1, FS_EmptySet
  <2>4. \A c \in Categories : 0 <= Limits[c].requests
    BY PolicyTypes
  <2> SUFFICES ASSUME NEW s \in Subjects, NEW c \in Categories, NEW w \in 0..MaxTime
               PROVE  /\ Cardinality(PassedIn(s, c, w)) <= hits[<<s, c, w>>]
                      /\ Cardinality(PassedIn(s, c, w)) <= Limits[c].requests
    BY DEF QuotaInv
  <2>5. Cardinality(PassedIn(s, c, w)) = 0 /\ hits[<<s, c, w>>] = 0 /\ 0 <= Limits[c].requests
    BY <2>2, <2>3, <2>4
  <2> QED BY <2>5
<1> QED BY <1>1, <1>2, <1>3 DEF Inv

\* The requests by themselves, and a step of one of them.
Requested == [pc: Places, asked: 0..MaxTime, began: 0..MaxTime]

LEMMA GoesFacts ==
  ASSUME TypeOK, NEW r \in Requests, NEW pc \in Places, Goes(r, pc)
  PROVE  /\ req' \in [Requests -> Requested]
         /\ req'[r].pc = pc /\ req'[r].asked = req[r].asked /\ req'[r].began = req[r].began
         /\ \A q \in Requests : q # r => req'[q] = req[q]
BY DEF TypeOK, Goes, Requested

LEMMA EndsFacts ==
  ASSUME TypeOK, NEW r \in Requests, NEW pc \in Places, Ends(r, pc)
  PROVE  /\ req' \in [Requests -> Requested]
         /\ req'[r].pc = pc /\ req'[r].asked = 0 /\ req'[r].began = 0
         /\ \A q \in Requests : q # r => req'[q] = req[q]
BY PolicyTypes DEF TypeOK, Ends, Ended, Requested

\* A step that gives no lease, no lock, no place and no passage.
LEMMA Quiet ==
  ASSUME Inv, TypeOK', UNCHANGED hits,
         \A q \in Requests : leases'[q] # NoLease => leases[q] # NoLease,
         \A q \in Requests : req'[q].pc \in Holders => req'[q].pc = req[q].pc,
         \A q \in Requests : req'[q].pc \in PassedPlaces
           => req[q].pc \in PassedPlaces /\ req'[q].asked = req[q].asked
  PROVE  Inv'
<1>1. LockInv'
  BY LockKept DEF Inv
<1>2. RowsInv'
  BY RowsKept DEF Inv, Holders
<1>3. QuotaInv'
  BY QuotaKept DEF Inv, TypeOK
<1> QED BY <1>1, <1>2, <1>3 DEF Inv

LEMMA PassUnlimitedInv == ASSUME Inv, NEW r \in Requests, PassUnlimited(r) PROVE Inv'
<1>1. At(r, "new") /\ Category(r) = "none" /\ UNCHANGED <<now, hits, leases>>
  BY DEF PassUnlimited
<1>2. /\ req' \in [Requests -> Requested]
      /\ req'[r].pc = "unlimited" /\ req'[r].asked = 0 /\ req'[r].began = 0
      /\ \A q \in Requests : q # r => req'[q] = req[q]
  BY EndsFacts DEF PassUnlimited, Inv, Places
<1>3. leases[r] = NoLease
  BY <1>1 DEF Inv, TypeOK, At
<1>4. TypeOK'
  BY <1>1, <1>2, <1>3 DEF Inv, TypeOK, Requested, Expiry
<1> QED BY <1>1, <1>2, <1>4, Quiet DEF Holders, PassedPlaces, BeforeLease

LEMMA AcquireInv == ASSUME Inv, NEW r \in Requests, Acquire(r) PROVE Inv'
<1>1. At(r, "allowed") /\ UNCHANGED <<now, hits, leases>>
  BY DEF Acquire
<1>2. /\ req' \in [Requests -> Requested]
      /\ req'[r].pc = "waiting" /\ req'[r].asked = req[r].asked /\ req'[r].began = now
      /\ \A q \in Requests : q # r => req'[q] = req[q]
  BY DEF Acquire, Inv, TypeOK, Requested, Places, BeforeLease
<1>3. leases[r] = NoLease
  BY <1>1 DEF Inv, TypeOK, At
<1>4. TypeOK'
  BY <1>1, <1>2, <1>3 DEF Inv, TypeOK, Requested, Expiry, At
<1> QED BY <1>1, <1>2, <1>4, Quiet DEF Holders, PassedPlaces, BeforeLease, At

LEMMA TakeLockInv == ASSUME Inv, NEW r \in Requests, TakeLock(r) PROVE Inv'
<1>1. At(r, "waiting") /\ ~LockHeld(Category(r)) /\ UNCHANGED <<now, hits, leases>>
  BY DEF TakeLock
<1>2. /\ req' \in [Requests -> Requested]
      /\ req'[r].pc = "locked" /\ req'[r].asked = req[r].asked /\ req'[r].began = req[r].began
      /\ \A q \in Requests : q # r => req'[q] = req[q]
  BY GoesFacts DEF TakeLock, Inv, Places, BeforeLease
<1>3. leases[r] = NoLease
  BY <1>1 DEF Inv, TypeOK, At
<1>4. TypeOK'
  BY <1>1, <1>2, <1>3 DEF Inv, TypeOK, Requested, Expiry, At
<1>5. LockInv'
  BY <1>1, <1>2 DEF Inv, LockInv, LockHeld, Holders
<1>6. RowsInv'
  BY <1>1, <1>2, RowsKept DEF Inv
<1>7. QuotaInv'
  <2>1. \A q \in Requests : req'[q].pc \in PassedPlaces
          => req[q].pc \in PassedPlaces /\ req'[q].asked = req[q].asked
    BY <1>1, <1>2 DEF PassedPlaces, BeforeLease, At
  <2> QED BY <1>1, <2>1, QuotaKept DEF Inv, TypeOK
<1> QED BY <1>4, <1>5, <1>6, <1>7 DEF Inv

\* The request that passes is one more in its window's count and in its window.
LEMMA AllowQuota ==
  ASSUME Inv, NEW r \in Requests, Allow(r), hits[Key(r)] + 1 <= Policy(r).requests
  PROVE  QuotaInv'
<1>1. /\ At(r, "new") /\ Category(r) \in Categories /\ now \in 0..MaxTime /\ now \in Nat
      /\ hits \in [Keys -> Nat]
  BY PolicyTypes DEF Allow, Inv, TypeOK
<1>2. /\ req'[r].pc = "allowed" /\ req'[r].asked = now
      /\ \A q \in Requests : q # r => req'[q] = req[q]
  BY <1>1 DEF Allow, Inv, TypeOK, At
<1>3. Window(now, Policy(r)) \in 0..MaxTime
  BY <1>1, PolicyTypes, WindowFacts DEF Policy
<1>4. Key(r) \in Keys /\ SubjectOf[r] \in Subjects
  BY <1>1, <1>3, PolicyTypes DEF Key, Keys
<1>5. hits'[Key(r)] = hits[Key(r)] + 1 /\ \A k \in Keys : k # Key(r) => hits'[k] = hits[k]
  BY <1>1, <1>4 DEF Allow, Counted
<1> SUFFICES ASSUME NEW s \in Subjects, NEW c \in Categories, NEW w \in 0..MaxTime
             PROVE  /\ Cardinality(PassedIn(s, c, w)') <= hits'[<<s, c, w>>]
                    /\ Cardinality(PassedIn(s, c, w)') <= Limits[c].requests
  BY DEF QuotaInv
<1>6. <<s, c, w>> \in Keys /\ PassedIn(s, c, w) \in SUBSET Requests
  BY DEF Keys, PassedIn
<1>7. /\ Cardinality(PassedIn(s, c, w)) \in Nat /\ hits[<<s, c, w>>] \in Nat
      /\ Cardinality(PassedIn(s, c, w)) <= hits[<<s, c, w>>]
      /\ Cardinality(PassedIn(s, c, w)) <= Limits[c].requests /\ Limits[c].requests \in Nat
  BY <1>1, <1>6, Countable, PolicyTypes DEF Inv, QuotaInv
<1>8. CASE <<s, c, w>> = Key(r)
  <2>1. PassedIn(s, c, w)' = PassedIn(s, c, w) \cup {r}
    BY <1>1, <1>2, <1>8 DEF PassedIn, Key, Policy, PassedPlaces, BeforeLease, At
  <2>2. Cardinality(PassedIn(s, c, w)') <= Cardinality(PassedIn(s, c, w)) + 1
        /\ Cardinality(PassedIn(s, c, w)') \in Nat
    <3>1. IsFiniteSet(PassedIn(s, c, w))
      BY <1>6, Countable
    <3>2. Cardinality(PassedIn(s, c, w) \cup {r})
            = IF r \in PassedIn(s, c, w) THEN Cardinality(PassedIn(s, c, w))
              ELSE Cardinality(PassedIn(s, c, w)) + 1
      BY <3>1, FS_AddElement
    <3> QED BY <1>7, <2>1, <3>2
  <2>3. hits[Key(r)] + 1 <= Limits[c].requests
    BY <1>8 DEF Policy, Key
  <2> QED BY <1>5, <1>7, <1>8, <2>2, <2>3
<1>9. CASE <<s, c, w>> # Key(r)
  <2>1. PassedIn(s, c, w)' = PassedIn(s, c, w)
    BY <1>1, <1>2, <1>9 DEF PassedIn, Key, Policy, PassedPlaces, BeforeLease, At
  <2> QED BY <1>5, <1>6, <1>7, <1>9, <2>1
<1> QED BY <1>8, <1>9

\* A rejected request is counted, and is in no window.
LEMMA LimitedQuota ==
  ASSUME Inv, NEW r \in Requests, Allow(r), ~(hits[Key(r)] + 1 <= Policy(r).requests)
  PROVE  QuotaInv'
<1>1. At(r, "new") /\ hits \in [Keys -> Nat]
  BY DEF Allow, Inv, TypeOK
<1>2. req'[r].pc = "limited" /\ \A q \in Requests : q # r => req'[q] = req[q]
  BY EndsFacts DEF Allow, Inv, Places
<1>3. \A k \in Keys : hits'[k] \in Nat /\ hits[k] <= hits'[k]
  BY <1>1 DEF Allow, Counted
<1> SUFFICES ASSUME NEW s \in Subjects, NEW c \in Categories, NEW w \in 0..MaxTime
             PROVE  /\ Cardinality(PassedIn(s, c, w)') <= hits'[<<s, c, w>>]
                    /\ Cardinality(PassedIn(s, c, w)') <= Limits[c].requests
  BY DEF QuotaInv
<1>4. PassedIn(s, c, w)' = PassedIn(s, c, w)
  BY <1>1, <1>2 DEF PassedIn, PassedPlaces, BeforeLease, At
<1>5. <<s, c, w>> \in Keys /\ PassedIn(s, c, w) \in SUBSET Requests
  BY DEF Keys, PassedIn
<1>6. /\ Cardinality(PassedIn(s, c, w)) \in Nat /\ hits[<<s, c, w>>] \in Nat
      /\ Cardinality(PassedIn(s, c, w)) <= hits[<<s, c, w>>]
      /\ Cardinality(PassedIn(s, c, w)) <= Limits[c].requests
  BY <1>1, <1>5, Countable DEF Inv, QuotaInv
<1>7. hits[<<s, c, w>>] <= hits'[<<s, c, w>>] /\ hits'[<<s, c, w>>] \in Nat
  BY <1>3, <1>5
<1> QED BY <1>4, <1>6, <1>7

LEMMA AllowInv == ASSUME Inv, NEW r \in Requests, Allow(r) PROVE Inv'
<1>1. At(r, "new") /\ Category(r) # "none" /\ UNCHANGED <<now, leases>> /\ Counted(r)
  BY DEF Allow
<1>2. /\ req' \in [Requests -> Requested]
      /\ req'[r].pc \in {"allowed", "limited"} /\ req'[r].asked \in {0, now}
      /\ req'[r].began \in {0, req[r].began}
      /\ \A q \in Requests : q # r => req'[q] = req[q]
  <2>1. CASE Ends(r, "limited")
    BY <2>1, EndsFacts DEF Inv, Places
  <2>2. CASE req' = [req EXCEPT ![r].pc = "allowed", ![r].asked = now]
    BY <2>2 DEF Inv, TypeOK, Requested, Places, BeforeLease
  <2> QED BY <2>1, <2>2 DEF Allow
<1>3. leases[r] = NoLease
  BY <1>1 DEF Inv, TypeOK, At
<1>4. hits' \in [Keys -> Nat]
  <2> DEFINE k == Key(r)
  <2>1. hits \in [Keys -> Nat] /\ hits' = [hits EXCEPT ![k] = hits[k] + 1]
    BY <1>1 DEF Inv, TypeOK, Counted
  <2> HIDE DEF k
  <2>2. \A x \in Keys : (IF x = k THEN hits[k] + 1 ELSE hits[x]) \in Nat
    BY <2>1
  <2>3. hits' = [x \in Keys |-> IF x = k THEN hits[k] + 1 ELSE hits[x]]
    BY <2>1
  <2> QED BY <2>2, <2>3
<1>5. TypeOK'
  <2>1. TypeOK /\ req' \in [Requests -> [pc: Places, asked: 0..MaxTime, began: 0..MaxTime]]
    BY <1>2 DEF Inv, Requested
  <2>2. ASSUME NEW q \in Requests
        PROVE  /\ req'[q].asked <= now' /\ req'[q].began <= now'
               /\ req'[q].pc # "new" => (Category(q) = "none" <=> req'[q].pc = "unlimited")
               /\ leases'[q] # NoLease => /\ req'[q].pc \in {"inside", "lost"}
                                         /\ leases'[q] = Expiry(q)'
    <3>1. CASE q = r
      BY <1>1, <1>2, <1>3, <2>1, <3>1 DEF TypeOK
    <3>2. CASE q # r
      BY <1>1, <1>2, <2>1, <3>2 DEF TypeOK, Expiry
    <3> QED BY <3>1, <3>2
  <2>3. now' \in 0..MaxTime /\ leases' \in [Requests -> Nat]
    BY <1>1, <2>1 DEF TypeOK
  <2> QED BY <1>4, <2>1, <2>2, <2>3 DEF TypeOK
<1>6. LockInv'
  BY <1>2, LockKept DEF Inv, Holders
<1>7. RowsInv'
  BY <1>1, <1>2, RowsKept DEF Inv
<1>8. QuotaInv'
  BY AllowQuota, LimitedQuota
<1> QED BY <1>5, <1>6, <1>7, <1>8 DEF Inv

\* The purge deletes rows only, and a request that goes on has counted a free place.
LEMMA CountInv == ASSUME Inv, NEW r \in Requests, Count(r) PROVE Inv'
<1>1. /\ At(r, "locked") /\ UNCHANGED <<now, hits>> /\ leases \in [Requests -> Nat]
      /\ leases' = [q \in Requests |-> IF leases[q] <= req[r].began THEN NoLease ELSE leases[q]]
  BY DEF Count, Purged, Inv, TypeOK
<1>2. /\ req' \in [Requests -> Requested]
      /\ req'[r].pc \in {"busy", "insert"} /\ req'[r].asked = req[r].asked
      /\ req'[r].began = req[r].began
      /\ \A q \in Requests : q # r => req'[q] = req[q]
  BY GoesFacts DEF Count, Inv, Places, BeforeLease
<1>3. \A q \in Requests : leases'[q] \in {NoLease, leases[q]} /\ leases'[q] \in Nat
  BY <1>1 DEF NoLease
<1>4. leases[r] = NoLease
  BY <1>1 DEF Inv, TypeOK, At
<1>5. TypeOK'
  <2>1. TypeOK /\ req' \in [Requests -> [pc: Places, asked: 0..MaxTime, began: 0..MaxTime]]
    BY <1>2 DEF Inv, Requested
  <2>2. ASSUME NEW q \in Requests
        PROVE  /\ req'[q].asked <= now' /\ req'[q].began <= now'
               /\ req'[q].pc # "new" => (Category(q) = "none" <=> req'[q].pc = "unlimited")
               /\ leases'[q] # NoLease => /\ req'[q].pc \in {"inside", "lost"}
                                         /\ leases'[q] = Expiry(q)'
    <3>1. CASE q = r
      BY <1>1, <1>2, <1>3, <1>4, <2>1, <3>1 DEF TypeOK, At
    <3>2. CASE q # r
      BY <1>1, <1>2, <1>3, <2>1, <3>2 DEF TypeOK, Expiry
    <3> QED BY <3>1, <3>2
  <2>3. now' \in 0..MaxTime /\ leases' \in [Requests -> Nat]
    BY <1>1, <1>3, <2>1 DEF TypeOK
  <2>4. hits' \in [Keys -> Nat]
    BY <1>1, <2>1 DEF TypeOK
  <2> QED BY <2>1, <2>2, <2>3, <2>4 DEF TypeOK
<1>6. LockInv'
  BY <1>1, <1>2, LockKept DEF Inv, Holders, At
<1>7. RowsInv'
  <2> SUFFICES ASSUME NEW c \in Categories
               PROVE  /\ Cardinality(Rows(c)') <= Limits[c].max_concurrent
                      /\ \A q \in Requests : Category(q) = c /\ req'[q].pc = "insert"
                           => Cardinality(Rows(c)') < Limits[c].max_concurrent
    BY DEF RowsInv, At
  <2>1. Rows(c)' \in SUBSET Rows(c) /\ Rows(c) \in SUBSET Requests /\ Rows(c)' \in SUBSET Requests
    BY <1>3 DEF Rows
  <2>2. /\ Cardinality(Rows(c)') <= Cardinality(Rows(c))
        /\ Cardinality(Rows(c)') \in Nat /\ Cardinality(Rows(c)) \in Nat
    BY <2>1, CountSmaller, Countable
  <2>3. /\ Cardinality(Rows(c)) <= Limits[c].max_concurrent
        /\ \A q \in Requests : Category(q) = c /\ req[q].pc = "insert"
             => Cardinality(Rows(c)) < Limits[c].max_concurrent
        /\ Limits[c].max_concurrent \in Nat
    BY PolicyTypes DEF Inv, RowsInv, At
  <2>4. ASSUME Category(r) = c, req'[r].pc = "insert"
        PROVE  Cardinality(Rows(c)') < Limits[c].max_concurrent
    <3>1. ~(Cardinality(Rows(Category(r))') >= Policy(r).max_concurrent)
      BY <2>4, <1>1, <1>2 DEF Count, Goes, Inv, TypeOK
    <3> QED BY <2>2, <2>3, <2>4, <3>1 DEF Policy
  <2> QED BY <1>2, <2>2, <2>3, <2>4
<1>8. QuotaInv'
  <2>1. \A q \in Requests : req'[q].pc \in PassedPlaces
          => req[q].pc \in PassedPlaces /\ req'[q].asked = req[q].asked
    BY <1>1, <1>2 DEF PassedPlaces, BeforeLease, At
  <2> QED BY <1>1, <2>1, QuotaKept DEF Inv, TypeOK
<1> QED BY <1>5, <1>6, <1>7, <1>8 DEF Inv

\* The row that is inserted takes the place that was counted free.
LEMMA InsertInv ==
  ASSUME Inv, NEW r \in Requests, NEW pc \in {"inside", "lost"}, At(r, "insert"), Goes(r, pc),
         leases' = [leases EXCEPT ![r] = Expiry(r)], UNCHANGED <<now, hits>>
  PROVE  Inv'
<1>1. /\ req' \in [Requests -> Requested]
      /\ req'[r].pc = pc /\ req'[r].asked = req[r].asked /\ req'[r].began = req[r].began
      /\ \A q \in Requests : q # r => req'[q] = req[q]
  BY GoesFacts DEF Inv, Places
<1>2. Category(r) \in Categories /\ Expiry(r) \in Nat /\ leases \in [Requests -> Nat]
  <2>1. Category(r) \in Categories /\ req[r].began \in 0..MaxTime
    BY PolicyTypes DEF Inv, TypeOK, At
  <2> QED BY <2>1, PolicyTypes DEF Expiry, Policy, Inv, TypeOK
<1>3. leases'[r] = Expiry(r) /\ \A q \in Requests : q # r => leases'[q] = leases[q]
  BY <1>2
<1>4. TypeOK'
  <2>1. TypeOK /\ req' \in [Requests -> [pc: Places, asked: 0..MaxTime, began: 0..MaxTime]]
    BY <1>1 DEF Inv, Requested
  <2>2. ASSUME NEW q \in Requests
        PROVE  /\ req'[q].asked <= now' /\ req'[q].began <= now'
               /\ req'[q].pc # "new" => (Category(q) = "none" <=> req'[q].pc = "unlimited")
               /\ leases'[q] # NoLease => /\ req'[q].pc \in {"inside", "lost"}
                                         /\ leases'[q] = Expiry(q)'
    <3>1. CASE q = r
      BY <1>1, <1>2, <1>3, <2>1, <3>1 DEF TypeOK, At, Expiry, Categories
    <3>2. CASE q # r
      BY <1>1, <1>3, <2>1, <3>2 DEF TypeOK, Expiry
    <3> QED BY <3>1, <3>2
  <2>3. now' \in 0..MaxTime /\ leases' \in [Requests -> Nat] /\ hits' \in [Keys -> Nat]
    BY <1>2, <2>1 DEF TypeOK
  <2> QED BY <2>1, <2>2, <2>3 DEF TypeOK
<1>5. LockInv'
  BY <1>1, LockKept DEF Inv, Holders
<1>6. RowsInv'
  <2> SUFFICES ASSUME NEW c \in Categories
               PROVE  /\ Cardinality(Rows(c)') <= Limits[c].max_concurrent
                      /\ \A q \in Requests : Category(q) = c /\ req'[q].pc = "insert"
                           => Cardinality(Rows(c)') < Limits[c].max_concurrent
    BY DEF RowsInv, At
  <2>1. /\ Cardinality(Rows(c)) <= Limits[c].max_concurrent
        /\ \A q \in Requests : Category(q) = c /\ req[q].pc = "insert"
             => Cardinality(Rows(c)) < Limits[c].max_concurrent
        /\ Limits[c].max_concurrent \in Nat
    BY PolicyTypes DEF Inv, RowsInv, At
  <2>2. CASE Category(r) = c
    <3>1. Rows(c)' \in SUBSET (Rows(c) \cup {r}) /\ Rows(c) \in SUBSET Requests
          /\ Rows(c)' \in SUBSET Requests /\ Rows(c) \cup {r} \in SUBSET Requests
      BY <1>3 DEF Rows
    <3>2. /\ IsFiniteSet(Rows(c)) /\ Cardinality(Rows(c)) \in Nat
          /\ Cardinality(Rows(c)') \in Nat /\ Cardinality(Rows(c) \cup {r}) \in Nat
          /\ Cardinality(Rows(c)') <= Cardinality(Rows(c) \cup {r})
      BY <3>1, Countable, CountSmaller
    <3>3. Cardinality(Rows(c) \cup {r}) \in {Cardinality(Rows(c)), Cardinality(Rows(c)) + 1}
      BY <3>2, FS_AddElement
    <3>4. Cardinality(Rows(c)) < Limits[c].max_concurrent
      BY <2>1, <2>2 DEF At
    <3>5. \A q \in Requests : Category(q) = c => req'[q].pc # "insert"
      BY <1>1, <2>2 DEF Inv, LockInv, Holders, At
    <3> QED BY <2>1, <3>2, <3>3, <3>4, <3>5
  <2>3. CASE Category(r) # c
    <3>1. Rows(c)' = Rows(c)
      BY <1>3, <2>3 DEF Rows
    <3> QED BY <1>1, <2>1, <3>1
  <2> QED BY <2>2, <2>3
<1>7. QuotaInv'
  <2>1. \A q \in Requests : req'[q].pc \in PassedPlaces
          => req[q].pc \in PassedPlaces /\ req'[q].asked = req[q].asked
    BY <1>1 DEF PassedPlaces, BeforeLease, At
  <2> QED BY <2>1, QuotaKept DEF Inv, TypeOK
<1> QED BY <1>4, <1>5, <1>6, <1>7 DEF Inv

LEMMA ReleaseInv == ASSUME Inv, NEW r \in Requests, Release(r) PROVE Inv'
<1>1. /\ At(r, "inside") /\ UNCHANGED <<now, hits>> /\ leases \in [Requests -> Nat]
      /\ leases' = [leases EXCEPT ![r] = NoLease]
  BY DEF Release, Inv, TypeOK
<1>2. /\ req' \in [Requests -> Requested]
      /\ req'[r].pc = "done" /\ req'[r].asked = req[r].asked /\ req'[r].began = req[r].began
      /\ \A q \in Requests : q # r => req'[q] = req[q]
  BY GoesFacts DEF Release, Inv, Places
<1>3. /\ leases'[r] = NoLease /\ leases' \in [Requests -> Nat]
      /\ \A q \in Requests : q # r => leases'[q] = leases[q]
  BY <1>1 DEF NoLease
<1>4. TypeOK'
  BY <1>1, <1>2, <1>3 DEF Inv, TypeOK, Requested, Expiry, At
<1> QED BY <1>1, <1>2, <1>3, <1>4, Quiet DEF Holders, PassedPlaces, BeforeLease, At

\* A request that is cut off: before its lease nothing remains, inside it the lease.
LEMMA CutOffInv ==
  ASSUME Inv, req' \in [Requests -> Requested], UNCHANGED <<now, hits, leases>>,
         \A q \in Requests :
           \/ req'[q] = req[q]
           \/ req[q].pc \in BeforeLease /\ req'[q] = Ended("gone")
           \/ req[q].pc = "inside" /\ req'[q].pc = "lost" /\ req'[q].asked = req[q].asked
              /\ req'[q].began = req[q].began
  PROVE  Inv'
<1>1. \A q \in Requests : Ended("gone").pc = "gone" /\ Ended("gone").asked = 0
                          /\ Ended("gone").began = 0
  BY DEF Ended
<1>2. TypeOK'
  <2>1. TypeOK /\ req' \in [Requests -> [pc: Places, asked: 0..MaxTime, began: 0..MaxTime]]
    BY DEF Inv, Requested
  <2>2. ASSUME NEW q \in Requests
        PROVE  /\ req'[q].asked <= now /\ req'[q].began <= now
               /\ req'[q].pc # "new" => (Category(q) = "none" <=> req'[q].pc = "unlimited")
               /\ leases[q] # NoLease => /\ req'[q].pc \in {"inside", "lost"}
                                        /\ leases[q] = Expiry(q)'
    <3>1. now \in Nat
      BY <2>1, PolicyTypes DEF TypeOK
    <3>2. CASE req'[q] = req[q]
      BY <2>1, <3>2 DEF TypeOK, Expiry
    <3>3. CASE req[q].pc \in BeforeLease /\ req'[q] = Ended("gone")
      BY <1>1, <2>1, <3>1, <3>3 DEF TypeOK, BeforeLease
    <3>4. CASE req[q].pc = "inside" /\ req'[q].pc = "lost" /\ req'[q].asked = req[q].asked
               /\ req'[q].began = req[q].began
      BY <2>1, <3>4 DEF TypeOK, Expiry
    <3> QED BY <3>2, <3>3, <3>4
  <2> QED BY <2>1, <2>2 DEF TypeOK
<1>3. \A q \in Requests : req'[q].pc \in Holders => req'[q].pc = req[q].pc
  BY <1>1 DEF Holders
<1>4. \A q \in Requests : req'[q].pc \in PassedPlaces
        => req[q].pc \in PassedPlaces /\ req'[q].asked = req[q].asked
  BY <1>1 DEF PassedPlaces, BeforeLease
<1> QED BY <1>2, <1>3, <1>4, Quiet

LEMMA LoseInv == ASSUME Inv, NEW r \in Requests, Lose(r) PROVE Inv'
<1>1. CASE req[r].pc \in BeforeLease /\ Ends(r, "gone")
  <2>1. req' \in [Requests -> Requested]
    BY <1>1, EndsFacts DEF Inv, Places
  <2>2. req'[r] = Ended("gone") /\ \A q \in Requests : q # r => req'[q] = req[q]
    BY <1>1 DEF Ends, Inv, TypeOK
  <2> QED BY <1>1, <2>1, <2>2, CutOffInv DEF Lose
<1>2. CASE At(r, "inside") /\ Goes(r, "lost")
  <2>1. /\ req' \in [Requests -> Requested]
        /\ req'[r].pc = "lost" /\ req'[r].asked = req[r].asked /\ req'[r].began = req[r].began
        /\ \A q \in Requests : q # r => req'[q] = req[q]
    BY <1>2, GoesFacts DEF Inv, Places
  <2> QED BY <1>2, <2>1, CutOffInv DEF Lose, At
<1> QED BY <1>1, <1>2 DEF Lose

LEMMA CrashInv == ASSUME Inv, Crash PROVE Inv'
<1>1. req \in [Requests -> Requested]
  BY DEF Inv, TypeOK, Requested
<1>2. ASSUME NEW q \in Requests
      PROVE  /\ req'[q] \in Requested
             /\ \/ req'[q] = req[q]
                \/ req[q].pc \in BeforeLease /\ req'[q] = Ended("gone")
                \/ req[q].pc = "inside" /\ req'[q].pc = "lost" /\ req'[q].asked = req[q].asked
                   /\ req'[q].began = req[q].began
  <2>1. Ended("gone") \in Requested
    BY PolicyTypes DEF Ended, Requested, Places
  <2>2. [req[q] EXCEPT !.pc = "lost"] \in Requested
    BY <1>1 DEF Requested, Places
  <2> QED BY <1>1, <2>1, <2>2 DEF Crash, At, Requested
<1>3. req' \in [Requests -> Requested]
  BY <1>2 DEF Crash
<1> QED BY <1>2, <1>3, CutOffInv DEF Crash

LEMMA TickInv == ASSUME Inv, Tick PROVE Inv'
<1>1. now \in Nat /\ now' = now + 1 /\ now' \in 0..MaxTime /\ UNCHANGED <<hits, leases, req>>
  BY PolicyTypes DEF Tick, Inv, TypeOK
<1>2. TypeOK'
  <2>1. \A q \in Requests : req[q].asked \in Nat /\ req[q].began \in Nat
    BY PolicyTypes DEF Inv, TypeOK
  <2> QED BY <1>1, <2>1 DEF Inv, TypeOK, Expiry
<1> QED BY <1>1, <1>2, Quiet DEF Holders

LEMMA InvNext == Inv /\ [Next]_vars => Inv'
<1> SUFFICES ASSUME Inv, [Next]_vars PROVE Inv'
  OBVIOUS
<1>1. ASSUME NEW r \in Requests, Enter(r) \/ LoseAnswer(r) PROVE Inv'
  BY <1>1, InsertInv DEF Enter, LoseAnswer
<1>2. ASSUME NEW r \in Requests,
             \/ PassUnlimited(r) \/ Allow(r) \/ Acquire(r) \/ TakeLock(r) \/ Count(r)
             \/ Release(r) \/ Lose(r)
      PROVE  Inv'
  BY <1>2, PassUnlimitedInv, AllowInv, AcquireInv, TakeLockInv, CountInv, ReleaseInv, LoseInv
<1>3. CASE UNCHANGED vars
  <2>1. TypeOK' /\ UNCHANGED <<now, hits, leases, req>>
    BY <1>3 DEF vars, Inv, TypeOK, Expiry
  <2> QED BY <2>1, Quiet
<1> QED BY <1>1, <1>2, <1>3, CrashInv, TickInv DEF Next

LEMMA Invariance == Spec => []Inv
BY InitInv, InvNext, PTL DEF Spec

(***************************************************************************)
(* The theorems.                                                           *)
(***************************************************************************)
\* Types, for every set of requests and every policy.
THEOREM LimitsTypeCorrect == Spec => []TypeOK
<1>1. Inv => TypeOK
  BY DEF Inv
<1> QED BY <1>1, Invariance, PTL

\* At most max_concurrent requests of a category are inside within their leases.
THEOREM InsideBoundedCorrect == Spec => []InsideBounded
<1>1. ASSUME Inv PROVE InsideBounded
  <2> SUFFICES ASSUME NEW c \in Categories
               PROVE  Cardinality(WithinLease(c)) <= Limits[c].max_concurrent
    BY DEF InsideBounded
  <2>1. \A r \in Requests : now < leases[r] => leases[r] # NoLease
    BY <1>1, PolicyTypes DEF Inv, TypeOK, NoLease
  <2>2. WithinLease(c) \in SUBSET Rows(c) /\ Rows(c) \in SUBSET Requests
        /\ WithinLease(c) \in SUBSET Requests
    BY <2>1 DEF WithinLease, Rows
  <2>3. /\ Cardinality(WithinLease(c)) <= Cardinality(Rows(c))
        /\ Cardinality(WithinLease(c)) \in Nat /\ Cardinality(Rows(c)) \in Nat
    BY <2>2, CountSmaller, Countable
  <2>4. Cardinality(Rows(c)) <= Limits[c].max_concurrent /\ Limits[c].max_concurrent \in Nat
    BY <1>1, PolicyTypes DEF Inv, RowsInv
  <2> QED BY <2>3, <2>4
<1> QED BY <1>1, Invariance, PTL

\* No span of window_seconds lets a subject pass more than twice its quota.
THEOREM AdmittedWithinQuotaCorrect == Spec => []AdmittedWithinQuota
<1>1. ASSUME Inv PROVE AdmittedWithinQuota
  <2> SUFFICES ASSUME NEW s \in Subjects, NEW c \in Categories, NEW t \in 0..MaxTime
               PROVE  Cardinality(Passed(s, c, t, t + Limits[c].window_seconds - 1))
                        <= 2 * Limits[c].requests
    BY DEF AdmittedWithinQuota
  <2> DEFINE P == Passed(s, c, t, t + Limits[c].window_seconds - 1)
             v == Window(t, Limits[c])
             w == Window(t, Limits[c]) + Limits[c].window_seconds
             A == PassedIn(s, c, v)
             B == PassedIn(s, c, w)
  <2>1. t \in Nat /\ Limits[c].requests \in Nat /\ Limits[c].window_seconds \in Nat \ {0}
    BY PolicyTypes
  <2>2. v \in 0..MaxTime /\ w \in Nat
    <3>1. v \in 0..t
      BY <2>1, WindowFacts
    <3> HIDE DEF v
    <3>2. v \in 0..MaxTime /\ v \in Nat
      BY <2>1, <3>1, PolicyTypes
    <3> QED BY <2>1, <3>2 DEF v
  <2>3. P \in SUBSET (A \cup B) /\ A \in SUBSET Requests /\ B \in SUBSET Requests
        /\ A \cup B \in SUBSET Requests /\ P \in SUBSET Requests
    <3>1. \A r \in Requests : req[r].asked \in t..(t + Limits[c].window_seconds - 1)
            => Window(req[r].asked, Limits[c]) \in {v, w}
      BY <2>1, TwoWindows
    <3> QED BY <3>1 DEF Passed, PassedIn, PassedPlaces
  <2>4. Cardinality(A) <= Limits[c].requests
    <3> HIDE DEF v
    <3> QED BY <1>1, <2>2 DEF Inv, QuotaInv
  <2>5. Cardinality(B) <= Limits[c].requests
    <3>1. CASE w \in 0..MaxTime
      BY <1>1, <3>1 DEF Inv, QuotaInv
    <3>2. CASE w \notin 0..MaxTime
      <4>1. ASSUME NEW r \in Requests PROVE Window(req[r].asked, Limits[c]) # w
        <5>1. req[r].asked \in 0..MaxTime /\ req[r].asked \in Nat
          BY <1>1, PolicyTypes DEF Inv, TypeOK
        <5>2. Window(req[r].asked, Limits[c]) \in 0..req[r].asked
          BY <5>1, WindowFacts
        <5> QED BY <2>2, <3>2, <5>1, <5>2, PolicyTypes
      <4>2. B = {}
        BY <4>1 DEF PassedIn
      <4> QED BY <2>1, <4>2, FS_EmptySet
    <3> QED BY <3>1, <3>2
  <2> HIDE DEF P, A, B
  <2>6. /\ Cardinality(P) <= Cardinality(A \cup B)
        /\ Cardinality(P) \in Nat /\ Cardinality(A \cup B) \in Nat
        /\ Cardinality(A) \in Nat /\ Cardinality(B) \in Nat
        /\ IsFiniteSet(A) /\ IsFiniteSet(B)
    BY <2>3, CountSmaller, Countable
  <2>7. Cardinality(A \cup B) <= Cardinality(A) + Cardinality(B)
    <3>1. /\ IsFiniteSet(A \cap B) /\ Cardinality(A \cap B) \in Nat
          /\ Cardinality(A \cup B) = Cardinality(A) + Cardinality(B) - Cardinality(A \cap B)
      BY <2>3, <2>6, FS_Union, FS_Intersection, FS_CardinalityType
    <3> QED BY <2>6, <3>1
  <2> QED BY <2>1, <2>4, <2>5, <2>6, <2>7 DEF P
<1> QED BY <1>1, Invariance, PTL

\* A request is refused a place only where max_concurrent leases were running when
\* it began to wait, of requests that are inside or were cut off.
THEOREM RefusedOnlyWhenFullCorrect == Spec => RefusedOnlyWhenFull
<1>1. ASSUME Inv, [Next]_vars, NEW r \in Requests, req'[r].pc = "busy", req[r].pc # "busy"
      PROVE  Cardinality(Holding(r)) >= Policy(r).max_concurrent
  <2>1. Count(r)
    <3>1. ASSUME NEW q \in Requests,
                 \/ PassUnlimited(q) \/ Allow(q) \/ Acquire(q) \/ TakeLock(q) \/ Enter(q)
                 \/ Release(q) \/ Lose(q) \/ LoseAnswer(q)
          PROVE  FALSE
      <4> DEFINE Others == Places \ {"busy"}
      <4>1. \E p \in Others : Goes(q, p) \/ Ends(q, p) \/ Acquire(q)
                            \/ req' = [req EXCEPT ![q].pc = "allowed", ![q].asked = now]
        BY <3>1 DEF PassUnlimited, Allow, TakeLock, Enter, Release, Lose, LoseAnswer,
                    Places, BeforeLease
      <4>2. PICK p \in Others : Goes(q, p) \/ Ends(q, p) \/ Acquire(q)
                            \/ req' = [req EXCEPT ![q].pc = "allowed", ![q].asked = now]
        BY <4>1
      <4>3. \A x \in Requests : req'[x].pc \in Others \cup {req[x].pc}
        BY <4>2, GoesFacts, EndsFacts, <1>1 DEF Acquire, Inv, TypeOK, Places, BeforeLease
      <4> QED BY <1>1, <4>3
    <3>2. ASSUME NEW q \in Requests, Count(q), q # r PROVE FALSE
      BY <1>1, <3>2 DEF Count, Goes, Inv, TypeOK
    <3>3. ~Crash
      <4>1. ASSUME Crash PROVE req'[r].pc \in {"gone", "lost", req[r].pc}
        <5>1. req'[r] \in {Ended("gone"), [req[r] EXCEPT !.pc = "lost"], req[r]}
          BY <4>1 DEF Crash
        <5>2. Ended("gone").pc = "gone" /\ [req[r] EXCEPT !.pc = "lost"].pc = "lost"
          BY <1>1 DEF Ended, Inv, TypeOK
        <5> QED BY <5>1, <5>2
      <4> QED BY <1>1, <4>1
    <3>4. ~Tick /\ ~UNCHANGED vars
      BY <1>1 DEF Tick, vars
    <3> QED BY <1>1, <3>1, <3>2, <3>3, <3>4 DEF Next
  <2>2. Cardinality(Rows(Category(r))') >= Policy(r).max_concurrent
    BY <1>1, <2>1 DEF Count, Goes, Inv, TypeOK
  <2>3. Rows(Category(r))' \in SUBSET Holding(r)
    <3>1. ASSUME NEW q \in Requests, Category(q) = Category(r), leases'[q] # NoLease
          PROVE  req[q].pc \in {"inside", "lost"} /\ req[r].began < Expiry(q)
      <4>1. leases'[q] = IF leases[q] <= req[r].began THEN NoLease ELSE leases[q]
        BY <2>1 DEF Count, Purged
      <4>2. leases[q] \in Nat /\ req[r].began \in Nat
        BY <1>1, PolicyTypes DEF Inv, TypeOK
      <4>3. leases[q] # NoLease /\ req[r].began < leases[q]
        BY <3>1, <4>1, <4>2 DEF NoLease
      <4> QED BY <1>1, <4>3 DEF Inv, TypeOK
    <3> QED BY <3>1 DEF Rows, Holding
  <2>4. Holding(r) \in SUBSET Requests /\ Rows(Category(r))' \in SUBSET Requests
    BY DEF Holding, Rows
  <2>5. Cardinality(Rows(Category(r))') <= Cardinality(Holding(r))
        /\ Cardinality(Rows(Category(r))') \in Nat /\ Cardinality(Holding(r)) \in Nat
    BY <2>3, <2>4, CountSmaller, Countable
  <2>6. Policy(r).max_concurrent \in Nat
    <3>1. Category(r) \in Categories
      BY <1>1, <2>1, PolicyTypes DEF Inv, TypeOK, Count, At
    <3> QED BY <3>1, PolicyTypes DEF Policy
  <2> QED BY <2>2, <2>5, <2>6
<1>2. Inv /\ [Next]_vars =>
        [\A r \in Requests : req'[r].pc = "busy" /\ req[r].pc # "busy"
           => Cardinality(Holding(r)) >= Policy(r).max_concurrent]_vars
  BY <1>1
<1> QED BY <1>2, Invariance, PTL DEF Spec, RefusedOnlyWhenFull
=============================================================================
