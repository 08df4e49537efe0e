-------------------------- MODULE RetentionProofs --------------------------
(***************************************************************************)
(* What holds of retention for every set of applications, every change of  *)
(* policy and every number of calls and restarts: types, the truth of a    *)
(* tombstone, and what must have happened before a row goes.               *)
(*                                                                         *)
(* TombstoneTrue is not inductive.  Part adds what the maintenance task    *)
(* has done by each of its steps, that a listed application which no call  *)
(* met is still terminal and expired with no call under way, and that a    *)
(* worker that has loaded from the folder works while the folder is there. *)
(***************************************************************************)
EXTENDS Retention, TLAPS

Listed(a) == a \in keeper.todo \/ keeper.app = a

DoneByTask(a) ==
  /\ ~met[a] /\ keeper.app = a =>
       /\ keeper.pc \in {"files", "complete"} => ~docs[a]
       /\ keeper.pc = "complete" => ~files[a]
       /\ keeper.pc = "row" => cp[a] = NoCheckpoint
  /\ keeper.app = a =>
       /\ keeper.pc \in {"folder", "checkpoint", "row"} => tomb[a]
       /\ a \notin keeper.todo

LeftAlone(a) == ~met[a] /\ Listed(a) => Over(a) /\ ~UnderWay(a)
WorksInFolder(a) == ~met[a] /\ call[a].pc = "work" => files[a]
CommandTrue(a) == \A p \in Policies : outbox[a][p] = "completed" => tomb[a]
Gone(a) == tomb[a] /\ ~met[a] => ~docs[a] /\ ~files[a]

Part(a) == DoneByTask(a) /\ LeftAlone(a) /\ WorksInFolder(a) /\ CommandTrue(a) /\ Gone(a)
Inv == TypeOK /\ \A a \in Apps : Part(a)

(***************************************************************************)
(* Types.                                                                  *)
(***************************************************************************)
LEMMA Constants == NoApp \notin Apps /\ FirstPolicy \in Policies /\ MaxCalls \in [Apps -> Nat]
                   /\ MaxRestarts \in Nat
BY RetentionAssumption

\* TypeOK's parts.
Calls == [pc: {"none", "update", "status", "invoke", "load", "work"}, to: Status]
RowOK == row \in [Apps -> RowTypes]
         /\ \A a \in Apps : row[a].stale => row[a].status \in {"running", "paused"} /\ row[a].old
CallOK == call \in [Apps -> Calls]
KeeperOK == keeper \in [pc: Places, todo: SUBSET Apps, app: Apps \cup {NoApp}]
            /\ (keeper.pc \in Places \ {"idle", "list", "next", "dead"} => App \in Apps)
StoresOK ==
  /\ cp \in [Apps -> Status \cup {NoCheckpoint}]
  /\ files \in [Apps -> BOOLEAN] /\ docs \in [Apps -> BOOLEAN]
  /\ outbox \in [Apps -> [Policies -> {"none", "pending", "failed", "completed"}]]
  /\ tomb \in [Apps -> BOOLEAN]
CountsOK ==
  /\ policy \in Policies /\ restarts \in 0..MaxRestarts
  /\ calls \in [Apps -> Nat] /\ \A a \in Apps : calls[a] <= MaxCalls[a]
MetOK == met \in [Apps -> BOOLEAN]

LEMMA TypeParts ==
  /\ TypeOK => RowOK /\ CallOK /\ KeeperOK /\ StoresOK /\ CountsOK /\ MetOK
  /\ RowOK' /\ CallOK' /\ KeeperOK' /\ StoresOK' /\ CountsOK' /\ MetOK' => TypeOK'
BY DEF TypeOK, RowOK, CallOK, Calls, KeeperOK, StoresOK, CountsOK, MetOK

LEMMA MetType == Recorded => MetOK'
<1> SUFFICES ASSUME Recorded PROVE MetOK'
  OBVIOUS
<1>1. \A a \in Apps : (met[a] \/ Overlap(a)') \in BOOLEAN
  OBVIOUS
<1> QED BY <1>1, Zenon DEF Recorded, MetOK

LEMMA RowSet ==
  ASSUME RowOK, NEW r \in Apps, NEW s \in Status, SetStatus(r, s)
  PROVE  RowOK'
BY DEF SetStatus, RowOK, RowTypes

LEMMA CallSet ==
  ASSUME CallOK, NEW r \in Apps
  PROVE  /\ \A pc \in {"update", "status", "invoke", "load", "work"}, s \in Status :
              CallGoes(r, pc, s) => CallOK'
         /\ call' = [call EXCEPT ![r] = NoCall] => CallOK'
BY DEF CallOK, Calls, CallGoes, NoCall, Status

LEMMA KeeperSet ==
  ASSUME KeeperOK
  PROVE  /\ keeper' \in {Idle, Dead} => KeeperOK'
         /\ \A pc \in {"idle", "list", "next", "dead"} : KeeperGoes(pc) => KeeperOK'
         /\ keeper.pc \in Places \ {"idle", "list", "next", "dead"}
              => \A pc \in Places : KeeperGoes(pc) => KeeperOK'
<1>1. keeper' \in {Idle, Dead} => KeeperOK'
  BY DEF KeeperOK, Idle, Dead, Places
<1>2. ASSUME NEW pc \in {"idle", "list", "next", "dead"}, KeeperGoes(pc) PROVE KeeperOK'
  BY <1>2 DEF KeeperOK, KeeperGoes, Places, App
<1>3. ASSUME keeper.pc \in Places \ {"idle", "list", "next", "dead"},
             NEW pc \in Places, KeeperGoes(pc) PROVE KeeperOK'
  BY <1>3 DEF KeeperOK, KeeperGoes, App
<1> QED BY <1>1, <1>2, <1>3

LEMMA InitType == Init => TypeOK
BY Constants DEF Init, TypeOK, NoCall, Idle, RowTypes, Status, NoCheckpoint, Places

LEMMA CallType ==
  ASSUME TypeOK, NEW r \in Apps, Age(r) \/ Call(r)
  PROVE  TypeOK'
<1> USE TypeParts, MetType DEF KeepsRest, records, stores
<1>1. ASSUME Age(r) PROVE TypeOK'
  <2>1. RowOK'
    BY <1>1 DEF Age, RowOK, RowTypes, HasRow, NoRow
  <2> QED BY <1>1, <2>1 DEF Age, CallOK, KeeperOK, StoresOK, CountsOK, App
<1>2. ASSUME Mark(r) \/ Reopen(r) PROVE TypeOK'
  <2>1. CallOK'
    BY <1>2, CallSet DEF Mark, Reopen, Status
  <2>2. CountsOK'
    BY <1>2, Constants DEF Mark, Reopen, Begins, CountsOK
  <2> QED BY <1>2, <2>1, <2>2 DEF Mark, Reopen, RowOK, KeeperOK, StoresOK, App
<1>3. ASSUME Update(r) PROVE TypeOK'
  <2>1. call[r].to \in Status
    BY DEF CallOK, Calls
  <2>2. CallOK' /\ StoresOK'
    BY <1>3, <2>1, CallSet DEF Update, StoresOK
  <2> QED BY <1>3, <2>2 DEF Update, RowOK, KeeperOK, CountsOK, App
<1>4. ASSUME WriteStatus(r) PROVE TypeOK'
  <2>1. call[r].to \in Status /\ "running" \in Status
    BY DEF CallOK, Calls, Status
  <2>2. CallOK'
    BY <1>4, <2>1, CallSet DEF WriteStatus
  <2>3. RowOK'
    <3>1. CASE HasRow(r)
      BY <1>4, <2>1, <3>1, RowSet DEF WriteStatus
    <3>2. CASE ~HasRow(r)
      BY <1>4, <3>2 DEF WriteStatus, RowOK
    <3> QED BY <3>1, <3>2
  <2> QED BY <1>4, <2>2, <2>3 DEF WriteStatus, KeeperOK, StoresOK, CountsOK, App
<1>5. ASSUME Invoke(r) PROVE TypeOK'
  <2>1. CallOK'
    BY <1>5, CallSet DEF Invoke, Status
  <2>2. StoresOK'
    BY <1>5 DEF Invoke, StoresOK, Status
  <2> QED BY <1>5, <2>1, <2>2 DEF Invoke, RowOK, KeeperOK, CountsOK, App
<1>6. ASSUME Load(r) \/ Save(r) PROVE TypeOK'
  <2>1. CallOK'
    BY <1>6, CallSet DEF Load, Save, Status
  <2>2. StoresOK'
    BY <1>6 DEF Load, Save, StoresOK
  <2> QED BY <1>6, <2>1, <2>2 DEF Load, Save, RowOK, KeeperOK, CountsOK, App
<1> QED BY <1>1, <1>2, <1>3, <1>4, <1>5, <1>6 DEF Call

LEMMA KeeperType ==
  ASSUME TypeOK, Keeper
  PROVE  TypeOK'
<1> USE TypeParts, MetType DEF KeepsCalls, records, stores
<1> DEFINE Between == {"outbox", "documents", "files", "failed", "complete", "folder",
                       "checkpoint", "row"}
<1>0. Between = Places \ {"idle", "list", "next", "dead"}
      /\ {"failed", "files", "complete", "checkpoint", "row", "folder", "documents"} \in SUBSET Places
  BY DEF Places
<1>a. \A p \in Between : KeeperAt(p) => App \in Apps
  BY <1>0 DEF KeeperAt, KeeperOK
<1>b. ASSUME NEW p \in Between, KeeperAt(p), NEW q \in Places, KeeperGoes(q) PROVE KeeperOK'
  BY <1>0, <1>b, KeeperSet DEF KeeperAt
<1> HIDE DEF Between
<1>c. {"outbox", "documents", "files", "failed", "complete", "folder", "checkpoint", "row"}
        \in SUBSET Between
  BY DEF Between
<1>1. ASSUME FlagStale PROVE TypeOK'
  <2>1. RowOK'
    <3>1. \A a \in Apps : row[a] \in RowTypes
      BY DEF RowOK
    <3>2. ASSUME NEW a \in Apps
          PROVE  /\ row'[a] \in RowTypes
                 /\ row'[a].stale => row'[a].status \in {"running", "paused"} /\ row'[a].old
      BY <1>1, <3>1 DEF FlagStale, RowOK, RowTypes
    <3>3. row' = [a \in Apps |-> row'[a]]
      BY <1>1 DEF FlagStale
    <3> HIDE DEF RowTypes
    <3> QED BY <3>2, <3>3 DEF RowOK
  <2>2. KeeperOK'
    BY <1>1, KeeperSet DEF FlagStale
  <2> QED BY <1>1, <2>1, <2>2 DEF FlagStale, CallOK, StoresOK, CountsOK
<1>2. ASSUME ListExpired \/ NextExpired PROVE TypeOK'
  <2>1. KeeperOK'
    <3>1. CASE ListExpired
      BY <3>1 DEF ListExpired, KeeperOK, Expired, Places
    <3>2. CASE NextExpired /\ keeper' = Idle
      BY <3>2, KeeperSet
    <3>3. CASE NextExpired /\ keeper' # Idle
      <4>1. PICK a \in keeper.todo :
              keeper' = [pc |-> "outbox", todo |-> keeper.todo \ {a}, app |-> a]
        BY <3>3 DEF NextExpired
      <4>2. a \in Apps /\ keeper.todo \ {a} \in SUBSET Apps
        BY DEF KeeperOK
      <4> QED BY <4>1, <4>2 DEF KeeperOK, Places, App
    <3> QED BY <1>2, <3>1, <3>2, <3>3
  <2> QED BY <1>2, <2>1 DEF ListExpired, NextExpired, RowOK, CallOK, StoresOK, CountsOK
<1>3. ASSUME Outbox PROVE TypeOK'
  <2>1. KeeperOK'
    BY <1>0, <1>b, <1>c, <1>3 DEF Outbox
  <2>2. StoresOK'
    BY <1>a, <1>c, <1>3 DEF Outbox, StoresOK
  <2> QED BY <1>3, <2>1, <2>2 DEF Outbox, RowOK, CallOK, CountsOK
<1>4. ASSUME DeleteDocuments \/ DeleteFiles \/ DeleteFolder PROVE TypeOK'
  <2>1. KeeperOK'
    BY <1>0, <1>b, <1>c, <1>4 DEF DeleteDocuments, DeleteFiles, DeleteFolder
  <2>2. StoresOK'
    BY <1>a, <1>c, <1>4 DEF DeleteDocuments, DeleteFiles, DeleteFolder, StoresOK
  <2> QED BY <1>4, <2>1, <2>2
          DEF DeleteDocuments, DeleteFiles, DeleteFolder, RowOK, CallOK, CountsOK
<1>5. ASSUME RecordFailed \/ Complete \/ LoopDies PROVE TypeOK'
  <2>1. KeeperOK'
    <3>1. CASE keeper' = Dead
      BY <3>1, KeeperSet
    <3>2. CASE Complete
      BY <1>0, <1>b, <1>c, <3>2 DEF Complete
    <3> QED BY <1>5, <3>1, <3>2 DEF RecordFailed, LoopDies
  <2>2. StoresOK'
    <3>1. CASE LoopDies
      BY <3>1 DEF LoopDies, StoresOK
    <3>2. CASE RecordFailed \/ Complete
      <4>1. App \in Apps
        BY <1>a, <1>c, <3>2 DEF RecordFailed, Complete
      <4> HIDE DEF App
      <4>2. outbox' \in [Apps -> [Policies -> {"none", "pending", "failed", "completed"}]]
        <5>1. \E x \in {"failed", "completed"} : outbox' = [outbox EXCEPT ![App][policy] = x]
          BY <3>2 DEF RecordFailed, Complete
        <5> QED BY <4>1, <5>1 DEF StoresOK, CountsOK
      <4> QED BY <3>2, <4>1, <4>2 DEF RecordFailed, Complete, StoresOK
    <3> QED BY <1>5, <3>1, <3>2
  <2> QED BY <1>5, <2>1, <2>2 DEF RecordFailed, Complete, LoopDies, RowOK, CallOK, CountsOK
<1>6. ASSUME DeleteThread PROVE TypeOK'
  <2>1. KeeperOK'
    BY <1>0, <1>b, <1>c, <1>6 DEF DeleteThread
  <2>2. StoresOK'
    BY <1>a, <1>c, <1>6 DEF DeleteThread, StoresOK
  <2> QED BY <1>6, <2>1, <2>2 DEF DeleteThread, RowOK, CallOK, CountsOK
<1>7. ASSUME DeleteRow PROVE TypeOK'
  <2>1. RowOK'
    BY <1>7 DEF DeleteRow, RowOK, RowTypes, NoRow
  <2>2. KeeperOK'
    BY <1>7 DEF DeleteRow, KeeperOK, Places, App
  <2> QED BY <1>7, <2>1, <2>2 DEF DeleteRow, CallOK, StoresOK, CountsOK
<1> QED BY <1>1, <1>2, <1>3, <1>4, <1>5, <1>6, <1>7 DEF Keeper

LEMMA RestartType ==
  ASSUME TypeOK, Restart
  PROVE  TypeOK'
BY Constants DEF Restart, TypeOK, Recorded, records, stores, NoCall, Idle, Status, Places

LEMMA TypeStep == TypeOK /\ [Next]_vars => TypeOK'
<1>1. ASSUME TypeOK, UNCHANGED vars PROVE TypeOK'
  BY <1>1 DEF TypeOK, vars, App
<1> QED BY <1>1, CallType, KeeperType, RestartType DEF Next

(***************************************************************************)
(* The parts.                                                              *)
(***************************************************************************)
LEMMA Met ==
  ASSUME Recorded, NEW a \in Apps
  PROVE  met'[a] = (met[a] \/ Overlap(a)')
BY DEF Recorded

LEMMA InitPart == Init => \A a \in Apps : Part(a)
BY Constants DEF Init, Part, DoneByTask, LeftAlone, WorksInFolder, CommandTrue, Gone, Listed, Idle

\* What a call of r does to another application: nothing.
LEMMA OthersKept ==
  ASSUME TypeOK, NEW r \in Apps, Age(r) \/ Call(r), NEW a \in Apps, a # r, Part(a)
  PROVE  Part(a)'
<1>1. /\ row'[a] = row[a] /\ cp'[a] = cp[a] /\ files'[a] = files[a] /\ docs'[a] = docs[a]
      /\ call'[a] = call[a] /\ outbox' = outbox /\ tomb' = tomb /\ keeper' = keeper
  BY DEF Age, Call, Mark, Reopen, Update, WriteStatus, Invoke, Load, Save, Begins, CallGoes,
         SetStatus, KeepsRest, stores, records, TypeOK
<1>2. met'[a] \/ ~met[a]
  BY Met DEF Age, Call, Mark, Reopen, Update, WriteStatus, Invoke, Load, Save, KeepsRest
<1> QED BY <1>1, <1>2 DEF Part, DoneByTask, LeftAlone, WorksInFolder, CommandTrue, Gone,
                          Listed, Over, UnderWay

LEMMA CallPart ==
  ASSUME TypeOK, NEW r \in Apps, Age(r) \/ Call(r), Part(r)
  PROVE  Part(r)'
<1>1. /\ keeper' = keeper /\ outbox' = outbox /\ tomb' = tomb
      /\ met'[r] = (met[r] \/ Overlap(r)')
  BY Met DEF Age, Call, Mark, Reopen, Update, WriteStatus, Invoke, Load, Save, KeepsRest, records
<1>2. ASSUME Age(r) PROVE Part(r)'
  <2>1. /\ row'[r] = [row[r] EXCEPT !.old = TRUE]
        /\ cp' = cp /\ files' = files /\ docs' = docs /\ call' = call
    BY <1>2 DEF Age, TypeOK
  <2>2. Over(r) => Over(r)'
    BY <2>1 DEF Over, TypeOK, RowTypes
  <2> QED BY <1>1, <2>1, <2>2 DEF Part, DoneByTask, LeftAlone, WorksInFolder, CommandTrue, Gone,
                                  Listed, UnderWay, Overlap
<1>3. ASSUME Call(r) PROVE Part(r)'
  <2>1. ~met'[r] => ~Listed(r)
    <3>1. CASE UnderWay(r)
      BY <1>1, <3>1 DEF Part, LeftAlone
    <3>2. CASE ~UnderWay(r)
      <4>1. Mark(r) \/ Reopen(r)
        BY <1>3, <3>2 DEF Call, Update, WriteStatus, Invoke, Load, Save, UnderWay, NoCall
      <4>2. UnderWay(r)'
        BY <4>1 DEF Mark, Reopen, CallGoes, UnderWay, NoCall, TypeOK
      <4> QED BY <1>1, <4>2 DEF Overlap, Listed
    <3> QED BY <3>1, <3>2
  <2>2. ~met'[r] => ~met[r] /\ keeper.app # r
    BY <1>1, <2>1 DEF Listed
  <2>3. DoneByTask(r)' /\ LeftAlone(r)' /\ CommandTrue(r)'
    BY <1>1, <2>1, <2>2 DEF Part, DoneByTask, LeftAlone, CommandTrue, Listed
  <2>4. ASSUME ~Save(r) PROVE docs' = docs /\ files' = files
    BY <1>3, <2>4 DEF Call, Mark, Reopen, Update, WriteStatus, Invoke, Load, stores
  <2>5. WorksInFolder(r)'
    <3>1. CASE Save(r)
      BY <3>1 DEF Save, WorksInFolder, TypeOK
    <3>2. CASE ~Save(r)
      <4>1. call'[r].pc = "work" => files[r]
        BY <1>3, <3>2 DEF Call, Mark, Reopen, Update, WriteStatus, Invoke, Load, CallGoes,
                          NoCall, TypeOK
      <4> QED BY <2>4, <3>2, <4>1 DEF WorksInFolder
    <3> QED BY <3>1, <3>2
  <2>6. Gone(r)'
    <3>1. CASE Save(r)
      <4>1. call[r].pc = "work"
        BY <3>1 DEF Save
      <4>2. tomb[r] => met'[r]
        BY <1>1, <4>1 DEF Part, WorksInFolder, Gone
      <4> QED BY <1>1, <4>2 DEF Gone
    <3>2. CASE ~Save(r)
      BY <1>1, <2>2, <2>4, <3>2 DEF Part, Gone
    <3> QED BY <3>1, <3>2
  <2> QED BY <2>3, <2>5, <2>6 DEF Part
<1> QED BY <1>2, <1>3

\* What a step of the task on one application does to another: nothing.
LEMMA OthersUntouched ==
  ASSUME TypeOK, NEW a \in Apps, Part(a), a # App,
         App \in Apps, Keeper, keeper.pc \notin {"idle", "list", "next"}
  PROVE  Part(a)'
<1>1. /\ row'[a] = row[a] /\ cp'[a] = cp[a] /\ files'[a] = files[a] /\ docs'[a] = docs[a]
      /\ call'[a] = call[a] /\ outbox'[a] = outbox[a] /\ tomb'[a] = tomb[a]
  BY DEF Keeper, FlagStale, ListExpired, NextExpired, Outbox, DeleteDocuments, DeleteFiles,
         RecordFailed, Complete, DeleteFolder, DeleteThread, DeleteRow, LoopDies, KeepsCalls,
         KeeperAt, stores, records, TypeOK
<1>2. keeper'.app # a /\ (a \in keeper'.todo => a \in keeper.todo)
  BY Constants DEF Keeper, FlagStale, ListExpired, NextExpired, Outbox, DeleteDocuments,
         DeleteFiles, RecordFailed, Complete, DeleteFolder, DeleteThread, DeleteRow, LoopDies,
         KeeperAt, KeeperGoes, Dead, Idle, App, TypeOK
<1>3. met'[a] \/ ~met[a]
  BY Met DEF Keeper, FlagStale, ListExpired, NextExpired, Outbox, DeleteDocuments,
         DeleteFiles, RecordFailed, Complete, DeleteFolder, DeleteThread, DeleteRow, LoopDies,
         KeepsCalls
<1> QED BY <1>1, <1>2, <1>3 DEF Part, DoneByTask, LeftAlone, WorksInFolder, CommandTrue, Gone,
                                Listed, Over, UnderWay

\* What it does to the one in hand.
LEMMA TaskPart ==
  ASSUME TypeOK, App \in Apps, Part(App), Keeper, keeper.pc \notin {"idle", "list", "next"},
         NEW a \in Apps, a = App
  PROVE  Part(a)'
<1>1. /\ met'[a] = (met[a] \/ Overlap(a)') /\ call' = call
      /\ Part(a) /\ policy \in Policies
  BY Met DEF Keeper, FlagStale, ListExpired, NextExpired, Outbox, DeleteDocuments,
         DeleteFiles, RecordFailed, Complete, DeleteFolder, DeleteThread, DeleteRow, LoopDies,
         KeepsCalls, TypeOK
<1>2. ~met'[a] => ~met[a] /\ ~UnderWay(a) /\ ~UnderWay(a)' /\ Over(a)
  BY <1>1 DEF Part, LeftAlone, Listed, App, UnderWay
<1>3. call[a].pc = "work" => UnderWay(a)
  BY DEF UnderWay, NoCall
<1>4. WorksInFolder(a)'
  BY <1>1, <1>2, <1>3 DEF WorksInFolder
<1> USE DEF KeeperAt
<1>5. ASSUME Outbox PROVE Part(a)'
  <2>1. /\ keeper' = [keeper EXCEPT !.pc = keeper'.pc] /\ row' = row /\ docs' = docs
        /\ files' = files /\ tomb' = tomb
        /\ keeper'.pc = IF Completed(outbox[a][policy]) THEN "folder" ELSE "documents"
    BY <1>5 DEF Outbox, KeeperGoes, stores, TypeOK
  <2>2. \A p \in Policies : outbox'[a][p] = "completed" <=> outbox[a][p] = "completed"
    BY <1>1, <1>5 DEF Outbox, TypeOK
  <2>3. keeper'.todo = keeper.todo /\ keeper'.app = a
    BY <2>1 DEF TypeOK, App
  <2> QED BY <1>1, <1>2, <1>4, <2>1, <2>2, <2>3
          DEF Part, DoneByTask, LeftAlone, CommandTrue, Gone, Listed, Over, Completed, App
<1>6. ASSUME DeleteDocuments PROVE Part(a)'
  <2>1. /\ keeper'.todo = keeper.todo /\ keeper'.app = a /\ row' = row /\ outbox' = outbox
        /\ files' = files /\ tomb' = tomb
        /\ docs'[a] => docs[a]
        /\ \/ keeper'.pc = "failed"
           \/ keeper'.pc = "files" /\ ~docs'[a]
    BY <1>1, <1>6 DEF DeleteDocuments, KeeperGoes, records, App, TypeOK
  <2> QED BY <1>1, <1>2, <1>4, <2>1
          DEF Part, DoneByTask, LeftAlone, CommandTrue, Gone, Listed, Over, App
<1>7. ASSUME DeleteFiles \/ DeleteFolder PROVE Part(a)'
  <2>1. /\ keeper'.todo = keeper.todo /\ keeper'.app = a /\ row' = row /\ outbox' = outbox
        /\ docs' = docs /\ tomb' = tomb
        /\ files'[a] => files[a]
        /\ \/ keeper'.pc = "failed"
           \/ keeper.pc = "files" /\ keeper'.pc = "complete" /\ ~files'[a]
           \/ keeper.pc = "folder" /\ keeper'.pc = "checkpoint"
    BY <1>1, <1>7 DEF DeleteFiles, DeleteFolder, KeeperGoes, records, App, TypeOK
  <2> QED BY <1>1, <1>2, <1>4, <2>1
          DEF Part, DoneByTask, LeftAlone, CommandTrue, Gone, Listed, Over, App
<1>8. ASSUME RecordFailed \/ LoopDies PROVE Part(a)'
  <2>1. /\ keeper'.todo = {} /\ keeper'.app = NoApp
        /\ row' = row /\ docs' = docs /\ files' = files /\ tomb' = tomb
    BY <1>8 DEF RecordFailed, LoopDies, Dead, Idle, stores, records
  <2>2. \A p \in Policies : outbox'[a][p] = "completed" => outbox[a][p] = "completed"
    BY <1>1, <1>8 DEF RecordFailed, LoopDies, records, TypeOK
  <2> QED BY <1>1, <1>2, <1>4, <2>1, <2>2, Constants
          DEF Part, DoneByTask, LeftAlone, CommandTrue, Gone, Listed, Over
<1>9. ASSUME Complete PROVE Part(a)'
  <2>1. /\ keeper'.todo = keeper.todo /\ keeper'.app = a /\ row' = row
        /\ docs' = docs /\ files' = files /\ tomb'[a] /\ keeper'.pc = "checkpoint"
        /\ keeper.pc = "complete"
    BY <1>1, <1>9 DEF Complete, KeeperGoes, stores, App, TypeOK
  <2> QED BY <1>1, <1>2, <1>4, <2>1
          DEF Part, DoneByTask, LeftAlone, CommandTrue, Gone, Listed, Over, App
<1>10. ASSUME DeleteThread PROVE Part(a)'
  <2>1. /\ keeper'.todo = keeper.todo /\ keeper'.app = a /\ row' = row /\ outbox' = outbox
        /\ docs' = docs /\ files' = files /\ tomb' = tomb
        /\ keeper.pc = "checkpoint" /\ keeper'.pc = "row" /\ cp'[a] = NoCheckpoint
    BY <1>1, <1>10 DEF DeleteThread, KeeperGoes, records, App, TypeOK
  <2> QED BY <1>1, <1>2, <1>4, <2>1
          DEF Part, DoneByTask, LeftAlone, CommandTrue, Gone, Listed, Over, App
<1>11. ASSUME DeleteRow PROVE Part(a)'
  <2>1. /\ keeper'.todo = keeper.todo /\ keeper'.app = NoApp /\ outbox' = outbox
        /\ docs' = docs /\ files' = files /\ tomb' = tomb
    BY <1>11 DEF DeleteRow, records, TypeOK
  <2>2. a \notin keeper.todo
    BY <1>1 DEF Part, DoneByTask, App
  <2> QED BY <1>1, <1>2, <1>4, <2>1, <2>2, Constants
          DEF Part, DoneByTask, LeftAlone, CommandTrue, Gone, Listed
<1> QED BY <1>5, <1>6, <1>7, <1>8, <1>9, <1>10, <1>11
        DEF Keeper, FlagStale, ListExpired, NextExpired

\* Before it has one in hand.
LEMMA PassPart ==
  ASSUME TypeOK, Keeper, keeper.pc \in {"idle", "list", "next"}, NEW a \in Apps, Part(a)
  PROVE  Part(a)'
<1>1. FlagStale \/ ListExpired \/ NextExpired \/ LoopDies
  BY DEF Keeper, Outbox, DeleteDocuments, DeleteFiles, RecordFailed, Complete, DeleteFolder,
         DeleteThread, DeleteRow, KeeperAt
<1>2. /\ met'[a] = (met[a] \/ Overlap(a)') /\ call' = call
      /\ cp' = cp /\ files' = files /\ docs' = docs /\ outbox' = outbox /\ tomb' = tomb
  BY <1>1, Met DEF FlagStale, ListExpired, NextExpired, LoopDies, KeepsCalls, stores, records
<1>3. WorksInFolder(a)' /\ CommandTrue(a)' /\ Gone(a)'
  BY <1>2 DEF Part, WorksInFolder, CommandTrue, Gone
<1>4. Over(a) => Over(a)'
  <2>1. ASSUME FlagStale, row[a].status = "terminal" PROVE row'[a] = row[a]
    BY <2>1 DEF FlagStale
  <2>2. ASSUME ~FlagStale PROVE row' = row
    BY <1>1, <2>2 DEF ListExpired, NextExpired, LoopDies, stores
  <2> QED BY <2>1, <2>2 DEF Over
<1>5. Listed(a)' => Listed(a) \/ Over(a)
  <2>1. CASE FlagStale
    BY <2>1 DEF FlagStale, KeeperGoes, Listed, TypeOK
  <2>2. CASE ListExpired
    BY <2>2, Constants DEF ListExpired, Expired, Over, Listed
  <2>3. CASE keeper' \in {Idle, Dead}
    BY <2>3, Constants DEF Idle, Dead, Listed
  <2>4. CASE NextExpired /\ keeper' # Idle
    <3>1. PICK x \in keeper.todo :
            keeper' = [pc |-> "outbox", todo |-> keeper.todo \ {x}, app |-> x]
      BY <2>4 DEF NextExpired
    <3> QED BY <3>1 DEF Listed
  <2> QED BY <1>1, <2>1, <2>2, <2>3, <2>4 DEF LoopDies
<1>6. LeftAlone(a)'
  BY <1>2, <1>4, <1>5 DEF Part, LeftAlone, Listed, Overlap, UnderWay
<1>7. keeper'.app = a => a \notin keeper'.todo /\ keeper'.pc \in {"list", "outbox"}
  <2>1. CASE FlagStale
    <3>1. /\ keeper'.pc = "list" /\ keeper'.app = keeper.app /\ keeper'.todo = keeper.todo
      BY <2>1 DEF FlagStale, KeeperGoes, TypeOK
    <3> QED BY <3>1 DEF Part, DoneByTask
  <2>2. CASE ListExpired \/ LoopDies
    BY <2>2, Constants DEF ListExpired, LoopDies, Idle, Dead
  <2>3. CASE NextExpired
    BY <2>3, Constants DEF NextExpired, Idle
  <2> QED BY <1>1, <2>1, <2>2, <2>3
<1>8. DoneByTask(a)'
  BY <1>7 DEF DoneByTask
<1> QED BY <1>3, <1>6, <1>8 DEF Part

LEMMA RestartPart ==
  ASSUME TypeOK, Restart, NEW a \in Apps, Part(a)
  PROVE  Part(a)'
<1>1. /\ met'[a] \/ ~met[a]
      /\ cp' = cp /\ files' = files /\ docs' = docs /\ outbox' = outbox /\ tomb' = tomb
      /\ call'[a] = NoCall /\ keeper' = Idle
  BY Met DEF Restart, stores, records
<1> QED BY <1>1, Constants DEF Part, DoneByTask, LeftAlone, WorksInFolder, CommandTrue, Gone,
                               Listed, Idle, NoCall

LEMMA InvStep == Inv /\ [Next]_vars => Inv'
<1> SUFFICES ASSUME Inv, [Next]_vars, NEW a \in Apps PROVE Part(a)'
  BY TypeStep DEF Inv
<1>1. TypeOK /\ Part(a)
  BY DEF Inv
<1>2. ASSUME NEW r \in Apps, Age(r) \/ Call(r) PROVE Part(a)'
  BY <1>1, <1>2, OthersKept, CallPart
<1>3. ASSUME Keeper PROVE Part(a)'
  <2>1. CASE keeper.pc \in {"idle", "list", "next"}
    BY <1>1, <1>3, <2>1, PassPart
  <2>2. CASE keeper.pc \notin {"idle", "list", "next"}
    <3>1. keeper.pc # "dead"
      BY <1>3, <2>2 DEF Keeper, FlagStale, ListExpired, NextExpired, Outbox, DeleteDocuments,
           DeleteFiles, RecordFailed, Complete, DeleteFolder, DeleteThread, DeleteRow, LoopDies,
           KeeperAt
    <3>2. App \in Apps /\ Part(App)
      BY <2>2, <3>1 DEF Inv, TypeOK
    <3> HIDE DEF App
    <3>3. CASE a = App
      BY <1>1, <1>3, <2>2, <3>2, <3>3, TaskPart
    <3>4. CASE a # App
      BY <1>1, <1>3, <2>2, <3>2, <3>4, OthersUntouched
    <3> QED BY <3>3, <3>4
  <2> QED BY <2>1, <2>2
<1>4. ASSUME UNCHANGED vars PROVE Part(a)'
  BY <1>1, <1>4 DEF vars, Part, DoneByTask, LeftAlone, WorksInFolder, CommandTrue, Gone, Listed,
                    Over, UnderWay
<1> QED BY <1>1, <1>2, <1>3, <1>4, RestartPart DEF Next

THEOREM Invariance == Spec => []Inv
BY InitType, InitPart, InvStep, PTL DEF Spec, Inv

\* Every variable has its type, is_stale is never true of a terminal thread, and the
\* task has an application in hand in its steps (set_status, cleanup_expired).
THEOREM RetentionTypeCorrect == Spec => []TypeOK
BY InitType, TypeStep, PTL DEF Spec

\* A tombstone's application has neither documents nor a folder, unless a call of it
\* overlapped the pass that deleted it (_retention_cleanup).
THEOREM TombstoneTrueCorrect == Spec => []TombstoneTrue
<1>1. Inv => TombstoneTrue
  BY DEF Inv, Part, Gone, TombstoneTrue
<1> QED BY <1>1, Invariance, PTL

\* A row goes under a tombstone, expired and without a checkpoint, unless a call
\* overlapped the pass (cleanup_expired).
THEOREM OnlyExpiredForgottenCorrect == Spec => OnlyExpiredForgotten
<1>1. ASSUME Inv, [Next]_vars, NEW a \in Apps, HasRow(a), ~HasRow(a)'
      PROVE  /\ tomb[a] /\ keeper.app = a
             /\ met[a] \/ (Over(a) /\ cp[a] = NoCheckpoint)
  <2>1. ASSUME NEW r \in Apps, Age(r) \/ Call(r) PROVE FALSE
    <3>1. row'[a] = row[a] \/ row'[a].status \in Status \/ row'[a] = [row[a] EXCEPT !.old = TRUE]
      <4>1. CASE Age(r)
        BY <1>1, <4>1 DEF Age, Inv, TypeOK
      <4>2. CASE WriteStatus(r) /\ HasRow(r)
        <5>1. call[r].to \in Status
          BY <1>1 DEF Inv, TypeOK
        <5>2. row' = [row EXCEPT ![r] = [status |-> call[r].to, old |-> FALSE, stale |-> FALSE]]
          BY <4>2 DEF WriteStatus, SetStatus
        <5>3. a = r => row'[a].status = call[r].to
          BY <1>1, <5>2 DEF Inv, TypeOK
        <5>4. a # r => row'[a] = row[a]
          BY <1>1, <5>2 DEF Inv, TypeOK
        <5> QED BY <5>1, <5>3, <5>4
      <4>3. CASE row' = row
        BY <4>3
      <4> QED BY <2>1, <4>1, <4>2, <4>3
              DEF Call, Mark, Reopen, Update, WriteStatus, Invoke, Load, Save, stores
    <3> QED BY <1>1, <3>1 DEF HasRow, NoRow, Status, Inv, TypeOK, RowTypes
  <2>2. ASSUME Keeper PROVE DeleteRow
    <3>1. ASSUME FlagStale PROVE FALSE
      <4>1. row'[a] = row[a] \/ row'[a] = [row[a] EXCEPT !.stale = TRUE]
        BY <3>1 DEF FlagStale
      <4> QED BY <1>1, <4>1 DEF HasRow, NoRow, Inv, TypeOK, RowTypes
    <3> QED BY <1>1, <2>2, <3>1 DEF Keeper, ListExpired, NextExpired, Outbox, DeleteDocuments,
           DeleteFiles, RecordFailed, Complete, DeleteFolder, DeleteThread, LoopDies, stores,
           HasRow
  <2>3. DeleteRow
    BY <1>1, <2>1, <2>2 DEF Next, Restart, stores, vars, HasRow
  <2>4. keeper.pc = "row" /\ keeper.app = a
    BY <1>1, <2>3 DEF DeleteRow, KeeperAt, HasRow, App, Inv, TypeOK
  <2> QED BY <1>1, <2>4 DEF Inv, Part, DoneByTask, LeftAlone, Listed
<1>2. Inv /\ [Next]_vars =>
        [\A a \in Apps : HasRow(a) /\ ~HasRow(a)' =>
           /\ tomb[a] /\ keeper.app = a
           /\ met[a] \/ (Over(a) /\ cp[a] = NoCheckpoint)]_vars
  BY <1>1
<1> QED BY <1>2, Invariance, PTL DEF Spec, OnlyExpiredForgotten
=============================================================================
