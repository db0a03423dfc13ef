--------------------------- MODULE ScheduleProofs ---------------------------
(***************************************************************************)
(* Proofs about the executor pool of Schedule, for any number of executors *)
(* and any placement on hosts.                                             *)
(***************************************************************************)
EXTENDS Schedule, FiniteSetTheorems, TLAPS

-----------------------------------------------------------------------------
(* Facts about the operators the handlers are made of *)

\* A policy picks one ready executor, or throws.
LEMMA PickReady ==
  ASSUME NEW D, NEW K \in Picks(D)
  PROVE  /\ K \subseteq Ready /\ K \subseteq Exec
         /\ K = {} \/ \E k \in Ready : K = {k}
<1>1. Candidates(D) \subseteq Ready
  BY DEF Candidates, policy_host_random, LeastLoaded
<1>2. Ready \subseteq Exec
  BY DEF Ready
<1>3. QED
  BY <1>1, <1>2 DEF Picks

\* A statement on the table, lost or not, leaves the table well formed.
LEMMA TableType ==
  ASSUME TypeOK, status' \in [Exec -> Status], NEW S, updateExecStatusDb(S)
  PROVE  table' \in [Exec -> DbStatus]
<1>1. \A s \in Status : DbOf(s) \in DbStatus
  BY DEF DbOf, Status, DbStatus, Initing, Offline, Online, Active, Cleaning
<1>2. PICK lost : table' = [e \in Exec |-> IF e \in S \ lost THEN DbOf(status'[e])
                                                              ELSE table[e]]
  BY DEF updateExecStatusDb
<1>3. \A e \in Exec : status'[e] \in Status /\ table[e] \in DbStatus
  BY DEF TypeOK
<1>4. QED
  BY <1>1, <1>2, <1>3

LEMMA PublishedType ==
  ASSUME TypeOK, syncAndPub
  PROVE  published' \subseteq Exec
BY DEF TypeOK, syncAndPub, Marked

LEMMA CleanerType ==
  ASSUME TypeOK, NEW S, cleanExec(S)
  PROVE  cleaning' \in [Exec -> Nat]
BY DEF TypeOK, cleanExec

\* doUpdown in plain terms: nothing happens, or D goes to cleaning, K comes up.
LEMMA Updown ==
  ASSUME TypeOK, NEW D \in SUBSET Exec, doUpdown(D)
  PROVE  \/ /\ UNCHANGED pool
            /\ D # {} /\ D \subseteq activeExecList /\ Cardinality(activeExecList) = 1
         \/ /\ ~ (D # {} /\ D \subseteq activeExecList
                  /\ Cardinality(activeExecList) = 1)
            /\ \E K \in SUBSET Ready :
                 /\ K = {} \/ \E k \in Ready : K = {k}
                 /\ status' = [e \in Exec |-> IF e \in D THEN Cleaning
                                              ELSE IF e \in K THEN Active
                                              ELSE status[e]]
                 /\ activeExecList' = (activeExecList \cup K) \ D
                 /\ updateExecStatusDb(D \cup K)
                 /\ cleanExec(D)
                 /\ IF D \cup K = {} THEN UNCHANGED published ELSE syncAndPub
BY PickReady DEF doUpdown, OnlyOneLeft, UpDown

LEMMA UpdownType ==
  ASSUME TypeOK, NEW D \in SUBSET Exec, doUpdown(D)
  PROVE  /\ status' \in [Exec -> Status]
         /\ activeExecList' \subseteq Exec
         /\ cleaning' \in [Exec -> Nat]
         /\ table' \in [Exec -> DbStatus]
         /\ published' \subseteq Exec
<1>1. CASE UNCHANGED pool
  BY <1>1 DEF TypeOK, pool
<1>2. CASE ~ UNCHANGED pool
  <2>1. PICK K \in SUBSET Ready :
          /\ status' = [e \in Exec |-> IF e \in D THEN Cleaning
                                       ELSE IF e \in K THEN Active ELSE status[e]]
          /\ activeExecList' = (activeExecList \cup K) \ D
          /\ updateExecStatusDb(D \cup K)
          /\ cleanExec(D)
          /\ IF D \cup K = {} THEN UNCHANGED published ELSE syncAndPub
    BY <1>2, Updown
  <2>2. status' \in [Exec -> Status]
    BY <2>1 DEF TypeOK, Status
  <2>3. activeExecList' \subseteq Exec
    BY <2>1 DEF TypeOK, Ready
  <2>4. QED
    BY <2>1, <2>2, <2>3, TableType, CleanerType, PublishedType DEF TypeOK
<1>3. QED
  BY <1>1, <1>2

-----------------------------------------------------------------------------
(* Type correctness *)

LEMMA StatusValues ==
  /\ {Initing, Offline, Online, Active, Cleaning} = Status
  /\ DbStatus \subseteq Status
  /\ \A s \in Status : DbOf(s) \in DbStatus
BY DEF Status, DbStatus, DbOf, Initing, Offline, Online, Active, Cleaning

LEMMA TypeInit == Init => TypeOK
<1> SUFFICES ASSUME Init PROVE TypeOK
  OBVIOUS
<1>1. manualDownNum \in Int
  BY ExecNumAssumption DEF Init
<1>2. table \in [Exec -> DbStatus]
  BY StatusValues DEF Init, DbStatus
<1>3. status \in [Exec -> Status]
  BY DEF Init, Status
<1>4. QED
  BY <1>1, <1>2, <1>3 DEF Init, TypeOK

LEMMA TypeStep == TypeOK /\ [Next]_vars => TypeOK'
<1> SUFFICES ASSUME TypeOK, [Next]_vars PROVE TypeOK'
  OBVIOUS
<1> USE DEF lock, policy
<1>1. ASSUME NEW e \in Exec, NEW s \in {Offline, Online}, FirstReport(e, s)
      PROVE  TypeOK'
  BY <1>1, ExecNumAssumption DEF TypeOK, FirstReport, Status
<1>2. ASSUME NEW e \in Exec, NEW s \in {Offline, Online}, Report(e, s)
      PROVE  TypeOK'
  <2>1. /\ left' \in Nat /\ loop' \in {"none", "init", "refill"}
        /\ loop' = "refill" => left' > 0
    <3>1. activeExecList' \subseteq Exec
      <4>1. CASE ActiveFailed(e)
        BY <4>1, UpdownType DEF TypeOK, ActiveFailed, pool
      <4>2. CASE ~ ActiveFailed(e)
        BY <1>2, <4>2 DEF TypeOK, Report, SpareFailed, CameBack, NoNews
      <4>3. QED
        BY <4>1, <4>2
    <3>2. IsFiniteSet(activeExecList')
      BY <3>1, ExecAssumption, FS_Subset
    <3>3. Cardinality(activeExecList') \in Nat
      BY <3>2, FS_CardinalityType
    <3>4. execNum - manualDownNum - Cardinality(activeExecList') \in Int
      BY <3>3, ExecNumAssumption DEF TypeOK
    <3>5. QED
      BY <1>2, <3>4 DEF TypeOK, Report, BeginRefill
  <2>2. /\ status' \in [Exec -> Status]
        /\ activeExecList' \subseteq Exec
        /\ cleaning' \in [Exec -> Nat]
        /\ table' \in [Exec -> DbStatus]
        /\ published' \subseteq Exec
    <3>1. CASE ActiveFailed(e)
      BY <3>1, UpdownType DEF TypeOK, ActiveFailed, pool
    <3>2. CASE SpareFailed(e)
      <4>1. status' \in [Exec -> Status]
        BY <3>2 DEF TypeOK, SpareFailed, Status
      <4>2. QED
        BY <3>2, <4>1, TableType, CleanerType DEF TypeOK, SpareFailed
    <3>3. CASE CameBack(e)
      <4>1. status' \in [Exec -> Status]
        BY <3>3 DEF TypeOK, CameBack, Status
      <4>2. QED
        BY <3>3, <4>1, TableType DEF TypeOK, CameBack
    <3>4. CASE NoNews(e, s)
      BY <3>4, TableType DEF TypeOK, NoNews
    <3>5. QED
      BY <1>2, <3>1, <3>2, <3>3, <3>4 DEF Report
  <2>3. QED
    BY <1>2, <2>1, <2>2 DEF TypeOK, Report
<1>3. CASE InitPick
  <2>1. PICK K \in Picks({}) :
          /\ status' = [e \in Exec |-> IF e \in K THEN Active ELSE status[e]]
          /\ activeExecList' = activeExecList \cup K
    BY <1>3 DEF InitPick
  <2>2. K \subseteq Exec
    BY PickReady
  <2>3. status' \in [Exec -> Status] /\ activeExecList' \subseteq Exec
    BY <2>1, <2>2 DEF TypeOK, Status
  <2>4. QED
    BY <1>3, <2>3 DEF TypeOK, InitPick
<1>4. CASE InitDone
  BY <1>4, StatusValues DEF TypeOK, InitDone, Marked
<1>5. CASE InitFailed
  BY <1>5 DEF TypeOK, InitFailed, Status
<1>6. CASE RefillPick
  <2>1. /\ left' \in Nat /\ loop' \in {"none", "refill"}
        /\ loop' = "refill" => left' > 0
    BY <1>6 DEF TypeOK, RefillPick
  <2>2. QED
    BY <1>6, <2>1, UpdownType DEF TypeOK, RefillPick
<1>7. CASE execAtuoSchedule
  BY <1>7, UpdownType DEF TypeOK, execAtuoSchedule
<1>8. ASSUME NEW e \in Exec, CleanDone(e) PROVE TypeOK'
  <2>1. status' \in [Exec -> Status] /\ cleaning' \in [Exec -> Nat]
    BY <1>8 DEF TypeOK, CleanDone, Status
  <2>2. QED
    BY <1>8, <2>1, TableType DEF TypeOK, CleanDone
<1>9. ASSUME NEW e \in Exec, CoolDown(e) PROVE TypeOK'
  BY <1>9 DEF TypeOK, CoolDown, pool
<1>10. ASSUME NEW e \in Exec, doManualUpOpt(e) PROVE TypeOK'
  <2>1. status' \in [Exec -> Status]
    BY <1>10 DEF TypeOK, doManualUpOpt, Status
  <2>2. QED
    BY <1>10, <2>1, TableType, PublishedType DEF TypeOK, doManualUpOpt
<1>11. ASSUME NEW e \in Exec, doManualDownOpt(e) PROVE TypeOK'
  <2>1. status' \in [Exec -> Status]
    BY <1>11 DEF TypeOK, doManualDownOpt, Status
  <2>2. QED
    BY <1>11, <2>1, TableType, PublishedType DEF TypeOK, doManualDownOpt
<1>12. ASSUME NEW e \in Exec, doManualCleanOpt(e) PROVE TypeOK'
  <2>1. status' \in [Exec -> Status]
    BY <1>12 DEF TypeOK, doManualCleanOpt, Status
  <2>2. QED
    BY <1>12, <2>1, TableType, CleanerType DEF TypeOK, doManualCleanOpt
<1>13. ASSUME NEW e \in Exec, doReportError(e) PROVE TypeOK'
  BY <1>13, UpdownType DEF TypeOK, doReportError
<1>14. CASE SwitchOff
  <2>1. status' \in [Exec -> Status] /\ activeExecList' \subseteq Exec
    BY <1>14 DEF TypeOK, SwitchOff, Status
  <2>2. IsFiniteSet(activeExecList) /\ IsFiniteSet(activeExecList')
    BY <2>1, ExecAssumption, FS_Subset DEF TypeOK
  <2>3. manualDownNum' \in Int
    BY <1>14, <2>2, FS_CardinalityType DEF TypeOK, SwitchOff
  <2>4. QED
    BY <1>14, <2>1, <2>3, PublishedType DEF TypeOK, SwitchOff
<1>15. CASE SwitchOn
  BY <1>15, PublishedType DEF TypeOK, SwitchOn
<1>16. CASE ChangeRule
  BY <1>16, PublishedType DEF TypeOK, ChangeRule
<1>17. CASE ReloadSelect
  BY <1>17 DEF TypeOK, ReloadSelect, pool
<1>18. CASE ReloadApply
  <2>1. status' \in [Exec -> Status]
    BY <1>18, StatusValues DEF TypeOK, ReloadApply
  <2>2. QED
    BY <1>18, <2>1, PublishedType DEF TypeOK, ReloadApply, Marked
<1>19. CASE ReloadFailed
  BY <1>19, PublishedType DEF TypeOK, ReloadFailed
<1>20. CASE UNCHANGED vars
  BY <1>20 DEF TypeOK, vars, pool
<1>21. QED
  BY <1>1, <1>2, <1>3, <1>4, <1>5, <1>6, <1>7, <1>8, <1>9, <1>10, <1>11, <1>12,
     <1>13, <1>14, <1>15, <1>16, <1>17, <1>18, <1>19, <1>20 DEF Next

\* Every variable keeps its type, whatever commands come in whatever state.
THEOREM TypeCorrect == Spec => []TypeOK
BY TypeInit, TypeStep, PTL DEF Spec

-----------------------------------------------------------------------------
(* No executor is lost while it is shown as cleaning *)

LEMMA UpdownCleaner ==
  ASSUME TypeOK, CleaningHasCleaner, NEW D \in SUBSET Exec, doUpdown(D)
  PROVE  CleaningHasCleaner'
<1>1. CASE UNCHANGED pool
  BY <1>1 DEF pool, CleaningHasCleaner
<1>2. CASE ~ UNCHANGED pool
  <2>1. PICK K : /\ status' = [e \in Exec |-> IF e \in D THEN Cleaning
                                              ELSE IF e \in K THEN Active ELSE status[e]]
                 /\ cleanExec(D)
    BY <1>2, Updown
  <2>2. \A e \in Exec : cleaning[e] \in Nat
    BY DEF TypeOK
  <2>3. QED
    BY <2>1, <2>2 DEF cleanExec, CleaningHasCleaner, Active, Cleaning
<1>3. QED
  BY <1>1, <1>2

LEMMA CleanerStep == TypeOK /\ CleaningHasCleaner /\ [Next]_vars => CleaningHasCleaner'
<1> SUFFICES ASSUME TypeOK, CleaningHasCleaner, [Next]_vars
             PROVE  CleaningHasCleaner'
  OBVIOUS
<1> USE DEF CleaningHasCleaner, Initing, Offline, Online, Active, Cleaning
<1>0. \A e \in Exec : cleaning[e] \in Nat
  BY DEF TypeOK
<1>1. ASSUME NEW e \in Exec, NEW s \in {Offline, Online}, FirstReport(e, s)
      PROVE  CleaningHasCleaner'
  BY <1>1 DEF TypeOK, FirstReport
<1>2. ASSUME NEW e \in Exec, NEW s \in {Offline, Online}, Report(e, s)
      PROVE  CleaningHasCleaner'
  <2>1. CASE ActiveFailed(e)
    BY <2>1, UpdownCleaner DEF ActiveFailed, pool
  <2>2. CASE SpareFailed(e)
    BY <1>0, <2>2 DEF TypeOK, SpareFailed, cleanExec
  <2>3. CASE CameBack(e)
    BY <2>3 DEF TypeOK, CameBack
  <2>4. CASE NoNews(e, s)
    BY <2>4 DEF NoNews
  <2>5. QED
    BY <1>2, <2>1, <2>2, <2>3, <2>4 DEF Report
<1>3. CASE InitPick
  <2>1. PICK K : status' = [e \in Exec |-> IF e \in K THEN Active ELSE status[e]]
    BY <1>3 DEF InitPick
  <2>2. QED
    BY <1>3, <2>1 DEF InitPick
<1>4. CASE InitDone \/ InitFailed
  BY <1>4 DEF InitDone, InitFailed
<1>5. CASE RefillPick
  BY <1>5, UpdownCleaner DEF RefillPick
<1>6. CASE execAtuoSchedule
  BY <1>6, UpdownCleaner DEF execAtuoSchedule, TypeOK
<1>7. ASSUME NEW e \in Exec, CleanDone(e) PROVE CleaningHasCleaner'
  BY <1>7 DEF TypeOK, CleanDone
<1>8. ASSUME NEW e \in Exec, CoolDown(e) PROVE CleaningHasCleaner'
  BY <1>8 DEF CoolDown, pool
<1>9. ASSUME NEW e \in Exec, doManualUpOpt(e) \/ doManualDownOpt(e)
      PROVE  CleaningHasCleaner'
  BY <1>9 DEF TypeOK, doManualUpOpt, doManualDownOpt
<1>10. ASSUME NEW e \in Exec, doManualCleanOpt(e) PROVE CleaningHasCleaner'
  BY <1>0, <1>10 DEF TypeOK, doManualCleanOpt, cleanExec
<1>11. ASSUME NEW e \in Exec, doReportError(e) PROVE CleaningHasCleaner'
  BY <1>11, UpdownCleaner DEF doReportError
<1>12. CASE SwitchOff
  BY <1>12 DEF SwitchOff, TypeOK
<1>13. CASE SwitchOn \/ ChangeRule \/ ReloadSelect \/ ReloadFailed
  BY <1>13 DEF SwitchOn, ChangeRule, ReloadSelect, ReloadFailed, pool
<1>14. CASE ReloadApply
  BY <1>14 DEF ReloadApply, TypeOK, DbStatus
<1>15. CASE UNCHANGED vars
  BY <1>15 DEF vars, pool
<1>16. QED
  BY <1>1, <1>2, <1>3, <1>4, <1>5, <1>6, <1>7, <1>8, <1>9, <1>10, <1>11, <1>12,
     <1>13, <1>14, <1>15 DEF Next

\* Whatever commands come, in whatever state and order, with lost statements
\* and reloads: an executor whose status is cleaning has a clean thread.
THEOREM CleanerAlwaysThere == Spec => []CleaningHasCleaner
<1>1. Init => CleaningHasCleaner
  BY DEF Init, CleaningHasCleaner, Initing, Cleaning
<1>2. QED
  BY <1>1, TypeCorrect, CleanerStep, PTL DEF Spec

-----------------------------------------------------------------------------
(* The service is never left without an active executor *)

\* doUpdown never takes the last member of the list down.
LEMMA UpdownKeepsOne ==
  ASSUME TypeOK, NEW D \in SUBSET Exec, doUpdown(D), activeExecList # {},
         D = {} \/ \E d \in activeExecList : D = {d}
  PROVE  activeExecList' # {}
<1>1. CASE UNCHANGED pool
  BY <1>1 DEF pool
<1>2. CASE ~ UNCHANGED pool
  <2>1. IsFiniteSet(activeExecList)
    BY ExecAssumption, FS_Subset DEF TypeOK
  <2>2. \A d \in activeExecList : Cardinality({d}) = 1
    BY FS_Singleton
  <2>3. PICK K : activeExecList' = (activeExecList \cup K) \ D /\ K \subseteq Ready
    BY <1>2, Updown
  <2>4. CASE D = {}
    BY <2>3, <2>4
  <2>5. ASSUME NEW d \in activeExecList, D = {d} PROVE activeExecList' # {}
    <3>1. Cardinality(activeExecList) # 1
      BY <1>2, <2>5, Updown
    <3>2. activeExecList # {d}
      BY <2>2, <3>1
    <3>3. QED
      BY <2>3, <2>5, <3>2
  <2>6. QED
    BY <2>4, <2>5
<1>3. QED
  BY <1>1, <1>2

LEMMA KeepsOneStep ==
  TypeOK /\ [Next]_vars =>
    [~isFirstStart /\ activeExecList # {} /\ fetched' = fetched
       => activeExecList' # {}]_vars
<1> SUFFICES ASSUME TypeOK, Next, ~isFirstStart, activeExecList # {},
                    fetched' = fetched
             PROVE  activeExecList' # {}
  OBVIOUS
<1>1. ASSUME NEW e \in Exec, NEW s \in {Offline, Online}, Report(e, s)
      PROVE  activeExecList' # {}
  <2>1. CASE ActiveFailed(e)
    BY <2>1, UpdownKeepsOne DEF ActiveFailed, pool
  <2>2. CASE ~ ActiveFailed(e)
    BY <1>1, <2>2 DEF Report, SpareFailed, CameBack, NoNews
  <2>3. QED
    BY <2>1, <2>2
<1>2. CASE RefillPick
  BY <1>2, UpdownKeepsOne DEF RefillPick
<1>3. CASE execAtuoSchedule
  BY <1>3, UpdownKeepsOne DEF execAtuoSchedule, TypeOK
<1>4. ASSUME NEW e \in Exec, doManualDownOpt(e) PROVE activeExecList' # {}
  BY <1>4, FS_Singleton DEF doManualDownOpt
<1>5. ASSUME NEW e \in Exec, doReportError(e) PROVE activeExecList' # {}
  BY <1>5, UpdownKeepsOne DEF doReportError
<1>6. CASE SwitchOff
  BY <1>6, FS_EmptySet DEF SwitchOff
<1>7. CASE ReloadApply
  BY <1>7 DEF ReloadApply
<1>8. ASSUME NEW e \in Exec, NEW s \in {Offline, Online},
             \/ FirstReport(e, s) \/ CleanDone(e) \/ CoolDown(e)
             \/ doManualUpOpt(e) \/ doManualCleanOpt(e)
      PROVE  activeExecList' # {}
  BY <1>8 DEF FirstReport, CleanDone, CoolDown, doManualUpOpt, doManualCleanOpt, pool
<1>9. CASE \/ InitPick \/ InitDone \/ InitFailed \/ SwitchOn \/ ChangeRule
           \/ ReloadSelect \/ ReloadFailed
  BY <1>9 DEF InitPick, InitDone, InitFailed, SwitchOn, ChangeRule, ReloadSelect,
              ReloadFailed, pool
<1>10. QED
  BY <1>1, <1>2, <1>3, <1>4, <1>5, <1>6, <1>7, <1>8, <1>9 DEF Next

\* No failure, vote, rotation, command or clean thread empties the active
\* list; only the reload of update_scweight can.
THEOREM ServiceStaysUp == Spec => NeverEmptied
BY TypeCorrect, KeepsOneStep, PTL DEF Spec, NeverEmptied

-----------------------------------------------------------------------------
(* The branch that ends the process is never reached *)

\* The first start reaches its end with every status known, and the loop of
\* the first start and the refill belong to different phases.
LoopInv ==
  /\ loop = "init" => isFirstStart /\ \A e \in Exec : status[e] # Initing
  /\ loop = "refill" => ~isFirstStart
  /\ NoInitingAfterStart

LEMMA UpdownKnown ==
  ASSUME TypeOK, NEW D \in SUBSET Exec, doUpdown(D),
         \A e \in Exec : status[e] # Initing
  PROVE  \A e \in Exec : status'[e] # Initing
<1>1. CASE UNCHANGED pool
  BY <1>1 DEF pool
<1>2. CASE ~ UNCHANGED pool
  <2>1. PICK K : status' = [e \in Exec |-> IF e \in D THEN Cleaning
                                           ELSE IF e \in K THEN Active ELSE status[e]]
    BY <1>2, Updown
  <2>2. QED
    BY <2>1 DEF Initing, Active, Cleaning
<1>3. QED
  BY <1>1, <1>2

LEMMA LoopStep == TypeOK /\ LoopInv /\ [Next]_vars => LoopInv'
<1> SUFFICES ASSUME TypeOK, LoopInv, [Next]_vars PROVE LoopInv'
  OBVIOUS
<1> DEFINE Known == \A e \in Exec : status[e] # Initing
<1> USE DEF LoopInv, NoInitingAfterStart, lock
<1>1. ASSUME NEW e \in Exec, NEW s \in {Offline, Online}, FirstReport(e, s)
      PROVE  LoopInv'
  BY <1>1 DEF FirstReport, Free
<1>2. ASSUME NEW e \in Exec, NEW s \in {Offline, Online}, Report(e, s)
      PROVE  LoopInv'
  <2>1. Known'
    <3>1. CASE ActiveFailed(e)
      BY <1>2, <3>1, UpdownKnown DEF ActiveFailed, pool, Report
    <3>2. CASE ~ ActiveFailed(e)
      BY <1>2, <3>2 DEF TypeOK, Report, SpareFailed, CameBack, NoNews, Initing,
                        Online, Cleaning
    <3>3. QED
      BY <3>1, <3>2
  <2>2. loop' \in {"none", "refill"}
    BY <1>2 DEF Report, BeginRefill, Free
  <2>3. QED
    BY <1>2, <2>1, <2>2 DEF Report
<1>3. CASE InitPick
  <2>1. PICK K : status' = [e \in Exec |-> IF e \in K THEN Active ELSE status[e]]
    BY <1>3 DEF InitPick
  <2>2. QED
    BY <1>3, <2>1 DEF InitPick, Initing, Active
<1>4. CASE InitDone \/ InitFailed
  BY <1>4 DEF InitDone, InitFailed
<1>5. CASE RefillPick
  BY <1>5, UpdownKnown DEF RefillPick
<1>6. CASE execAtuoSchedule
  BY <1>6, UpdownKnown DEF execAtuoSchedule, TypeOK, Free
<1>7. ASSUME NEW e \in Exec,
             \/ CleanDone(e) \/ doManualUpOpt(e)
             \/ doManualDownOpt(e) \/ doManualCleanOpt(e)
      PROVE  LoopInv'
  BY <1>7 DEF TypeOK, Free, CleanDone, doManualUpOpt, doManualDownOpt,
              doManualCleanOpt, Initing, Offline, Online, Active, Cleaning
<1>8. ASSUME NEW e \in Exec, CoolDown(e) PROVE LoopInv'
  BY <1>8 DEF CoolDown, pool
<1>9. ASSUME NEW e \in Exec, doReportError(e) PROVE LoopInv'
  <2>1. Known => Known'
    BY <1>9, UpdownKnown DEF doReportError
  <2>2. QED
    BY <1>9, <2>1 DEF doReportError, Free
<1>10. CASE SwitchOff
  BY <1>10 DEF SwitchOff, Free, TypeOK, Initing, Online
<1>11. CASE SwitchOn \/ ChangeRule \/ ReloadSelect \/ ReloadFailed
  BY <1>11 DEF SwitchOn, ChangeRule, ReloadSelect, ReloadFailed, pool
<1>12. CASE ReloadApply
  BY <1>12 DEF ReloadApply, TypeOK, DbStatus, Initing, Offline, Online, Active
<1>13. CASE UNCHANGED vars
  BY <1>13 DEF vars, pool
<1>14. QED
  BY <1>1, <1>2, <1>3, <1>4, <1>5, <1>6, <1>7, <1>8, <1>9, <1>10, <1>11, <1>12,
     <1>13 DEF Next

\* After the first start no executor is ever initing again, also with reloads
\* and failing statements: "exec status -2 exit process loop" is dead code.
THEOREM ProcessStays == Spec => []NoInitingAfterStart
<1>1. Init => LoopInv
  BY DEF Init, LoopInv, NoInitingAfterStart
<1>2. LoopInv => NoInitingAfterStart
  BY DEF LoopInv
<1>3. QED
  BY <1>1, <1>2, TypeCorrect, LoopStep, PTL DEF Spec

-----------------------------------------------------------------------------
(* The lists, the clean threads and the publication agree *)

\* An operator who waits for the first start and raises ready executors only.
Disciplined == UpStatuses \subseteq {Online} /\ ~EarlyCommands /\ ~Reloads

Agree == ActiveIffMarked /\ OneCleanerWhileCleaning /\ PublishedIsPool

\* Before the first start is over nothing is cleaned, nobody is active until
\* the loop of the first start marks them, and the lists agree in that loop.
PoolInv ==
  /\ fetched = {}
  /\ loop = "init" => isFirstStart
  /\ loop = "refill" => ~isFirstStart
  /\ isFirstStart => \A e \in Exec : cleaning[e] = 0 /\ status[e] # Cleaning
  /\ isFirstStart /\ loop = "none" => \A e \in Exec : status[e] # Active
  /\ loop = "init" => activeExecList = Marked(status)
  /\ Agree

LEMMA UpdownAgrees ==
  ASSUME TypeOK, Agree, ~isFirstStart, isFirstStart' = isFirstStart,
         NEW D \in SUBSET Exec, doUpdown(D),
         D = {} \/ \E d \in activeExecList : D = {d}
  PROVE  Agree'
<1> USE DEF Agree, ActiveIffMarked, OneCleanerWhileCleaning, PublishedIsPool, Marked
<1>1. CASE UNCHANGED pool
  BY <1>1 DEF pool
<1>2. CASE ~ UNCHANGED pool
  <2>1. PICK K \in SUBSET Ready :
          /\ status' = [e \in Exec |-> IF e \in D THEN Cleaning
                                       ELSE IF e \in K THEN Active ELSE status[e]]
          /\ activeExecList' = (activeExecList \cup K) \ D
          /\ cleanExec(D)
          /\ IF D \cup K = {} THEN UNCHANGED published ELSE syncAndPub
    BY <1>2, Updown
  <2>2. D \subseteq activeExecList
    OBVIOUS
  <2>3. /\ \A e \in K : e \in Exec /\ status[e] = Online
        /\ \A e \in D : e \in Exec /\ status[e] = Active
    BY <2>2 DEF Ready
  <2>4. Active # Cleaning /\ Online # Cleaning /\ Online # Active
    BY DEF Online, Active, Cleaning
  <2>5. ActiveIffMarked'
    <3>1. \A e \in Exec : e \in activeExecList' <=> status'[e] = Active
      BY <2>1, <2>3, <2>4
    <3>2. activeExecList' \subseteq Exec
      BY <2>1, <2>3 DEF TypeOK
    <3>3. QED
      BY <3>1, <3>2
  <2>6. OneCleanerWhileCleaning'
    <3>1. \A e \in Exec : cleaning'[e] = IF e \in D THEN cleaning[e] + 1
                                                    ELSE cleaning[e]
      BY <2>1 DEF cleanExec
    <3>2. \A e \in D : cleaning[e] = 0
      BY <2>3, <2>4
    <3>3. \A e \in Exec : status'[e] = Cleaning <=> e \in D \/ status[e] = Cleaning
      BY <2>1, <2>3, <2>4
    <3>4. QED
      BY <3>1, <3>2, <3>3
  <2>7. PublishedIsPool'
    <3>1. CASE D \cup K = {}
      BY <2>1, <3>1
    <3>2. CASE D \cup K # {}
      BY <2>1, <2>5, <3>2 DEF syncAndPub
    <3>3. QED
      BY <3>1, <3>2
  <2>8. QED
    BY <2>5, <2>6, <2>7
<1>3. QED
  BY <1>1, <1>2

LEMMA PoolStep ==
  ASSUME Disciplined
  PROVE  TypeOK /\ PoolInv /\ [Next]_vars => PoolInv'
<1> SUFFICES ASSUME TypeOK, PoolInv, [Next]_vars PROVE PoolInv'
  OBVIOUS
<1> USE DEF PoolInv, Agree, ActiveIffMarked, OneCleanerWhileCleaning, PublishedIsPool,
            Marked, lock
<1>0. /\ Online # Active /\ Online # Cleaning /\ Active # Cleaning
      /\ Offline # Active /\ Offline # Cleaning /\ Initing # Active /\ Initing # Cleaning
      /\ \A e \in Exec : cleaning[e] \in Nat
  BY DEF TypeOK, Initing, Offline, Online, Active, Cleaning
<1>1. ASSUME NEW e \in Exec, NEW s \in {Offline, Online}, FirstReport(e, s)
      PROVE  PoolInv'
  <2>1. \A x \in Exec : status'[x] # Active /\ status'[x] # Cleaning
    BY <1>0, <1>1 DEF FirstReport, Free, TypeOK
  <2>2. /\ loop' = "init" => activeExecList' = {}
        /\ loop' \in {"none", "init"}
    BY <1>1 DEF FirstReport, Free
  <2>3. QED
    BY <1>1, <2>1, <2>2 DEF FirstReport
<1>2. ASSUME NEW e \in Exec, NEW s \in {Offline, Online}, Report(e, s)
      PROVE  PoolInv'
  <2>1. ~isFirstStart /\ ~isFirstStart' /\ fetched' = {} /\ loop' \in {"none", "refill"}
    BY <1>2 DEF Report, BeginRefill, Free
  <2>2. Agree'
    <3>1. CASE ActiveFailed(e)
      BY <1>2, <2>1, <3>1, UpdownAgrees DEF ActiveFailed, pool, Report
    <3>2. CASE SpareFailed(e)
      <4>1. status[e] # Active /\ cleaning[e] = 0
        BY <1>0, <2>1, <3>2 DEF SpareFailed
      <4>2. /\ \A x \in Exec : status'[x] = IF x = e THEN Cleaning ELSE status[x]
            /\ \A x \in Exec : cleaning'[x] = IF x = e THEN 1 ELSE cleaning[x]
        BY <3>2, <4>1 DEF SpareFailed, cleanExec, TypeOK
      <4>3. QED
        BY <1>0, <2>1, <3>2, <4>1, <4>2 DEF SpareFailed
    <3>3. CASE CameBack(e)
      BY <1>0, <2>1, <3>3 DEF CameBack, TypeOK
    <3>4. CASE NoNews(e, s)
      BY <2>1, <3>4 DEF NoNews
    <3>5. QED
      BY <1>2, <3>1, <3>2, <3>3, <3>4 DEF Report
  <2>3. QED
    BY <2>1, <2>2
<1>3. CASE InitPick
  <2>1. PICK K \in Picks({}) :
          /\ status' = [e \in Exec |-> IF e \in K THEN Active ELSE status[e]]
          /\ activeExecList' = activeExecList \cup K
    BY <1>3 DEF InitPick
  <2>2. K \subseteq Exec
    BY PickReady
  <2>3. QED
    BY <1>0, <1>3, <2>1, <2>2 DEF InitPick
<1>4. CASE InitDone
  BY <1>4 DEF InitDone
<1>5. CASE InitFailed
  BY <1>0, <1>5 DEF InitFailed
<1>6. CASE RefillPick
  <2>1. Agree'
    BY <1>6, UpdownAgrees DEF RefillPick
  <2>2. QED
    BY <1>6, <2>1 DEF RefillPick
<1>7. CASE execAtuoSchedule
  <2>1. PICK e \in activeExecList : doUpdown({e})
    BY <1>7 DEF execAtuoSchedule
  <2>2. {e} \subseteq Exec
    BY DEF TypeOK
  <2>3. Agree'
    BY <1>7, <2>1, <2>2, UpdownAgrees DEF execAtuoSchedule
  <2>4. QED
    BY <1>7, <2>3 DEF execAtuoSchedule
<1>8. ASSUME NEW e \in Exec, CleanDone(e) PROVE PoolInv'
  <2>1. ~isFirstStart /\ status[e] = Cleaning /\ cleaning[e] = 1
    BY <1>0, <1>8 DEF CleanDone
  <2>2. /\ \A x \in Exec : status'[x] = IF x = e THEN Offline ELSE status[x]
        /\ \A x \in Exec : cleaning'[x] = IF x = e THEN 0 ELSE cleaning[x]
    BY <1>8, <2>1 DEF CleanDone, TypeOK
  <2>3. QED
    BY <1>0, <1>8, <2>1, <2>2 DEF CleanDone
<1>9. ASSUME NEW e \in Exec, CoolDown(e) PROVE PoolInv'
  BY <1>9 DEF CoolDown, pool
<1>10. ASSUME NEW e \in Exec, doManualUpOpt(e) \/ doManualDownOpt(e)
       PROVE  PoolInv'
  <2>1. ~isFirstStart /\ ~isFirstStart' /\ loop' = "none" /\ fetched' = {}
    BY <1>10 DEF Disciplined, Obeys, Free, doManualUpOpt, doManualDownOpt
  <2>2. status[e] \in {Online, Active}
    BY <1>10, <2>1 DEF Disciplined, doManualUpOpt, doManualDownOpt
  <2>3. CASE doManualUpOpt(e)
    <3>1. \A x \in Exec : status'[x] = IF x = e THEN Active ELSE status[x]
      BY <2>3 DEF doManualUpOpt, TypeOK
    <3>2. QED
      BY <1>0, <2>1, <2>2, <2>3, <3>1 DEF doManualUpOpt, syncAndPub
  <2>4. CASE doManualDownOpt(e)
    <3>1. \A x \in Exec : status'[x] = IF x = e THEN Online ELSE status[x]
      BY <2>4 DEF doManualDownOpt, TypeOK
    <3>2. QED
      BY <1>0, <2>1, <2>2, <2>4, <3>1 DEF doManualDownOpt, syncAndPub
  <2>5. QED
    BY <1>10, <2>3, <2>4
<1>11. ASSUME NEW e \in Exec, doManualCleanOpt(e) PROVE PoolInv'
  <2>1. ~isFirstStart /\ status[e] = Offline /\ cleaning[e] = 0
    BY <1>0, <1>11 DEF Disciplined, Obeys, doManualCleanOpt
  <2>2. /\ \A x \in Exec : status'[x] = IF x = e THEN Cleaning ELSE status[x]
        /\ \A x \in Exec : cleaning'[x] = IF x = e THEN 1 ELSE cleaning[x]
    BY <1>11, <2>1 DEF doManualCleanOpt, cleanExec, TypeOK
  <2>3. QED
    BY <1>0, <1>11, <2>1, <2>2 DEF doManualCleanOpt
<1>12. ASSUME NEW e \in Exec, doReportError(e) PROVE PoolInv'
  <2>1. ~isFirstStart /\ ~isFirstStart' /\ loop' = "none" /\ fetched' = {}
    BY <1>12 DEF Disciplined, Obeys, Free, doReportError
  <2>2. Agree'
    BY <1>12, <2>1, UpdownAgrees DEF doReportError
  <2>3. QED
    BY <2>1, <2>2
<1>13. CASE SwitchOff
  <2>1. ~isFirstStart /\ ~isFirstStart' /\ loop' = "none" /\ fetched' = {}
    BY <1>13 DEF Disciplined, Obeys, Free, SwitchOff
  <2>2. activeExecList' \subseteq activeExecList
    BY <1>13 DEF SwitchOff
  <2>3. \A x \in Exec : status'[x] = IF x \in activeExecList \ activeExecList'
                                     THEN Online ELSE status[x]
    BY <1>13 DEF SwitchOff
  <2>4. activeExecList' = Marked(status')
    BY <1>0, <2>1, <2>2, <2>3
  <2>5. OneCleanerWhileCleaning'
    BY <1>0, <1>13, <2>1, <2>3 DEF SwitchOff
  <2>6. QED
    BY <1>13, <2>1, <2>4, <2>5 DEF SwitchOff, syncAndPub
<1>14. CASE SwitchOn \/ ChangeRule
  BY <1>14 DEF Disciplined, Obeys, SwitchOn, ChangeRule, syncAndPub
<1>15. CASE ReloadSelect \/ ReloadApply \/ ReloadFailed
  BY <1>15 DEF Disciplined, ReloadSelect, ReloadApply, ReloadFailed
<1>16. CASE UNCHANGED vars
  BY <1>16 DEF vars, pool
<1>17. QED
  BY <1>1, <1>2, <1>3, <1>4, <1>5, <1>6, <1>7, <1>8, <1>9, <1>10, <1>11, <1>12,
     <1>13, <1>14, <1>15, <1>16 DEF Next

LEMMA PoolAlways == ASSUME Disciplined PROVE Spec => [](TypeOK /\ PoolInv)
<1>1. Init => PoolInv
  BY DEF Init, PoolInv, Agree, ActiveIffMarked, OneCleanerWhileCleaning,
         PublishedIsPool, Initing, Active, Cleaning
<1>2. TypeOK /\ PoolInv /\ [Next]_vars => PoolInv'
  BY PoolStep
<1>3. QED
  BY <1>1, <1>2, TypeCorrect, PTL DEF Spec

\* With a disciplined operator the two lists of the pool agree at all times,
\* through failures, votes, rotations and clean threads that end at any moment.
THEOREM ListsAgree == ASSUME Disciplined PROVE Spec => []ActiveIffMarked
<1>1. PoolInv => ActiveIffMarked
  BY DEF PoolInv, Agree
<1>2. QED
  BY <1>1, PoolAlways, PTL

\* ... one clean thread works on an executor exactly while it is cleaning ...
THEOREM CleanersExclusive == ASSUME Disciplined PROVE Spec => []OneCleanerWhileCleaning
<1>1. PoolInv => OneCleanerWhileCleaning
  BY DEF PoolInv, Agree
<1>2. QED
  BY <1>1, PoolAlways, PTL

\* ... and the last snapshot names exactly the active executors.
THEOREM SnapshotExact == ASSUME Disciplined PROVE Spec => []PublishedIsPool
<1>1. PoolInv => PublishedIsPool
  BY DEF PoolInv, Agree
<1>2. QED
  BY <1>1, PoolAlways, PTL

-----------------------------------------------------------------------------
(* The pool stays within its budget *)

\* No reload, and not both a switch that is turned on again and manual_up:
\* turning it on forgets what manual_up has borrowed.
Accounted == ~Reloads /\ (Switches = {"on"} \/ UpStatuses = {})

BudgetInv ==
  /\ WithinBudget
  /\ fetched = {}
  /\ UpStatuses = {} => manualDownNum >= 0

LEMMA ActiveFinite ==
  ASSUME TypeOK
  PROVE  IsFiniteSet(activeExecList) /\ Cardinality(activeExecList) \in Nat
BY ExecAssumption, FS_Subset, FS_CardinalityType DEF TypeOK

\* Adding a pick makes a set larger by one executor at most.
LEMMA PickCard ==
  ASSUME NEW S, IsFiniteSet(S), NEW K, K = {} \/ \E k \in Ready : K = {k}
  PROVE  /\ IsFiniteSet(S \cup K)
         /\ \E n \in {0, 1} : Cardinality(S \cup K) = Cardinality(S) + n
<1>1. Cardinality(S) \in Nat
  BY FS_CardinalityType
<1>2. CASE K = {}
  <2>1. S \cup K = S
    BY <1>2
  <2>2. Cardinality(S) = Cardinality(S) + 0
    BY <1>1
  <2>3. QED
    BY <2>1, <2>2
<1>3. ASSUME NEW k \in Ready, K = {k}
      PROVE  /\ IsFiniteSet(S \cup K)
             /\ \E n \in {0, 1} : Cardinality(S \cup K) = Cardinality(S) + n
  <2>1. Cardinality(S \cup {k}) = IF k \in S THEN Cardinality(S) ELSE Cardinality(S) + 1
    BY FS_AddElement
  <2>2. IsFiniteSet(S \cup {k})
    BY FS_AddElement
  <2>3. QED
    BY <1>1, <1>3, <2>1, <2>2
<1>4. QED
  BY <1>2, <1>3

\* doUpdown for an active executor never makes the pool larger, the refill by
\* one executor at most.
LEMMA UpdownCard ==
  ASSUME TypeOK, NEW D \in SUBSET Exec, doUpdown(D),
         D = {} \/ \E d \in activeExecList : D = {d},
         NEW size \in Nat, size = Cardinality(activeExecList),
         NEW next \in Nat, next = Cardinality(activeExecList')
  PROVE  next <= IF D = {} THEN size + 1 ELSE size
<1>0. IsFiniteSet(activeExecList)
  BY ActiveFinite
<1>1. CASE UNCHANGED pool
  BY <1>1 DEF pool
<1>2. CASE ~ UNCHANGED pool
  <2>1. PICK K \in SUBSET Ready : /\ K = {} \/ \E k \in Ready : K = {k}
                                  /\ activeExecList' = (activeExecList \cup K) \ D
    BY <1>2, Updown
  <2>2. PICK n \in {0, 1} : Cardinality(activeExecList \cup K) = size + n
    BY <1>0, <2>1, PickCard
  <2>3. IsFiniteSet(activeExecList \cup K)
    BY <1>0, <2>1, PickCard
  <2>4. CASE D = {}
    <3>1. next = size + n
      BY <2>1, <2>2, <2>4
    <3>2. QED
      BY <2>4, <3>1
  <2>5. ASSUME NEW d \in activeExecList, D = {d} PROVE next <= size
    <3>1. Cardinality((activeExecList \cup K) \ {d}) =
            Cardinality(activeExecList \cup K) - 1
      BY <2>3, FS_RemoveElement
    <3>2. next = size + n - 1
      BY <2>1, <2>2, <2>5, <3>1
    <3>3. QED
      BY <3>2
  <2>6. QED
    BY <2>4, <2>5
<1>3. QED
  BY <1>1, <1>2

LEMMA BudgetStep ==
  ASSUME Accounted
  PROVE  TypeOK /\ BudgetInv /\ [Next]_vars => BudgetInv'
<1> SUFFICES ASSUME TypeOK, BudgetInv, [Next]_vars PROVE BudgetInv'
  OBVIOUS
<1>1. Cardinality(activeExecList) \in Nat /\ Cardinality(activeExecList') \in Nat
  <2>1. activeExecList' \subseteq Exec
    BY TypeStep DEF TypeOK
  <2>2. QED
    BY <2>1, ActiveFinite, ExecAssumption, FS_Subset, FS_CardinalityType
<1>2. PICK size \in Nat : size = Cardinality(activeExecList)
  BY <1>1
<1>3. PICK next \in Nat : next = Cardinality(activeExecList')
  BY <1>1
<1> DEFINE Goal == /\ next + manualDownNum' + (IF loop' = "none" THEN 0 ELSE left') <= execNum
                   /\ fetched' = {}
                   /\ UpStatuses = {} => manualDownNum' >= 0
<1>4. SUFFICES Goal
  BY <1>3 DEF BudgetInv, WithinBudget
<1>5. /\ manualDownNum \in Int /\ left \in Nat /\ execNum \in Nat
      /\ loop = "refill" => left > 0
      /\ fetched = {}
      /\ size + manualDownNum + (IF loop = "none" THEN 0 ELSE left) <= execNum
      /\ UpStatuses = {} => manualDownNum >= 0
  BY <1>2, ExecNumAssumption DEF TypeOK, BudgetInv, WithinBudget
<1>6. activeExecList' = activeExecList => next = size
  BY <1>2, <1>3
<1> USE DEF lock
<1>7. ASSUME NEW e \in Exec, NEW s \in {Offline, Online}, FirstReport(e, s)
      PROVE  Goal
  <2>1. CASE UNCHANGED <<activeExecList, lock>>
    BY <1>5, <1>6, <1>7, <2>1 DEF FirstReport
  <2>2. CASE activeExecList' = {} /\ loop' = "init"
    <3>1. next = 0
      BY <1>3, <2>2, FS_EmptySet
    <3>2. left' = IF manualDownNum < execNum THEN execNum - manualDownNum ELSE 0
      BY <1>7, <2>2 DEF FirstReport, Free
    <3>3. manualDownNum' = manualDownNum /\ manualDownNum <= execNum
          /\ fetched' = fetched
      BY <1>5, <1>7 DEF FirstReport, Free
    <3>4. QED
      BY <1>5, <2>2, <3>1, <3>2, <3>3
  <2>3. QED
    BY <1>7, <2>1, <2>2 DEF FirstReport
<1>8. ASSUME NEW e \in Exec, NEW s \in {Offline, Online}, Report(e, s)
      PROVE  Goal
  <2>1. next <= size
    <3>1. CASE ActiveFailed(e) /\ e \in activeExecList
      BY <1>2, <1>3, <3>1, UpdownCard DEF ActiveFailed
    <3>2. CASE ActiveFailed(e) /\ e \notin activeExecList
      BY <1>6, <3>2 DEF ActiveFailed, pool
    <3>3. CASE ~ ActiveFailed(e)
      BY <1>6, <1>8, <3>3 DEF Report, SpareFailed, CameBack, NoNews
    <3>4. QED
      BY <3>1, <3>2, <3>3
  <2>2. manualDownNum' = manualDownNum /\ fetched' = fetched /\ loop = "none"
    BY <1>8 DEF Report, Free
  <2>3. CASE loop' = "refill" /\ left' = execNum - manualDownNum - next
    BY <1>5, <2>2, <2>3
  <2>4. CASE UNCHANGED lock
    BY <1>5, <2>1, <2>2, <2>4
  <2>5. QED
    BY <1>3, <1>8, <2>3, <2>4 DEF Report, BeginRefill
<1>9. CASE InitPick
  <2>1. PICK K \in Picks({}) : activeExecList' = activeExecList \cup K
    BY <1>9 DEF InitPick
  <2>2. \E n \in {0, 1} : next = size + n
    BY <1>2, <1>3, <2>1, ActiveFinite, PickReady, PickCard
  <2>3. QED
    BY <1>5, <1>9, <2>2 DEF InitPick
<1>10. CASE InitDone \/ InitFailed
  BY <1>5, <1>6, <1>10 DEF InitDone, InitFailed
<1>11. CASE RefillPick
  <2>1. next <= size + 1
    BY <1>2, <1>3, <1>11, UpdownCard DEF RefillPick
  <2>2. QED
    BY <1>5, <1>11, <2>1 DEF RefillPick
<1>12. CASE execAtuoSchedule
  <2>1. next <= size
    BY <1>2, <1>3, <1>12, UpdownCard DEF execAtuoSchedule, TypeOK
  <2>2. QED
    BY <1>5, <1>12, <2>1 DEF execAtuoSchedule
<1>13. ASSUME NEW e \in Exec, CleanDone(e) \/ CoolDown(e) \/ doManualCleanOpt(e)
       PROVE  Goal
  BY <1>5, <1>6, <1>13 DEF CleanDone, CoolDown, doManualCleanOpt, pool
<1>14. ASSUME NEW e \in Exec, doManualUpOpt(e) PROVE Goal
  <2>1. next = size + 1
    BY <1>2, <1>3, <1>14, ActiveFinite, FS_AddElement DEF doManualUpOpt
  <2>2. UpStatuses # {} /\ manualDownNum' = manualDownNum - 1
    BY <1>14 DEF doManualUpOpt
  <2>3. QED
    BY <1>5, <1>14, <2>1, <2>2 DEF doManualUpOpt
<1>15. ASSUME NEW e \in Exec, doManualDownOpt(e) PROVE Goal
  <2>1. next = size - 1
    BY <1>2, <1>3, <1>15, ActiveFinite, FS_RemoveElement DEF doManualDownOpt
  <2>2. QED
    BY <1>5, <1>15, <2>1 DEF doManualDownOpt
<1>16. ASSUME NEW e \in Exec, doReportError(e) PROVE Goal
  <2>1. next <= size
    BY <1>2, <1>3, <1>16, UpdownCard DEF doReportError
  <2>2. QED
    BY <1>5, <1>16, <2>1 DEF doReportError
<1>17. CASE SwitchOff
  <2>1. next <= size
    BY <1>2, <1>3, <1>17, ActiveFinite, FS_Subset DEF SwitchOff
  <2>2. manualDownNum' = manualDownNum + size - next
    BY <1>2, <1>3, <1>17 DEF SwitchOff
  <2>3. QED
    BY <1>5, <1>17, <2>1, <2>2 DEF SwitchOff
<1>18. CASE SwitchOn
  <2>1. UpStatuses = {}
    BY <1>18 DEF Accounted, SwitchOn, TypeOK
  <2>2. QED
    BY <1>5, <1>6, <1>18, <2>1 DEF SwitchOn
<1>19. CASE ChangeRule
  BY <1>5, <1>6, <1>19 DEF ChangeRule
<1>20. CASE ReloadSelect \/ ReloadApply \/ ReloadFailed
  BY <1>5, <1>20 DEF Accounted, ReloadSelect, ReloadApply, ReloadFailed
<1>21. CASE UNCHANGED vars
  BY <1>5, <1>6, <1>21 DEF vars, pool
<1>22. QED
  BY <1>7, <1>8, <1>9, <1>10, <1>11, <1>12, <1>13, <1>14, <1>15, <1>16, <1>17,
     <1>18, <1>19, <1>20, <1>21 DEF Next

LEMMA BudgetAlways == ASSUME Accounted PROVE Spec => [](TypeOK /\ BudgetInv)
<1>1. Init => BudgetInv
  <2> SUFFICES ASSUME Init PROVE BudgetInv
    OBVIOUS
  <2>1. Cardinality(activeExecList) = 0
    BY FS_EmptySet DEF Init
  <2>2. manualDownNum \in 0..execNum
    BY ExecNumAssumption DEF Init
  <2>3. QED
    BY <2>1, <2>2, ExecNumAssumption DEF Init, BudgetInv, WithinBudget
<1>2. TypeOK /\ BudgetInv /\ [Next]_vars => BudgetInv'
  BY BudgetStep
<1>3. QED
  BY <1>1, <1>2, TypeCorrect, PTL DEF Spec

\* Members of the pool, members held back and picks to come never exceed
\* execNum, in whatever order commands, failures and refills come.
THEOREM BudgetKept == ASSUME Accounted PROVE Spec => []WithinBudget
<1>1. BudgetInv => WithinBudget
  BY DEF BudgetInv
<1>2. QED
  BY <1>1, BudgetAlways, PTL

\* Without manual_up the active list never holds more than execNum executors.
THEOREM PoolNotTooLarge ==
  ASSUME ~Reloads, UpStatuses = {}
  PROVE  Spec => []NotAboveExecNum
<1>1. TypeOK /\ BudgetInv => NotAboveExecNum
  BY ActiveFinite, ExecNumAssumption
     DEF BudgetInv, WithinBudget, NotAboveExecNum, TypeOK
<1>2. Accounted
  BY DEF Accounted
<1>3. QED
  BY <1>1, <1>2, BudgetAlways, PTL
-----------------------------------------------------------------------------
(* exec_status_info follows the pool *)

\* What updateExecStatusDb does when no statement is lost.
LEMMA RowsWritten ==
  ASSUME ~DbMayFail, NEW S, updateExecStatusDb(S), NEW e \in Exec
  PROVE  table'[e] = IF e \in S THEN DbOf(status'[e]) ELSE table[e]
BY DEF updateExecStatusDb

\* The row of e is what the status of e is stored as.
RowRight(e) == table[e] = DbOf(status[e])

\* Neither the row nor the status of e changes.
RowKept(e) == table'[e] = table[e] /\ status'[e] = status[e]

LEMMA UpdownRow ==
  ASSUME ~DbMayFail, TypeOK, NEW D \in SUBSET Exec, doUpdown(D), NEW e \in Exec
  PROVE  RowKept(e) \/ RowRight(e)'
<1>1. CASE UNCHANGED pool
  BY <1>1 DEF pool, RowKept
<1>2. CASE ~ UNCHANGED pool
  <2>1. PICK K \in SUBSET Ready :
          /\ status' = [x \in Exec |-> IF x \in D THEN Cleaning
                                       ELSE IF x \in K THEN Active ELSE status[x]]
          /\ updateExecStatusDb(D \cup K)
    BY <1>2, Updown
  <2>2. table'[e] = IF e \in D \cup K THEN DbOf(status'[e]) ELSE table[e]
    BY <2>1, RowsWritten
  <2>3. e \notin D \cup K => status'[e] = status[e]
    BY <2>1
  <2>4. QED
    BY <2>2, <2>3 DEF RowKept, RowRight
<1>3. QED
  BY <1>1, <1>2

\* The loop of the first start runs before it is over, and without
\* update_scweight there are never rows waiting to be applied.
TableInv == LoopInv /\ fetched = {}

\* One step, seen from the row of one executor: after the first start it is
\* left alone or written with the new status; only a switch that is turned off
\* makes an executor ready and leaves its row.
LEMMA RowStep ==
  ASSUME ~DbMayFail, ~Reloads, TypeOK, TableInv, [Next]_vars, ~isFirstStart',
         NEW e \in Exec
  PROVE  \/ RowRight(e)'
         \/ ~isFirstStart /\ RowKept(e)
         \/ ~isFirstStart /\ SwitchOff /\ status'[e] = Online
<1> USE DEF RowKept
<1>1. ASSUME NEW x \in Exec, NEW s \in {Offline, Online},
             FirstReport(x, s) \/ InitPick \/ InitFailed
      PROVE  FALSE
  BY <1>1 DEF FirstReport, InitPick, InitFailed, TableInv, LoopInv
<1>2. ASSUME NEW x \in Exec, NEW s \in {Offline, Online}, Report(x, s)
      PROVE  ~isFirstStart /\ (RowKept(e) \/ RowRight(e)')
  <2>1. CASE ActiveFailed(x)
    BY <1>2, <2>1, UpdownRow DEF ActiveFailed, pool, Report
  <2>2. CASE SpareFailed(x) \/ CameBack(x) \/ NoNews(x, s)
    <3>1. updateExecStatusDb({x}) /\ (e # x => status'[e] = status[e])
      BY <2>2 DEF SpareFailed, CameBack, NoNews, TypeOK
    <3>2. table'[e] = IF e \in {x} THEN DbOf(status'[e]) ELSE table[e]
      BY <3>1, RowsWritten
    <3>3. QED
      BY <1>2, <3>1, <3>2 DEF Report, RowRight
  <2>3. QED
    BY <1>2, <2>1, <2>2 DEF Report
<1>3. CASE InitDone
  BY <1>3 DEF InitDone, RowRight
<1>4. CASE RefillPick
  BY <1>4, UpdownRow DEF RefillPick
<1>5. CASE execAtuoSchedule
  BY <1>5, UpdownRow DEF execAtuoSchedule, TypeOK
<1>6. ASSUME NEW x \in Exec,
             \/ CleanDone(x) \/ doManualUpOpt(x)
             \/ doManualDownOpt(x) \/ doManualCleanOpt(x)
      PROVE  ~isFirstStart /\ (RowKept(e) \/ RowRight(e)')
  <2>1. updateExecStatusDb({x}) /\ (e # x => status'[e] = status[e])
    BY <1>6 DEF CleanDone, doManualUpOpt, doManualDownOpt, doManualCleanOpt, TypeOK
  <2>2. table'[e] = IF e \in {x} THEN DbOf(status'[e]) ELSE table[e]
    BY <2>1, RowsWritten
  <2>3. ~isFirstStart
    BY <1>6 DEF CleanDone, doManualUpOpt, doManualDownOpt, doManualCleanOpt
  <2>4. QED
    BY <2>1, <2>2, <2>3 DEF RowRight
<1>7. ASSUME NEW x \in Exec, CoolDown(x) \/ doReportError(x)
      PROVE  ~isFirstStart /\ (RowKept(e) \/ RowRight(e)')
  BY <1>7, UpdownRow DEF CoolDown, doReportError, pool
<1>8. CASE SwitchOff
  BY <1>8 DEF SwitchOff
<1>9. CASE SwitchOn \/ ChangeRule
  BY <1>9 DEF SwitchOn, ChangeRule
<1>10. CASE ReloadSelect \/ ReloadApply \/ ReloadFailed
  BY <1>10 DEF ReloadSelect, ReloadApply, ReloadFailed, TableInv
<1>11. CASE UNCHANGED vars
  BY <1>11 DEF vars, pool
<1>12. QED
  BY <1>1, <1>2, <1>3, <1>4, <1>5, <1>6, <1>7, <1>8, <1>9, <1>10, <1>11 DEF Next

LEMMA NothingFetched ==
  ASSUME ~Reloads, fetched = {}, [Next]_vars
  PROVE  fetched' = {}
<1>1. ASSUME NEW e \in Exec, NEW s \in {Offline, Online},
             \/ FirstReport(e, s) \/ Report(e, s) \/ CleanDone(e) \/ CoolDown(e)
             \/ doManualUpOpt(e) \/ doManualDownOpt(e)
             \/ doManualCleanOpt(e) \/ doReportError(e)
      PROVE  fetched' = {}
  BY <1>1 DEF FirstReport, Report, CleanDone, CoolDown, doManualUpOpt,
              doManualDownOpt, doManualCleanOpt, doReportError
<1>2. CASE \/ InitPick \/ InitDone \/ InitFailed \/ RefillPick \/ execAtuoSchedule
           \/ SwitchOff \/ SwitchOn \/ ChangeRule
           \/ ReloadSelect \/ ReloadApply \/ ReloadFailed
  BY <1>2 DEF InitPick, InitDone, InitFailed, RefillPick, execAtuoSchedule, SwitchOff,
              SwitchOn, ChangeRule, ReloadSelect, ReloadApply, ReloadFailed
<1>3. QED
  BY <1>1, <1>2 DEF Next, vars

LEMMA TableAlways == ASSUME ~Reloads PROVE Spec => [](TypeOK /\ TableInv)
<1>1. Init => TableInv
  BY DEF Init, TableInv, LoopInv, NoInitingAfterStart
<1>2. TypeOK /\ TableInv /\ [Next]_vars => TableInv'
  BY LoopStep, NothingFetched DEF TableInv
<1>3. QED
  BY <1>1, <1>2, TypeCorrect, PTL DEF Spec

\* With a database that answers, no reload and a switch that can not be turned
\* off, every row is the status as it is stored, whatever commands come and in
\* whatever state: each handler writes the rows of all it changed.
THEOREM TableInStep ==
  ASSUME ~DbMayFail, ~Reloads, ~({"on", "off"} \subseteq Switches)
  PROVE  Spec => []TableFollowsPool
<1>1. Init => TableFollowsPool
  BY DEF Init, TableFollowsPool
<1>2. TypeOK /\ TableInv /\ TableFollowsPool /\ [Next]_vars => TableFollowsPool'
  <2> SUFFICES ASSUME TypeOK, TableInv, TableFollowsPool, [Next]_vars,
                      ~isFirstStart'
               PROVE  table' = [e \in Exec |-> DbOf(status'[e])]
    BY DEF TableFollowsPool
  <2>1. ~SwitchOff
    BY DEF SwitchOff, TypeOK
  <2>2. ASSUME NEW e \in Exec PROVE table'[e] = DbOf(status'[e])
    <3>1. RowRight(e)' \/ (~isFirstStart /\ RowKept(e))
      BY <2>1, RowStep
    <3>2. QED
      BY <3>1 DEF RowRight, RowKept, TableFollowsPool, DbOf
  <2>3. table' \in [Exec -> DbStatus]
    BY TypeStep DEF TypeOK
  <2>4. QED
    BY <2>2, <2>3
<1>3. QED
  BY <1>1, <1>2, TableAlways, PTL DEF Spec

\* What the table may be behind by when the switch is turned off and on: the
\* rows of ready executors only. A reader of the table may take a spare for an
\* active executor, never one that is offline or being cleaned.
RowsBehindAreSpares ==
  ~isFirstStart => \A e \in Exec : RowRight(e) \/ status[e] = Online

\* With a database that answers and no reload, whatever the commands: the row
\* of an executor that is active, offline or being cleaned is right.
THEOREM OnlySparesBehind ==
  ASSUME ~DbMayFail, ~Reloads
  PROVE  Spec => []RowsBehindAreSpares
<1>1. Init => RowsBehindAreSpares
  BY DEF Init, RowsBehindAreSpares
<1>2. TypeOK /\ TableInv /\ RowsBehindAreSpares /\ [Next]_vars
        => RowsBehindAreSpares'
  <2> SUFFICES ASSUME TypeOK, TableInv, RowsBehindAreSpares, [Next]_vars,
                      ~isFirstStart', NEW e \in Exec
               PROVE  RowRight(e)' \/ status'[e] = Online
    BY DEF RowsBehindAreSpares
  <2>1. RowRight(e)' \/ (~isFirstStart /\ RowKept(e)) \/ status'[e] = Online
    BY RowStep
  <2>2. QED
    BY <2>1 DEF RowRight, RowKept, RowsBehindAreSpares, DbOf
<1>3. QED
  BY <1>1, <1>2, TableAlways, PTL DEF Spec
=============================================================================
