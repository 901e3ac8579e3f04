--------------------------- MODULE SessionProofs ---------------------------
(***************************************************************************)
(* Theorems about SessionPersistence, for every value of its constants.    *)
(***************************************************************************)
EXTENDS SessionPersistence, TLAPS

\* The contents that the actions put into files are files.
LEMMA FileTypes ==
    /\ Absent \in Files /\ Broken \in Files
    /\ \A layout \in SUBSET Tabs : Saved(layout) \in Files
BY DEF Absent, Broken, Saved, Files

\* Loading, and reading back the last commit, give files.
LEMMA LoadTypes ==
    /\ \A d \in [Names -> Files] : Load(d) \in Files
    /\ SessionTypeOK => Committed \in Files
BY FileTypes DEF Load, Committed, SessionTypeOK, Names

\* Returning from save_session keeps the types of what it changes.
LEMMA ReturnsTypes ==
    ASSUME SessionTypeOK, NEW s \in Savers, NEW ok \in BOOLEAN, Returns(s, ok)
    PROVE  /\ phase' \in {"down", "starting", "restoring", "clearing",
                          "fresh", "saving", "running", "stopping"}
           /\ shutdown' \in BOOLEAN /\ restored' \in BOOLEAN
           /\ clean' \in BOOLEAN
           /\ tabs' \subseteq Tabs /\ todo' \subseteq Tabs
           /\ kept' \subseteq Tabs
           /\ lock' \in Savers \cup {"nobody"}
           /\ stage' \in [Savers -> {"idle", "asked", "previous", "session",
                                     "syncing"}]
           /\ snapshot' \in [Savers -> SUBSET Tabs]
           /\ autoSaving' \in BOOLEAN /\ token' \in BOOLEAN
           /\ dirty' \in BOOLEAN
BY DEF Returns, Gone, muxVars, SessionTypeOK

\* The steps of save_session keep every type.
LEMMA SaveTypes ==
    ASSUME SessionTypeOK, NEW s \in Savers, SaveStep(s) \/ SaveFails(s)
    PROVE  SessionTypeOK'
PROOF
<1>1. CASE Build(s)
  <2>1. CASE Returns(s, TRUE)
    BY <1>1, <2>1, ReturnsTypes, LoadTypes
       DEF Build, fileVars, boundVars, SessionTypeOK
  <2>2. CASE \E place \in {"session", "previous"} : Continues(s, place)
             /\ lock' = s /\ snapshot' = [snapshot EXCEPT ![s] = tabs]
    BY <1>1, <2>2, LoadTypes
       DEF Build, Continues, fileVars, boundVars, serverVars, muxVars,
           autoVars, SessionTypeOK
  <2>3. QED
    BY <1>1, <2>1, <2>2 DEF Build
<1>2. CASE WritePrevious(s)
  BY <1>2 DEF WritePrevious, Replace, Continues, boundVars, serverVars,
              muxVars, autoVars, SessionTypeOK, Names
<1>3. CASE WriteSession(s)
  BY <1>3, FileTypes
     DEF WriteSession, Replace, Continues, boundVars, serverVars, muxVars,
         autoVars, SessionTypeOK, Names
<1>4. CASE SyncDirectory(s)
  BY <1>4, FileTypes, ReturnsTypes
     DEF SyncDirectory, boundVars, SessionTypeOK
<1>5. CASE SaveFails(s)
  <2>1. failures' \in Nat
    BY <1>5 DEF SaveFails, MayFail, SessionTypeOK
  <2>2. QED
    BY <1>5, <2>1, ReturnsTypes DEF SaveFails, fileVars, SessionTypeOK
<1>6. QED
  BY <1>1, <1>2, <1>3, <1>4, <1>5 DEF SaveStep

\* Every step keeps every type.
LEMMA NextTypes ==
    ASSUME SessionTypeOK, [Next]_vars
    PROVE  SessionTypeOK'
PROOF
<1> USE DEF serverVars, muxVars, fileVars, saveVars, autoVars, boundVars,
            histVars
<1>1. CASE Start
  <2>1. starts' \in Nat
    BY <1>1 DEF Start, SessionTypeOK
  <2>2. Load(disk) \in Files
    BY LoadTypes DEF SessionTypeOK
  <2>3. QED
    BY <1>1, <2>1, <2>2, FileTypes DEF Start, SessionTypeOK
<1>2. CASE Kill
  BY <1>2 DEF Kill, Gone, SessionTypeOK
<1>3. CASE PowerLoss
  <2>1. disk' \in [Names -> Files]
    BY <1>3 DEF PowerLoss, SessionTypeOK
  <2>2. QED
    BY <1>3, <2>1 DEF PowerLoss, Gone, SessionTypeOK
<1>4. CASE BeginShutdown \/ Stop
  BY <1>4 DEF BeginShutdown, Stop, SessionTypeOK
<1>5. CASE \/ \E t \in Tabs : OpenTab(t) \/ CloseTab(t) \/ ProgramExits(t)
           \/ \E t, u \in Tabs : ChangeTab(t, u)
  BY <1>5 DEF OpenTab, ChangeTab, CloseTab, ProgramExits, Changed,
              SessionTypeOK
<1>6. CASE Restoring
  <2>1. CASE SkipRestore
    BY <2>1 DEF SkipRestore, StartAutoSave, SessionTypeOK
  <2>2. CASE LoadSession
    <3>1. Load(disk).tabs \subseteq Tabs
      BY LoadTypes DEF SessionTypeOK, Files
    <3>2. QED
      BY <2>2, <3>1 DEF LoadSession, SessionTypeOK
  <2>3. CASE RestoreEnds
    BY <2>3, FileTypes DEF RestoreEnds, SessionTypeOK
  <2>4. CASE ClearFile
    BY <2>4, FileTypes
       DEF ClearFile, Replace, NextToClear, SessionTypeOK, Names
  <2>5. CASE ClearEnds
    <3>1. failures' \in Nat
      BY <2>5 DEF ClearEnds, MayFail, SessionTypeOK
    <3>2. cache' \in Files
      BY <2>5, FileTypes DEF ClearEnds, SessionTypeOK
    <3>3. QED
      BY <2>5, <3>1, <3>2 DEF ClearEnds, StartAutoSave, SessionTypeOK
  <2>6. CASE \E t \in Tabs : RestoreTab(t) \/ FreshTab(t)
    BY <2>6 DEF RestoreTab, FreshTab, StartAutoSave, SessionTypeOK
  <2>7. CASE \E t \in Tabs : RestoreTabFails(t)
    <3>1. failures' \in Nat
      BY <2>7 DEF RestoreTabFails, MayFail, SessionTypeOK
    <3>2. QED
      BY <2>7, <3>1 DEF RestoreTabFails, SessionTypeOK
  <2>8. CASE RestoreGivesUp
    BY <2>8 DEF RestoreGivesUp, MayFail, SessionTypeOK
  <2>9. QED
    BY <1>6, <2>1, <2>2, <2>3, <2>4, <2>5, <2>6, <2>7, <2>8 DEF Restoring
<1>7. CASE \E s \in Savers : SaveStep(s) \/ SaveFails(s)
  BY <1>7, SaveTypes
<1>8. CASE Receive \/ SaveDue
  BY <1>8 DEF Receive, SaveDue, SessionTypeOK
<1>9. CASE UNCHANGED vars
  BY <1>9 DEF vars, SessionTypeOK
<1>10. QED
  BY <1>1, <1>2, <1>3, <1>4, <1>5, <1>6, <1>7, <1>8, <1>9 DEF Next

\* The initial states have their types.
LEMMA InitTypes == Init => SessionTypeOK
PROOF
<1> SUFFICES ASSUME Init PROVE SessionTypeOK
  OBVIOUS
<1>1. disk \in [Names -> Files]
  <2>1. PICK session \in {Absent, Broken, Saved(OldTabs)},
             legacy \in {Absent, Saved(OldTabs)} :
               disk = [n \in Names |-> IF n = "session" THEN session
                                       ELSE IF n = "legacy" THEN legacy
                                       ELSE Absent]
    BY DEF Init
  <2>2. session \in Files /\ legacy \in Files /\ Absent \in Files
    BY SessionAssumption, FileTypes
  <2>3. QED
    BY <2>1, <2>2
<1>2. durable \in [Names -> SUBSET Files]
  BY <1>1 DEF Init
<1>3. QED
  BY <1>1, <1>2, FileTypes DEF Init, SessionTypeOK

\* Every variable of the server, its threads and the files keeps its type.
THEOREM SessionTypeCorrect == Spec => []SessionTypeOK
PROOF
<1>1. SessionTypeOK /\ [Next]_vars => SessionTypeOK'
  BY NextTypes
<1>2. QED
  BY <1>1, InitTypes, PTL DEF Spec

(***************************************************************************)
(* CommittedSurvives.                                                      *)
(***************************************************************************)

\* The invariant holds in the initial states: nothing is promised yet.
LEMMA InitIInv == Init => SessionIInv
PROOF
<1> SUFFICES ASSUME Init PROVE SessionIInv
  OBVIOUS
<1>1. SavesInTurn /\ OneWriter /\ SyncsItsOwn /\ ClearedIsNotPromised
  <2>1. phase = "down" /\ autoSaving = FALSE
        /\ \A s \in Savers : stage[s] = "idle"
    BY DEF Init
  <2>2. QED
    BY <2>1 DEF SavesInTurn, OneWriter, SyncsItsOwn, ClearedIsNotPromised,
                Savers, Startup
<1>2. DiskIsPossible
  <2>1. durable = [n \in Names |-> {disk[n]}]
    BY DEF Init
  <2>2. QED
    BY <2>1 DEF DiskIsPossible
<1>3. PromiseIsDurable
  <2>1. promised = Absent
    BY DEF Init
  <2>2. QED
    BY <2>1 DEF PromiseIsDurable, Absent
<1>4. QED
  BY <1>1, <1>2, <1>3, InitTypes DEF SessionIInv

\* A thread that returns from save_session leaves the lock to nobody, the
\* threads in turn and the other thread where it was.
LEMMA ReturnsInTurn ==
    ASSUME SessionIInv, NEW s \in Savers, NEW ok \in BOOLEAN, Returns(s, ok),
           stage[s] # "idle",
           lock \in {s, "nobody"}
    PROVE  /\ SavesInTurn'
           /\ \A r \in Savers : stage'[r] \in {"idle", "asked"}
           /\ phase' # "clearing"
BY DEF Returns, Gone, SessionIInv, SavesInTurn, OneWriter, SessionTypeOK,
       Savers, Startup

\* A thread that goes on saving stays in its turn.
LEMMA ContinuesInTurn ==
    ASSUME SessionIInv, NEW s \in Savers,
           NEW place \in {"previous", "session", "syncing"},
           stage[s] # "idle", Continues(s, place)
    PROVE  /\ SavesInTurn'
           /\ phase' # "clearing"
           /\ stage'[s] = place
           /\ \A r \in Savers : r # s => stage'[r] = stage[r]
BY DEF Continues, serverVars, autoVars, SessionIInv, SavesInTurn,
       SessionTypeOK, Savers, Startup

\* The steps of save_session keep the invariant.
LEMMA SaveIInv ==
    ASSUME SessionIInv, NEW s \in Savers, SaveStep(s) \/ SaveFails(s)
    PROVE  SessionIInv'
PROOF
<1>1. SessionTypeOK'
  BY SaveTypes DEF SessionIInv
<1>2. CASE Build(s) /\ Returns(s, TRUE)
  <2>1. stage[s] # "idle" /\ lock \in {s, "nobody"}
    BY <1>2 DEF Build
  <2>2. QED
    BY <1>1, <1>2, <2>1, ReturnsInTurn
       DEF Build, fileVars, SessionIInv, OneWriter, SyncsItsOwn,
           DiskIsPossible, PromiseIsDurable, ClearedIsNotPromised
<1>3. CASE Build(s) /\ ~Returns(s, TRUE)
  <2>1. stage[s] = "asked" /\ lock = "nobody" /\ lock' = s
        /\ UNCHANGED fileVars /\ UNCHANGED <<promised, attempts>>
    BY <1>3 DEF Build
  <2>2. PICK place \in {"previous", "session"} : Continues(s, place)
    BY <1>3 DEF Build
  <2>3. \A r \in Savers :
           stage[r] \notin {"previous", "session", "syncing"}
    BY <2>1 DEF SessionIInv, OneWriter, Savers
  <2>4. SavesInTurn' /\ phase' # "clearing" /\ stage'[s] = place
        /\ \A r \in Savers : r # s => stage'[r] = stage[r]
    BY <2>1, <2>2, ContinuesInTurn
  <2>5. OneWriter' /\ SyncsItsOwn'
    BY <2>1, <2>3, <2>4 DEF OneWriter, SyncsItsOwn
  <2>6. DiskIsPossible' /\ PromiseIsDurable'
    BY <2>1 DEF fileVars, SessionIInv, DiskIsPossible, PromiseIsDurable
  <2>7. QED
    BY <1>1, <2>4, <2>5, <2>6 DEF SessionIInv, ClearedIsNotPromised
<1>4. CASE WritePrevious(s)
  <2>1. Continues(s, "session") /\ stage[s] = "previous" /\ lock = s
    BY <1>4 DEF WritePrevious, SessionIInv, OneWriter
  <2>2. disk'["session"] = disk["session"]
        /\ durable'["session"] = durable["session"]
    BY <1>4 DEF WritePrevious, Replace, SessionIInv, SessionTypeOK, Names
  <2>3. DiskIsPossible'
    BY <1>4 DEF WritePrevious, Replace, SessionIInv, SessionTypeOK,
                DiskIsPossible
  <2>4. QED
    BY <1>1, <1>4, <2>1, <2>2, <2>3, ContinuesInTurn
       DEF WritePrevious, SessionIInv, OneWriter, SyncsItsOwn,
           PromiseIsDurable, ClearedIsNotPromised
<1>5. CASE WriteSession(s)
  <2>1. Continues(s, "syncing") /\ stage[s] = "session" /\ lock = s
    BY <1>5 DEF WriteSession, SessionIInv, OneWriter
  <2>2. disk'["session"] = Saved(snapshot[s])
        /\ durable'["session"] = durable["session"] \cup {Saved(snapshot[s])}
    BY <1>5 DEF WriteSession, Replace, SessionIInv, SessionTypeOK, Names
  <2>3. DiskIsPossible'
    BY <1>5 DEF WriteSession, Replace, SessionIInv, SessionTypeOK,
                DiskIsPossible
  <2>4. PromiseIsDurable'
    BY <1>5, <2>2 DEF WriteSession, SessionIInv, PromiseIsDurable
  <2>5. OneWriter' /\ SyncsItsOwn'
    BY <1>5, <2>1, <2>2, ContinuesInTurn
       DEF WriteSession, SessionIInv, OneWriter, SyncsItsOwn
  <2>6. QED
    BY <1>1, <2>1, <2>3, <2>4, <2>5, ContinuesInTurn
       DEF SessionIInv, ClearedIsNotPromised
<1>6. CASE SyncDirectory(s)
  <2>1. Returns(s, TRUE) /\ stage[s] = "syncing" /\ lock = s
        /\ disk["session"] = Saved(snapshot[s])
    BY <1>6 DEF SyncDirectory, SessionIInv, OneWriter, SyncsItsOwn
  <2>2. durable'["session"] = {disk["session"]} /\ DiskIsPossible'
    BY <1>6 DEF SyncDirectory, SessionIInv, DiskIsPossible, Names
  <2>3. PromiseIsDurable'
    BY <1>6, <2>1, <2>2 DEF SyncDirectory, PromiseIsDurable
  <2>4. QED
    BY <1>1, <2>1, <2>2, <2>3, ReturnsInTurn
       DEF SessionIInv, OneWriter, SyncsItsOwn, ClearedIsNotPromised
<1>7. CASE SaveFails(s)
  <2>1. Returns(s, FALSE) /\ stage[s] # "idle" /\ lock \in {s, "nobody"}
    BY <1>7 DEF SaveFails, SessionIInv, OneWriter
  <2>2. QED
    BY <1>1, <1>7, <2>1, ReturnsInTurn
       DEF SaveFails, fileVars, SessionIInv, OneWriter, SyncsItsOwn,
           DiskIsPossible, PromiseIsDurable, ClearedIsNotPromised
<1>8. QED
  BY <1>2, <1>3, <1>4, <1>5, <1>6, <1>7 DEF SaveStep

\* Every step keeps the invariant.
LEMMA NextIInv ==
    ASSUME SessionIInv, [Next]_vars
    PROVE  SessionIInv'
PROOF
<1> USE DEF serverVars, muxVars, fileVars, saveVars, autoVars, boundVars,
            histVars
<1>0. SessionTypeOK'
  BY NextTypes DEF SessionIInv
<1>1. CASE Start \/ BeginShutdown \/ Stop
  BY <1>0, <1>1
     DEF Start, BeginShutdown, Stop, MainFree, SessionIInv, SessionTypeOK,
         SavesInTurn, OneWriter, SyncsItsOwn, DiskIsPossible,
         PromiseIsDurable, ClearedIsNotPromised, Savers, Startup
<1>2. CASE Kill \/ PowerLoss
  <2>1. SavesInTurn' /\ OneWriter' /\ SyncsItsOwn' /\ ClearedIsNotPromised'
    BY <1>2 DEF Kill, PowerLoss, Gone, SavesInTurn, OneWriter, SyncsItsOwn,
                ClearedIsNotPromised, Savers, Startup
  <2>2. DiskIsPossible' /\ PromiseIsDurable'
    BY <1>2 DEF Kill, PowerLoss, SessionIInv, DiskIsPossible,
                PromiseIsDurable, Names
  <2>3. QED
    BY <1>0, <2>1, <2>2 DEF SessionIInv
<1>3. CASE \/ \E t \in Tabs : OpenTab(t) \/ CloseTab(t) \/ ProgramExits(t)
           \/ \E t, u \in Tabs : ChangeTab(t, u)
  BY <1>0, <1>3
     DEF OpenTab, ChangeTab, CloseTab, ProgramExits, Changed, SessionIInv,
         SavesInTurn, OneWriter, SyncsItsOwn, DiskIsPossible, PromiseIsDurable,
         ClearedIsNotPromised
<1>4. CASE Restoring
  <2>1. CASE LoadSession \/ RestoreGivesUp \/ RestoreEnds
             \/ \E t \in Tabs : RestoreTab(t) \/ RestoreTabFails(t)
    BY <1>0, <2>1
       DEF LoadSession, RestoreGivesUp, RestoreEnds, RestoreTab,
           RestoreTabFails, SessionIInv, SavesInTurn, OneWriter,
           SyncsItsOwn, DiskIsPossible, PromiseIsDurable,
           ClearedIsNotPromised, Startup, Absent
  <2>2. CASE SkipRestore \/ ClearEnds \/ \E t \in Tabs : FreshTab(t)
    <3>1. StartAutoSave /\ phase \in Startup /\ UNCHANGED fileVars
          /\ UNCHANGED histVars
      BY <2>2 DEF SkipRestore, ClearEnds, FreshTab, Startup
    <3>2. SavesInTurn' /\ OneWriter' /\ SyncsItsOwn'
      BY <3>1 DEF StartAutoSave, SessionIInv, SavesInTurn, OneWriter,
                  SyncsItsOwn, SessionTypeOK, Savers, Startup
    <3>3. QED
      BY <1>0, <3>1, <3>2 DEF StartAutoSave, SessionIInv, DiskIsPossible,
         PromiseIsDurable, ClearedIsNotPromised
  <2>3. CASE ClearFile
    <3>1. DiskIsPossible'
      BY <2>3 DEF ClearFile, Replace, SessionIInv, SessionTypeOK,
                  DiskIsPossible
    <3>2. PromiseIsDurable' /\ ClearedIsNotPromised'
      BY <2>3 DEF ClearFile, SessionIInv, PromiseIsDurable,
                  ClearedIsNotPromised, Absent
    <3>3. SavesInTurn' /\ OneWriter' /\ SyncsItsOwn'
      BY <2>3 DEF ClearFile, SessionIInv, SavesInTurn, OneWriter,
                  SyncsItsOwn, Startup
    <3>4. QED
      BY <1>0, <3>1, <3>2, <3>3 DEF SessionIInv
  <2>4. QED
    BY <1>4, <2>1, <2>2, <2>3 DEF Restoring
<1>5. CASE \E s \in Savers : SaveStep(s) \/ SaveFails(s)
  BY <1>5, SaveIInv
<1>6. CASE Receive
  BY <1>0, <1>6
     DEF Receive, SessionIInv, SavesInTurn, OneWriter, SyncsItsOwn,
         DiskIsPossible, PromiseIsDurable, ClearedIsNotPromised
<1>7. CASE SaveDue
  BY <1>0, <1>7
     DEF SaveDue, WorkerIdle, SessionIInv, SessionTypeOK, SavesInTurn,
         OneWriter, SyncsItsOwn, DiskIsPossible, PromiseIsDurable,
         ClearedIsNotPromised, Savers, Startup
<1>8. CASE UNCHANGED vars
  BY <1>0, <1>8
     DEF vars, SessionIInv, SavesInTurn, OneWriter, SyncsItsOwn,
         DiskIsPossible, PromiseIsDurable, ClearedIsNotPromised
<1>9. QED
  BY <1>1, <1>2, <1>3, <1>4, <1>5, <1>6, <1>7, <1>8 DEF Next

\* Wherever the server or the machine stops, the next server loads the
\* session that was committed last or one whose commit had begun since.
THEOREM CommittedSessionSurvives == Spec => []CommittedSurvives
PROOF
<1>1. SessionIInv => CommittedSurvives
  <2> SUFFICES ASSUME SessionIInv, promised.kind = "valid",
                      NEW d \in Outcomes
               PROVE  Load(d) \in {promised} \cup
                                  {Saved(layout) : layout \in attempts}
    BY DEF CommittedSurvives
  <2>1. d["session"] \in durable["session"]
    BY DEF Outcomes, Names
  <2>2. \/ d["session"] = promised
        \/ \E layout \in attempts : d["session"] = Saved(layout)
    BY <2>1 DEF SessionIInv, PromiseIsDurable
  <2>3. d["session"].kind = "valid"
    <3>1. CASE d["session"] = promised
      BY <3>1
    <3>2. CASE \E layout \in attempts : d["session"] = Saved(layout)
      BY <3>2 DEF Saved
    <3>3. QED
      BY <2>2, <3>1, <3>2
  <2>4. Load(d) = d["session"]
    BY <2>3 DEF Load
  <2>5. QED
    BY <2>2, <2>4
<1>2. SessionIInv /\ [Next]_vars => SessionIInv'
  BY NextIInv
<1>3. QED
  BY <1>1, <1>2, InitIInv, PTL DEF Spec

(***************************************************************************)
(* StopSavesAll.                                                           *)
(***************************************************************************)

\* What returning from save_session does to the tabs, and to a clean end.
LEMMA ReturnsClean ==
    ASSUME SessionIInv, NEW s \in Savers, NEW ok \in BOOLEAN, Returns(s, ok),
           stage[s] # "idle", lock \in {s, "nobody"}
    PROVE  /\ UNCHANGED <<tabs, kept>>
           /\ phase' \notin Startup
           /\ phase' = "down" => s = "main" /\ clean' = ok
           /\ phase' # "down" => clean' = clean /\ phase # "down"
PROOF
<1>1. phase \notin Startup /\ phase # "down"
  BY DEF SessionIInv, SavesInTurn
<1>2. UNCHANGED <<tabs, kept>>
  BY DEF Returns, Gone, muxVars
<1>3. CASE s = "main" /\ phase = "stopping" /\ Gone /\ clean' = ok
  BY <1>2, <1>3 DEF Gone, Startup
<1>4. CASE /\ phase' = IF s = "main" THEN "running" ELSE phase
           /\ UNCHANGED clean
  BY <1>1, <1>2, <1>4 DEF Startup
<1>5. QED
  BY <1>3, <1>4 DEF Returns

\* A thread in the middle of a save is the only one.
LEMMA AloneWithLock ==
    ASSUME SessionIInv, NEW s \in Savers, lock \in {s, "nobody"}
    PROVE  \A r \in Savers :
              r # s => stage[r] \notin {"previous", "session", "syncing"}
BY DEF SessionIInv, OneWriter, Savers

\* The steps of save_session keep the invariant, when syncing succeeds.
LEMMA SaveStopIInv ==
    ASSUME StopIInv, ~SyncFails, NEW s \in Savers, SaveStep(s) \/ SaveFails(s)
    PROVE  StopIInv'
PROOF
<1>0. SessionIInv /\ SessionIInv'
  BY SaveIInv DEF StopIInv
<1>1. /\ phase \notin Startup /\ phase # "down" /\ ~clean /\ tabs = kept
      /\ MainSavesTabs /\ CacheIsCommitted
  <2>1. stage[s] # "idle"
    BY DEF SaveStep, Build, WritePrevious, WriteSession, SyncDirectory,
           SaveFails
  <2>2. phase \notin Startup /\ phase # "down"
    BY <1>0, <2>1 DEF SessionIInv, SavesInTurn
  <2>3. QED
    BY <2>2 DEF StopIInv, CleanWhenDown
<1>2. CASE Build(s) /\ Returns(s, TRUE)
  <2>1. /\ stage[s] = "asked" /\ lock = "nobody" /\ cache' = Committed
        /\ UNCHANGED fileVars
    BY <1>2 DEF Build
  <2>2. \A r \in Savers : stage[r] \notin {"previous", "session", "syncing"}
    BY <1>0, <2>1 DEF SessionIInv, OneWriter, Savers
  <2>3. Committed = Absent \/ Committed = disk["session"]
    BY <1>1, <2>2 DEF CacheIsCommitted, Committed
  <2>4. /\ UNCHANGED <<tabs, kept>> /\ phase' \notin Startup
        /\ phase' # "down" => clean' = clean
    BY <1>0, <1>2, <2>1, ReturnsClean
  <2>5. \A r \in Savers : stage'[r] \in {"idle", "asked"}
    BY <1>0, <1>2, <2>1, ReturnsInTurn
  <2>6. MainSavesTabs'
    BY <2>5 DEF MainSavesTabs, Savers
  <2>7. CacheIsCommitted'
    BY <2>1, <2>3, <2>4 DEF CacheIsCommitted, fileVars
  <2>8. StopSavesAll'
    <3>1. CASE Saved(tabs) = Committed
      <4>1. Saved(tabs) # Absent
        BY DEF Saved, Absent
      <4>2. disk'["session"] = Saved(kept')
        BY <1>1, <2>1, <2>3, <2>4, <3>1, <4>1 DEF fileVars
      <4>3. QED
        BY <4>2 DEF StopSavesAll
    <3>2. CASE Saved(tabs) # Committed
      <4>1. UNCHANGED phase
        BY <1>2, <3>2 DEF Build, Continues, serverVars
      <4>2. QED
        BY <1>1, <4>1 DEF StopSavesAll
    <3>3. QED
      BY <3>1, <3>2
  <2>9. QED
    BY <1>0, <1>1, <2>4, <2>6, <2>7, <2>8 DEF StopIInv, CleanWhenDown
<1>3. CASE Build(s) /\ ~Returns(s, TRUE)
  <2>1. /\ stage[s] = "asked" /\ lock = "nobody" /\ cache' = Committed
        /\ snapshot' = [snapshot EXCEPT ![s] = tabs] /\ UNCHANGED fileVars
    BY <1>3 DEF Build
  <2>2. PICK place \in {"previous", "session"} : Continues(s, place)
    BY <1>3 DEF Build
  <2>3. \A r \in Savers : stage[r] \notin {"previous", "session", "syncing"}
    BY <1>0, <2>1 DEF SessionIInv, OneWriter, Savers
  <2>4. Committed = Absent \/ Committed = disk["session"]
    BY <1>1, <2>3 DEF CacheIsCommitted, Committed
  <2>5. UNCHANGED <<phase, tabs, kept, clean>>
        /\ stage' = [stage EXCEPT ![s] = place]
    BY <2>2 DEF Continues, serverVars, muxVars
  <2>6. MainSavesTabs'
    BY <1>0, <2>1, <2>3, <2>5
    DEF MainSavesTabs, SessionIInv, SessionTypeOK, Savers
  <2>7. CacheIsCommitted'
    BY <1>1, <2>1, <2>4, <2>5 DEF CacheIsCommitted, fileVars
  <2>8. QED
    BY <1>0, <1>1, <2>5, <2>6, <2>7 DEF StopIInv, CleanWhenDown, StopSavesAll
<1>4. CASE WritePrevious(s)
  <2>1. /\ stage[s] = "previous" /\ stage' = [stage EXCEPT ![s] = "session"]
        /\ UNCHANGED <<phase, tabs, kept, clean, cache, snapshot>>
        /\ disk'["session"] = disk["session"]
    BY <1>0, <1>4
    DEF WritePrevious, Continues, Replace, serverVars, muxVars, SessionIInv,
        SessionTypeOK, Names
  <2>2. MainSavesTabs'
    BY <1>0, <1>1, <2>1
    DEF MainSavesTabs, SessionIInv, SessionTypeOK, Savers
  <2>3. CacheIsCommitted'
    BY <1>0, <1>1, <2>1
    DEF CacheIsCommitted, SessionIInv, SessionTypeOK, Savers
  <2>4. QED
    BY <1>0, <1>1, <2>1, <2>2, <2>3 DEF StopIInv, CleanWhenDown, StopSavesAll
<1>5. CASE WriteSession(s)
  <2>1. /\ stage[s] = "session" /\ stage' = [stage EXCEPT ![s] = "syncing"]
        /\ UNCHANGED <<phase, tabs, kept, clean, cache, snapshot>>
    BY <1>5 DEF WriteSession, Continues, serverVars, muxVars
  <2>2. stage'[s] = "syncing"
    BY <1>0, <2>1 DEF SessionIInv, SessionTypeOK
  <2>3. MainSavesTabs'
    BY <1>0, <1>1, <2>1
    DEF MainSavesTabs, SessionIInv, SessionTypeOK, Savers
  <2>4. CacheIsCommitted'
    BY <1>1, <2>1, <2>2 DEF CacheIsCommitted
  <2>5. QED
    BY <1>0, <1>1, <2>1, <2>3, <2>4 DEF StopIInv, CleanWhenDown, StopSavesAll
<1>6. CASE SyncDirectory(s)
  <2>1. /\ stage[s] = "syncing" /\ lock = s /\ UNCHANGED disk
        /\ Returns(s, TRUE) /\ cache' = disk["session"]
        /\ disk["session"] = Saved(snapshot[s])
    BY <1>0, <1>6 DEF SyncDirectory, SessionIInv, SyncsItsOwn, OneWriter
  <2>2. /\ UNCHANGED <<tabs, kept>> /\ phase' \notin Startup
        /\ phase' = "down" => s = "main"
        /\ phase' # "down" => clean' = clean
    BY <1>0, <2>1, ReturnsClean
  <2>3. \A r \in Savers : stage'[r] \in {"idle", "asked"}
    BY <1>0, <2>1, ReturnsInTurn
  <2>4. MainSavesTabs' /\ CacheIsCommitted'
    BY <2>1, <2>2, <2>3 DEF MainSavesTabs, CacheIsCommitted, Savers
  <2>5. StopSavesAll'
    BY <1>1, <2>1, <2>2 DEF StopSavesAll, MainSavesTabs
  <2>6. QED
    BY <1>0, <1>1, <2>2, <2>4, <2>5 DEF StopIInv, CleanWhenDown
<1>7. CASE SaveFails(s)
  <2>1. /\ stage[s] \in {"asked", "previous", "session"}
        /\ Returns(s, FALSE) /\ lock \in {s, "nobody"}
        /\ UNCHANGED <<disk, cache>>
    BY <1>0, <1>7 DEF SaveFails, SessionIInv, OneWriter, fileVars
  <2>2. /\ UNCHANGED <<tabs, kept>> /\ phase' \notin Startup
        /\ phase' = "down" => ~clean'
        /\ phase' # "down" => clean' = clean
    BY <1>0, <2>1, ReturnsClean
  <2>3. \A r \in Savers : stage'[r] \in {"idle", "asked"}
    BY <1>0, <2>1, ReturnsInTurn
  <2>4. \A r \in Savers : stage[r] # "syncing"
    BY <1>0, <2>1, AloneWithLock
  <2>5. MainSavesTabs' /\ CacheIsCommitted'
    BY <1>1, <2>1, <2>2, <2>3, <2>4
    DEF MainSavesTabs, CacheIsCommitted, Savers
  <2>6. QED
    BY <1>0, <1>1, <2>2, <2>5 DEF StopIInv, CleanWhenDown, StopSavesAll
<1>8. QED
  BY <1>2, <1>3, <1>4, <1>5, <1>6, <1>7 DEF SaveStep

\* Every step keeps the invariant.
LEMMA NextStopIInv ==
    ASSUME StopIInv, ~SyncFails, [Next]_vars
    PROVE  StopIInv'
PROOF
<1> USE DEF serverVars, muxVars, fileVars, saveVars, autoVars, boundVars,
            histVars
<1>0. SessionIInv /\ SessionIInv' /\ tabs = kept
  BY NextIInv DEF StopIInv
<1>1. CASE Start
  <2>1. \A s \in Savers : stage[s] = "idle"
    BY <1>0, <1>1 DEF Start, SessionIInv, SavesInTurn
  <2>2. QED
    BY <1>0, <1>1, <2>1
    DEF Start, StopIInv, CleanWhenDown, MainSavesTabs, CacheIsCommitted,
        StopSavesAll, Savers
<1>2. CASE Kill \/ PowerLoss
  <2>1. /\ phase # "down" /\ phase' = "down" /\ UNCHANGED <<tabs, kept, clean>>
        /\ \A s \in Savers : stage'[s] = "idle"
    BY <1>2 DEF Kill, PowerLoss, Gone
  <2>2. QED
    BY <1>0, <2>1
    DEF StopIInv, CleanWhenDown, MainSavesTabs, CacheIsCommitted,
        StopSavesAll, Savers, Startup
<1>3. CASE BeginShutdown \/ Receive \/ UNCHANGED vars
  BY <1>0, <1>3
  DEF BeginShutdown, Receive, vars, StopIInv, CleanWhenDown, MainSavesTabs,
      CacheIsCommitted, StopSavesAll
<1>4. CASE \/ Stop \/ SaveDue \/ SkipRestore \/ ClearEnds
           \/ \E t \in Tabs : FreshTab(t)
  <2>1. PICK s \in Savers :
           /\ stage[s] = "idle" /\ stage' = [stage EXCEPT ![s] = "asked"]
           /\ UNCHANGED <<disk, snapshot, clean>> /\ phase # "down"
           /\ phase' \notin Startup \cup {"down"} \/ phase' = phase
           /\ cache' \in {cache, Absent}
           /\ stage["main"] \notin {"previous", "session", "syncing"}
              \/ UNCHANGED tabs
    BY <1>0, <1>4
    DEF Stop, MainFree, SaveDue, WorkerIdle, SkipRestore, ClearEnds,
        FreshTab, StartAutoSave, SessionIInv, SavesInTurn, Startup, Savers
  <2>2. tabs' = kept'
    BY <1>0, <1>4 DEF Stop, SaveDue, SkipRestore, ClearEnds, FreshTab,
                      StartAutoSave
  <2>3. \A r \in Savers : stage'[r] = stage[r] \/ stage'[r] = "asked"
    BY <1>0, <2>1 DEF SessionIInv, SessionTypeOK
  <2>4. \A r \in Savers : stage[r] = "syncing" => stage'[r] = "syncing"
    BY <1>0, <2>1 DEF SessionIInv, SessionTypeOK
  <2>5. MainSavesTabs'
    BY <2>1, <2>3 DEF StopIInv, MainSavesTabs, Savers
  <2>6. CacheIsCommitted'
    BY <2>1, <2>4 DEF StopIInv, CacheIsCommitted
  <2>7. CleanWhenDown' /\ StopSavesAll'
    BY <2>1 DEF StopIInv, CleanWhenDown, StopSavesAll
  <2>8. QED
    BY <1>0, <2>2, <2>5, <2>6, <2>7 DEF StopIInv
<1>5. CASE \/ \E t \in Tabs : OpenTab(t) \/ CloseTab(t) \/ ProgramExits(t)
           \/ \E t, u \in Tabs : ChangeTab(t, u)
           \/ LoadSession \/ RestoreGivesUp \/ RestoreEnds
           \/ \E t \in Tabs : RestoreTab(t) \/ RestoreTabFails(t)
  <2>1. /\ MainFree /\ UNCHANGED <<disk, snapshot, stage, cache, clean>>
        /\ phase' = phase \/ (phase \in Startup /\ phase' \in Startup)
    BY <1>5 DEF OpenTab, CloseTab, ProgramExits, ChangeTab, Changed,
                LoadSession, RestoreGivesUp, RestoreEnds, RestoreTab,
                RestoreTabFails,
                MainFree, Startup
  <2>2. tabs' = kept'
    BY <1>0, <1>5 DEF OpenTab, CloseTab, ProgramExits, ChangeTab, Changed,
                LoadSession, RestoreGivesUp, RestoreEnds, RestoreTab,
                RestoreTabFails
  <2>3. stage["main"] = "idle" /\ phase # "down" /\ phase' # "down"
    BY <1>0, <2>1 DEF SessionIInv, SavesInTurn, MainFree, Startup
  <2>4. QED
    BY <1>0, <2>1, <2>2, <2>3
    DEF StopIInv, CleanWhenDown, MainSavesTabs, CacheIsCommitted,
        StopSavesAll
<1>6. CASE ClearFile
  <2>1. /\ phase = "clearing" /\ UNCHANGED <<phase, tabs, kept, clean, cache,
                                             stage, snapshot>>
    BY <1>6 DEF ClearFile
  <2>2. cache = Absent
    BY <2>1 DEF StopIInv, CacheIsCommitted, Startup
  <2>3. QED
    BY <1>0, <2>1, <2>2
    DEF StopIInv, CleanWhenDown, MainSavesTabs, CacheIsCommitted,
        StopSavesAll
<1>7. CASE \E s \in Savers : SaveStep(s) \/ SaveFails(s)
  BY <1>7, SaveStopIInv
<1>8. QED
  BY <1>1, <1>2, <1>3, <1>4, <1>5, <1>6, <1>7 DEF Next, Restoring

\* A server that stopped after a good save left in session.json exactly the
\* tabs that nobody had closed, however the worker's saves and the last one
\* were interleaved and whatever failed before, as long as the directory can
\* be synced (save_session, run_auto_save).
THEOREM StoppedSessionIsComplete == ~SyncFails => (Spec => []StopSavesAll)
PROOF
<1>1. SUFFICES ASSUME ~SyncFails PROVE Spec => []StopSavesAll
  OBVIOUS
<1>2. Init => StopIInv
  <2> SUFFICES ASSUME Init PROVE StopIInv
    OBVIOUS
  <2>1. /\ phase = "down" /\ clean = FALSE /\ tabs = kept /\ SessionIInv
        /\ \A s \in Savers : stage[s] = "idle"
    BY InitIInv DEF Init
  <2>2. QED
    BY <2>1 DEF StopIInv, CleanWhenDown, MainSavesTabs, CacheIsCommitted,
                StopSavesAll, Savers, Startup
<1>3. StopIInv /\ [Next]_vars => StopIInv'
  BY <1>1, NextStopIInv
<1>4. StopIInv => StopSavesAll
  BY DEF StopIInv
<1>5. QED
  BY <1>2, <1>3, <1>4, PTL DEF Spec

=============================================================================
