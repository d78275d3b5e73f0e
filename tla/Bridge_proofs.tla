----------------------------- MODULE Bridge_proofs -----------------------------
(***************************************************************************)
(* For any number of processes, lock paths, projects and restarts: while   *)
(* no two Acquires of a lock path overlap, one bridge has it and its file  *)
(* says so, and while no two processes replace a sidecar at once, its      *)
(* project has one live bridge and the file follows its memory.            *)
(***************************************************************************)
EXTENDS Bridge, TLAPS

(* A process writes only the file its own step is about.                   *)
DescriptorInv ==
  \A p \in Pids : fd[p] # NoPath =>
    \/ pc[p] = "lockFill" /\ fd[p] = LockOf(p)
    \/ (pc[p] = "openFill" \/ p \in writing) /\ fd[p] = ProjectOf(p)

(* The bridges that are about to have their lock, or have it.              *)
NearLock(p) == pc[p] \in Past \cup {"lock", "lockFill"}

LockInv ==
  /\ \A p \in launched : pc[p] \in {"waitReady", "serve", "stopping"}
  /\ \A p, q \in Pids : NearLock(p) /\ NearLock(q) /\ p # q =>
       LockOf(p) # LockOf(q) \/ LockOf(p) \in raced
  /\ \A p \in Pids : pc[p] = "lockFill" =>
       LockOf(p) \in raced \/ (fd[p] = LockOf(p) /\ content[LockOf(p)] = Empty)
  /\ \A p \in Pids : Holding(p) =>
       LockOf(p) \in raced \/ content[LockOf(p)] = Full(Record(p, {}))

(* The bridges that are about to have their project, or have it.           *)
NearProject(p) == HasProject(p) \/ pc[p] \in {"openWrite", "openFill"}

ProjectInv ==
  /\ \A p \in Pids : doomed[p] # {} => pc[p] = "sweep"
  /\ \A p, q \in Pids : NearProject(p) /\ NearProject(q) /\ p # q =>
       ProjectOf(p) # ProjectOf(q) \/ ProjectOf(p) \in raced
  /\ \A p, q \in Pids : \A x \in doomed[p] : x \notin raced =>
       /\ NearProject(q) => ProjectOf(q) # x
       /\ p # q => x \notin doomed[q]
  /\ \A p \in Pids : pc[p] = "openFill" \/ p \in writing =>
       ProjectOf(p) \in raced \/ (fd[p] = ProjectOf(p) /\ content[ProjectOf(p)] = Empty)
  /\ \A p \in Pids : HasProject(p) /\ p \notin writing =>
       ProjectOf(p) \in raced \/ content[ProjectOf(p)] = Full(Record(p, owned[p]))

-------------------------------------------------------------------------------
(* Types.                                                                  *)

(* A process ends by one of these, whatever else it was doing.             *)
EndsBy(p) ==
  Die(p) \/ AcquireRefused(p) \/ OpenRefused(p) \/ ChromeFails(p) \/ NextLineAfterSignal(p) \/ Exit(p)

LEMMA ContentValues ==
  /\ Absent \in Contents /\ Empty \in Contents /\ Garbled \in Contents
  /\ \A p \in Pids, s \in SUBSET Targets : Full(Record(p, s)) \in Contents
  /\ \A c \in Contents : c.state = "full" => c.value.owner \in Pids /\ c.value.tabs \in SUBSET Targets
<1>1. /\ Absent \in Contents /\ Empty \in Contents /\ Garbled \in Contents
      /\ \A p \in Pids, s \in SUBSET Targets : Full(Record(p, s)) \in Contents
  BY DEF Contents
<1>2. ASSUME NEW c \in Contents, c.state = "full"
      PROVE  c.value.owner \in Pids /\ c.value.tabs \in SUBSET Targets
  <2>1. c # Absent /\ c # Empty /\ c # Garbled
    BY <1>2 DEF Absent, Empty, Garbled
  <2>2. PICK p \in Pids, s \in SUBSET Targets : c = Full(Record(p, s))
    BY <2>1 DEF Contents
  <2>3. c.value = Record(p, s)
    BY <2>2 DEF Full
  <2>4. QED
    BY <2>3 DEF Record
<1>3. QED
  BY <1>1, <1>2

(* The paths in a command line.                                            *)
LEMMA PathsOfBridge ==
  ASSUME TypeOK, NEW p \in Bridges
  PROVE  LockOf(p) \in Locks /\ ProjectOf(p) \in Projects
  BY BridgeAssumption DEF TypeOK, LockOf, ProjectOf, Bridges

LEMMA InitTypes == BridgeInit => TypeOK
  BY BridgeAssumption, ContentValues DEF BridgeInit, FilesInit, TypeOK, Bridges

LEMMA NoteRaceTypes ==
  ASSUME TypeOK, NEW p \in Pids, NEW f \in Paths, NoteRace(p, f)
  PROVE  raced' \subseteq Paths
  BY DEF TypeOK, NoteRace

LEMMA StepTypes == TypeOK /\ [Next]_vars => TypeOK'
<1> SUFFICES ASSUME TypeOK, [Next]_vars PROVE TypeOK'
  OBVIOUS
<1> USE BridgeAssumption, FilesAssumption, ContentValues, PathsOfBridge, NoteRaceTypes
<1>1. ASSUME NEW p \in Pids, Start(p) PROVE TypeOK'
  BY <1>1 DEF Start, TypeOK, Goto, localVars, fileVars, Bridges, HasProject, Truncate, Fill, Unlink, CloseFile, Past
<1>2. ASSUME NEW p \in Pids, OtherStarts(p) PROVE TypeOK'
  BY <1>2 DEF OtherStarts, TypeOK, Goto, localVars, fileVars, Bridges, HasProject, Truncate, Fill, Unlink, CloseFile, Past
<1>3. ASSUME NEW p \in Pids, OtherEnds(p) PROVE TypeOK'
  BY <1>3 DEF OtherEnds, TypeOK, Goto, localVars, fileVars, Bridges, HasProject, Truncate, Fill, Unlink, CloseFile, Past
<1>4. ASSUME NEW p \in Pids, Gone(p) PROVE TypeOK'
  BY <1>4 DEF Gone, TypeOK, Goto, localVars, fileVars, Bridges, HasProject, Truncate, Fill, Unlink, CloseFile, Past
<1>5. ASSUME NEW p \in Pids, Signal(p) PROVE TypeOK'
  BY <1>5 DEF Signal, TypeOK, Goto, localVars, fileVars, Bridges, HasProject, Truncate, Fill, Unlink, CloseFile, Past
<1>6. ASSUME NEW p \in Pids, AcquireLook(p) PROVE TypeOK'
  BY <1>6 DEF AcquireLook, TypeOK, Goto, localVars, fileVars, Bridges, HasProject, Truncate, Fill, Unlink, CloseFile, Past
<1>7. ASSUME NEW p \in Pids, OpenLockFile(p) PROVE TypeOK'
  BY <1>7 DEF OpenLockFile, TypeOK, Goto, localVars, fileVars, Bridges, HasProject, Truncate, Fill, Unlink, CloseFile, Past
<1>8. ASSUME NEW p \in Pids, WriteLockFile(p) PROVE TypeOK'
  BY <1>8 DEF WriteLockFile, TypeOK, Goto, localVars, fileVars, Bridges, HasProject, Truncate, Fill, Unlink, CloseFile, Past
<1>9. ASSUME NEW p \in Pids, NEW x \in Projects, SweepRead(p, x) PROVE TypeOK'
  BY <1>9 DEF SweepRead, TypeOK, Goto, localVars, fileVars, Bridges, HasProject, Truncate, Fill, Unlink, CloseFile, Past
<1>10. ASSUME NEW p \in Pids, NEW x \in Projects, SweepRemove(p, x) PROVE TypeOK'
  BY <1>10 DEF SweepRemove, TypeOK, Goto, localVars, fileVars, Bridges, HasProject, Truncate, Fill, Unlink, CloseFile, Past
<1>11. ASSUME NEW p \in Pids, SweepDone(p) PROVE TypeOK'
  BY <1>11 DEF SweepDone, TypeOK, Goto, localVars, fileVars, Bridges, HasProject, Truncate, Fill, Unlink, CloseFile, Past
<1>12. ASSUME NEW p \in Pids, OpenRead(p) PROVE TypeOK'
  <2>1. ProjectOf(p) \in Paths
    BY <1>12 DEF OpenRead, Goto, Bridges
  <2>2. raced' \subseteq Paths
    BY <1>12, <2>1 DEF OpenRead
  <2>3. owned' \in [Pids -> SUBSET Targets]
    BY <1>12, <2>1 DEF OpenRead, TypeOK, Readable, Value
  <2>4. QED
    BY <1>12, <2>2, <2>3 DEF OpenRead, TypeOK, Goto, fileVars, Bridges, HasProject, Past
<1>13. ASSUME NEW p \in Pids, OpenSidecar(p) PROVE TypeOK'
  BY <1>13 DEF OpenSidecar, TypeOK, Goto, localVars, fileVars, Bridges, HasProject, Truncate, Fill, Unlink, CloseFile, Past
<1>14. ASSUME NEW p \in Pids, WriteSidecar(p) PROVE TypeOK'
  BY <1>14 DEF WriteSidecar, TypeOK, Goto, localVars, fileVars, Bridges, HasProject, Truncate, Fill, Unlink, CloseFile, Past
<1>15. ASSUME NEW p \in Pids, NoLaunch(p) PROVE TypeOK'
  BY <1>15 DEF NoLaunch, TypeOK, Goto, localVars, fileVars, Bridges, HasProject, Truncate, Fill, Unlink, CloseFile, Past
<1>16. ASSUME NEW p \in Pids, LaunchChrome(p) PROVE TypeOK'
  BY <1>16 DEF LaunchChrome, TypeOK, Goto, localVars, fileVars, Bridges, HasProject, Truncate, Fill, Unlink, CloseFile, Past
<1>17. ASSUME NEW p \in Pids, ChromeReady(p) PROVE TypeOK'
  BY <1>17 DEF ChromeReady, TypeOK, Goto, localVars, fileVars, Bridges, HasProject, Truncate, Fill, Unlink, CloseFile, Past
<1>18. ASSUME NEW p \in Pids, HttpStops(p) PROVE TypeOK'
  BY <1>18 DEF HttpStops, TypeOK, Goto, localVars, fileVars, Bridges, HasProject, Truncate, Fill, Unlink, CloseFile, Past
<1>19. ASSUME NEW p \in Pids, StopChrome(p) PROVE TypeOK'
  BY <1>19 DEF StopChrome, TypeOK, Goto, localVars, fileVars, Bridges, HasProject, Truncate, Fill, Unlink, CloseFile, Past
<1>20. ASSUME NEW p \in Pids, ReleaseLock(p) PROVE TypeOK'
  BY <1>20 DEF ReleaseLock, TypeOK, Goto, localVars, fileVars, Bridges, HasProject, Truncate, Fill, Unlink, CloseFile, Past
<1>21. ASSUME NEW p \in Pids, NEW t \in Targets, Adopt(p, t) PROVE TypeOK'
  <2>1. HasProject(p) /\ p \in Bridges
    BY <1>21 DEF Adopt, BeginPersist, HasRequests, HasProject, Bridges
  <2>2. raced' \subseteq Paths
    BY <1>21, <2>1 DEF Adopt, BeginPersist
  <2>3. QED
    BY <1>21, <2>1, <2>2 DEF Adopt, BeginPersist, TypeOK, Bridges, HasProject, Truncate, Past
<1>22. ASSUME NEW p \in Pids, NEW t \in Targets, Release(p, t) PROVE TypeOK'
  <2>1. HasProject(p) /\ p \in Bridges
    BY <1>22 DEF Release, BeginPersist, HasRequests, HasProject, Bridges
  <2>2. raced' \subseteq Paths
    BY <1>22, <2>1 DEF Release, BeginPersist
  <2>3. QED
    BY <1>22, <2>1, <2>2 DEF Release, BeginPersist, TypeOK, Bridges, HasProject, Truncate, Past
<1>23. ASSUME NEW p \in Pids, EndPersist(p) PROVE TypeOK'
  BY <1>23 DEF EndPersist, TypeOK, Goto, localVars, fileVars, Bridges, HasProject, Truncate, Fill, Unlink, CloseFile, Past
<1>24. ASSUME NEW p \in Pids, InputEnds(p) PROVE TypeOK'
  BY <1>24 DEF InputEnds, TypeOK, Goto, localVars, fileVars, Bridges, HasProject, Truncate, Fill, Unlink, CloseFile, Past
<1>25. CASE UNCHANGED vars
  BY <1>25 DEF vars, TypeOK, Goto, localVars, fileVars, Bridges, HasProject, Truncate, Fill, Unlink, CloseFile, Past
<1>26. QED
  BY <1>1, <1>2, <1>3, <1>4, <1>5, <1>6, <1>7, <1>8, <1>9, <1>10, <1>11, <1>12, <1>13, <1>14, <1>15, <1>16, <1>17, <1>18, <1>19, <1>20, <1>21, <1>22, <1>23, <1>24, <1>25
  DEF Next, MainStep, Die, AcquireRefused, OpenRefused, ChromeFails, NextLineAfterSignal, Exit

-------------------------------------------------------------------------------
(* Which file a process writes.                                            *)

LEMMA InitDescriptor == BridgeInit => DescriptorInv
  BY DEF BridgeInit, FilesInit, DescriptorInv

LEMMA StepDescriptor == TypeOK /\ DescriptorInv /\ [Next]_vars => DescriptorInv'
<1> SUFFICES ASSUME TypeOK, DescriptorInv, [Next]_vars PROVE DescriptorInv'
  OBVIOUS
<1> USE FilesAssumption DEF TypeOK, DescriptorInv, LockOf, ProjectOf
<1>1. ASSUME NEW p \in Pids, Start(p) PROVE DescriptorInv'
  BY <1>1 DEF Start, Goto, localVars, fileVars, HasProject
<1>2. ASSUME NEW p \in Pids, OtherStarts(p) PROVE DescriptorInv'
  BY <1>2 DEF OtherStarts, Goto, localVars, fileVars, HasProject
<1>3. ASSUME NEW p \in Pids, OtherEnds(p) PROVE DescriptorInv'
  BY <1>3 DEF OtherEnds, Goto, localVars, fileVars, HasProject
<1>4. ASSUME NEW p \in Pids, Gone(p) PROVE DescriptorInv'
  BY <1>4 DEF Gone, CloseFile, Goto, localVars, fileVars, HasProject
<1>5. ASSUME NEW p \in Pids, Signal(p) PROVE DescriptorInv'
  BY <1>5 DEF Signal, Goto, localVars, fileVars, HasProject
<1>6. ASSUME NEW p \in Pids, AcquireLook(p) PROVE DescriptorInv'
  BY <1>6 DEF AcquireLook, Goto, localVars, fileVars, HasProject
<1>7. ASSUME NEW p \in Pids, OpenLockFile(p) PROVE DescriptorInv'
  BY <1>7 DEF OpenLockFile, Truncate, Goto, localVars, fileVars, HasProject
<1>8. ASSUME NEW p \in Pids, WriteLockFile(p) PROVE DescriptorInv'
  BY <1>8 DEF WriteLockFile, Fill, Goto, localVars, fileVars, HasProject
<1>9. ASSUME NEW p \in Pids, NEW x \in Projects, SweepRead(p, x) PROVE DescriptorInv'
  BY <1>9 DEF SweepRead, Goto, localVars, fileVars, HasProject
<1>10. ASSUME NEW p \in Pids, NEW x \in Projects, SweepRemove(p, x) PROVE DescriptorInv'
  BY <1>10 DEF SweepRemove, Unlink, Goto, localVars, fileVars, HasProject
<1>11. ASSUME NEW p \in Pids, SweepDone(p) PROVE DescriptorInv'
  BY <1>11 DEF SweepDone, Goto, localVars, fileVars, HasProject
<1>12. ASSUME NEW p \in Pids, OpenRead(p) PROVE DescriptorInv'
  BY <1>12 DEF OpenRead, Goto, localVars, fileVars, HasProject
<1>13. ASSUME NEW p \in Pids, OpenSidecar(p) PROVE DescriptorInv'
  BY <1>13 DEF OpenSidecar, Truncate, Goto, localVars, fileVars, HasProject
<1>14. ASSUME NEW p \in Pids, WriteSidecar(p) PROVE DescriptorInv'
  BY <1>14 DEF WriteSidecar, Fill, Goto, localVars, fileVars, HasProject
<1>15. ASSUME NEW p \in Pids, NoLaunch(p) PROVE DescriptorInv'
  BY <1>15 DEF NoLaunch, Goto, localVars, fileVars, HasProject
<1>16. ASSUME NEW p \in Pids, LaunchChrome(p) PROVE DescriptorInv'
  BY <1>16 DEF LaunchChrome, Goto, localVars, fileVars, HasProject
<1>17. ASSUME NEW p \in Pids, ChromeReady(p) PROVE DescriptorInv'
  BY <1>17 DEF ChromeReady, Goto, localVars, fileVars, HasProject
<1>18. ASSUME NEW p \in Pids, HttpStops(p) PROVE DescriptorInv'
  BY <1>18 DEF HttpStops, Goto, localVars, fileVars, HasProject
<1>19. ASSUME NEW p \in Pids, StopChrome(p) PROVE DescriptorInv'
  BY <1>19 DEF StopChrome, Goto, localVars, fileVars, HasProject
<1>20. ASSUME NEW p \in Pids, ReleaseLock(p) PROVE DescriptorInv'
  BY <1>20 DEF ReleaseLock, Unlink, Goto, localVars, fileVars, HasProject
<1>21. ASSUME NEW p \in Pids, NEW t \in Targets, Adopt(p, t) PROVE DescriptorInv'
  BY <1>21 DEF Adopt, BeginPersist, HasRequests, HasProject, Truncate, Goto, localVars, fileVars, HasProject
<1>22. ASSUME NEW p \in Pids, NEW t \in Targets, Release(p, t) PROVE DescriptorInv'
  BY <1>22 DEF Release, BeginPersist, HasRequests, HasProject, Truncate, Goto, localVars, fileVars, HasProject
<1>23. ASSUME NEW p \in Pids, EndPersist(p) PROVE DescriptorInv'
  BY <1>23 DEF EndPersist, Fill, Goto, localVars, fileVars, HasProject
<1>24. ASSUME NEW p \in Pids, InputEnds(p) PROVE DescriptorInv'
  BY <1>24 DEF InputEnds, Goto, localVars, fileVars, HasProject
<1>25. CASE UNCHANGED vars
  BY <1>25 DEF vars, Goto, localVars, fileVars, HasProject
<1>26. QED
  BY <1>1, <1>2, <1>3, <1>4, <1>5, <1>6, <1>7, <1>8, <1>9, <1>10, <1>11, <1>12, <1>13, <1>14, <1>15, <1>16, <1>17, <1>18, <1>19, <1>20, <1>21, <1>22, <1>23, <1>24, <1>25
  DEF Next, MainStep, Die, AcquireRefused, OpenRefused, ChromeFails, NextLineAfterSignal, Exit

-------------------------------------------------------------------------------
(* The lock.                                                               *)

LEMMA InitLock == BridgeInit => LockInv
  BY DEF BridgeInit, LockInv, NearLock, Holding, Past

(* A step that neither brings a bridge nearer to its lock nor writes a     *)
(* lock file keeps the invariant.                                          *)
LEMMA LockFrame ==
  ASSUME TypeOK, LockInv, raced \subseteq raced',
         \A q \in launched' : pc'[q] \in {"waitReady", "serve", "stopping"},
         \A q \in Pids : NearLock(q)' =>
           /\ NearLock(q)
           /\ flags'[q] = flags[q]
           /\ Holding(q)' <=> Holding(q)
           /\ pc'[q] = "lockFill" => pc[q] = "lockFill" /\ fd'[q] = fd[q],
         \A q \in Pids : NearLock(q)' => content'[LockOf(q)] = content[LockOf(q)]
  PROVE  LockInv'
<1>1. \A q \in Pids : NearLock(q)' => LockOf(q)' = LockOf(q)
  BY DEF LockOf
<1>2. \A q \in Pids : Holding(q) \/ pc[q] = "lockFill" => NearLock(q)
  BY DEF Holding, NearLock
<1>3. \A q \in Pids : (Holding(q) \/ pc[q] = "lockFill" => NearLock(q))'
  BY DEF Holding, NearLock
<1>4. (\A p, q \in Pids : NearLock(p) /\ NearLock(q) /\ p # q =>
         LockOf(p) # LockOf(q) \/ LockOf(p) \in raced)'
  BY <1>1 DEF LockInv
<1>5. (\A p \in Pids : pc[p] = "lockFill" =>
         LockOf(p) \in raced \/ (fd[p] = LockOf(p) /\ content[LockOf(p)] = Empty))'
  BY <1>1, <1>3 DEF LockInv
<1>6. (\A p \in Pids : Holding(p) =>
         LockOf(p) \in raced \/ content[LockOf(p)] = Full(Record(p, {})))'
  BY <1>1, <1>3 DEF LockInv, Full, Record
<1>7. QED
  BY <1>4, <1>5, <1>6 DEF LockInv

(* The file found under a bridge that holds its lock shows a live owner.   *)
LEMMA HolderRefuses ==
  ASSUME TypeOK, LockInv, NEW q \in Pids, Holding(q), LockOf(q) \notin raced
  PROVE  OwnerAlive(LockOf(q))
<1>1. content[LockOf(q)] = Full(Record(q, {}))
  BY DEF LockInv
<1>2. pc[q] # "dead"
  BY DEF Holding, Past
<1>3. QED
  BY <1>1, <1>2 DEF OwnerAlive, Readable, Value, PidAlive, Full, Record

LEMMA LockAfterLook ==
  ASSUME TypeOK, LockInv, NEW p \in Pids, AcquireLook(p)
  PROVE  LockInv'
<1> DEFINE l == LockOf(p)
<1>1. /\ pc[p] = "acquire" /\ pc' = [pc EXCEPT ![p] = "lock"] /\ ~OwnerAlive(l)
      /\ UNCHANGED <<flags, launched, content, fd>>
  BY DEF AcquireLook, Goto, localVars, fileVars
<1>2. raced \subseteq raced' /\ (l \notin raced' => Replacing(l) \subseteq {p})
  BY DEF AcquireLook, NoteRace
<1>3. \A q \in Pids : LockOf(q)' = LockOf(q)
  BY <1>1 DEF LockOf
<1>4. \A q \in Pids \ {p} : pc'[q] = pc[q]
  BY <1>1 DEF TypeOK
<1>5. ASSUME NEW q \in Pids \ {p}, NearLock(q), LockOf(q) = l PROVE l \in raced'
  <2>1. CASE pc[q] \in {"lock", "lockFill"}
    BY <2>1, <1>2, <1>5 DEF Replacing, Bridges
  <2>2. CASE Holding(q)
    BY <2>2, <1>1, <1>2, <1>5, HolderRefuses
  <2>3. QED
    BY <2>1, <2>2, <1>5 DEF NearLock, Holding
<1>6. \A q \in Pids \ {p} : NearLock(q)' <=> NearLock(q)
  BY <1>4 DEF NearLock
<1>7. (\A q, r \in Pids : NearLock(q) /\ NearLock(r) /\ q # r =>
         LockOf(q) # LockOf(r) \/ LockOf(q) \in raced)'
  BY <1>2, <1>3, <1>5, <1>6 DEF LockInv
<1>8. (\A q \in Pids : pc[q] = "lockFill" =>
         LockOf(q) \in raced \/ (fd[q] = LockOf(q) /\ content[LockOf(q)] = Empty))'
  BY <1>1, <1>2, <1>3, <1>4 DEF LockInv, TypeOK
<1>9. (\A q \in Pids : Holding(q) =>
         LockOf(q) \in raced \/ content[LockOf(q)] = Full(Record(q, {})))'
  BY <1>1, <1>2, <1>3, <1>4 DEF LockInv, TypeOK, Holding, Full, Record, Past
<1>10. QED
  BY <1>1, <1>7, <1>8, <1>9 DEF LockInv, TypeOK

(* A step of p, in the middle of Acquire, that writes the lock file.       *)
LEMMA LockAfterWrite ==
  ASSUME TypeOK, LockInv, NEW p \in Pids, NearLock(p), pc[p] \notin {"waitReady", "serve", "stopping"},
         flags' = flags, launched' = launched, raced' = raced,
         \A q \in Pids \ {p} : pc'[q] = pc[q],
         \A q \in Pids \ {p} : fd[q] # LockOf(p) => fd'[q] = fd[q],
         \A f \in Paths \ {LockOf(p)} : content'[f] = content[f],
         pc'[p] \in {"lockFill", "sweep", "exiting"},
         pc'[p] = "lockFill" => LockOf(p) \in raced \/ (fd'[p] = LockOf(p) /\ content'[LockOf(p)] = Empty),
         pc'[p] = "sweep" => LockOf(p) \in raced \/ content'[LockOf(p)] = Full(Record(p, {}))
  PROVE  LockInv'
<1>1. \A q \in Pids : LockOf(q)' = LockOf(q)
  BY DEF LockOf
<1>2. \A q \in Pids : Holding(q) \/ pc[q] = "lockFill" => NearLock(q)
  BY DEF Holding, NearLock
<1>3. \A q \in Pids \ {p} : /\ NearLock(q)' <=> NearLock(q)
                            /\ Holding(q)' <=> Holding(q)
  BY DEF NearLock, Holding
<1>4. \A q \in Pids \ {p} : NearLock(q) /\ LockOf(q) = LockOf(p) => LockOf(p) \in raced
  BY DEF LockInv
<1>5. \A q \in Pids : NearLock(q) => LockOf(q) \in Paths
  BY BridgeAssumption, PathsOfBridge DEF NearLock, Past, Bridges
<1>6. (\A q, r \in Pids : NearLock(q) /\ NearLock(r) /\ q # r =>
         LockOf(q) # LockOf(r) \/ LockOf(q) \in raced)'
  BY <1>1, <1>3, <1>4 DEF LockInv
<1>7. (\A q \in Pids : pc[q] = "lockFill" =>
         LockOf(q) \in raced \/ (fd[q] = LockOf(q) /\ content[LockOf(q)] = Empty))'
  BY <1>1, <1>2, <1>4, <1>5 DEF LockInv
<1>8. (\A q \in Pids : Holding(q) =>
         LockOf(q) \in raced \/ content[LockOf(q)] = Full(Record(q, {})))'
  <2>1. ASSUME NEW q \in Pids \ {p}, Holding(q), LockOf(q) \notin raced
        PROVE  content'[LockOf(q)] = Full(Record(q, {}))
    BY <2>1, <1>2, <1>4, <1>5 DEF LockInv
  <2>2. Holding(p)' /\ LockOf(p) \notin raced => content'[LockOf(p)] = Full(Record(p, {}))
    BY DEF Holding, Past
  <2>3. QED
    BY <1>1, <1>3, <2>1, <2>2 DEF Full, Record
<1>9. (\A q \in launched : pc[q] \in {"waitReady", "serve", "stopping"})'
  BY DEF LockInv, TypeOK, Bridges
<1>10. QED
  BY <1>6, <1>7, <1>8, <1>9 DEF LockInv

(* The rest of a bridge writes sidecars only.                              *)
LEMMA FilesApart ==
  ASSUME TypeOK, DescriptorInv, NEW q \in Pids
  PROVE  /\ NearLock(q) => LockOf(q) \in Locks
         /\ pc[q] = "lockFill" => fd[q] \notin Projects
         /\ pc[q] = "openFill" \/ q \in writing => fd[q] = NoPath \/ (fd[q] \in Projects /\ fd[q] = ProjectOf(q))
<1>1. NearLock(q) \/ pc[q] = "openFill" \/ q \in writing => q \in Bridges
  BY DEF NearLock, Past, Bridges, TypeOK, HasProject
<1>2. q \in Bridges => LockOf(q) \in Locks /\ ProjectOf(q) \in Projects
  BY PathsOfBridge
<1>3. q \in writing => pc[q] # "lockFill"
  BY DEF TypeOK, HasProject
<1>4. QED
  BY <1>1, <1>2, <1>3, BridgeAssumption, FilesAssumption DEF DescriptorInv, NearLock

(* So a step of one that is past its Acquire, and stays there, keeps the    *)
(* invariant.                                                              *)
LEMMA LockAfterSidecar ==
  ASSUME TypeOK, LockInv, NEW p \in Pids, pc[p] \in Past \cup {"exiting"},
         pc'[p] \in Past \cup {"exiting"}, pc[p] = pc'[p] \/ (Holding(p) /\ Holding(p)' /\ p \notin launched),
         \A q \in Pids \ {p} : pc'[q] = pc[q] /\ (pc[q] = "lockFill" => fd'[q] = fd[q]),
         UNCHANGED <<flags, launched>>, raced \subseteq raced',
         \A q \in Pids : NearLock(q) => content'[LockOf(q)] = content[LockOf(q)]
  PROVE  LockInv'
<1>1. \A q \in Pids : NearLock(q)' =>
        /\ NearLock(q)
        /\ flags'[q] = flags[q]
        /\ Holding(q)' <=> Holding(q)
        /\ pc'[q] = "lockFill" => pc[q] = "lockFill" /\ fd'[q] = fd[q]
  BY DEF NearLock, Holding, Past
<1>2. \A q \in launched' : pc'[q] \in {"waitReady", "serve", "stopping"}
  BY DEF LockInv, TypeOK, Bridges
<1>3. QED
  BY <1>1, <1>2, LockFrame

LEMMA StepLock == TypeOK /\ DescriptorInv /\ LockInv /\ [Next]_vars => LockInv'
<1> SUFFICES ASSUME TypeOK, DescriptorInv, LockInv, [Next]_vars PROVE LockInv'
  OBVIOUS
<1> USE BridgeAssumption, FilesAssumption
<1>1. ASSUME NEW p \in Pids, Start(p) PROVE LockInv'
  BY <1>1, LockFrame DEF Start, Goto, localVars, fileVars, NearLock, Holding, Past, LockInv, TypeOK
<1>2. ASSUME NEW p \in Pids, OtherStarts(p) PROVE LockInv'
  BY <1>2, LockFrame DEF OtherStarts, Goto, localVars, fileVars, NearLock, Holding, Past, LockInv, TypeOK
<1>3. ASSUME NEW p \in Pids, OtherEnds(p) PROVE LockInv'
  BY <1>3, LockFrame DEF OtherEnds, Goto, localVars, fileVars, NearLock, Holding, Past, LockInv, TypeOK
<1>4. ASSUME NEW p \in Pids, Gone(p) PROVE LockInv'
  BY <1>4, LockFrame DEF Gone, CloseFile, Goto, localVars, fileVars, NearLock, Holding, Past, LockInv, TypeOK
<1>5. ASSUME NEW p \in Pids, Signal(p) PROVE LockInv'
  BY <1>5, LockFrame DEF Signal, Goto, localVars, fileVars, NearLock, Holding, Past, LockInv, TypeOK
<1>6. ASSUME NEW p \in Pids, AcquireLook(p) PROVE LockInv'
  BY <1>6, LockAfterLook
<1>7. ASSUME NEW p \in Pids, OpenLockFile(p) PROVE LockInv'
  <2>1. LockOf(p) \in Paths
    BY <1>7, PathsOfBridge DEF OpenLockFile, Goto, Bridges
  <2>2. /\ NearLock(p) /\ pc[p] \notin {"waitReady", "serve", "stopping"}
        /\ flags' = flags /\ launched' = launched /\ raced' = raced /\ pc'[p] = "lockFill"
        /\ \A q \in Pids \ {p} : pc'[q] = pc[q]
    BY <1>7 DEF OpenLockFile, Goto, localVars, NearLock, TypeOK
  <2>3. /\ fd'[p] = LockOf(p) /\ content'[LockOf(p)] = Empty
        /\ \A q \in Pids \ {p} : fd'[q] = fd[q]
        /\ \A f \in Paths \ {LockOf(p)} : content'[f] = content[f]
    BY <1>7, <2>1 DEF OpenLockFile, Truncate, TypeOK
  <2>4. QED
    BY <2>2, <2>3, LockAfterWrite
<1>8. ASSUME NEW p \in Pids, WriteLockFile(p) PROVE LockInv'
  <2>1. LockOf(p) \in Paths /\ (fd[p] = NoPath \/ fd[p] = LockOf(p))
    BY <1>8, PathsOfBridge DEF WriteLockFile, Goto, Bridges, DescriptorInv, TypeOK, HasProject
  <2>2. LockOf(p) \notin raced => fd[p] = LockOf(p) /\ content[fd[p]] = Empty
    BY <1>8 DEF WriteLockFile, Goto, LockInv
  <2>3. \A f \in Paths \ {LockOf(p)} : content'[f] = content[f]
    BY <1>8, <2>1 DEF WriteLockFile, Fill, TypeOK
  <2>4. LockOf(p) \notin raced => content'[LockOf(p)] = Full(Record(p, {}))
    BY <1>8, <2>1, <2>2 DEF WriteLockFile, Fill, TypeOK
  <2>5. QED
    BY <1>8, <2>3, <2>4, LockAfterWrite DEF WriteLockFile, Goto, Fill, NearLock, TypeOK
<1>9. ASSUME NEW p \in Pids, NEW x \in Projects, SweepRead(p, x) PROVE LockInv'
  <2>1. /\ pc[p] \in Past \cup {"exiting"} /\ p \in Bridges
        /\ pc[p] = pc'[p] \/ (Holding(p) /\ Holding(p)' /\ p \notin launched)
        /\ \A q \in Pids \ {p} : pc'[q] = pc[q]
        /\ UNCHANGED <<flags, launched>>
    BY <1>9 DEF SweepRead, fileVars, Goto, localVars, Past, Holding, Bridges, LockInv, TypeOK
  <2>2. ProjectOf(p) \in Projects
    BY <2>1, PathsOfBridge
  <2>3. raced \subseteq raced'
    BY <1>9 DEF SweepRead, fileVars, NoteRace
  <2>4. \A f \in Locks : content'[f] = content[f]
    BY <1>9, <2>2, FilesApart DEF SweepRead, fileVars, TypeOK
  <2>5. \A q \in Pids \ {p} : pc[q] = "lockFill" => fd'[q] = fd[q]
    BY <1>9, <2>2, FilesApart DEF SweepRead, fileVars, TypeOK
  <2>6. QED
    BY <2>1, <2>3, <2>4, <2>5, FilesApart, LockAfterSidecar DEF Past, Holding
<1>10. ASSUME NEW p \in Pids, NEW x \in Projects, SweepRemove(p, x) PROVE LockInv'
  <2>1. /\ pc[p] \in Past \cup {"exiting"} /\ p \in Bridges
        /\ pc[p] = pc'[p] \/ (Holding(p) /\ Holding(p)' /\ p \notin launched)
        /\ \A q \in Pids \ {p} : pc'[q] = pc[q]
        /\ UNCHANGED <<flags, launched>>
    BY <1>10 DEF SweepRemove, Unlink, Goto, localVars, Past, Holding, Bridges, LockInv, TypeOK
  <2>2. ProjectOf(p) \in Projects
    BY <2>1, PathsOfBridge
  <2>3. raced \subseteq raced'
    BY <1>10 DEF SweepRemove, Unlink, NoteRace
  <2>4. \A f \in Locks : content'[f] = content[f]
    BY <1>10, <2>2, FilesApart DEF SweepRemove, Unlink, TypeOK
  <2>5. \A q \in Pids \ {p} : pc[q] = "lockFill" => fd'[q] = fd[q]
    BY <1>10, <2>2, FilesApart DEF SweepRemove, Unlink, TypeOK
  <2>6. QED
    BY <2>1, <2>3, <2>4, <2>5, FilesApart, LockAfterSidecar DEF Past, Holding
<1>11. ASSUME NEW p \in Pids, SweepDone(p) PROVE LockInv'
  BY <1>11, LockFrame DEF SweepDone, Goto, localVars, fileVars, NearLock, Holding, Past, LockInv, TypeOK
<1>12. ASSUME NEW p \in Pids, OpenRead(p) PROVE LockInv'
  <2>1. /\ pc[p] \in Past \cup {"exiting"} /\ p \in Bridges
        /\ pc[p] = pc'[p] \/ (Holding(p) /\ Holding(p)' /\ p \notin launched)
        /\ \A q \in Pids \ {p} : pc'[q] = pc[q]
        /\ UNCHANGED <<flags, launched>>
    BY <1>12 DEF OpenRead, fileVars, Goto, localVars, Past, Holding, Bridges, LockInv, TypeOK
  <2>2. ProjectOf(p) \in Projects
    BY <2>1, PathsOfBridge
  <2>3. raced \subseteq raced'
    BY <1>12 DEF OpenRead, fileVars, NoteRace
  <2>4. \A f \in Locks : content'[f] = content[f]
    BY <1>12, <2>2, FilesApart DEF OpenRead, fileVars, TypeOK
  <2>5. \A q \in Pids \ {p} : pc[q] = "lockFill" => fd'[q] = fd[q]
    BY <1>12, <2>2, FilesApart DEF OpenRead, fileVars, TypeOK
  <2>6. QED
    BY <2>1, <2>3, <2>4, <2>5, FilesApart, LockAfterSidecar DEF Past, Holding
<1>13. ASSUME NEW p \in Pids, OpenSidecar(p) PROVE LockInv'
  <2>1. /\ pc[p] \in Past \cup {"exiting"} /\ p \in Bridges
        /\ pc[p] = pc'[p] \/ (Holding(p) /\ Holding(p)' /\ p \notin launched)
        /\ \A q \in Pids \ {p} : pc'[q] = pc[q]
        /\ UNCHANGED <<flags, launched>>
    BY <1>13 DEF OpenSidecar, Truncate, Goto, localVars, Past, Holding, Bridges, LockInv, TypeOK
  <2>2. ProjectOf(p) \in Projects
    BY <2>1, PathsOfBridge
  <2>3. raced \subseteq raced'
    BY <1>13 DEF OpenSidecar, Truncate, NoteRace
  <2>4. \A f \in Locks : content'[f] = content[f]
    BY <1>13, <2>2, FilesApart DEF OpenSidecar, Truncate, TypeOK
  <2>5. \A q \in Pids \ {p} : pc[q] = "lockFill" => fd'[q] = fd[q]
    BY <1>13, <2>2, FilesApart DEF OpenSidecar, Truncate, TypeOK
  <2>6. QED
    BY <2>1, <2>3, <2>4, <2>5, FilesApart, LockAfterSidecar DEF Past, Holding
<1>14. ASSUME NEW p \in Pids, WriteSidecar(p) PROVE LockInv'
  <2>1. /\ pc[p] \in Past \cup {"exiting"} /\ p \in Bridges
        /\ pc[p] = pc'[p] \/ (Holding(p) /\ Holding(p)' /\ p \notin launched)
        /\ \A q \in Pids \ {p} : pc'[q] = pc[q]
        /\ UNCHANGED <<flags, launched>>
    BY <1>14 DEF WriteSidecar, Fill, Goto, localVars, Past, Holding, Bridges, LockInv, TypeOK
  <2>2. ProjectOf(p) \in Projects
    BY <2>1, PathsOfBridge
  <2>3. raced \subseteq raced'
    BY <1>14 DEF WriteSidecar, Fill, NoteRace
  <2>4. \A f \in Locks : content'[f] = content[f]
    <3>1. fd[p] = NoPath \/ fd[p] \in Projects
      BY <1>14, FilesApart DEF WriteSidecar, Goto
    <3>2. QED
      BY <1>14, <3>1 DEF WriteSidecar, Fill, TypeOK
  <2>5. \A q \in Pids \ {p} : pc[q] = "lockFill" => fd'[q] = fd[q]
    BY <1>14, <2>2, FilesApart DEF WriteSidecar, Fill, TypeOK
  <2>6. QED
    BY <2>1, <2>3, <2>4, <2>5, FilesApart, LockAfterSidecar DEF Past, Holding
<1>15. ASSUME NEW p \in Pids, NoLaunch(p) PROVE LockInv'
  BY <1>15, LockFrame DEF NoLaunch, Goto, localVars, fileVars, NearLock, Holding, Past, LockInv, TypeOK
<1>16. ASSUME NEW p \in Pids, LaunchChrome(p) PROVE LockInv'
  BY <1>16, LockFrame DEF LaunchChrome, Goto, localVars, fileVars, NearLock, Holding, Past, LockInv, TypeOK
<1>17. ASSUME NEW p \in Pids, ChromeReady(p) PROVE LockInv'
  BY <1>17, LockFrame DEF ChromeReady, Goto, localVars, fileVars, NearLock, Holding, Past, LockInv, TypeOK
<1>18. ASSUME NEW p \in Pids, HttpStops(p) PROVE LockInv'
  BY <1>18, LockFrame DEF HttpStops, Goto, localVars, fileVars, NearLock, Holding, Past, LockInv, TypeOK
<1>19. ASSUME NEW p \in Pids, StopChrome(p) PROVE LockInv'
  BY <1>19, LockFrame DEF StopChrome, Goto, localVars, fileVars, NearLock, Holding, Past, LockInv, TypeOK
<1>20. ASSUME NEW p \in Pids, ReleaseLock(p) PROVE LockInv'
  <2>1. LockOf(p) \in Paths
    BY <1>20, PathsOfBridge DEF ReleaseLock, Goto, Bridges
  <2>2. QED
    BY <1>20, <2>1, LockAfterWrite DEF ReleaseLock, Goto, Unlink, localVars, NearLock, Past, TypeOK
<1>21. ASSUME NEW p \in Pids, NEW t \in Targets, Adopt(p, t) PROVE LockInv'
  <2>1. /\ pc[p] \in Past \cup {"exiting"} /\ p \in Bridges
        /\ pc[p] = pc'[p] \/ (Holding(p) /\ Holding(p)' /\ p \notin launched)
        /\ \A q \in Pids \ {p} : pc'[q] = pc[q]
        /\ UNCHANGED <<flags, launched>>
    BY <1>21 DEF Adopt, BeginPersist, HasRequests, Truncate, Goto, localVars, Past, Holding, Bridges, LockInv, TypeOK
  <2>2. ProjectOf(p) \in Projects
    BY <2>1, PathsOfBridge
  <2>3. raced \subseteq raced'
    BY <1>21 DEF Adopt, BeginPersist, HasRequests, Truncate, NoteRace
  <2>4. \A f \in Locks : content'[f] = content[f]
    BY <1>21, <2>2, FilesApart DEF Adopt, BeginPersist, HasRequests, Truncate, TypeOK
  <2>5. \A q \in Pids \ {p} : pc[q] = "lockFill" => fd'[q] = fd[q]
    BY <1>21, <2>2, FilesApart DEF Adopt, BeginPersist, HasRequests, Truncate, TypeOK
  <2>6. QED
    BY <2>1, <2>3, <2>4, <2>5, FilesApart, LockAfterSidecar DEF Past, Holding
<1>22. ASSUME NEW p \in Pids, NEW t \in Targets, Release(p, t) PROVE LockInv'
  <2>1. /\ pc[p] \in Past \cup {"exiting"} /\ p \in Bridges
        /\ pc[p] = pc'[p] \/ (Holding(p) /\ Holding(p)' /\ p \notin launched)
        /\ \A q \in Pids \ {p} : pc'[q] = pc[q]
        /\ UNCHANGED <<flags, launched>>
    BY <1>22 DEF Release, BeginPersist, HasRequests, Truncate, Goto, localVars, Past, Holding, Bridges, LockInv, TypeOK
  <2>2. ProjectOf(p) \in Projects
    BY <2>1, PathsOfBridge
  <2>3. raced \subseteq raced'
    BY <1>22 DEF Release, BeginPersist, HasRequests, Truncate, NoteRace
  <2>4. \A f \in Locks : content'[f] = content[f]
    BY <1>22, <2>2, FilesApart DEF Release, BeginPersist, HasRequests, Truncate, TypeOK
  <2>5. \A q \in Pids \ {p} : pc[q] = "lockFill" => fd'[q] = fd[q]
    BY <1>22, <2>2, FilesApart DEF Release, BeginPersist, HasRequests, Truncate, TypeOK
  <2>6. QED
    BY <2>1, <2>3, <2>4, <2>5, FilesApart, LockAfterSidecar DEF Past, Holding
<1>23. ASSUME NEW p \in Pids, EndPersist(p) PROVE LockInv'
  <2>1. /\ pc[p] \in Past \cup {"exiting"} /\ p \in Bridges
        /\ pc[p] = pc'[p] \/ (Holding(p) /\ Holding(p)' /\ p \notin launched)
        /\ \A q \in Pids \ {p} : pc'[q] = pc[q]
        /\ UNCHANGED <<flags, launched>>
    BY <1>23 DEF EndPersist, HasProject, Fill, Goto, localVars, Past, Holding, Bridges, LockInv, TypeOK
  <2>2. ProjectOf(p) \in Projects
    BY <2>1, PathsOfBridge
  <2>3. raced \subseteq raced'
    BY <1>23 DEF EndPersist, HasProject, Fill, NoteRace
  <2>4. \A f \in Locks : content'[f] = content[f]
    BY <1>23, <2>2, FilesApart DEF EndPersist, HasProject, Fill, TypeOK
  <2>5. \A q \in Pids \ {p} : pc[q] = "lockFill" => fd'[q] = fd[q]
    BY <1>23, <2>2, FilesApart DEF EndPersist, HasProject, Fill, TypeOK
  <2>6. QED
    BY <2>1, <2>3, <2>4, <2>5, FilesApart, LockAfterSidecar DEF Past, Holding
<1>24. ASSUME NEW p \in Pids, InputEnds(p) PROVE LockInv'
  BY <1>24, LockFrame DEF InputEnds, Goto, localVars, fileVars, NearLock, Holding, Past, LockInv, TypeOK
<1>25. CASE UNCHANGED vars
  BY <1>25, LockFrame DEF vars, Goto, localVars, fileVars, NearLock, Holding, Past, LockInv, TypeOK
<1>26. QED
  BY <1>1, <1>2, <1>3, <1>4, <1>5, <1>6, <1>7, <1>8, <1>9, <1>10, <1>11, <1>12, <1>13, <1>14, <1>15, <1>16, <1>17, <1>18, <1>19, <1>20, <1>21, <1>22, <1>23, <1>24, <1>25
  DEF Next, MainStep, Die, AcquireRefused, OpenRefused, ChromeFails, NextLineAfterSignal, Exit

-------------------------------------------------------------------------------
(* The project.                                                            *)

LEMMA InitProject == BridgeInit => ProjectInv
  BY DEF BridgeInit, ProjectInv, NearProject, HasProject

(* A step that neither brings a process nearer to replacing a sidecar nor  *)
(* writes one keeps the invariant.                                         *)
LEMMA ProjectFrame ==
  ASSUME TypeOK, ProjectInv, raced \subseteq raced',
         \A q \in Pids : doomed'[q] = doomed[q] \/ doomed'[q] = {},
         \A q \in Pids : pc'[q] = pc[q] \/ doomed'[q] = {},
         \A q \in Pids : NearProject(q)' =>
           /\ NearProject(q)
           /\ flags'[q] = flags[q] /\ owned'[q] = owned[q] /\ fd'[q] = fd[q]
           /\ HasProject(q)' <=> HasProject(q)
           /\ pc'[q] = "openFill" <=> pc[q] = "openFill"
           /\ q \in writing' <=> q \in writing,
         \A q \in writing' : HasProject(q)',
         \A f \in Projects : content'[f] = content[f]
  PROVE  ProjectInv'
<1>1. \A q \in Pids : NearProject(q) => ProjectOf(q) \in Projects
  BY PathsOfBridge DEF NearProject, HasProject, Bridges
<1>2. \A q \in Pids : NearProject(q)' =>
        /\ ProjectOf(q)' = ProjectOf(q)
        /\ content'[ProjectOf(q)] = content[ProjectOf(q)]
  BY <1>1 DEF ProjectOf
<1>3. \A q \in Pids : (HasProject(q) \/ pc[q] = "openFill" => NearProject(q))'
  BY DEF NearProject
<1>4. (\A p \in Pids : doomed[p] # {} => pc[p] = "sweep")'
  BY DEF ProjectInv
<1>5. (\A p, q \in Pids : NearProject(p) /\ NearProject(q) /\ p # q =>
         ProjectOf(p) # ProjectOf(q) \/ ProjectOf(p) \in raced)'
  BY <1>2 DEF ProjectInv
<1>6. (\A p, q \in Pids : \A x \in doomed[p] : x \notin raced =>
         /\ NearProject(q) => ProjectOf(q) # x
         /\ p # q => x \notin doomed[q])'
  BY <1>2 DEF ProjectInv
<1>7. (\A p \in Pids : pc[p] = "openFill" \/ p \in writing =>
         ProjectOf(p) \in raced \/ (fd[p] = ProjectOf(p) /\ content[ProjectOf(p)] = Empty))'
  BY <1>2, <1>3 DEF ProjectInv
<1>8. (\A p \in Pids : HasProject(p) /\ p \notin writing =>
         ProjectOf(p) \in raced \/ content[ProjectOf(p)] = Full(Record(p, owned[p])))'
  BY <1>2, <1>3 DEF ProjectInv, Full, Record
<1>9. QED
  BY <1>4, <1>5, <1>6, <1>7, <1>8 DEF ProjectInv

(* The sidecar found under a bridge that has its project, and is not       *)
(* writing, shows a live owner.                                            *)
LEMMA OwnerRefuses ==
  ASSUME TypeOK, ProjectInv, NEW q \in Pids, HasProject(q), q \notin writing, ProjectOf(q) \notin raced
  PROVE  OwnerAlive(ProjectOf(q)) /\ Value(ProjectOf(q)).owner = q
<1>1. content[ProjectOf(q)] = Full(Record(q, owned[q]))
  BY DEF ProjectInv
<1>2. pc[q] # "dead"
  BY DEF HasProject
<1>3. QED
  BY <1>1, <1>2 DEF OwnerAlive, Readable, Value, PidAlive, Full, Record

(* So whoever may replace a sidecar, and is not seen to be at it, is its   *)
(* live owner.                                                             *)
LEMMA FreeSidecar ==
  ASSUME TypeOK, ProjectInv, NEW p \in Pids, NEW f \in Projects, NEW q \in Pids \ {p},
         NoteRace(p, f), f \notin raced',
         OwnerAlive(f) => Value(f).owner = p
  PROVE  (NearProject(q) => ProjectOf(q) # f) /\ f \notin doomed[q]
<1>1. Replacing(f) \subseteq {p} /\ f \notin raced
  BY DEF NoteRace
<1>2. ASSUME NearProject(q), ProjectOf(q) = f PROVE FALSE
  <2>1. q \in Bridges
    BY <1>2 DEF NearProject, HasProject, Bridges
  <2>2. CASE pc[q] \in {"openWrite", "openFill"} \/ q \in writing
    BY <2>1, <2>2, <1>1, <1>2 DEF Replacing
  <2>3. CASE HasProject(q) /\ q \notin writing
    BY <2>3, <1>1, <1>2, OwnerRefuses
  <2>4. QED
    BY <1>2, <2>2, <2>3 DEF NearProject
<1>3. f \notin doomed[q]
  <2>1. f \in doomed[q] => q \in Bridges
    BY DEF ProjectInv, Bridges
  <2>2. QED
    BY <2>1, <1>1 DEF Replacing
<1>4. QED
  BY <1>2, <1>3

LEMMA ProjectAfterSweepRead ==
  ASSUME TypeOK, ProjectInv, NEW p \in Pids, NEW x \in Projects, SweepRead(p, x)
  PROVE  ProjectInv'
<1>1. /\ pc[p] = "sweep"
      /\ UNCHANGED <<pc, flags, owned, writing, content, fd>>
      /\ \A q \in Pids \ {p} : doomed'[q] = doomed[q]
  BY DEF SweepRead, fileVars, TypeOK
<1>2. CASE Readable(x) /\ ~OwnerAlive(x)
  <2>1. raced \subseteq raced' /\ doomed'[p] = doomed[p] \cup {x}
    BY <1>2 DEF SweepRead, NoteRace, TypeOK
  <2>2. \A q \in Pids : /\ ProjectOf(q)' = ProjectOf(q)
                        /\ NearProject(q)' <=> NearProject(q)
                        /\ HasProject(q)' <=> HasProject(q)
    BY <1>1 DEF ProjectOf, NearProject, HasProject
  <2>3. \A q \in Pids \ {p} : x \notin raced' => (NearProject(q) => ProjectOf(q) # x) /\ x \notin doomed[q]
    BY <1>2, FreeSidecar DEF SweepRead
  <2>4. ~NearProject(p)
    BY <1>1 DEF NearProject, HasProject
  <2>5. (\A r, q \in Pids : \A y \in doomed[r] : y \notin raced =>
           /\ NearProject(q) => ProjectOf(q) # y
           /\ r # q => y \notin doomed[q])'
    BY <1>1, <2>1, <2>2, <2>3, <2>4 DEF ProjectInv
  <2>6. (\A r \in Pids : doomed[r] # {} => pc[r] = "sweep")'
    BY <1>1 DEF ProjectInv
  <2>7. (\A r, q \in Pids : NearProject(r) /\ NearProject(q) /\ r # q =>
           ProjectOf(r) # ProjectOf(q) \/ ProjectOf(r) \in raced)'
    BY <2>1, <2>2 DEF ProjectInv
  <2>8. (\A r \in Pids : pc[r] = "openFill" \/ r \in writing =>
           ProjectOf(r) \in raced \/ (fd[r] = ProjectOf(r) /\ content[ProjectOf(r)] = Empty))'
    BY <1>1, <2>1, <2>2 DEF ProjectInv
  <2>9. (\A r \in Pids : HasProject(r) /\ r \notin writing =>
           ProjectOf(r) \in raced \/ content[ProjectOf(r)] = Full(Record(r, owned[r])))'
    BY <1>1, <2>1, <2>2 DEF ProjectInv, Full, Record
  <2>10. QED
    BY <2>5, <2>6, <2>7, <2>8, <2>9 DEF ProjectInv
<1>3. CASE ~(Readable(x) /\ ~OwnerAlive(x))
  <2>1. raced' = raced /\ doomed' = doomed
    BY <1>3 DEF SweepRead
  <2>2. QED
    BY <1>1, <2>1 DEF ProjectInv, NearProject, HasProject, ProjectOf, Full, Record
<1>4. QED
  BY <1>2, <1>3

LEMMA ProjectAfterSweepRemove ==
  ASSUME TypeOK, DescriptorInv, ProjectInv, NEW p \in Pids, NEW x \in Projects, SweepRemove(p, x)
  PROVE  ProjectInv'
<1>1. /\ UNCHANGED <<pc, flags, owned, writing, raced>>
      /\ x \in doomed[p]
      /\ \A q \in Pids : doomed'[q] \subseteq doomed[q]
  BY DEF SweepRemove, TypeOK
<1>2. /\ \A f \in Projects \ {x} : content'[f] = content[f]
      /\ \A q \in Pids : fd[q] # x => fd'[q] = fd[q]
  BY BridgeAssumption DEF SweepRemove, Unlink, TypeOK
<1>3. \A q \in Pids : /\ ProjectOf(q)' = ProjectOf(q)
                      /\ NearProject(q)' <=> NearProject(q)
                      /\ HasProject(q)' <=> HasProject(q)
  BY <1>1 DEF ProjectOf, NearProject, HasProject
<1>4. \A q \in Pids : NearProject(q) => ProjectOf(q) \in Projects
  BY PathsOfBridge DEF NearProject, HasProject, Bridges
<1>5. \A q \in Pids : NearProject(q) => ProjectOf(q) \in raced \/ ProjectOf(q) # x
  BY <1>1 DEF ProjectInv
<1>6. \A q \in Pids : pc[q] = "openFill" \/ q \in writing \/ HasProject(q) => NearProject(q)
  BY DEF NearProject, TypeOK
<1>7. (\A r \in Pids : pc[r] = "openFill" \/ r \in writing =>
         ProjectOf(r) \in raced \/ (fd[r] = ProjectOf(r) /\ content[ProjectOf(r)] = Empty))'
  BY <1>1, <1>2, <1>3, <1>4, <1>5, <1>6 DEF ProjectInv
<1>8. (\A r \in Pids : HasProject(r) /\ r \notin writing =>
         ProjectOf(r) \in raced \/ content[ProjectOf(r)] = Full(Record(r, owned[r])))'
  BY <1>1, <1>2, <1>3, <1>4, <1>5, <1>6 DEF ProjectInv, Full, Record
<1>9. (\A r \in Pids : doomed[r] # {} => pc[r] = "sweep")'
  BY <1>1 DEF ProjectInv
<1>10. (\A r, q \in Pids : NearProject(r) /\ NearProject(q) /\ r # q =>
          ProjectOf(r) # ProjectOf(q) \/ ProjectOf(r) \in raced)'
  BY <1>1, <1>3 DEF ProjectInv
<1>11. (\A r, q \in Pids : \A y \in doomed[r] : y \notin raced =>
          /\ NearProject(q) => ProjectOf(q) # y
          /\ r # q => y \notin doomed[q])'
  BY <1>1, <1>3 DEF ProjectInv
<1>12. QED
  BY <1>7, <1>8, <1>9, <1>10, <1>11 DEF ProjectInv

LEMMA ProjectAfterOpenRead ==
  ASSUME TypeOK, ProjectInv, NEW p \in Pids, OpenRead(p)
  PROVE  ProjectInv'
<1> DEFINE f == ProjectOf(p)
<1>1. /\ pc[p] = "open" /\ pc'[p] = "openWrite"
      /\ UNCHANGED <<flags, doomed, writing, content, fd>>
      /\ \A q \in Pids \ {p} : pc'[q] = pc[q] /\ owned'[q] = owned[q]
  BY DEF OpenRead, Goto, fileVars, TypeOK
<1>2. f \in Projects
  BY <1>1, PathsOfBridge DEF Bridges
<1>3. raced \subseteq raced'
  BY DEF OpenRead, NoteRace
<1>4. doomed[p] = {} /\ ~HasProject(p) /\ p \notin writing
  BY <1>1 DEF ProjectInv, HasProject, TypeOK
<1>5. \A q \in Pids \ {p} : f \notin raced' => (NearProject(q) => ProjectOf(q) # f) /\ f \notin doomed[q]
  BY <1>2, FreeSidecar DEF OpenRead
<1>6. \A q \in Pids : ProjectOf(q)' = ProjectOf(q)
  BY <1>1 DEF ProjectOf
<1>7. /\ \A q \in Pids \ {p} : (NearProject(q)' <=> NearProject(q)) /\ (HasProject(q)' <=> HasProject(q))
      /\ ~HasProject(p)'
  BY <1>1 DEF NearProject, HasProject
<1>8. (\A r \in Pids : doomed[r] # {} => pc[r] = "sweep")'
  BY <1>1, <1>4 DEF ProjectInv
<1>9. (\A r, q \in Pids : NearProject(r) /\ NearProject(q) /\ r # q =>
         ProjectOf(r) # ProjectOf(q) \/ ProjectOf(r) \in raced)'
  BY <1>3, <1>5, <1>6, <1>7 DEF ProjectInv
<1>10. (\A r, q \in Pids : \A y \in doomed[r] : y \notin raced =>
          /\ NearProject(q) => ProjectOf(q) # y
          /\ r # q => y \notin doomed[q])'
  BY <1>1, <1>3, <1>4, <1>5, <1>6, <1>7 DEF ProjectInv
<1>11. (\A r \in Pids : pc[r] = "openFill" \/ r \in writing =>
          ProjectOf(r) \in raced \/ (fd[r] = ProjectOf(r) /\ content[ProjectOf(r)] = Empty))'
  BY <1>1, <1>3, <1>4, <1>6 DEF ProjectInv
<1>12. (\A r \in Pids : HasProject(r) /\ r \notin writing =>
          ProjectOf(r) \in raced \/ content[ProjectOf(r)] = Full(Record(r, owned[r])))'
  BY <1>1, <1>3, <1>6, <1>7 DEF ProjectInv, Full, Record
<1>13. QED
  BY <1>8, <1>9, <1>10, <1>11, <1>12 DEF ProjectInv

(* A step of p that begins or ends a write of its own sidecar.             *)
LEMMA ProjectAfterWrite ==
  ASSUME TypeOK, ProjectInv, NEW p \in Pids, NearProject(p), NearProject(p)',
         flags' = flags, doomed' = doomed, raced \subseteq raced', doomed[p] = {},
         \A q \in Pids \ {p} : /\ pc'[q] = pc[q] /\ owned'[q] = owned[q] /\ fd'[q] = fd[q]
                               /\ q \in writing' <=> q \in writing,
         \A f \in Projects \ {ProjectOf(p)} : content'[f] = content[f],
         pc'[p] = "openFill" \/ p \in writing' =>
           ProjectOf(p) \in raced \/ (fd'[p] = ProjectOf(p) /\ content'[ProjectOf(p)] = Empty),
         HasProject(p)' /\ p \notin writing' =>
           ProjectOf(p) \in raced \/ content'[ProjectOf(p)] = Full(Record(p, (owned')[p]))
  PROVE  ProjectInv'
<1>1. \A q \in Pids : ProjectOf(q)' = ProjectOf(q)
  BY DEF ProjectOf
<1>2. \A q \in Pids \ {p} : (NearProject(q)' <=> NearProject(q)) /\ (HasProject(q)' <=> HasProject(q))
  BY DEF NearProject, HasProject
<1>3. \A q \in Pids \ {p} : NearProject(q) =>
        /\ ProjectOf(q) \in Projects
        /\ ProjectOf(q) # ProjectOf(p) \/ ProjectOf(q) \in raced
  BY PathsOfBridge DEF NearProject, HasProject, Bridges, ProjectInv
<1>4. \A q \in Pids : pc[q] = "openFill" \/ q \in writing \/ HasProject(q) => NearProject(q)
  BY DEF NearProject, TypeOK
<1>5. (\A r \in Pids : doomed[r] # {} => pc[r] = "sweep")'
  BY DEF ProjectInv
<1>6. (\A r, q \in Pids : NearProject(r) /\ NearProject(q) /\ r # q =>
         ProjectOf(r) # ProjectOf(q) \/ ProjectOf(r) \in raced)'
  BY <1>1, <1>2 DEF ProjectInv
<1>7. (\A r, q \in Pids : \A y \in doomed[r] : y \notin raced =>
         /\ NearProject(q) => ProjectOf(q) # y
         /\ r # q => y \notin doomed[q])'
  BY <1>1, <1>2 DEF ProjectInv
<1>8. (\A r \in Pids : pc[r] = "openFill" \/ r \in writing =>
         ProjectOf(r) \in raced \/ (fd[r] = ProjectOf(r) /\ content[ProjectOf(r)] = Empty))'
  BY <1>1, <1>3, <1>4 DEF ProjectInv
<1>9. (\A r \in Pids : HasProject(r) /\ r \notin writing =>
         ProjectOf(r) \in raced \/ content[ProjectOf(r)] = Full(Record(r, owned[r])))'
  <2>1. ASSUME NEW r \in Pids \ {p}, HasProject(r), r \notin writing, ProjectOf(r) \notin raced
        PROVE  content'[ProjectOf(r)] = Full(Record(r, owned[r]))
    BY <2>1, <1>3, <1>4 DEF ProjectInv
  <2>2. QED
    BY <1>1, <1>2, <2>1 DEF Full, Record
<1>10. QED
  BY <1>5, <1>6, <1>7, <1>8, <1>9 DEF ProjectInv

LEMMA StepProject == TypeOK /\ DescriptorInv /\ ProjectInv /\ [Next]_vars => ProjectInv'
<1> SUFFICES ASSUME TypeOK, DescriptorInv, ProjectInv, [Next]_vars PROVE ProjectInv'
  OBVIOUS
<1>1. ASSUME NEW p \in Pids, Start(p) PROVE ProjectInv'
  BY <1>1, ProjectFrame DEF Start, Goto, localVars, fileVars, NearProject, HasProject, ProjectInv, TypeOK
<1>2. ASSUME NEW p \in Pids, OtherStarts(p) PROVE ProjectInv'
  BY <1>2, ProjectFrame DEF OtherStarts, Goto, localVars, fileVars, NearProject, HasProject, ProjectInv, TypeOK
<1>3. ASSUME NEW p \in Pids, OtherEnds(p) PROVE ProjectInv'
  BY <1>3, ProjectFrame DEF OtherEnds, Goto, localVars, fileVars, NearProject, HasProject, ProjectInv, TypeOK
<1>4. ASSUME NEW p \in Pids, Gone(p) PROVE ProjectInv'
  BY <1>4, ProjectFrame DEF Gone, CloseFile, Goto, localVars, fileVars, NearProject, HasProject, ProjectInv, TypeOK
<1>5. ASSUME NEW p \in Pids, Signal(p) PROVE ProjectInv'
  BY <1>5, ProjectFrame DEF Signal, Goto, localVars, fileVars, NearProject, HasProject, ProjectInv, TypeOK
<1>6. ASSUME NEW p \in Pids, AcquireLook(p) PROVE ProjectInv'
  <2>1. raced \subseteq raced'
    BY <1>6 DEF AcquireLook, NoteRace
  <2>2. /\ UNCHANGED <<flags, doomed, owned, writing, fd, content>> /\ doomed[p] = {}
        /\ \A q \in Pids \ {p} : pc'[q] = pc[q]
        /\ ~NearProject(p) /\ ~NearProject(p)'
    BY <1>6 DEF AcquireLook, Goto, localVars, fileVars, NearProject, HasProject, ProjectInv, TypeOK
  <2>3. \A q \in Pids \ {p} : (NearProject(q)' <=> NearProject(q)) /\ (HasProject(q)' <=> HasProject(q))
    BY <2>2 DEF NearProject, HasProject
  <2>4. \A q \in writing' : HasProject(q)'
    BY <2>2, <2>3 DEF TypeOK, NearProject
  <2>5. QED
    BY <2>1, <2>2, <2>3, <2>4, ProjectFrame
<1>7. ASSUME NEW p \in Pids, OpenLockFile(p) PROVE ProjectInv'
  <2>1. LockOf(p) \in Locks /\ p \in Bridges
    BY <1>7, PathsOfBridge DEF OpenLockFile, Goto, Bridges
  <2>2. \A f \in Projects : content'[f] = content[f]
    BY <1>7, <2>1, BridgeAssumption, FilesAssumption DEF OpenLockFile, Truncate, Goto, DescriptorInv, HasProject, TypeOK
  <2>3. \A q \in Pids : NearProject(q)' => fd'[q] = fd[q]
    <3>1. \A q \in Pids : NearProject(q) /\ fd[q] # NoPath => fd[q] \in Projects
      BY PathsOfBridge DEF DescriptorInv, NearProject, HasProject, Bridges
    <3>2. \A q \in Pids : NearProject(q)' => NearProject(q)
      BY <1>7 DEF OpenLockFile, Goto, NearProject, HasProject, TypeOK
    <3>3. QED
      BY <1>7, <2>1, <3>1, <3>2, BridgeAssumption, FilesAssumption DEF OpenLockFile, Truncate, Goto, NearProject, HasProject, TypeOK
  <2>4. /\ raced' = raced /\ doomed' = doomed /\ flags' = flags /\ owned' = owned /\ writing' = writing
        /\ doomed[p] = {} /\ \A q \in Pids \ {p} : pc'[q] = pc[q]
    BY <1>7 DEF OpenLockFile, Truncate, Goto, localVars, ProjectInv, TypeOK
  <2>5. \A q \in Pids : NearProject(q)' =>
          NearProject(q) /\ (HasProject(q)' <=> HasProject(q)) /\ (pc'[q] = "openFill" <=> pc[q] = "openFill")
    BY <1>7 DEF OpenLockFile, Goto, NearProject, HasProject, TypeOK
  <2>6. \A q \in writing' : HasProject(q)'
    BY <1>7 DEF OpenLockFile, Goto, localVars, HasProject, TypeOK
  <2>7. QED
    BY <2>2, <2>3, <2>4, <2>5, <2>6, ProjectFrame
<1>8. ASSUME NEW p \in Pids, WriteLockFile(p) PROVE ProjectInv'
  <2>1. LockOf(p) \in Locks /\ p \in Bridges
    BY <1>8, PathsOfBridge DEF WriteLockFile, Goto, Bridges
  <2>2. \A f \in Projects : content'[f] = content[f]
    BY <1>8, <2>1, BridgeAssumption, FilesAssumption DEF WriteLockFile, Fill, Goto, DescriptorInv, HasProject, TypeOK
  <2>3. \A q \in Pids : NearProject(q)' => fd'[q] = fd[q]
    <3>1. \A q \in Pids : NearProject(q) /\ fd[q] # NoPath => fd[q] \in Projects
      BY PathsOfBridge DEF DescriptorInv, NearProject, HasProject, Bridges
    <3>2. \A q \in Pids : NearProject(q)' => NearProject(q)
      BY <1>8 DEF WriteLockFile, Goto, NearProject, HasProject, TypeOK
    <3>3. QED
      BY <1>8, <2>1, <3>1, <3>2, BridgeAssumption, FilesAssumption DEF WriteLockFile, Fill, Goto, NearProject, HasProject, TypeOK
  <2>4. /\ raced' = raced /\ doomed' = doomed /\ flags' = flags /\ owned' = owned /\ writing' = writing
        /\ doomed[p] = {} /\ \A q \in Pids \ {p} : pc'[q] = pc[q]
    BY <1>8 DEF WriteLockFile, Fill, Goto, localVars, ProjectInv, TypeOK
  <2>5. \A q \in Pids : NearProject(q)' =>
          NearProject(q) /\ (HasProject(q)' <=> HasProject(q)) /\ (pc'[q] = "openFill" <=> pc[q] = "openFill")
    BY <1>8 DEF WriteLockFile, Goto, NearProject, HasProject, TypeOK
  <2>6. \A q \in writing' : HasProject(q)'
    BY <1>8 DEF WriteLockFile, Goto, localVars, HasProject, TypeOK
  <2>7. QED
    BY <2>2, <2>3, <2>4, <2>5, <2>6, ProjectFrame
<1>9. ASSUME NEW p \in Pids, NEW x \in Projects, SweepRead(p, x) PROVE ProjectInv'
  BY <1>9, ProjectAfterSweepRead
<1>10. ASSUME NEW p \in Pids, NEW x \in Projects, SweepRemove(p, x) PROVE ProjectInv'
  BY <1>10, ProjectAfterSweepRemove
<1>11. ASSUME NEW p \in Pids, SweepDone(p) PROVE ProjectInv'
  BY <1>11, ProjectFrame DEF SweepDone, Goto, localVars, fileVars, NearProject, HasProject, ProjectInv, TypeOK
<1>12. ASSUME NEW p \in Pids, OpenRead(p) PROVE ProjectInv'
  BY <1>12, ProjectAfterOpenRead
<1>13. ASSUME NEW p \in Pids, OpenSidecar(p) PROVE ProjectInv'
  <2>1. /\ NearProject(p) /\ NearProject(p)' /\ p \in Bridges
        /\ flags' = flags /\ doomed' = doomed /\ doomed[p] = {}
        /\ \A q \in Pids \ {p} : pc'[q] = pc[q] /\ owned'[q] = owned[q] /\ (q \in writing' <=> q \in writing)
    BY <1>13 DEF OpenSidecar, Truncate, Goto, localVars, NearProject, HasProject, Bridges, ProjectInv, TypeOK
  <2>2. ProjectOf(p) \in Projects /\ ProjectOf(p) \in Paths
    BY <2>1, PathsOfBridge, BridgeAssumption
  <2>3. raced \subseteq raced'
    BY <1>13 DEF OpenSidecar, Truncate, NoteRace
  <2>4. /\ fd'[p] = ProjectOf(p) /\ content'[ProjectOf(p)] = Empty
        /\ \A q \in Pids \ {p} : fd'[q] = fd[q]
        /\ \A f \in Projects \ {ProjectOf(p)} : content'[f] = content[f]
    BY <1>13, <2>2, BridgeAssumption DEF OpenSidecar, Truncate, TypeOK
  <2>5. HasProject(p)' => p \in writing'
    BY <1>13 DEF OpenSidecar, Truncate, Goto, HasProject, TypeOK
  <2>6. QED
    BY <2>1, <2>3, <2>4, <2>5, ProjectAfterWrite
<1>14. ASSUME NEW p \in Pids, WriteSidecar(p) PROVE ProjectInv'
  <2>1. /\ NearProject(p) /\ NearProject(p)' /\ p \in Bridges
        /\ flags' = flags /\ doomed' = doomed /\ doomed[p] = {}
        /\ \A q \in Pids \ {p} : pc'[q] = pc[q] /\ owned'[q] = owned[q] /\ (q \in writing' <=> q \in writing)
    BY <1>14 DEF WriteSidecar, Fill, localVars, Goto, localVars, NearProject, HasProject, Bridges, ProjectInv, TypeOK
  <2>2. ProjectOf(p) \in Projects /\ ProjectOf(p) \in Paths
    BY <2>1, PathsOfBridge, BridgeAssumption
  <2>3. raced \subseteq raced'
    BY <1>14 DEF WriteSidecar, Fill, localVars, NoteRace
  <2>4. fd[p] = NoPath \/ fd[p] = ProjectOf(p)
    BY <1>14, FilesApart DEF WriteSidecar, Goto
  <2>5. ProjectOf(p) \notin raced => fd[p] = ProjectOf(p) /\ content[fd[p]] = Empty
    BY <1>14 DEF WriteSidecar, Goto, ProjectInv
  <2>6. \A f \in Projects \ {ProjectOf(p)} : content'[f] = content[f]
    BY <1>14, <2>2, <2>4, BridgeAssumption, FilesAssumption DEF WriteSidecar, Fill, TypeOK
  <2>7. /\ \A q \in Pids \ {p} : fd'[q] = fd[q]
        /\ owned'[p] = owned[p] /\ pc'[p] # "openFill" /\ p \notin writing'
    BY <1>14 DEF WriteSidecar, Goto, localVars, Fill, HasProject, TypeOK
  <2>8. ProjectOf(p) \notin raced => content'[ProjectOf(p)] = Full(Record(p, owned[p]))
    BY <1>14, <2>2, <2>5, FilesAssumption DEF WriteSidecar, Fill, TypeOK
  <2>9. QED
    BY <2>1, <2>3, <2>6, <2>7, <2>8, ProjectAfterWrite DEF Full, Record
<1>15. ASSUME NEW p \in Pids, NoLaunch(p) PROVE ProjectInv'
  BY <1>15, ProjectFrame DEF NoLaunch, Goto, localVars, fileVars, NearProject, HasProject, ProjectInv, TypeOK
<1>16. ASSUME NEW p \in Pids, LaunchChrome(p) PROVE ProjectInv'
  BY <1>16, ProjectFrame DEF LaunchChrome, Goto, localVars, fileVars, NearProject, HasProject, ProjectInv, TypeOK
<1>17. ASSUME NEW p \in Pids, ChromeReady(p) PROVE ProjectInv'
  BY <1>17, ProjectFrame DEF ChromeReady, Goto, localVars, fileVars, NearProject, HasProject, ProjectInv, TypeOK
<1>18. ASSUME NEW p \in Pids, HttpStops(p) PROVE ProjectInv'
  BY <1>18, ProjectFrame DEF HttpStops, Goto, localVars, fileVars, NearProject, HasProject, ProjectInv, TypeOK
<1>19. ASSUME NEW p \in Pids, StopChrome(p) PROVE ProjectInv'
  BY <1>19, ProjectFrame DEF StopChrome, Goto, localVars, fileVars, NearProject, HasProject, ProjectInv, TypeOK
<1>20. ASSUME NEW p \in Pids, ReleaseLock(p) PROVE ProjectInv'
  <2>1. LockOf(p) \in Locks /\ p \in Bridges
    BY <1>20, PathsOfBridge DEF ReleaseLock, Goto, Bridges
  <2>2. \A f \in Projects : content'[f] = content[f]
    BY <1>20, <2>1, BridgeAssumption, FilesAssumption DEF ReleaseLock, Unlink, Goto, DescriptorInv, HasProject, TypeOK
  <2>3. \A q \in Pids : NearProject(q)' => fd'[q] = fd[q]
    <3>1. \A q \in Pids : NearProject(q) /\ fd[q] # NoPath => fd[q] \in Projects
      BY PathsOfBridge DEF DescriptorInv, NearProject, HasProject, Bridges
    <3>2. \A q \in Pids : NearProject(q)' => NearProject(q)
      BY <1>20 DEF ReleaseLock, Goto, NearProject, HasProject, TypeOK
    <3>3. QED
      BY <1>20, <2>1, <3>1, <3>2, BridgeAssumption, FilesAssumption DEF ReleaseLock, Unlink, Goto, NearProject, HasProject, TypeOK
  <2>4. /\ raced' = raced /\ doomed' = doomed /\ flags' = flags /\ owned' = owned /\ writing' = writing
        /\ doomed[p] = {} /\ \A q \in Pids \ {p} : pc'[q] = pc[q]
    BY <1>20 DEF ReleaseLock, Unlink, Goto, localVars, ProjectInv, TypeOK
  <2>5. \A q \in Pids : NearProject(q)' =>
          NearProject(q) /\ (HasProject(q)' <=> HasProject(q)) /\ (pc'[q] = "openFill" <=> pc[q] = "openFill")
    BY <1>20 DEF ReleaseLock, Goto, NearProject, HasProject, TypeOK
  <2>6. \A q \in writing' : HasProject(q)'
    BY <1>20 DEF ReleaseLock, Goto, localVars, HasProject, TypeOK
  <2>7. QED
    BY <2>2, <2>3, <2>4, <2>5, <2>6, ProjectFrame
<1>21. ASSUME NEW p \in Pids, NEW t \in Targets, Adopt(p, t) PROVE ProjectInv'
  <2>1. /\ NearProject(p) /\ NearProject(p)' /\ p \in Bridges
        /\ flags' = flags /\ doomed' = doomed /\ doomed[p] = {}
        /\ \A q \in Pids \ {p} : pc'[q] = pc[q] /\ owned'[q] = owned[q] /\ (q \in writing' <=> q \in writing)
    BY <1>21 DEF Adopt, BeginPersist, HasRequests, Truncate, Goto, localVars, NearProject, HasProject, Bridges, ProjectInv, TypeOK
  <2>2. ProjectOf(p) \in Projects /\ ProjectOf(p) \in Paths
    BY <2>1, PathsOfBridge, BridgeAssumption
  <2>3. raced \subseteq raced'
    BY <1>21 DEF Adopt, BeginPersist, HasRequests, Truncate, NoteRace
  <2>4. /\ fd'[p] = ProjectOf(p) /\ content'[ProjectOf(p)] = Empty
        /\ \A q \in Pids \ {p} : fd'[q] = fd[q]
        /\ \A f \in Projects \ {ProjectOf(p)} : content'[f] = content[f]
    BY <1>21, <2>2, BridgeAssumption DEF Adopt, BeginPersist, HasRequests, Truncate, TypeOK
  <2>5. HasProject(p)' => p \in writing'
    BY <1>21 DEF Adopt, BeginPersist, HasRequests, Truncate, Goto, HasProject, TypeOK
  <2>6. QED
    BY <2>1, <2>3, <2>4, <2>5, ProjectAfterWrite
<1>22. ASSUME NEW p \in Pids, NEW t \in Targets, Release(p, t) PROVE ProjectInv'
  <2>1. /\ NearProject(p) /\ NearProject(p)' /\ p \in Bridges
        /\ flags' = flags /\ doomed' = doomed /\ doomed[p] = {}
        /\ \A q \in Pids \ {p} : pc'[q] = pc[q] /\ owned'[q] = owned[q] /\ (q \in writing' <=> q \in writing)
    BY <1>22 DEF Release, BeginPersist, HasRequests, Truncate, Goto, localVars, NearProject, HasProject, Bridges, ProjectInv, TypeOK
  <2>2. ProjectOf(p) \in Projects /\ ProjectOf(p) \in Paths
    BY <2>1, PathsOfBridge, BridgeAssumption
  <2>3. raced \subseteq raced'
    BY <1>22 DEF Release, BeginPersist, HasRequests, Truncate, NoteRace
  <2>4. /\ fd'[p] = ProjectOf(p) /\ content'[ProjectOf(p)] = Empty
        /\ \A q \in Pids \ {p} : fd'[q] = fd[q]
        /\ \A f \in Projects \ {ProjectOf(p)} : content'[f] = content[f]
    BY <1>22, <2>2, BridgeAssumption DEF Release, BeginPersist, HasRequests, Truncate, TypeOK
  <2>5. HasProject(p)' => p \in writing'
    BY <1>22 DEF Release, BeginPersist, HasRequests, Truncate, Goto, HasProject, TypeOK
  <2>6. QED
    BY <2>1, <2>3, <2>4, <2>5, ProjectAfterWrite
<1>23. ASSUME NEW p \in Pids, EndPersist(p) PROVE ProjectInv'
  <2>1. /\ NearProject(p) /\ NearProject(p)' /\ p \in Bridges
        /\ flags' = flags /\ doomed' = doomed /\ doomed[p] = {}
        /\ \A q \in Pids \ {p} : pc'[q] = pc[q] /\ owned'[q] = owned[q] /\ (q \in writing' <=> q \in writing)
    BY <1>23 DEF EndPersist, Fill, localVars, Goto, localVars, NearProject, HasProject, Bridges, ProjectInv, TypeOK
  <2>2. ProjectOf(p) \in Projects /\ ProjectOf(p) \in Paths
    BY <2>1, PathsOfBridge, BridgeAssumption
  <2>3. raced \subseteq raced'
    BY <1>23 DEF EndPersist, Fill, localVars, NoteRace
  <2>4. fd[p] = NoPath \/ fd[p] = ProjectOf(p)
    BY <1>23, FilesApart DEF EndPersist, Goto
  <2>5. ProjectOf(p) \notin raced => fd[p] = ProjectOf(p) /\ content[fd[p]] = Empty
    BY <1>23 DEF EndPersist, Goto, ProjectInv
  <2>6. \A f \in Projects \ {ProjectOf(p)} : content'[f] = content[f]
    BY <1>23, <2>2, <2>4, BridgeAssumption, FilesAssumption DEF EndPersist, Fill, TypeOK
  <2>7. /\ \A q \in Pids \ {p} : fd'[q] = fd[q]
        /\ owned'[p] = owned[p] /\ pc'[p] # "openFill" /\ p \notin writing'
    BY <1>23 DEF EndPersist, Goto, localVars, Fill, HasProject, TypeOK
  <2>8. ProjectOf(p) \notin raced => content'[ProjectOf(p)] = Full(Record(p, owned[p]))
    BY <1>23, <2>2, <2>5, FilesAssumption DEF EndPersist, Fill, TypeOK
  <2>9. QED
    BY <2>1, <2>3, <2>6, <2>7, <2>8, ProjectAfterWrite DEF Full, Record
<1>24. ASSUME NEW p \in Pids, InputEnds(p) PROVE ProjectInv'
  BY <1>24, ProjectFrame DEF InputEnds, Goto, localVars, fileVars, NearProject, HasProject, ProjectInv, TypeOK
<1>25. CASE UNCHANGED vars
  BY <1>25, ProjectFrame DEF vars, Goto, localVars, fileVars, NearProject, HasProject, ProjectInv, TypeOK
<1>26. QED
  BY <1>1, <1>2, <1>3, <1>4, <1>5, <1>6, <1>7, <1>8, <1>9, <1>10, <1>11, <1>12, <1>13, <1>14, <1>15, <1>16, <1>17, <1>18, <1>19, <1>20, <1>21, <1>22, <1>23, <1>24, <1>25
  DEF Next, MainStep, Die, AcquireRefused, OpenRefused, ChromeFails, NextLineAfterSignal, Exit

-------------------------------------------------------------------------------
(* The theorems.                                                           *)

BridgeInv == TypeOK /\ DescriptorInv /\ LockInv /\ ProjectInv

LEMMA BridgeInvariant == Spec => []BridgeInv
<1>1. BridgeInit => BridgeInv
  BY InitTypes, InitDescriptor, InitLock, InitProject DEF BridgeInv
<1>2. BridgeInv /\ [Next]_vars => BridgeInv'
  BY StepTypes, StepDescriptor, StepLock, StepProject DEF BridgeInv
<1>3. QED
  BY <1>1, <1>2, PTL DEF Spec

(* Whatever processes start, end and take over a pid, every variable keeps *)
(* its type, and only a bridge that has its project saves it               *)
(* (main.go:37-204).                                                       *)
THEOREM BridgeTypes == Spec => []TypeOK
<1>1. BridgeInv => TypeOK
  BY DEF BridgeInv
<1>2. QED
  BY <1>1, BridgeInvariant, PTL

(* As long as no two Acquires of a lock path have overlapped, one bridge   *)
(* holds it, its file says so, and only a bridge that holds it has Chrome  *)
(* running (lock.go:25-43, main.go:67-72, 167-171).                        *)
THEOREM LockIsHeldByOne == Spec => []LockHeldByOne
<1>1. BridgeInv => LockHeldByOne
  <2> SUFFICES ASSUME BridgeInv, NEW p \in Pids, Holding(p) \/ p \in launched, LockOf(p) \notin raced
               PROVE  /\ Holding(p)
                      /\ content[LockOf(p)] = Full(Record(p, {}))
                      /\ \A q \in Pids \ {p} : Holding(q) => LockOf(q) # LockOf(p)
    BY DEF LockHeldByOne
  <2>1. Holding(p)
    BY DEF BridgeInv, LockInv, Holding, Past
  <2>2. \A q \in Pids : Holding(q) => NearLock(q)
    BY DEF Holding, NearLock
  <2>3. QED
    BY <2>1, <2>2 DEF BridgeInv, LockInv
<1>2. QED
  BY <1>1, BridgeInvariant, PTL

(* As long as no two processes were replacing a sidecar at the same time,  *)
(* one live bridge has the project (project.go:49-78, 172-188).            *)
THEOREM ProjectIsOneBridges == Spec => []ProjectHasOneBridge
<1>1. BridgeInv => ProjectHasOneBridge
  BY DEF BridgeInv, ProjectInv, ProjectHasOneBridge, NearProject
<1>2. QED
  BY <1>1, BridgeInvariant, PTL

(* Under the same condition the sidecar of a live bridge holds its pid and *)
(* the tabs it filters by, whatever the sweeps and starts of other bridges *)
(* do (project.go:84-111, 172-188, 203-224).                               *)
THEOREM SidecarIsMemory == Spec => []SidecarFollowsMemory
<1>1. BridgeInv => SidecarFollowsMemory
  BY DEF BridgeInv, ProjectInv, SidecarFollowsMemory
<1>2. QED
  BY <1>1, BridgeInvariant, PTL
===============================================================================
