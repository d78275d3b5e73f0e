--------------------------------- MODULE Bridge ---------------------------------
(***************************************************************************)
(* Several bridge processes that share lock files and project sidecars:    *)
(* cmd/netra-browser/main.go from its start to its exit, with              *)
(* internal/profile/lock.go, project.go and the life of a launched Chrome  *)
(* (launch.go).  A process is its pid; after it ends the system may give   *)
(* the pid to another bridge or to a program of another kind.              *)
(*                                                                         *)
(* A file is read and its owner looked up in one step: a change between    *)
(* the two is no different from one before the write that follows.  A      *)
(* command line gives --lock, --project and --listen; a generated project  *)
(* name may be one that is already in use.  Disk errors are left out.      *)
(***************************************************************************)
EXTENDS Files, Naturals

CONSTANTS
  Locks,      \* lock paths
  Projects,   \* project sidecars
  Targets,    \* Chrome's tabs
  CommandLines, \* the flags bridges are started with
  NoFlags,    \* the flags of a process that is no bridge
  MaxStarts   \* bound on how many bridges are started

ASSUME BridgeAssumption ==
  /\ Paths = Locks \cup Projects
  /\ Locks \cap Projects = {}
  /\ CommandLines \subseteq [lock : Locks, project : Projects, http : BOOLEAN]
  /\ NoFlags \notin CommandLines
  /\ MaxStarts \in Nat

VARIABLES
  pc,         \* where main is
  flags,      \* the command line
  signalled,  \* SIGINT or SIGTERM has cancelled main's context
  unread,     \* sidecars the sweep has still to read
  doomed,     \* sidecars the sweep has found stale and not yet removed
  owned,      \* Project.OwnedTargetIDs
  writing,    \* bridges with a request inside Project.persist
  launched,   \* bridges that have a launched Chrome to stop
  raced,      \* history: paths two processes were replacing at the same time
  starts      \* how many bridges were started

localVars == <<flags, signalled, unread, doomed, owned, writing, launched>>
vars == <<pc, flags, signalled, unread, doomed, owned, writing, launched,
          raced, starts, fileVars>>

LockOf(p)    == flags[p].lock
ProjectOf(p) == flags[p].project
Record(p, tabs) == [owner |-> p, tabs |-> tabs]

(* signal 0 reaches any process, also one of another user (EPERM).         *)
PidAlive(p) == pc[p] # "dead"
OwnerAlive(f) == Readable(f) /\ PidAlive(Value(f).owner)

Bridges == {p \in Pids : pc[p] \notin {"dead", "other"}}

(* The processes that have looked at f and have yet to change it.          *)
Replacing(f) ==
  {p \in Bridges : \/ pc[p] \in {"lock", "lockFill"} /\ f = LockOf(p)
                   \/ pc[p] \in {"openWrite", "openFill"} /\ f = ProjectOf(p)
                   \/ p \in writing /\ f = ProjectOf(p)
                   \/ f \in doomed[p]}

(* p begins to replace f.                                                  *)
NoteRace(p, f) ==
  raced' = IF Replacing(f) \subseteq {p} THEN raced ELSE raced \cup {f}

BridgeInit ==
  /\ FilesInit
  /\ pc = [p \in Pids |-> "dead"]
  /\ flags = [p \in Pids |-> NoFlags]
  /\ signalled = {}
  /\ unread = [p \in Pids |-> {}]
  /\ doomed = [p \in Pids |-> {}]
  /\ owned = [p \in Pids |-> {}]
  /\ writing = {}
  /\ launched = {}
  /\ raced = {}
  /\ starts = 0

Goto(p, from, to) ==
  /\ pc[p] = from
  /\ pc' = [pc EXCEPT ![p] = to]

-------------------------------------------------------------------------------
(* Processes come and go.                                                  *)

Start(p) ==
  /\ Goto(p, "dead", "acquire")
  /\ starts < MaxStarts
  /\ starts' = starts + 1
  /\ \E fl \in CommandLines : flags' = [flags EXCEPT ![p] = fl]
  /\ UNCHANGED <<signalled, unread, doomed, owned, writing, launched, raced, fileVars>>

(* The pid goes to a program that is no bridge, and comes back.            *)
OtherStarts(p) == Goto(p, "dead", "other") /\ UNCHANGED <<localVars, raced, starts, fileVars>>
OtherEnds(p)   == Goto(p, "other", "dead") /\ UNCHANGED <<localVars, raced, starts, fileVars>>

(* The process ends, whatever else it was doing.  A Chrome it launched and *)
(* did not stop has a process group of its own and runs on.                *)
Gone(p) ==
  /\ pc' = [pc EXCEPT ![p] = "dead"]
  /\ flags' = [flags EXCEPT ![p] = NoFlags]
  /\ signalled' = signalled \ {p}
  /\ unread' = [unread EXCEPT ![p] = {}]
  /\ doomed' = [doomed EXCEPT ![p] = {}]
  /\ owned' = [owned EXCEPT ![p] = {}]
  /\ writing' = writing \ {p}
  /\ launched' = launched \ {p}
  /\ CloseFile(p)
  /\ UNCHANGED <<raced, starts>>

(* SIGKILL, a crash, or os.Exit on an error: nothing that main deferred    *)
(* runs.  A second signal does no more than the first.                     *)
Die(p) == p \in Bridges /\ Gone(p)

(* The context is cancelled; nothing else happens by itself.               *)
Signal(p) ==
  /\ p \in Bridges
  /\ signalled' = signalled \cup {p}
  /\ UNCHANGED <<pc, flags, unread, doomed, owned, writing, launched, raced, starts, fileVars>>

-------------------------------------------------------------------------------
(* lock.go: Acquire.                                                       *)

AcquireRefused(p) ==
  /\ pc[p] = "acquire"
  /\ OwnerAlive(LockOf(p))
  /\ Gone(p)

(* Mutant: the owner found in the file is not looked up.                   *)
AcquireLookAny(p) ==
  /\ Goto(p, "acquire", "lock")
  /\ NoteRace(p, LockOf(p))
  /\ UNCHANGED <<localVars, starts, fileVars>>

AcquireLook(p) ==
  /\ Goto(p, "acquire", "lock")
  /\ ~OwnerAlive(LockOf(p))
  /\ NoteRace(p, LockOf(p))
  /\ UNCHANGED <<localVars, starts, fileVars>>

OpenLockFile(p) ==
  /\ Goto(p, "lock", "lockFill")
  /\ Truncate(p, LockOf(p))
  /\ UNCHANGED <<localVars, raced, starts>>

WriteLockFile(p) ==
  /\ Goto(p, "lockFill", "sweep")
  /\ Fill(p, Record(p, {}))
  /\ unread' = [unread EXCEPT ![p] = Projects]
  /\ UNCHANGED <<flags, signalled, doomed, owned, writing, launched, raced, starts>>

-------------------------------------------------------------------------------
(* project.go: SweepStaleProjects, then OpenProject.                       *)

(* Mutant: a sidecar is removed without a look at its owner.               *)
SweepReadAny(p, x) ==
  /\ pc[p] = "sweep"
  /\ x \in unread[p]
  /\ unread' = [unread EXCEPT ![p] = @ \ {x}]
  /\ IF Readable(x)
     THEN doomed' = [doomed EXCEPT ![p] = @ \cup {x}] /\ NoteRace(p, x)
     ELSE UNCHANGED <<doomed, raced>>
  /\ UNCHANGED <<pc, flags, signalled, owned, writing, launched, starts, fileVars>>

(* ListProjects reads every sidecar before any is removed; one that does   *)
(* not decode is left out.                                                 *)
SweepRead(p, x) ==
  /\ pc[p] = "sweep"
  /\ x \in unread[p]
  /\ unread' = [unread EXCEPT ![p] = @ \ {x}]
  /\ IF Readable(x) /\ ~OwnerAlive(x)
     THEN doomed' = [doomed EXCEPT ![p] = @ \cup {x}] /\ NoteRace(p, x)
     ELSE UNCHANGED <<doomed, raced>>
  /\ UNCHANGED <<pc, flags, signalled, owned, writing, launched, starts, fileVars>>

SweepRemove(p, x) ==
  /\ pc[p] = "sweep"
  /\ unread[p] = {}
  /\ x \in doomed[p]
  /\ Unlink(x)
  /\ doomed' = [doomed EXCEPT ![p] = @ \ {x}]
  /\ UNCHANGED <<pc, flags, signalled, unread, owned, writing, launched, raced, starts>>

SweepDone(p) ==
  /\ Goto(p, "sweep", "open")
  /\ unread[p] = {}
  /\ doomed[p] = {}
  /\ UNCHANGED <<localVars, raced, starts, fileVars>>

OpenRefused(p) ==
  /\ pc[p] = "open"
  /\ OwnerAlive(ProjectOf(p))
  /\ Value(ProjectOf(p)).owner # p
  /\ Gone(p)

(* A record whose owner is gone, or had this pid, is reused with its tabs. *)
OpenRead(p) ==
  /\ Goto(p, "open", "openWrite")
  /\ OwnerAlive(ProjectOf(p)) => Value(ProjectOf(p)).owner = p
  /\ owned' = [owned EXCEPT ![p] =
                 IF Readable(ProjectOf(p)) THEN Value(ProjectOf(p)).tabs ELSE {}]
  /\ NoteRace(p, ProjectOf(p))
  /\ UNCHANGED <<flags, signalled, unread, doomed, writing, launched, starts, fileVars>>

OpenSidecar(p) ==
  /\ Goto(p, "openWrite", "openFill")
  /\ Truncate(p, ProjectOf(p))
  /\ UNCHANGED <<localVars, raced, starts>>

WriteSidecar(p) ==
  /\ Goto(p, "openFill", "launch")
  /\ Fill(p, Record(p, owned[p]))
  /\ UNCHANGED <<localVars, raced, starts>>

-------------------------------------------------------------------------------
(* launch.go, and the choice to attach to a Chrome that already runs.      *)

NoLaunch(p) == Goto(p, "launch", "serve") /\ UNCHANGED <<localVars, raced, starts, fileVars>>

LaunchChrome(p) ==
  /\ Goto(p, "launch", "waitReady")
  /\ launched' = launched \cup {p}
  /\ UNCHANGED <<flags, signalled, unread, doomed, owned, writing, raced, starts, fileVars>>

(* A Chrome that does not come up is stopped, and main exits; a signal     *)
(* does not cut the wait short.                                            *)
ChromeReady(p) == Goto(p, "waitReady", "serve") /\ UNCHANGED <<localVars, raced, starts, fileVars>>
ChromeFails(p) == pc[p] = "waitReady" /\ Gone(p)

-------------------------------------------------------------------------------
(* Serving.  Over HTTP each request has its own goroutine, and main may    *)
(* return while one is still at work; Project.mu keeps two of them apart.  *)

HasRequests(p) ==
  \/ pc[p] = "serve"
  \/ pc[p] \in {"stopping", "releasing", "exiting"} /\ flags[p].http

BeginPersist(p) ==
  /\ HasRequests(p)
  /\ p \notin writing
  /\ writing' = writing \cup {p}
  /\ Truncate(p, ProjectOf(p))
  /\ NoteRace(p, ProjectOf(p))
  /\ UNCHANGED <<pc, flags, signalled, unread, doomed, launched, starts>>

(* Mutant: the new list is kept in memory only.                            *)
AdoptUnsaved(p, t) ==
  /\ HasRequests(p)
  /\ t \notin owned[p]
  /\ owned' = [owned EXCEPT ![p] = @ \cup {t}]
  /\ UNCHANGED <<pc, flags, signalled, unread, doomed, writing, launched, raced, starts, fileVars>>

Adopt(p, t) ==
  /\ t \notin owned[p]
  /\ owned' = [owned EXCEPT ![p] = @ \cup {t}]
  /\ BeginPersist(p)

Release(p, t) ==
  /\ owned' = [owned EXCEPT ![p] = @ \ {t}]
  /\ BeginPersist(p)

EndPersist(p) ==
  /\ p \in writing
  /\ Fill(p, Record(p, owned[p]))
  /\ writing' = writing \ {p}
  /\ UNCHANGED <<pc, flags, signalled, unread, doomed, owned, launched, raced, starts>>

-------------------------------------------------------------------------------
(* Shutdown.                                                               *)

(* Mutant: main waits for a request that is at work.                       *)
HttpStopsIdle(p) ==
  /\ Goto(p, "serve", "stopping")
  /\ flags[p].http
  /\ p \in signalled
  /\ p \notin writing
  /\ UNCHANGED <<localVars, raced, starts, fileVars>>

(* Shutdown makes ListenAndServe return at once, and main with it.         *)
HttpStops(p) ==
  /\ Goto(p, "serve", "stopping")
  /\ flags[p].http
  /\ p \in signalled
  /\ UNCHANGED <<localVars, raced, starts, fileVars>>

(* Serve returns at the end of its input, between two requests.            *)
InputEnds(p) ==
  /\ Goto(p, "serve", "stopping")
  /\ ~flags[p].http
  /\ p \notin writing
  /\ UNCHANGED <<localVars, raced, starts, fileVars>>

(* After a signal Serve blocks in its read until a line comes, and then    *)
(* returns the context's error: main calls os.Exit.                        *)
NextLineAfterSignal(p) ==
  /\ pc[p] = "serve"
  /\ ~flags[p].http
  /\ p \in signalled
  /\ p \notin writing
  /\ Gone(p)

(* The deferred calls, last first.                                         *)
StopChrome(p) ==
  /\ Goto(p, "stopping", "releasing")
  /\ launched' = launched \ {p}
  /\ UNCHANGED <<flags, signalled, unread, doomed, owned, writing, raced, starts, fileVars>>

ReleaseLock(p) ==
  /\ Goto(p, "releasing", "exiting")
  /\ Unlink(LockOf(p))
  /\ UNCHANGED <<localVars, raced, starts>>

Exit(p) == pc[p] = "exiting" /\ Gone(p)

-------------------------------------------------------------------------------
(* What a bridge does by itself once it is started.                        *)
MainStep(p) ==
  \/ AcquireRefused(p) \/ AcquireLook(p) \/ OpenLockFile(p) \/ WriteLockFile(p)
  \/ \E x \in Projects : SweepRead(p, x) \/ SweepRemove(p, x)
  \/ SweepDone(p) \/ OpenRefused(p) \/ OpenRead(p) \/ OpenSidecar(p) \/ WriteSidecar(p)
  \/ NoLaunch(p) \/ LaunchChrome(p) \/ ChromeReady(p) \/ ChromeFails(p)
  \/ HttpStops(p) \/ StopChrome(p) \/ ReleaseLock(p) \/ Exit(p)

Next ==
  \E p \in Pids :
    \/ Start(p) \/ OtherStarts(p) \/ OtherEnds(p) \/ Die(p) \/ Signal(p)
    \/ MainStep(p)
    \/ \E t \in Targets : Adopt(p, t) \/ Release(p, t)
    \/ EndPersist(p) \/ InputEnds(p) \/ NextLineAfterSignal(p)

Spec == BridgeInit /\ [][Next]_vars

(* A started process runs.  Nobody has to start one, call a tool, send a   *)
(* signal or end the input.                                                *)
FairSpec == Spec /\ \A p \in Pids : WF_vars(MainStep(p))

-------------------------------------------------------------------------------
Past == {"sweep", "open", "openWrite", "openFill", "launch", "waitReady", "serve",
         "stopping", "releasing"}

(* The bridges that have their lock, and those that have their project.    *)
Holding(p) == pc[p] \in Past
HasProject(p) ==
  pc[p] \in {"launch", "waitReady", "serve", "stopping", "releasing", "exiting"}

Contents ==
  {Absent, Empty, Garbled} \cup {Full(Record(p, s)) : p \in Pids, s \in SUBSET Targets}

TypeOK ==
  /\ content \in [Paths -> Contents]
  /\ fd \in [Pids -> Paths \cup {NoPath}]
  /\ pc \in [Pids -> Past \cup {"dead", "other", "acquire", "lock", "lockFill", "exiting"}]
  /\ flags \in [Pids -> CommandLines \cup {NoFlags}]
  /\ \A p \in Pids : p \in Bridges <=> flags[p] # NoFlags
  /\ signalled \subseteq Bridges
  /\ unread \in [Pids -> SUBSET Projects]
  /\ doomed \in [Pids -> SUBSET Projects]
  /\ owned \in [Pids -> SUBSET Targets]
  /\ writing \subseteq {p \in Pids : HasProject(p)}
  /\ launched \subseteq Bridges
  /\ raced \subseteq Paths
  /\ starts \in 0 .. MaxStarts

(* As long as no two Acquires of a lock path have overlapped, one bridge   *)
(* holds it, its file says so, and only a bridge that holds it has Chrome  *)
(* running - through crashes, restarts and pids that are used again        *)
(* (lock.go:25-43, main.go:67-72, 167-171).                                *)
LockHeldByOne ==
  \A p \in Pids : Holding(p) \/ p \in launched =>
    \/ LockOf(p) \in raced
    \/ /\ Holding(p)
       /\ content[LockOf(p)] = Full(Record(p, {}))
       /\ \A q \in Pids \ {p} : Holding(q) => LockOf(q) # LockOf(p)

(* As long as no two processes were replacing a sidecar at the same time,  *)
(* one live bridge has the project: a stale record is swept or reused, one *)
(* of a live bridge never (project.go:49-78, 172-188).                     *)
ProjectHasOneBridge ==
  \A p, q \in Pids :
    p # q /\ HasProject(p) /\ HasProject(q) /\ ProjectOf(p) = ProjectOf(q)
      => ProjectOf(p) \in raced

(* Under the same condition the sidecar of a live bridge is there, and its *)
(* tabs are those the bridge filters by, except while it is being written  *)
(* (project.go:84-111, 203-224).                                           *)
SidecarFollowsMemory ==
  \A p \in Pids :
    HasProject(p) /\ p \notin writing /\ ProjectOf(p) \notin raced
      => content[ProjectOf(p)] = Full(Record(p, owned[p]))

(* A signal ends a bridge that serves HTTP, also one that came during the  *)
(* start (main.go:64, 191-201).                                            *)
SignalEndsHttpBridge ==
  \A p \in Pids :
    (p \in signalled /\ flags[p] # NoFlags /\ flags[p].http) ~> p \notin signalled
===============================================================================
