--------------------------------- MODULE Stores ---------------------------------
(***************************************************************************)
(* Recipes and saved sessions: JSON files under ~/.config/netra-browser    *)
(* that every bridge of a user shares (profile/recipes.go, sessions.go),   *)
(* and the tools that write and read them (mcp/tools/recipes.go,           *)
(* sessions.go).  A process of Files is here one tool call, of any bridge. *)
(*                                                                         *)
(* A recipe file holds who recorded it (its created_at), the actions, and  *)
(* whether it was used (last_used_at).  A session file holds the calls     *)
(* that captured its cookies and its localStorage.  A step of a recipe     *)
(* names a tool the registry knows or not, and may need a variable.  A     *)
(* step that replays or records a recipe itself is left out, and so are    *)
(* disk errors.                                                            *)
(***************************************************************************)
EXTENDS Files, Naturals, SequencesExt

CONSTANTS
  RecipeFiles,   \* ~/.config/netra-browser/recipes/<name>.json
  SessionFiles,  \* ~/.config/netra-browser/sessions/<name>.json
  Vars,          \* variables a replay may be given
  NoVar,         \* "needs no variable"
  Bodies,        \* lists of actions agents record
  NoCall         \* "nothing captured"

Steps == [known : BOOLEAN, needs : Vars \cup {NoVar}]

ASSUME StoresAssumption ==
  /\ Paths = RecipeFiles \cup SessionFiles
  /\ RecipeFiles \cap SessionFiles = {}
  /\ NoVar \notin Vars
  /\ NoCall \notin Pids
  /\ Bodies \subseteq Seq(Steps) \ {<<>>}

VARIABLES
  pc,      \* where each call is
  path,    \* its file
  actions, \* the actions it records or replays
  given,   \* args.Env of a replay
  held,    \* the file's value as the call last read it
  ran,     \* the steps a replay has invoked
  applied, \* the cookies and the localStorage a load has put into Chrome
  result,  \* how the call ended
  latest,  \* history: who recorded each recipe last
  hurt     \* history: files two calls were at together, or that a crash cut

argVars == <<path, actions, given>>
histVars == <<latest, hurt>>
vars == <<pc, path, actions, given, held, ran, applied, result, latest, hurt, fileVars>>

Recipe(c, b, used) == [by |-> c, actions |-> b, used |-> used]
Session(c, l)      == [cookies |-> c, localStorage |-> l]
Nothing            == Session(NoCall, NoCall)

StoresInit ==
  /\ FilesInit
  /\ pc = [c \in Pids |-> "new"]
  /\ path = [c \in Pids |-> NoPath]
  /\ actions = [c \in Pids |-> <<>>]
  /\ given = [c \in Pids |-> {}]
  /\ held = [c \in Pids |-> Nothing]
  /\ ran = [c \in Pids |-> <<>>]
  /\ applied = [c \in Pids |-> Nothing]
  /\ result = [c \in Pids |-> "none"]
  /\ latest = [f \in RecipeFiles |-> NoCall]
  /\ hurt = {}

(* The calls that are writing f, have read it to write it, or have read    *)
(* half of what they take from it.                                         *)
Filling == {"recordFill", "touchFill", "cookiesFill", "storageFill"}
Busy(f) ==
  {c \in Pids : path[c] = f /\ pc[c] \in Filling \cup
     {"touchOpen", "capture", "storageOpen", "setCookies", "loadStorage"}}

Enter(c) ==
  hurt' = IF Busy(path[c]) \subseteq {c} THEN hurt ELSE hurt \cup {path[c]}

Goto(c, from, to) ==
  /\ pc[c] = from
  /\ pc' = [pc EXCEPT ![c] = to]

End(c, from, r) ==
  /\ Goto(c, from, "ended")
  /\ result' = [result EXCEPT ![c] = r]

-------------------------------------------------------------------------------
(* A request arrives.                                                      *)

Begin(c, to, f) ==
  /\ Goto(c, "new", to)
  /\ path' = [path EXCEPT ![c] = f]
  /\ UNCHANGED <<held, ran, applied, result, histVars, fileVars>>

BeginRecord(c, f, b) ==
  /\ Begin(c, "recordOpen", f)
  /\ actions' = [actions EXCEPT ![c] = b]
  /\ UNCHANGED given

BeginReplay(c, f, env) ==
  /\ Begin(c, "replayLoad", f)
  /\ given' = [given EXCEPT ![c] = env]
  /\ UNCHANGED actions

BeginSave(c, f) == Begin(c, "getCookies", f) /\ UNCHANGED <<actions, given>>
BeginLoad(c, f) == Begin(c, "loadCookies", f) /\ UNCHANGED <<actions, given>>

(* Its bridge dies, and leaves a file it was writing as it is.             *)
Die(c) ==
  /\ pc[c] \notin {"new", "ended"}
  /\ pc' = [pc EXCEPT ![c] = "ended"]
  /\ result' = [result EXCEPT ![c] = "died"]
  /\ hurt' = IF pc[c] \in Filling THEN hurt \cup {path[c]} ELSE hurt
  /\ CloseFile(c)
  /\ UNCHANGED <<argVars, held, ran, applied, latest>>

-------------------------------------------------------------------------------
(* task_record_recipe.                                                     *)

OpenRecord(c) ==
  /\ Goto(c, "recordOpen", "recordFill")
  /\ Truncate(c, path[c])
  /\ Enter(c)
  /\ UNCHANGED <<argVars, held, ran, applied, result, latest>>

FillRecord(c) ==
  /\ End(c, "recordFill", "ok")
  /\ Fill(c, Recipe(c, actions[c], FALSE))
  /\ latest' = [latest EXCEPT ![path[c]] = c]
  /\ UNCHANGED <<argVars, held, ran, applied, hurt>>

-------------------------------------------------------------------------------
(* task_replay_recipe.                                                     *)

LoadMissing(c) ==
  /\ End(c, "replayLoad", "failed")
  /\ ~Readable(path[c])
  /\ UNCHANGED <<argVars, held, ran, applied, histVars, fileVars>>

Load(c) ==
  /\ Goto(c, "replayLoad", "step")
  /\ Readable(path[c])
  /\ held' = [held EXCEPT ![c] = Value(path[c])]
  /\ actions' = [actions EXCEPT ![c] = Value(path[c]).actions]
  /\ UNCHANGED <<path, given, ran, applied, result, histVars, fileVars>>

NextStep(c) == actions[c][Len(ran[c]) + 1]
StepsLeft(c) == Len(ran[c]) < Len(actions[c])
HasVars(c) == NextStep(c).needs \in given[c] \cup {NoVar}

StepLacksVar(c) ==
  /\ End(c, "step", "missingVar")
  /\ StepsLeft(c)
  /\ ~HasVars(c)
  /\ UNCHANGED <<argVars, held, ran, applied, histVars, fileVars>>

StepUnknown(c) ==
  /\ End(c, "step", "stepFailed")
  /\ StepsLeft(c)
  /\ HasVars(c)
  /\ ~NextStep(c).known
  /\ UNCHANGED <<argVars, held, ran, applied, histVars, fileVars>>

(* Mutant: the loop reads its recipe again for every step.                 *)
InvokeReread(c) ==
  /\ pc[c] = "step"
  /\ StepsLeft(c)
  /\ HasVars(c)
  /\ NextStep(c).known
  /\ ran' = [ran EXCEPT ![c] = Append(@, NextStep(c))]
  /\ actions' = [actions EXCEPT ![c] = IF Readable(path[c]) THEN Value(path[c]).actions ELSE @]
  /\ UNCHANGED <<pc, path, given, held, applied, result, histVars, fileVars>>

(* A tool that answers ok:false has not failed for the loop.               *)
Invoke(c) ==
  /\ pc[c] = "step"
  /\ StepsLeft(c)
  /\ HasVars(c)
  /\ NextStep(c).known
  /\ ran' = [ran EXCEPT ![c] = Append(@, NextStep(c))]
  /\ UNCHANGED <<pc, argVars, held, applied, result, histVars, fileVars>>

(* The success marker is looked for, by a tool call at the most.           *)
StepsDone(c) ==
  /\ Goto(c, "step", "touchLoad")
  /\ ~StepsLeft(c)
  /\ UNCHANGED <<argVars, held, ran, applied, result, histVars, fileVars>>

(* Mutant: what is written back is the recipe as it was before the steps.  *)
TouchStale(c) ==
  /\ Goto(c, "touchLoad", "touchOpen")
  /\ Readable(path[c])
  /\ Enter(c)
  /\ UNCHANGED <<argVars, held, ran, applied, result, latest, fileVars>>

TouchLoad(c) ==
  /\ Goto(c, "touchLoad", "touchOpen")
  /\ Readable(path[c])
  /\ held' = [held EXCEPT ![c] = Value(path[c])]
  /\ Enter(c)
  /\ UNCHANGED <<argVars, ran, applied, result, latest, fileVars>>

(* An error of TouchRecipe is not the replay's.                            *)
TouchMissing(c) ==
  /\ End(c, "touchLoad", "ok")
  /\ ~Readable(path[c])
  /\ UNCHANGED <<argVars, held, ran, applied, histVars, fileVars>>

TouchOpen(c) ==
  /\ Goto(c, "touchOpen", "touchFill")
  /\ Truncate(c, path[c])
  /\ UNCHANGED <<argVars, held, ran, applied, result, histVars>>

TouchFill(c) ==
  /\ End(c, "touchFill", "ok")
  /\ Fill(c, [held[c] EXCEPT !.used = TRUE])
  /\ UNCHANGED <<argVars, held, ran, applied, histVars>>

-------------------------------------------------------------------------------
(* task_save_session: the cookies, and then the file again with the        *)
(* localStorage of the open tabs.                                          *)

CookiesFail(c) ==
  /\ End(c, "getCookies", "failed")
  /\ UNCHANGED <<argVars, held, ran, applied, histVars, fileVars>>

GetCookies(c) ==
  /\ Goto(c, "getCookies", "cookiesOpen")
  /\ UNCHANGED <<argVars, held, ran, applied, result, histVars, fileVars>>

CookiesOpen(c) ==
  /\ Goto(c, "cookiesOpen", "cookiesFill")
  /\ Truncate(c, path[c])
  /\ Enter(c)
  /\ UNCHANGED <<argVars, held, ran, applied, result, latest>>

CookiesFill(c) ==
  /\ Goto(c, "cookiesFill", "capture")
  /\ Fill(c, Session(c, NoCall))
  /\ UNCHANGED <<argVars, held, ran, applied, result, histVars>>

(* skip_local_storage, no tab has any, or Chrome does not tell; or the     *)
(* file just written does not read.                                        *)
NoStorage(c) ==
  /\ End(c, "capture", "ok")
  /\ UNCHANGED <<argVars, held, ran, applied, histVars, fileVars>>

(* Mutant: the localStorage is written without the cookies of the file.    *)
CaptureAlone(c) ==
  /\ Goto(c, "capture", "storageOpen")
  /\ Readable(path[c])
  /\ held' = [held EXCEPT ![c] = Session(NoCall, c)]
  /\ UNCHANGED <<argVars, ran, applied, result, histVars, fileVars>>

CaptureStorage(c) ==
  /\ Goto(c, "capture", "storageOpen")
  /\ Readable(path[c])
  /\ held' = [held EXCEPT ![c] = [Value(path[c]) EXCEPT !.localStorage = c]]
  /\ UNCHANGED <<argVars, ran, applied, result, histVars, fileVars>>

StorageOpen(c) ==
  /\ Goto(c, "storageOpen", "storageFill")
  /\ Truncate(c, path[c])
  /\ UNCHANGED <<argVars, held, ran, applied, result, histVars>>

StorageFill(c) ==
  /\ End(c, "storageFill", "ok")
  /\ Fill(c, held[c])
  /\ UNCHANGED <<argVars, held, ran, applied, histVars>>

-------------------------------------------------------------------------------
(* task_load_session: the file is read for its cookies, and again for its  *)
(* localStorage.                                                           *)

LoadCookiesMissing(c) ==
  /\ End(c, "loadCookies", "failed")
  /\ ~Readable(path[c])
  /\ UNCHANGED <<argVars, held, ran, applied, histVars, fileVars>>

LoadCookies(c) ==
  /\ Goto(c, "loadCookies", "setCookies")
  /\ Readable(path[c])
  /\ held' = [held EXCEPT ![c] = Value(path[c])]
  /\ UNCHANGED <<argVars, ran, applied, result, histVars, fileVars>>

SetCookies(c) ==
  /\ Goto(c, "setCookies", "loadStorage")
  /\ applied' = [applied EXCEPT ![c].cookies = held[c].cookies]
  /\ UNCHANGED <<argVars, held, ran, result, histVars, fileVars>>

SetCookiesFails(c) ==
  /\ End(c, "setCookies", "failed")
  /\ UNCHANGED <<argVars, held, ran, applied, histVars, fileVars>>

(* Any origin may fail, and a file that does not read has none.            *)
LoadStorage(c) ==
  /\ End(c, "loadStorage", "ok")
  /\ \E l \in {NoCall} \cup IF Readable(path[c]) THEN {Value(path[c]).localStorage} ELSE {} :
       applied' = [applied EXCEPT ![c].localStorage = l]
  /\ UNCHANGED <<argVars, held, ran, histVars, fileVars>>

-------------------------------------------------------------------------------
RecordStep(c) == OpenRecord(c) \/ FillRecord(c)
ReplayStep(c) ==
  \/ LoadMissing(c) \/ Load(c) \/ StepLacksVar(c) \/ StepUnknown(c) \/ Invoke(c)
  \/ StepsDone(c) \/ TouchLoad(c) \/ TouchMissing(c) \/ TouchOpen(c) \/ TouchFill(c)
SaveStep(c) ==
  \/ CookiesFail(c) \/ GetCookies(c) \/ CookiesOpen(c) \/ CookiesFill(c)
  \/ NoStorage(c) \/ CaptureStorage(c) \/ StorageOpen(c) \/ StorageFill(c)
LoadStep(c) ==
  LoadCookiesMissing(c) \/ LoadCookies(c) \/ SetCookies(c) \/ SetCookiesFails(c) \/ LoadStorage(c)

Next ==
  \E c \in Pids :
    \/ \E f \in RecipeFiles :
         \/ \E b \in Bodies : BeginRecord(c, f, b)
         \/ \E env \in SUBSET Vars : BeginReplay(c, f, env)
    \/ \E f \in SessionFiles : BeginSave(c, f) \/ BeginLoad(c, f)
    \/ RecordStep(c) \/ ReplayStep(c) \/ SaveStep(c) \/ LoadStep(c) \/ Die(c)

Spec == StoresInit /\ [][Next]_vars

-------------------------------------------------------------------------------
Recipes == [by : Pids, actions : Bodies, used : BOOLEAN]
Sessions == [cookies : Pids, localStorage : Pids \cup {NoCall}]
Applied == [cookies : Pids \cup {NoCall}, localStorage : Pids \cup {NoCall}]
Contents(V) == {Absent, Empty, Garbled} \cup [state : {"full"}, value : V]

Places == Filling \cup
  {"new", "recordOpen", "replayLoad", "step", "touchLoad", "touchOpen", "getCookies",
   "cookiesOpen", "capture", "storageOpen", "loadCookies", "setCookies", "loadStorage", "ended"}

(* Every file of a recipe holds a recipe or nothing that decodes, every    *)
(* file of a session a session, and a call writes to its own file only     *)
(* (profile/recipes.go:39-108, sessions.go:43-119).                        *)
TypeOK ==
  /\ content \in [Paths -> Contents(Recipes \cup Sessions)]
  /\ \A f \in RecipeFiles : content[f] \in Contents(Recipes)
  /\ \A f \in SessionFiles : content[f] \in Contents(Sessions)
  /\ fd \in [Pids -> Paths \cup {NoPath}]
  /\ pc \in [Pids -> Places]
  /\ path \in [Pids -> Paths \cup {NoPath}]
  /\ actions \in [Pids -> Bodies \cup {<<>>}]
  /\ given \in [Pids -> SUBSET Vars]
  /\ held \in [Pids -> Recipes \cup Sessions \cup {Nothing}]
  /\ ran \in [Pids -> Seq(Steps)]
  /\ applied \in [Pids -> Applied]
  /\ result \in [Pids -> {"none", "ok", "failed", "missingVar", "stepFailed", "died"}]
  /\ latest \in [RecipeFiles -> Pids \cup {NoCall}]
  /\ hurt \subseteq Paths
  /\ \A c \in Pids : fd[c] = IF pc[c] \in Filling THEN path[c] ELSE NoPath

(* Whoever records a recipe finds it in the file afterwards, whatever      *)
(* replays began before and end after: marking a recipe as used reads it   *)
(* again after the steps and puts back what is there then                  *)
(* (profile/recipes.go:99-108, mcp/tools/recipes.go:101).  That no other   *)
(* call is at the file while it is written, and that no crash cuts a       *)
(* write, is what nothing in the code ensures.                             *)
RecordingKept ==
  \A f \in RecipeFiles \ hurt :
    Busy(f) = {} /\ latest[f] # NoCall =>
      /\ Readable(f)
      /\ Value(f).by = latest[f]
      /\ Value(f).actions = actions[latest[f]]

(* What a replay invokes is one recording from its first step on, with     *)
(* every variable substituted and every tool known, whoever records the    *)
(* recipe anew or crashes meanwhile; and "ok" means all of its steps       *)
(* (mcp/tools/recipes.go:63-108).                                          *)
ReplayRunsOneRecording ==
  \A c \in Pids : ran[c] # <<>> =>
    /\ \E b \in Bodies : IsPrefix(ran[c], b) /\ (result[c] = "ok" => ran[c] = b)
    /\ \A i \in DOMAIN ran[c] : ran[c][i].known /\ ran[c][i].needs \in given[c] \cup {NoVar}

(* A session file holds the cookies and the localStorage of one save, and  *)
(* a load applies those of one save, although the one writes the file      *)
(* twice and the other reads it twice; but for files that two calls were   *)
(* at together or a crash cut (mcp/tools/sessions.go:31-44, 67-74).        *)
SessionIsOneSave ==
  /\ \A f \in SessionFiles \ hurt :
       Readable(f) => Value(f).localStorage \in {NoCall, Value(f).cookies}
  /\ \A c \in Pids : path[c] \notin hurt => applied[c].localStorage \in {NoCall, applied[c].cookies}
===============================================================================
