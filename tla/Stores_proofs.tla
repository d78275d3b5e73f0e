----------------------------- MODULE Stores_proofs -----------------------------
(***************************************************************************)
(* For any number of calls, files, variables and recordings: a recording   *)
(* is not undone by the replays around it, a replay runs one recording,    *)
(* and a session file, and what a load applies, is one save's.             *)
(***************************************************************************)
EXTENDS Stores, SequenceTheorems, TLAPS

(* What a call has at hand at each place.                                  *)
KindInv ==
  \A c \in Pids :
    /\ pc[c] \in {"recordOpen", "recordFill", "replayLoad", "step", "touchLoad", "touchOpen", "touchFill"}
         => path[c] \in RecipeFiles
    /\ pc[c] \in {"getCookies", "cookiesOpen", "cookiesFill", "capture", "storageOpen", "storageFill",
                  "loadCookies", "setCookies", "loadStorage"} => path[c] \in SessionFiles
    /\ pc[c] \in {"recordOpen", "recordFill", "step", "touchLoad", "touchOpen", "touchFill"} => actions[c] \in Bodies
    /\ pc[c] \in {"touchOpen", "touchFill"} => held[c] \in Recipes
    /\ pc[c] \in {"storageOpen", "storageFill", "setCookies"} => held[c] \in Sessions
    /\ pc[c] # "ended" => result[c] = "none"

Types == TypeOK /\ KindInv

(* v is the latest recording of f.                                         *)
Recorded(f, v) ==
  latest[f] # NoCall /\ v.by = latest[f] /\ v.actions = actions[latest[f]]

(* A recipe file that was not hurt has one call at it, is empty while that *)
(* call fills it, and otherwise holds the latest recording.                *)
RecipeFileInv(f) ==
  /\ latest[f] # NoCall => pc[latest[f]] = "ended"
  /\ f \notin hurt =>
       /\ \A c, d \in Busy(f) : c = d
       /\ \A c \in Busy(f) : IF pc[c] = "touchOpen" THEN Readable(f) ELSE content[f] = Empty
       /\ \A c \in Busy(f) : pc[c] # "recordFill" => Recorded(f, held[c])
       /\ Readable(f) => Recorded(f, Value(f))
       /\ Busy(f) = {} /\ latest[f] # NoCall => Readable(f)

RecipeInv == \A f \in RecipeFiles : RecipeFileInv(f)

Saving(f) ==
  {c \in Pids : path[c] = f /\ pc[c] \in {"cookiesFill", "capture", "storageOpen", "storageFill"}}
Loading(f) == {c \in Pids : path[c] = f /\ pc[c] \in {"setCookies", "loadStorage"}}

(* Whose cookies a load has read.                                          *)
Taken(c) == IF pc[c] = "setCookies" THEN held[c].cookies ELSE applied[c].cookies

(* A session file that was not hurt has one save at it, and a load that is *)
(* between its two reads has the cookies that are still there.             *)
SessionFileInv(f) ==
  f \notin hurt =>
    /\ \A c, d \in Saving(f) : c = d
    /\ \A c \in Saving(f) : IF pc[c] \in {"cookiesFill", "storageFill"} THEN content[f] = Empty
                            ELSE Readable(f) /\ Value(f).cookies = c
    /\ \A c \in Saving(f) : pc[c] \in {"storageOpen", "storageFill"} => held[c] = Session(c, c)
    /\ Readable(f) => Value(f).localStorage \in {NoCall, Value(f).cookies}
    /\ \A l \in Loading(f) : /\ Readable(f) => Value(f).cookies = Taken(l)
                             /\ \A c \in Saving(f) : pc[c] # "cookiesFill" /\ c = Taken(l)

(* What a load has applied so far.                                         *)
AppliedBy(c) ==
  /\ pc[c] \notin {"loadStorage", "ended"} => applied[c] = Nothing
  /\ pc[c] = "loadStorage" => applied[c].localStorage = NoCall
  /\ path[c] \notin hurt => applied[c].localStorage \in {NoCall, applied[c].cookies}

AppliedInv == \A c \in Pids : AppliedBy(c)

SessionInv == AppliedInv /\ \A f \in SessionFiles : SessionFileInv(f)

(* What a replay has run is a beginning of the actions it loaded.          *)
ReplayBy(c) ==
  /\ ran[c] # <<>> => actions[c] \in Bodies /\ pc[c] \in {"step", "touchLoad", "touchOpen", "touchFill", "ended"}
  /\ Len(ran[c]) <= Len(actions[c])
  /\ \A i \in 1..Len(ran[c]) :
       ran[c][i] = actions[c][i] /\ ran[c][i].known /\ ran[c][i].needs \in given[c] \cup {NoVar}
  /\ ran[c] # <<>> /\ (pc[c] \in {"touchLoad", "touchOpen", "touchFill"} \/ result[c] = "ok")
       => Len(ran[c]) = Len(actions[c])

ReplayInv == \A c \in Pids : ReplayBy(c)

-------------------------------------------------------------------------------
(* Types.                                                                  *)

ContentTyped ==
  /\ content \in [Paths -> Contents(Recipes \cup Sessions)]
  /\ \A f \in RecipeFiles : content[f] \in Contents(Recipes)
  /\ \A f \in SessionFiles : content[f] \in Contents(Sessions)

(* What a call writes is a recipe or a session, as its file is.            *)
FitsFile(c, v) ==
  /\ path[c] \in RecipeFiles => v \in Recipes
  /\ path[c] \in SessionFiles => v \in Sessions

LEMMA ContentsHolds ==
  ASSUME NEW V
  PROVE  /\ Absent \in Contents(V) /\ Empty \in Contents(V) /\ Garbled \in Contents(V)
         /\ \A v \in V : Full(v) \in Contents(V)
         /\ \A x \in Contents(V) : x.state = "full" => x.value \in V
  BY DEF Contents, Absent, Empty, Garbled, Full

LEMMA ContentsGrows ==
  Contents(Recipes) \cup Contents(Sessions) \subseteq Contents(Recipes \cup Sessions)
  BY DEF Contents

LEMMA ReadTypes ==
  ASSUME ContentTyped
  PROVE  /\ \A f \in RecipeFiles : Readable(f) => Value(f) \in Recipes
         /\ \A f \in SessionFiles : Readable(f) => Value(f) \in Sessions
  BY ContentsHolds DEF ContentTyped, Readable, Value

LEMMA TruncateTypes ==
  ASSUME ContentTyped, NEW c \in Pids, NEW f \in Paths, Truncate(c, f)
  PROVE  ContentTyped'
<1>1. Paths = RecipeFiles \cup SessionFiles
  BY StoresAssumption
<1>2. QED
  BY <1>1, ContentsHolds DEF ContentTyped, Truncate

LEMMA FillTypes ==
  ASSUME ContentTyped, NEW c \in Pids, NEW v, Fill(c, v), fd[c] = path[c], FitsFile(c, v),
         path[c] \in Paths
  PROVE  ContentTyped'
<1>1. path[c] # NoPath
  BY FilesAssumption
<1>2. PICK x \in {Full(v), Garbled} : content' = [content EXCEPT ![path[c]] = x]
  BY <1>1 DEF Fill
<1>3. /\ path[c] \in RecipeFiles => x \in Contents(Recipes)
      /\ path[c] \in SessionFiles => x \in Contents(Sessions)
  BY ContentsHolds DEF FitsFile
<1>4. x \in Contents(Recipes \cup Sessions)
  BY <1>3, ContentsGrows, StoresAssumption
<1>5. Paths = RecipeFiles \cup SessionFiles
  BY StoresAssumption
<1>6. QED
  BY <1>2, <1>3, <1>4, <1>5 DEF ContentTyped

(* The variables of the calls, without the files.                          *)
LocalTyped ==
  /\ fd \in [Pids -> Paths \cup {NoPath}]
  /\ pc \in [Pids -> Places]
  /\ path \in [Pids -> Paths \cup {NoPath}]
  /\ actions \in [Pids -> Bodies \cup {<<>>}]
  /\ given \in [Pids -> SUBSET Vars]
  /\ held \in [Pids -> Recipes \cup Sessions \cup {Nothing}]
  /\ ran \in [Pids -> Seq(Steps)]
  /\ applied \in [Pids -> Applied]
  /\ result \in [Pids -> {"none", "ok", "failed", "missingVar", "stepFailed", "died"}]
  /\ latest \in [RecipeFiles -> Pids \cup {NoCall}]
  /\ hurt \subseteq Paths
  /\ \A c \in Pids : fd[c] = IF pc[c] \in Filling THEN path[c] ELSE NoPath

LEMMA TypeParts == Types <=> ContentTyped /\ LocalTyped /\ KindInv
  BY DEF Types, TypeOK, ContentTyped, LocalTyped

LEMMA PathOfCall ==
  ASSUME Types, NEW c \in Pids, pc[c] \notin {"new", "ended"}
  PROVE  path[c] \in Paths
  BY StoresAssumption DEF Types, TypeOK, KindInv, Places, Filling

LEMMA InitTypes == StoresInit => Types
<1> SUFFICES ASSUME StoresInit PROVE Types
  OBVIOUS
<1> USE StoresAssumption DEF StoresInit, FilesInit
<1>1. ContentTyped
  BY ContentsHolds DEF ContentTyped
<1>2. LocalTyped
  BY DEF LocalTyped, Places, Filling, Applied, Nothing, Session
<1>3. KindInv
  BY DEF KindInv
<1>4. QED
  BY <1>1, <1>2, <1>3, TypeParts

LEMMA StepTypes == Types /\ [Next]_vars => Types'
<1> SUFFICES ASSUME Types, [Next]_vars PROVE Types'
  OBVIOUS
<1> USE StoresAssumption, FilesAssumption
<1>1. ASSUME NEW c \in Pids, NEW f \in RecipeFiles, NEW b \in Bodies, BeginRecord(c, f, b) PROVE Types'
  BY <1>1 DEF BeginRecord, Begin, Goto, End, argVars, histVars, fileVars, Types, TypeOK, KindInv, Places, Filling
<1>2. ASSUME NEW c \in Pids, NEW f \in RecipeFiles, NEW env \in SUBSET Vars, BeginReplay(c, f, env) PROVE Types'
  BY <1>2 DEF BeginReplay, Begin, Goto, End, argVars, histVars, fileVars, Types, TypeOK, KindInv, Places, Filling
<1>3. ASSUME NEW c \in Pids, NEW f \in SessionFiles, BeginSave(c, f) PROVE Types'
  BY <1>3 DEF BeginSave, Begin, Goto, End, argVars, histVars, fileVars, Types, TypeOK, KindInv, Places, Filling
<1>4. ASSUME NEW c \in Pids, NEW f \in SessionFiles, BeginLoad(c, f) PROVE Types'
  BY <1>4 DEF BeginLoad, Begin, Goto, End, argVars, histVars, fileVars, Types, TypeOK, KindInv, Places, Filling
<1>5. ASSUME NEW c \in Pids, Die(c) PROVE Types'
  BY <1>5, PathOfCall DEF Die, CloseFile, Goto, End, argVars, histVars, fileVars, Types, TypeOK, KindInv, Places, Filling
<1>6. ASSUME NEW c \in Pids, LoadMissing(c) PROVE Types'
  BY <1>6 DEF LoadMissing, Goto, End, argVars, histVars, fileVars, Types, TypeOK, KindInv, Places, Filling
<1>7. ASSUME NEW c \in Pids, Load(c) PROVE Types'
  <2>1. path[c] \in RecipeFiles /\ held'[c] \in Recipes /\ actions'[c] \in Bodies
    BY <1>7, TypeParts, ReadTypes DEF Load, Goto, KindInv, TypeOK, Types, Recipes
  <2>2. QED
    BY <1>7, <2>1 DEF Load, Goto, End, argVars, histVars, fileVars, Types, TypeOK, KindInv, Places, Filling
<1>8. ASSUME NEW c \in Pids, StepLacksVar(c) PROVE Types'
  BY <1>8 DEF StepLacksVar, Goto, End, argVars, histVars, fileVars, Types, TypeOK, KindInv, Places, Filling
<1>9. ASSUME NEW c \in Pids, StepUnknown(c) PROVE Types'
  BY <1>9 DEF StepUnknown, Goto, End, argVars, histVars, fileVars, Types, TypeOK, KindInv, Places, Filling
<1>10. ASSUME NEW c \in Pids, Invoke(c) PROVE Types'
  <2>1. actions[c] \in Bodies /\ actions[c] \in Seq(Steps)
    BY <1>10 DEF Invoke, Types, KindInv
  <2>2. ran[c] \in Seq(Steps) /\ NextStep(c) \in Steps
    BY <1>10, <2>1 DEF Invoke, NextStep, StepsLeft, Types, TypeOK
  <2>3. Append(ran[c], NextStep(c)) \in Seq(Steps)
    BY <2>2
  <2>4. QED
    BY <1>10, <2>3 DEF Invoke, Goto, End, argVars, histVars, fileVars, Types, TypeOK, KindInv, Places, Filling
<1>11. ASSUME NEW c \in Pids, StepsDone(c) PROVE Types'
  BY <1>11 DEF StepsDone, Goto, End, argVars, histVars, fileVars, Types, TypeOK, KindInv, Places, Filling
<1>12. ASSUME NEW c \in Pids, TouchLoad(c) PROVE Types'
  <2>1. path[c] \in RecipeFiles /\ Value(path[c]) \in Recipes
    BY <1>12, TypeParts, ReadTypes DEF TouchLoad, Goto, KindInv
  <2>2. QED
    BY <1>12, <2>1 DEF TouchLoad, Enter, Goto, End, argVars, histVars, fileVars, Types, TypeOK, KindInv, Places, Filling
<1>13. ASSUME NEW c \in Pids, TouchMissing(c) PROVE Types'
  BY <1>13 DEF TouchMissing, Goto, End, argVars, histVars, fileVars, Types, TypeOK, KindInv, Places, Filling
<1>14. ASSUME NEW c \in Pids, CookiesFail(c) PROVE Types'
  BY <1>14 DEF CookiesFail, Goto, End, argVars, histVars, fileVars, Types, TypeOK, KindInv, Places, Filling
<1>15. ASSUME NEW c \in Pids, GetCookies(c) PROVE Types'
  BY <1>15 DEF GetCookies, Goto, End, argVars, histVars, fileVars, Types, TypeOK, KindInv, Places, Filling
<1>16. ASSUME NEW c \in Pids, NoStorage(c) PROVE Types'
  BY <1>16 DEF NoStorage, Goto, End, argVars, histVars, fileVars, Types, TypeOK, KindInv, Places, Filling
<1>17. ASSUME NEW c \in Pids, CaptureStorage(c) PROVE Types'
  <2>1. path[c] \in SessionFiles /\ Value(path[c]) \in Sessions
    BY <1>17, TypeParts, ReadTypes DEF CaptureStorage, Goto, KindInv
  <2>2. [Value(path[c]) EXCEPT !.localStorage = c] \in Sessions
    BY <2>1 DEF Sessions
  <2>3. QED
    BY <1>17, <2>2 DEF CaptureStorage, Goto, End, argVars, histVars, fileVars, Types, TypeOK, KindInv, Places, Filling
<1>18. ASSUME NEW c \in Pids, LoadCookiesMissing(c) PROVE Types'
  BY <1>18 DEF LoadCookiesMissing, Goto, End, argVars, histVars, fileVars, Types, TypeOK, KindInv, Places, Filling
<1>19. ASSUME NEW c \in Pids, LoadCookies(c) PROVE Types'
  <2>1. path[c] \in SessionFiles /\ Value(path[c]) \in Sessions
    BY <1>19, TypeParts, ReadTypes DEF LoadCookies, Goto, KindInv
  <2>2. QED
    BY <1>19, <2>1 DEF LoadCookies, Goto, End, argVars, histVars, fileVars, Types, TypeOK, KindInv, Places, Filling
<1>20. ASSUME NEW c \in Pids, SetCookies(c) PROVE Types'
  <2>1. held[c].cookies \in Pids
    BY <1>20 DEF SetCookies, Goto, Types, KindInv, Sessions
  <2>2. [applied[c] EXCEPT !.cookies = held[c].cookies] \in Applied
    <3>1. applied[c] \in Applied
      BY DEF Types, TypeOK
    <3>2. QED
      BY <2>1, <3>1 DEF Applied
  <2>3. applied' \in [Pids -> Applied]
    BY <1>20, <2>2 DEF SetCookies, Types, TypeOK
  <2>4. QED
    BY <1>20, <2>3 DEF SetCookies, Goto, End, argVars, histVars, fileVars, Types, TypeOK, KindInv, Places, Filling
<1>21. ASSUME NEW c \in Pids, SetCookiesFails(c) PROVE Types'
  BY <1>21 DEF SetCookiesFails, Goto, End, argVars, histVars, fileVars, Types, TypeOK, KindInv, Places, Filling
<1>22. ASSUME NEW c \in Pids, LoadStorage(c) PROVE Types'
  <2>1. PICK l \in {NoCall} \cup (IF Readable(path[c]) THEN {Value(path[c]).localStorage} ELSE {}) :
          applied' = [applied EXCEPT ![c].localStorage = l]
    BY <1>22 DEF LoadStorage
  <2>2. path[c] \in SessionFiles
    BY <1>22 DEF LoadStorage, End, Goto, Types, KindInv
  <2>3. l \in Pids \cup {NoCall}
    BY <2>1, <2>2, TypeParts, ReadTypes DEF Sessions
  <2>4. [applied[c] EXCEPT !.localStorage = l] \in Applied
    <3>1. applied[c] \in Applied
      BY DEF Types, TypeOK
    <3>2. QED
      BY <2>3, <3>1 DEF Applied
  <2>5. applied' \in [Pids -> Applied]
    BY <2>1, <2>4 DEF Types, TypeOK
  <2>6. QED
    BY <1>22, <2>5 DEF LoadStorage, Goto, End, argVars, histVars, fileVars, Types, TypeOK, KindInv, Places, Filling
<1>23. ASSUME NEW c \in Pids, OpenRecord(c) PROVE Types'
  <2>1. path[c] \in Paths
    BY <1>23, PathOfCall DEF OpenRecord, Goto
  <2>2. ContentTyped'
    BY <1>23, <2>1, TypeParts, TruncateTypes DEF OpenRecord
  <2>3. LocalTyped'
    BY <1>23, <2>1, TypeParts DEF OpenRecord, Truncate, Enter, Goto, End, argVars, histVars, LocalTyped, Places, Filling
  <2>4. KindInv'
    BY <1>23, TypeParts DEF OpenRecord, KindInv, Goto, argVars, LocalTyped
  <2>5. QED
    BY <2>2, <2>3, <2>4 DEF Types, TypeOK, ContentTyped, LocalTyped
<1>24. ASSUME NEW c \in Pids, TouchOpen(c) PROVE Types'
  <2>1. path[c] \in Paths
    BY <1>24, PathOfCall DEF TouchOpen, Goto
  <2>2. ContentTyped'
    BY <1>24, <2>1, TypeParts, TruncateTypes DEF TouchOpen
  <2>3. LocalTyped'
    BY <1>24, <2>1, TypeParts DEF TouchOpen, Truncate, Goto, End, argVars, histVars, LocalTyped, Places, Filling
  <2>4. KindInv'
    BY <1>24, TypeParts DEF TouchOpen, KindInv, Goto, argVars, LocalTyped
  <2>5. QED
    BY <2>2, <2>3, <2>4 DEF Types, TypeOK, ContentTyped, LocalTyped
<1>25. ASSUME NEW c \in Pids, CookiesOpen(c) PROVE Types'
  <2>1. path[c] \in Paths
    BY <1>25, PathOfCall DEF CookiesOpen, Goto
  <2>2. ContentTyped'
    BY <1>25, <2>1, TypeParts, TruncateTypes DEF CookiesOpen
  <2>3. LocalTyped'
    BY <1>25, <2>1, TypeParts DEF CookiesOpen, Truncate, Enter, Goto, End, argVars, histVars, LocalTyped, Places, Filling
  <2>4. KindInv'
    BY <1>25, TypeParts DEF CookiesOpen, KindInv, Goto, argVars, LocalTyped
  <2>5. QED
    BY <2>2, <2>3, <2>4 DEF Types, TypeOK, ContentTyped, LocalTyped
<1>26. ASSUME NEW c \in Pids, StorageOpen(c) PROVE Types'
  <2>1. path[c] \in Paths
    BY <1>26, PathOfCall DEF StorageOpen, Goto
  <2>2. ContentTyped'
    BY <1>26, <2>1, TypeParts, TruncateTypes DEF StorageOpen
  <2>3. LocalTyped'
    BY <1>26, <2>1, TypeParts DEF StorageOpen, Truncate, Goto, End, argVars, histVars, LocalTyped, Places, Filling
  <2>4. KindInv'
    BY <1>26, TypeParts DEF StorageOpen, KindInv, Goto, argVars, LocalTyped
  <2>5. QED
    BY <2>2, <2>3, <2>4 DEF Types, TypeOK, ContentTyped, LocalTyped
<1>27. ASSUME NEW c \in Pids, FillRecord(c) PROVE Types'
  <2>1. path[c] \in Paths /\ fd[c] = path[c]
    BY <1>27, PathOfCall DEF FillRecord, End, Goto, Types, TypeOK, Filling
  <2>2. FitsFile(c, Recipe(c, actions[c], FALSE))
    BY <1>27 DEF FillRecord, End, Goto, Types, KindInv, FitsFile, Recipe, Session, Recipes, Sessions
  <2>3. Fill(c, Recipe(c, actions[c], FALSE))
    BY <1>27 DEF FillRecord
  <2>4. ContentTyped'
    BY <2>1, <2>2, <2>3, TypeParts, FillTypes
  <2>5. LocalTyped'
    BY <1>27, <2>1, TypeParts DEF FillRecord, Fill, Goto, End, argVars, histVars, LocalTyped, Places, Filling, KindInv
  <2>6. KindInv'
    BY <1>27, TypeParts DEF FillRecord, KindInv, Goto, End, argVars, LocalTyped
  <2>7. QED
    BY <2>4, <2>5, <2>6 DEF Types, TypeOK, ContentTyped, LocalTyped
<1>28. ASSUME NEW c \in Pids, TouchFill(c) PROVE Types'
  <2>1. path[c] \in Paths /\ fd[c] = path[c]
    BY <1>28, PathOfCall DEF TouchFill, End, Goto, Types, TypeOK, Filling
  <2>2. FitsFile(c, [held[c] EXCEPT !.used = TRUE])
    <3>1. held[c] \in Recipes /\ path[c] \in RecipeFiles
      BY <1>28 DEF TouchFill, End, Goto, Types, KindInv
    <3>2. [held[c] EXCEPT !.used = TRUE] \in Recipes
      BY <3>1 DEF Recipes
    <3>3. QED
      BY <3>1, <3>2, StoresAssumption DEF FitsFile
  <2>3. Fill(c, [held[c] EXCEPT !.used = TRUE])
    BY <1>28 DEF TouchFill
  <2>4. ContentTyped'
    BY <2>1, <2>2, <2>3, TypeParts, FillTypes
  <2>5. LocalTyped'
    BY <1>28, <2>1, TypeParts DEF TouchFill, Fill, Goto, End, argVars, histVars, LocalTyped, Places, Filling, KindInv
  <2>6. KindInv'
    BY <1>28, TypeParts DEF TouchFill, KindInv, Goto, End, argVars, LocalTyped
  <2>7. QED
    BY <2>4, <2>5, <2>6 DEF Types, TypeOK, ContentTyped, LocalTyped
<1>29. ASSUME NEW c \in Pids, CookiesFill(c) PROVE Types'
  <2>1. path[c] \in Paths /\ fd[c] = path[c]
    BY <1>29, PathOfCall DEF CookiesFill, End, Goto, Types, TypeOK, Filling
  <2>2. FitsFile(c, Session(c, NoCall))
    BY <1>29 DEF CookiesFill, End, Goto, Types, KindInv, FitsFile, Recipe, Session, Recipes, Sessions
  <2>3. Fill(c, Session(c, NoCall))
    BY <1>29 DEF CookiesFill
  <2>4. ContentTyped'
    BY <2>1, <2>2, <2>3, TypeParts, FillTypes
  <2>5. LocalTyped'
    BY <1>29, <2>1, TypeParts DEF CookiesFill, Fill, Goto, End, argVars, histVars, LocalTyped, Places, Filling, KindInv
  <2>6. KindInv'
    BY <1>29, TypeParts DEF CookiesFill, KindInv, Goto, End, argVars, LocalTyped
  <2>7. QED
    BY <2>4, <2>5, <2>6 DEF Types, TypeOK, ContentTyped, LocalTyped
<1>30. ASSUME NEW c \in Pids, StorageFill(c) PROVE Types'
  <2>1. path[c] \in Paths /\ fd[c] = path[c]
    BY <1>30, PathOfCall DEF StorageFill, End, Goto, Types, TypeOK, Filling
  <2>2. FitsFile(c, held[c])
    BY <1>30 DEF StorageFill, End, Goto, Types, KindInv, FitsFile, Recipe, Session, Recipes, Sessions
  <2>3. Fill(c, held[c])
    BY <1>30 DEF StorageFill
  <2>4. ContentTyped'
    BY <2>1, <2>2, <2>3, TypeParts, FillTypes
  <2>5. LocalTyped'
    BY <1>30, <2>1, TypeParts DEF StorageFill, Fill, Goto, End, argVars, histVars, LocalTyped, Places, Filling, KindInv
  <2>6. KindInv'
    BY <1>30, TypeParts DEF StorageFill, KindInv, Goto, End, argVars, LocalTyped
  <2>7. QED
    BY <2>4, <2>5, <2>6 DEF Types, TypeOK, ContentTyped, LocalTyped
<1>31. CASE UNCHANGED vars
  BY <1>31 DEF vars, Goto, End, argVars, histVars, fileVars, Types, TypeOK, KindInv, Places, Filling
<1>32. QED
  BY <1>1, <1>2, <1>3, <1>4, <1>5, <1>6, <1>7, <1>8, <1>9, <1>10, <1>11, <1>12, <1>13, <1>14, <1>15, <1>16, <1>17, <1>18, <1>19, <1>20, <1>21, <1>22, <1>23, <1>24, <1>25, <1>26, <1>27, <1>28, <1>29, <1>30, <1>31
  DEF Next, RecordStep, ReplayStep, SaveStep, LoadStep

-------------------------------------------------------------------------------
(* A step is one call's, and touches that call's file only.                   *)

Unmoved(d) ==
  /\ pc'[d] = pc[d] /\ path'[d] = path[d] /\ actions'[d] = actions[d] /\ given'[d] = given[d]
  /\ held'[d] = held[d] /\ ran'[d] = ran[d] /\ applied'[d] = applied[d] /\ result'[d] = result[d]

SameFile(f) ==
  /\ content'[f] = content[f]
  /\ f \in RecipeFiles => latest'[f] = latest[f]
  /\ f \in hurt' <=> f \in hurt

LocalTo(c) ==
  /\ pc[c] # "ended"
  /\ pc[c] = "new" => pc'[c] \in {"recordOpen", "replayLoad", "getCookies", "loadCookies"}
  /\ path'[c] = path[c] \/ pc[c] = "new"
  /\ \A d \in Pids \ {c} : Unmoved(d)
  /\ \A f \in Paths \ {path'[c]} : SameFile(f)
  /\ hurt \subseteq hurt'

CallStep(c) ==
  \/ \E f \in RecipeFiles :
       \/ \E b \in Bodies : BeginRecord(c, f, b)
       \/ \E env \in SUBSET Vars : BeginReplay(c, f, env)
  \/ \E f \in SessionFiles : BeginSave(c, f) \/ BeginLoad(c, f)
  \/ RecordStep(c) \/ ReplayStep(c) \/ SaveStep(c) \/ LoadStep(c) \/ Die(c)

LEMMA FillOwnFile ==
  ASSUME Types, NEW c \in Pids, NEW v, Fill(c, v), pc[c] \in Filling
  PROVE  \E x \in {Full(v), Garbled} :
           /\ content' = [content EXCEPT ![path[c]] = x]
           /\ content[path[c]] = Empty => x = Full(v)
<1>1. fd[c] = path[c] /\ path[c] # NoPath
  BY PathOfCall, FilesAssumption DEF Types, TypeOK, Filling
<1>2. QED
  BY <1>1 DEF Fill

LEMMA StepsAreLocal ==
  ASSUME Types, NEW c \in Pids, CallStep(c)
  PROVE  LocalTo(c)
<1> USE StoresAssumption, FilesAssumption DEF LocalTo, SameFile, Unmoved
<1>1. ASSUME NEW f \in RecipeFiles, NEW b \in Bodies, BeginRecord(c, f, b) PROVE LocalTo(c)
  BY <1>1 DEF BeginRecord, Begin, Goto, argVars, histVars, fileVars, Types, TypeOK
<1>2. ASSUME NEW f \in RecipeFiles, NEW env \in SUBSET Vars, BeginReplay(c, f, env) PROVE LocalTo(c)
  BY <1>2 DEF BeginReplay, Begin, Goto, argVars, histVars, fileVars, Types, TypeOK
<1>3. ASSUME NEW f \in SessionFiles, BeginSave(c, f) PROVE LocalTo(c)
  BY <1>3 DEF BeginSave, Begin, Goto, argVars, histVars, fileVars, Types, TypeOK
<1>4. ASSUME NEW f \in SessionFiles, BeginLoad(c, f) PROVE LocalTo(c)
  BY <1>4 DEF BeginLoad, Begin, Goto, argVars, histVars, fileVars, Types, TypeOK
<1>5. ASSUME Die(c) PROVE LocalTo(c)
  BY <1>5 DEF Die, CloseFile, argVars, histVars, fileVars, Types, TypeOK, Filling
<1>6. ASSUME OpenRecord(c) PROVE LocalTo(c)
  BY <1>6 DEF OpenRecord, Goto, Truncate, Enter, argVars, histVars, fileVars, Types, TypeOK
<1>7. ASSUME FillRecord(c) PROVE LocalTo(c)
  <2>1. fd[c] = path[c] /\ path[c] \in RecipeFiles
    BY <1>7 DEF FillRecord, End, Goto, Types, TypeOK, KindInv, Filling
  <2>2. Fill(c, Recipe(c, actions[c], FALSE)) /\ pc[c] \in Filling
    BY <1>7 DEF FillRecord, End, Goto, Filling
  <2>3. \A f \in Paths \ {path[c]} : content'[f] = content[f]
    <3>1. PICK x : content' = [content EXCEPT ![path[c]] = x]
      BY <2>2, FillOwnFile
    <3>2. QED
      BY <3>1 DEF Types, TypeOK
  <2>4. QED
    BY <1>7, <2>1, <2>3 DEF FillRecord, End, Goto, argVars, Types, TypeOK
<1>8. ASSUME LoadMissing(c) PROVE LocalTo(c)
  BY <1>8 DEF LoadMissing, End, Goto, argVars, histVars, fileVars, Types, TypeOK
<1>9. ASSUME Load(c) PROVE LocalTo(c)
  BY <1>9 DEF Load, Goto, argVars, histVars, fileVars, Types, TypeOK
<1>10. ASSUME StepLacksVar(c) PROVE LocalTo(c)
  BY <1>10 DEF StepLacksVar, End, Goto, argVars, histVars, fileVars, Types, TypeOK
<1>11. ASSUME StepUnknown(c) PROVE LocalTo(c)
  BY <1>11 DEF StepUnknown, End, Goto, argVars, histVars, fileVars, Types, TypeOK
<1>12. ASSUME Invoke(c) PROVE LocalTo(c)
  BY <1>12 DEF Invoke, argVars, histVars, fileVars, Types, TypeOK
<1>13. ASSUME StepsDone(c) PROVE LocalTo(c)
  BY <1>13 DEF StepsDone, Goto, argVars, histVars, fileVars, Types, TypeOK
<1>14. ASSUME TouchLoad(c) PROVE LocalTo(c)
  BY <1>14 DEF TouchLoad, Goto, Enter, argVars, histVars, fileVars, Types, TypeOK
<1>15. ASSUME TouchMissing(c) PROVE LocalTo(c)
  BY <1>15 DEF TouchMissing, End, Goto, argVars, histVars, fileVars, Types, TypeOK
<1>16. ASSUME TouchOpen(c) PROVE LocalTo(c)
  BY <1>16 DEF TouchOpen, Goto, Truncate, argVars, histVars, fileVars, Types, TypeOK
<1>17. ASSUME TouchFill(c) PROVE LocalTo(c)
  BY <1>17 DEF TouchFill, End, Goto, Fill, argVars, histVars, fileVars, Types, TypeOK, Filling
<1>18. ASSUME CookiesFail(c) PROVE LocalTo(c)
  BY <1>18 DEF CookiesFail, End, Goto, argVars, histVars, fileVars, Types, TypeOK
<1>19. ASSUME GetCookies(c) PROVE LocalTo(c)
  BY <1>19 DEF GetCookies, Goto, argVars, histVars, fileVars, Types, TypeOK
<1>20. ASSUME CookiesOpen(c) PROVE LocalTo(c)
  BY <1>20 DEF CookiesOpen, Goto, Truncate, Enter, argVars, histVars, fileVars, Types, TypeOK
<1>21. ASSUME CookiesFill(c) PROVE LocalTo(c)
  BY <1>21 DEF CookiesFill, Goto, Fill, argVars, histVars, fileVars, Types, TypeOK, Filling
<1>22. ASSUME NoStorage(c) PROVE LocalTo(c)
  BY <1>22 DEF NoStorage, End, Goto, argVars, histVars, fileVars, Types, TypeOK
<1>23. ASSUME CaptureStorage(c) PROVE LocalTo(c)
  BY <1>23 DEF CaptureStorage, Goto, argVars, histVars, fileVars, Types, TypeOK
<1>24. ASSUME StorageOpen(c) PROVE LocalTo(c)
  BY <1>24 DEF StorageOpen, Goto, Truncate, argVars, histVars, fileVars, Types, TypeOK
<1>25. ASSUME StorageFill(c) PROVE LocalTo(c)
  BY <1>25 DEF StorageFill, End, Goto, Fill, argVars, histVars, fileVars, Types, TypeOK, Filling
<1>26. ASSUME LoadCookiesMissing(c) PROVE LocalTo(c)
  BY <1>26 DEF LoadCookiesMissing, End, Goto, argVars, histVars, fileVars, Types, TypeOK
<1>27. ASSUME LoadCookies(c) PROVE LocalTo(c)
  BY <1>27 DEF LoadCookies, Goto, argVars, histVars, fileVars, Types, TypeOK
<1>28. ASSUME SetCookies(c) PROVE LocalTo(c)
  BY <1>28 DEF SetCookies, Goto, argVars, histVars, fileVars, Types, TypeOK
<1>29. ASSUME SetCookiesFails(c) PROVE LocalTo(c)
  BY <1>29 DEF SetCookiesFails, End, Goto, argVars, histVars, fileVars, Types, TypeOK
<1>30. ASSUME LoadStorage(c) PROVE LocalTo(c)
  BY <1>30 DEF LoadStorage, End, Goto, argVars, histVars, fileVars, Types, TypeOK
<1>31. QED
  BY <1>1, <1>2, <1>3, <1>4, <1>5, <1>6, <1>7, <1>8, <1>9, <1>10, <1>11, <1>12, <1>13, <1>14, <1>15, <1>16, <1>17, <1>18, <1>19, <1>20, <1>21, <1>22, <1>23, <1>24, <1>25, <1>26, <1>27, <1>28, <1>29, <1>30
  DEF CallStep, RecordStep, ReplayStep, SaveStep, LoadStep

-------------------------------------------------------------------------------
(* Recipes.                                                                *)

LEMMA BusyElsewhere ==
  ASSUME Types, NEW c \in Pids, LocalTo(c), NEW f \in Paths
  PROVE  /\ \A d \in Pids \ {c} : d \in Busy(f)' <=> d \in Busy(f)
         /\ path'[c] # f => c \notin Busy(f) /\ c \notin Busy(f)'
         /\ path[c] # path'[c] => c \notin Busy(f) /\ c \notin Busy(f)'
  BY DEF LocalTo, Unmoved, Busy, Filling

(* The recording that is the latest of a file stays as it is.              *)
LEMMA LatestStays ==
  ASSUME Types, RecipeInv, NEW c \in Pids, LocalTo(c), NEW f \in RecipeFiles, latest[f] # NoCall
  PROVE  latest[f] \in Pids \ {c} /\ pc'[latest[f]] = "ended" /\ actions'[latest[f]] = actions[latest[f]]
<1>1. latest[f] \in Pids /\ pc[latest[f]] = "ended"
  BY DEF Types, TypeOK, RecipeInv, RecipeFileInv
<1>2. QED
  BY <1>1 DEF LocalTo, Unmoved

(* A step that leaves the file alone, of a call that is not busy with it.  *)
LEMMA RecipeFrame ==
  ASSUME Types, RecipeInv, NEW c \in Pids, LocalTo(c), NEW f \in RecipeFiles, SameFile(f),
         c \notin Busy(f), c \notin Busy(f)'
  PROVE  RecipeFileInv(f)'
<1>1. Busy(f)' = Busy(f)
  BY BusyElsewhere, StoresAssumption DEF Busy
<1>2. \A d \in Busy(f) : pc'[d] = pc[d] /\ held'[d] = held[d]
  BY DEF LocalTo, Unmoved, Busy
<1>3. \A v : Recorded(f, v) => latest'[f] # NoCall /\ v.by = latest'[f] /\ v.actions = actions'[latest'[f]]
  BY LatestStays DEF Recorded, SameFile
<1>4. RecipeFileInv(f)
  BY DEF RecipeInv
<1>5. content'[f] = content[f] /\ latest'[f] = latest[f] /\ (f \in hurt' <=> f \in hurt)
  BY DEF SameFile
<1>6. latest[f] # NoCall => pc'[latest[f]] = "ended"
  BY LatestStays
<1>7. Recorded(f, Value(f)) => Recorded(f, Value(f))'
  BY <1>3, <1>5 DEF Recorded, Value
<1>8. \A d \in Busy(f) : Recorded(f, held[d]) => Recorded(f, held[d])'
  BY <1>2, <1>3 DEF Recorded
<1>9. Readable(f)' <=> Readable(f)
  BY <1>5 DEF Readable
<1>10. QED
  BY <1>1, <1>2, <1>4, <1>5, <1>6, <1>7, <1>8, <1>9 DEF RecipeFileInv

(* The calls that are busy with a recipe file are at one of three places.  *)
LEMMA BusyWithRecipe ==
  ASSUME Types, NEW f \in RecipeFiles, NEW d \in Busy(f)
  PROVE  d \in Pids /\ path[d] = f /\ pc[d] \in {"recordFill", "touchOpen", "touchFill"}
  BY StoresAssumption DEF Types, KindInv, Busy, Filling

(* Who is alone at a recipe file stays alone.                            *)
LEMMA StaysAlone ==
  ASSUME Types, NEW c \in Pids, LocalTo(c), NEW f \in Paths, Busy(f) \subseteq {c}
  PROVE  Busy(f)' \subseteq {c}
  BY BusyElsewhere DEF Busy

LEMMA RecipeAfterDie ==
  ASSUME Types, RecipeInv, NEW c \in Pids, LocalTo(c), Die(c), NEW f \in RecipeFiles, f = path[c]
  PROVE  RecipeFileInv(f)'
<1>1. /\ pc'[c] = "ended" /\ content' = content /\ latest' = latest
      /\ hurt' = IF pc[c] \in Filling THEN hurt \cup {f} ELSE hurt
  BY DEF Die, CloseFile, Types, TypeOK
<1>2. c \notin Busy(f)'
  BY <1>1 DEF Busy, Filling
<1>3. CASE c \notin Busy(f)
  BY <1>1, <1>2, <1>3, RecipeFrame DEF SameFile, Busy
<1>4. CASE c \in Busy(f)
  <2>1. latest'[f] # NoCall => pc'[latest'[f]] = "ended"
    BY <1>1, LatestStays
  <2>2. CASE f \in hurt'
    BY <2>1, <2>2 DEF RecipeFileInv
  <2>3. CASE f \notin hurt'
    <3>1. f \notin hurt /\ pc[c] = "touchOpen"
      BY <1>1, <1>4, <2>3, BusyWithRecipe DEF Filling
    <3>2. Busy(f) \subseteq {c}
      BY <1>4, <3>1 DEF RecipeInv, RecipeFileInv
    <3>3. Busy(f)' = {}
      BY <1>2, <3>2, StaysAlone, StoresAssumption
    <3>4. Readable(f) /\ Recorded(f, Value(f))
      BY <1>4, <3>1 DEF RecipeInv, RecipeFileInv
    <3>5. Readable(f)' /\ Recorded(f, Value(f))'
      BY <1>1, <3>4, LatestStays DEF Readable, Value, Recorded
    <3>6. QED
      BY <2>1, <3>3, <3>5 DEF RecipeFileInv
  <2>4. QED
    BY <2>2, <2>3
<1>5. QED
  BY <1>3, <1>4

(* A call that comes to the file when nobody is at it.                     *)
LEMMA RecipeAfterOpenRecord ==
  ASSUME Types, RecipeInv, NEW c \in Pids, LocalTo(c), OpenRecord(c), NEW f \in RecipeFiles, f = path[c]
  PROVE  RecipeFileInv(f)'
<1>1. /\ pc'[c] = "recordFill" /\ content'[f] = Empty /\ latest' = latest /\ pc[c] = "recordOpen"
      /\ hurt' = IF Busy(f) \subseteq {c} THEN hurt ELSE hurt \cup {f}
  BY StoresAssumption DEF OpenRecord, Goto, Truncate, Enter, Types, TypeOK
<1>2. latest'[f] # NoCall => pc'[latest'[f]] = "ended"
  BY <1>1, LatestStays
<1>3. ~Readable(f)'
  BY <1>1 DEF Readable, Empty
<1>4. ASSUME f \notin hurt' PROVE Busy(f)' = {c}
  <2>1. Busy(f) \subseteq {c}
    BY <1>1, <1>4
  <2>2. c \in Busy(f)'
    BY <1>1 DEF Busy, Filling, OpenRecord, argVars
  <2>3. QED
    BY <2>1, <2>2, StaysAlone, StoresAssumption
<1>5. QED
  BY <1>1, <1>2, <1>3, <1>4 DEF RecipeFileInv

LEMMA RecipeAfterTouchLoad ==
  ASSUME Types, RecipeInv, NEW c \in Pids, LocalTo(c), TouchLoad(c), NEW f \in RecipeFiles, f = path[c]
  PROVE  RecipeFileInv(f)'
<1>1. /\ pc[c] = "touchLoad" /\ pc'[c] = "touchOpen" /\ content' = content /\ latest' = latest
      /\ Readable(f) /\ held'[c] = Value(f)
      /\ hurt' = IF Busy(f) \subseteq {c} THEN hurt ELSE hurt \cup {f}
  BY DEF TouchLoad, Goto, Enter, Types, TypeOK, fileVars
<1>2. latest'[f] # NoCall => pc'[latest'[f]] = "ended"
  BY <1>1, LatestStays
<1>3. ASSUME f \notin hurt' PROVE Busy(f)' = {c} /\ f \notin hurt
  <2>1. Busy(f) \subseteq {c} /\ f \notin hurt
    BY <1>1, <1>3
  <2>2. c \in Busy(f)'
    BY <1>1 DEF Busy, Filling, TouchLoad, argVars
  <2>3. QED
    BY <2>1, <2>2, StaysAlone, StoresAssumption
<1>4. Readable(f)'
  BY <1>1 DEF Readable
<1>5. ASSUME f \notin hurt' PROVE Recorded(f, Value(f))' /\ Recorded(f, held[c])'
  <2>1. Recorded(f, Value(f))
    BY <1>1, <1>3, <1>5 DEF RecipeInv, RecipeFileInv
  <2>2. QED
    BY <1>1, <2>1, LatestStays DEF Recorded, Value
<1>6. QED
  BY <1>1, <1>2, <1>3, <1>4, <1>5 DEF RecipeFileInv

(* The call that is at the file goes on.                                   *)
LEMMA AtRecipe ==
  ASSUME Types, RecipeInv, NEW c \in Pids, LocalTo(c), NEW f \in RecipeFiles, f \notin hurt, c \in Busy(f)
  PROVE  Busy(f)' \subseteq {c}
<1>1. Busy(f) \subseteq {c}
  BY DEF RecipeInv, RecipeFileInv
<1>2. QED
  BY <1>1, StaysAlone, StoresAssumption

LEMMA RecipeAfterFillRecord ==
  ASSUME Types, RecipeInv, NEW c \in Pids, LocalTo(c), FillRecord(c), NEW f \in RecipeFiles, f = path[c]
  PROVE  RecipeFileInv(f)'
<1>1. /\ pc[c] = "recordFill" /\ pc'[c] = "ended" /\ latest'[f] = c /\ hurt' = hurt
      /\ actions' = actions
  BY DEF FillRecord, End, Goto, argVars, Types, TypeOK
<1>2. c \in Busy(f) /\ c \notin Busy(f)'
  BY <1>1 DEF Busy, Filling
<1>3. ASSUME f \notin hurt
      PROVE  Busy(f)' = {} /\ content'[f] = Full(Recipe(c, actions[c], FALSE))
  <2>1. content[f] = Empty
    BY <1>1, <1>2, <1>3 DEF RecipeInv, RecipeFileInv
  <2>2. Fill(c, Recipe(c, actions[c], FALSE)) /\ pc[c] \in Filling
    BY <1>1 DEF FillRecord, Filling
  <2>3. content' = [content EXCEPT ![f] = Full(Recipe(c, actions[c], FALSE))]
    BY <2>1, <2>2, FillOwnFile
  <2>4. content'[f] = Full(Recipe(c, actions[c], FALSE))
    BY <2>3, StoresAssumption DEF Types, TypeOK
  <2>5. QED
    BY <1>2, <1>3, <2>4, AtRecipe
<1>4. ASSUME f \notin hurt PROVE Readable(f)' /\ Recorded(f, Value(f))'
  BY <1>1, <1>3, <1>4, StoresAssumption DEF Readable, Value, Recorded, Full, Recipe
<1>5. QED
  BY <1>1, <1>3, <1>4 DEF RecipeFileInv

LEMMA RecipeAfterTouchOpen ==
  ASSUME Types, RecipeInv, NEW c \in Pids, LocalTo(c), TouchOpen(c), NEW f \in RecipeFiles, f = path[c]
  PROVE  RecipeFileInv(f)'
<1>1. /\ pc[c] = "touchOpen" /\ pc'[c] = "touchFill" /\ latest' = latest /\ hurt' = hurt
      /\ content'[f] = Empty /\ held' = held /\ path' = path
  BY StoresAssumption DEF TouchOpen, Goto, Truncate, argVars, histVars, Types, TypeOK
<1>2. c \in Busy(f) /\ c \in Busy(f)'
  BY <1>1 DEF Busy, Filling
<1>3. ASSUME f \notin hurt PROVE Busy(f)' = {c}
  BY <1>2, <1>3, AtRecipe
<1>4. ASSUME f \notin hurt PROVE Recorded(f, held[c])'
  <2>1. Recorded(f, held[c])
    BY <1>1, <1>2, <1>4 DEF RecipeInv, RecipeFileInv
  <2>2. QED
    BY <1>1, <2>1, LatestStays DEF Recorded
<1>5. latest'[f] # NoCall => pc'[latest'[f]] = "ended"
  BY <1>1, LatestStays
<1>6. ~Readable(f)'
  BY <1>1 DEF Readable, Empty
<1>7. QED
  BY <1>1, <1>3, <1>4, <1>5, <1>6 DEF RecipeFileInv

LEMMA FullValue == \A v : Full(v).state = "full" /\ Full(v).value = v
  BY DEF Full

LEMMA RecipeAfterTouchFill ==
  ASSUME Types, RecipeInv, NEW c \in Pids, LocalTo(c), TouchFill(c), NEW f \in RecipeFiles, f = path[c]
  PROVE  RecipeFileInv(f)'
<1> DEFINE v == [held[c] EXCEPT !.used = TRUE]
<1>1. /\ pc[c] = "touchFill" /\ pc'[c] = "ended" /\ latest' = latest /\ hurt' = hurt
  BY DEF TouchFill, End, Goto, histVars, Types, TypeOK
<1>2. c \in Busy(f) /\ c \notin Busy(f)'
  BY <1>1 DEF Busy, Filling
<1>3. latest'[f] # NoCall => pc'[latest'[f]] = "ended"
  BY <1>1, LatestStays
<1>4. ASSUME f \notin hurt PROVE Busy(f)' = {} /\ content'[f] = Full(v)
  <2>1. content[f] = Empty
    BY <1>1, <1>2, <1>4 DEF RecipeInv, RecipeFileInv
  <2>2. Fill(c, v) /\ pc[c] \in Filling
    BY <1>1 DEF TouchFill, Filling
  <2>3. content' = [content EXCEPT ![f] = Full(v)]
    BY <2>1, <2>2, FillOwnFile
  <2>4. content'[f] = Full(v)
    BY <2>3, StoresAssumption DEF Types, TypeOK
  <2>5. QED
    BY <1>2, <1>4, <2>4, AtRecipe
<1>5. ASSUME f \notin hurt PROVE Readable(f)' /\ Recorded(f, Value(f))'
  <2>1. Recorded(f, held[c])
    BY <1>1, <1>2, <1>5 DEF RecipeInv, RecipeFileInv
  <2>2. v.by = held[c].by /\ v.actions = held[c].actions
    BY <1>1 DEF Types, KindInv, Recipes
  <2>3. content'[f].state = "full" /\ content'[f].value = v
    BY <1>4, <1>5, FullValue
  <2>4. QED
    BY <1>1, <2>1, <2>2, <2>3, LatestStays DEF Readable, Value, Recorded
<1>6. QED
  BY <1>1, <1>3, <1>4, <1>5 DEF RecipeFileInv

(* The other steps of a replay read the file at the most.                  *)
RecipeRead(c) ==
  LoadMissing(c) \/ Load(c) \/ StepLacksVar(c) \/ StepUnknown(c) \/ Invoke(c) \/ StepsDone(c) \/ TouchMissing(c)

LEMMA RecipeReadIsQuiet ==
  ASSUME Types, NEW c \in Pids, RecipeRead(c), NEW f \in Paths
  PROVE  SameFile(f) /\ c \notin Busy(f) /\ c \notin Busy(f)'
  BY DEF RecipeRead, LoadMissing, Load, StepLacksVar, StepUnknown, Invoke, StepsDone, TouchMissing,
         End, Goto, argVars, histVars, fileVars, SameFile, Busy, Filling, Types, TypeOK

(* A call of a session, or one that begins, is not busy with a recipe.     *)
LEMMA SessionStepIsQuiet ==
  ASSUME Types, NEW c \in Pids, SaveStep(c) \/ LoadStep(c)
  PROVE  path[c] \in SessionFiles /\ path'[c] = path[c]
  BY DEF SaveStep, LoadStep, CookiesFail, GetCookies, CookiesOpen, CookiesFill, NoStorage, CaptureStorage,
         StorageOpen, StorageFill, LoadCookiesMissing, LoadCookies, SetCookies, SetCookiesFails, LoadStorage,
         End, Goto, argVars, Types, KindInv

LEMMA BeginIsQuiet ==
  ASSUME Types, NEW c \in Pids, NEW to, NEW g, Begin(c, to, g), NEW f \in Paths,
         to \in {"recordOpen", "replayLoad", "getCookies", "loadCookies"}
  PROVE  SameFile(f) /\ c \notin Busy(f) /\ c \notin Busy(f)'
  BY DEF Begin, Goto, histVars, fileVars, SameFile, Busy, Filling, Types, TypeOK

LEMMA InitRecipes == StoresInit => RecipeInv
  BY StoresAssumption DEF StoresInit, FilesInit, RecipeInv, RecipeFileInv, Busy, Filling, Readable, Absent

LEMMA StepRecipes == Types /\ RecipeInv /\ [Next]_vars => RecipeInv'
<1> SUFFICES ASSUME Types, RecipeInv, [Next]_vars, NEW f \in RecipeFiles PROVE RecipeFileInv(f)'
  BY DEF RecipeInv
<1>1. CASE UNCHANGED vars
  BY <1>1 DEF vars, argVars, histVars, fileVars, RecipeInv, RecipeFileInv, Busy, Readable, Value, Recorded
<1>2. ASSUME NEW c \in Pids, CallStep(c) PROVE RecipeFileInv(f)'
  <2>1. LocalTo(c) /\ f \in Paths
    BY <1>2, StepsAreLocal, StoresAssumption
  <2>2. CASE path'[c] # f
    BY <2>1, <2>2, BusyElsewhere, RecipeFrame DEF LocalTo
  <2>3. CASE \E to \in {"recordOpen", "replayLoad", "getCookies", "loadCookies"}, g \in Paths : Begin(c, to, g)
    BY <2>1, <2>3, BeginIsQuiet, RecipeFrame
  <2>4. CASE RecipeRead(c)
    BY <2>1, <2>4, RecipeReadIsQuiet, RecipeFrame
  <2>5. CASE SaveStep(c) \/ LoadStep(c)
    BY <2>1, <2>2, <2>5, SessionStepIsQuiet, StoresAssumption
  <2>6. ASSUME path'[c] = f, Die(c) \/ OpenRecord(c) \/ FillRecord(c) \/ TouchLoad(c) \/ TouchOpen(c) \/ TouchFill(c)
        PROVE  RecipeFileInv(f)'
    <3>1. f = path[c]
      BY <2>6 DEF Die, OpenRecord, FillRecord, TouchLoad, TouchOpen, TouchFill, argVars
    <3>2. QED
      BY <2>1, <2>6, <3>1, RecipeAfterDie, RecipeAfterOpenRecord, RecipeAfterFillRecord,
         RecipeAfterTouchLoad, RecipeAfterTouchOpen, RecipeAfterTouchFill
  <2>7. \/ \E to \in {"recordOpen", "replayLoad", "getCookies", "loadCookies"}, g \in Paths : Begin(c, to, g)
        \/ RecipeRead(c) \/ SaveStep(c) \/ LoadStep(c)
        \/ Die(c) \/ OpenRecord(c) \/ FillRecord(c) \/ TouchLoad(c) \/ TouchOpen(c) \/ TouchFill(c)
    BY <1>2, StoresAssumption
    DEF CallStep, BeginRecord, BeginReplay, BeginSave, BeginLoad, RecordStep, ReplayStep, RecipeRead
  <2>8. QED
    BY <2>2, <2>3, <2>4, <2>5, <2>6, <2>7
<1>3. QED
  BY <1>1, <1>2 DEF Next, CallStep

-------------------------------------------------------------------------------
(* Sessions.                                                               *)

LEMMA SessionElsewhere ==
  ASSUME Types, NEW c \in Pids, LocalTo(c), NEW f \in Paths
  PROVE  /\ \A d \in Pids \ {c} : /\ d \in Saving(f)' <=> d \in Saving(f)
                                  /\ d \in Loading(f)' <=> d \in Loading(f)
                                  /\ pc'[d] = pc[d] /\ held'[d] = held[d] /\ Taken(d)' = Taken(d)
         /\ Saving(f) \subseteq Pids /\ Loading(f) \subseteq Pids
         /\ Saving(f)' \subseteq Pids /\ Loading(f)' \subseteq Pids
         /\ path'[c] # f => c \notin Saving(f)' /\ c \notin Loading(f)'
  BY DEF LocalTo, Unmoved, Saving, Loading, Taken

(* A step that leaves the file alone and after which its call is neither   *)
(* saving nor loading.                                                     *)
LEMMA SessionFrame ==
  ASSUME Types, NEW c \in Pids, LocalTo(c), NEW f \in SessionFiles, SessionFileInv(f),
         f \notin hurt' => SameFile(f), c \notin Saving(f)', c \notin Loading(f)'
  PROVE  SessionFileInv(f)'
<1> SUFFICES ASSUME f \notin hurt' PROVE SessionFileInv(f)'
  BY DEF SessionFileInv
<1>1. /\ Saving(f)' \subseteq Saving(f) /\ Loading(f)' \subseteq Loading(f)
      /\ \A d \in Saving(f)' \cup Loading(f)' : pc'[d] = pc[d] /\ held'[d] = held[d] /\ Taken(d)' = Taken(d)
  BY SessionElsewhere, StoresAssumption
<1>2. f \notin hurt /\ content'[f] = content[f]
  BY DEF SameFile
<1>3. (Readable(f)' <=> Readable(f)) /\ Value(f)' = Value(f)
  BY <1>2 DEF Readable, Value
<1>4. QED
  BY <1>1, <1>2, <1>3 DEF SessionFileInv

LEMMA SessionAfterCookiesOpen ==
  ASSUME Types, NEW c \in Pids, LocalTo(c), NEW f \in SessionFiles, SessionFileInv(f), CookiesOpen(c), f = path[c]
  PROVE  SessionFileInv(f)'
<1> SUFFICES ASSUME f \notin hurt' PROVE SessionFileInv(f)'
  BY DEF SessionFileInv
<1>1. /\ pc'[c] = "cookiesFill" /\ path' = path /\ content'[f] = Empty /\ Busy(f) \subseteq {c}
      /\ pc[c] = "cookiesOpen"
  BY StoresAssumption DEF CookiesOpen, Goto, Truncate, Enter, argVars, Types, TypeOK
<1>2. Saving(f) \cup Loading(f) \subseteq Busy(f) \ {c}
  BY <1>1 DEF Saving, Loading, Busy, Filling
<1>3. Saving(f)' \subseteq {c} /\ Loading(f)' = {}
  BY <1>1, <1>2, SessionElsewhere, StoresAssumption DEF Loading
<1>4. ~Readable(f)'
  BY <1>1 DEF Readable, Empty
<1>5. QED
  BY <1>1, <1>3, <1>4 DEF SessionFileInv

LEMMA SessionAfterCookiesFill ==
  ASSUME Types, NEW c \in Pids, LocalTo(c), NEW f \in SessionFiles, SessionFileInv(f), CookiesFill(c), f = path[c]
  PROVE  SessionFileInv(f)'
<1> SUFFICES ASSUME f \notin hurt' PROVE SessionFileInv(f)'
  BY DEF SessionFileInv
<1>1. pc[c] = "cookiesFill" /\ pc'[c] = "capture" /\ path' = path /\ hurt' = hurt
  BY DEF CookiesFill, Goto, argVars, histVars, Types, TypeOK
<1>2. c \in Saving(f) /\ c \notin Loading(f)'
  BY <1>1 DEF Saving, Loading
<1>3. Saving(f)' \subseteq {c} /\ Loading(f)' = {} /\ content[f] = Empty
  BY <1>1, <1>2, SessionElsewhere, StoresAssumption DEF SessionFileInv
<1>4. Fill(c, Session(c, NoCall)) /\ pc[c] \in Filling
  BY <1>1 DEF CookiesFill, Filling
<1>5. content' = [content EXCEPT ![f] = Full(Session(c, NoCall))]
  BY <1>3, <1>4, FillOwnFile
<1>6. content'[f] = Full(Session(c, NoCall))
  BY <1>5, StoresAssumption DEF Types, TypeOK
<1>7. Readable(f)' /\ Value(f)' = Session(c, NoCall)
  BY <1>6, FullValue DEF Readable, Value
<1>8. QED
  BY <1>1, <1>3, <1>7 DEF SessionFileInv, Session

LEMMA SessionAfterCapture ==
  ASSUME Types, NEW c \in Pids, LocalTo(c), NEW f \in SessionFiles, SessionFileInv(f), CaptureStorage(c), f = path[c]
  PROVE  SessionFileInv(f)'
<1> SUFFICES ASSUME f \notin hurt' PROVE SessionFileInv(f)'
  BY DEF SessionFileInv
<1>1. /\ pc[c] = "capture" /\ pc'[c] = "storageOpen" /\ path' = path /\ hurt' = hurt /\ content' = content
      /\ held'[c] = [Value(f) EXCEPT !.localStorage = c]
  BY DEF CaptureStorage, Goto, argVars, histVars, fileVars, Types, TypeOK
<1>2. c \in Saving(f) /\ c \notin Loading(f)'
  BY <1>1 DEF Saving, Loading
<1>3. Saving(f) = {c} /\ Saving(f)' \subseteq {c} /\ Loading(f)' \subseteq Loading(f)
  BY <1>1, <1>2, SessionElsewhere, StoresAssumption DEF SessionFileInv
<1>4. Readable(f) /\ Value(f).cookies = c
  BY <1>1, <1>2 DEF SessionFileInv
<1>5. Value(f) \in Sessions
  BY <1>4, TypeParts, ReadTypes
<1>6. held'[c] = Session(c, c)
  BY <1>1, <1>4, <1>5 DEF Sessions, Session
<1>7. (Readable(f)' <=> Readable(f)) /\ Value(f)' = Value(f)
  BY <1>1 DEF Readable, Value
<1>8. \A l \in Loading(f)' : Taken(l)' = Taken(l)
  BY <1>2, SessionElsewhere, StoresAssumption
<1>9. QED
  BY <1>1, <1>2, <1>3, <1>4, <1>6, <1>7, <1>8 DEF SessionFileInv, Session

LEMMA SessionAfterStorageOpen ==
  ASSUME Types, NEW c \in Pids, LocalTo(c), NEW f \in SessionFiles, SessionFileInv(f), StorageOpen(c), f = path[c]
  PROVE  SessionFileInv(f)'
<1> SUFFICES ASSUME f \notin hurt' PROVE SessionFileInv(f)'
  BY DEF SessionFileInv
<1>1. /\ pc[c] = "storageOpen" /\ pc'[c] = "storageFill" /\ path' = path /\ hurt' = hurt /\ held' = held
      /\ content'[f] = Empty
  BY StoresAssumption DEF StorageOpen, Goto, Truncate, argVars, histVars, Types, TypeOK
<1>2. c \in Saving(f) /\ c \notin Loading(f)'
  BY <1>1 DEF Saving, Loading
<1>3. Saving(f) = {c} /\ Saving(f)' \subseteq {c} /\ Loading(f)' \subseteq Loading(f)
  BY <1>1, <1>2, SessionElsewhere, StoresAssumption DEF SessionFileInv
<1>4. held'[c] = Session(c, c)
  BY <1>1, <1>2 DEF SessionFileInv
<1>5. ~Readable(f)'
  BY <1>1 DEF Readable, Empty
<1>6. \A l \in Loading(f)' : c = Taken(l)'
  BY <1>1, <1>2, <1>3, SessionElsewhere, StoresAssumption DEF SessionFileInv
<1>7. QED
  BY <1>1, <1>3, <1>4, <1>5, <1>6 DEF SessionFileInv, Session

LEMMA SessionAfterStorageFill ==
  ASSUME Types, NEW c \in Pids, LocalTo(c), NEW f \in SessionFiles, SessionFileInv(f), StorageFill(c), f = path[c]
  PROVE  SessionFileInv(f)'
<1> SUFFICES ASSUME f \notin hurt' PROVE SessionFileInv(f)'
  BY DEF SessionFileInv
<1>1. pc[c] = "storageFill" /\ pc'[c] = "ended" /\ path' = path /\ hurt' = hurt
  BY DEF StorageFill, End, Goto, argVars, histVars, Types, TypeOK
<1>2. c \in Saving(f) /\ c \notin Loading(f)' /\ c \notin Saving(f)'
  BY <1>1 DEF Saving, Loading
<1>3. Saving(f)' = {} /\ Loading(f)' \subseteq Loading(f) /\ content[f] = Empty /\ held[c] = Session(c, c)
  BY <1>1, <1>2, SessionElsewhere, StoresAssumption DEF SessionFileInv
<1>4. Fill(c, held[c]) /\ pc[c] \in Filling
  BY <1>1 DEF StorageFill, Filling
<1>5. content' = [content EXCEPT ![f] = Full(held[c])]
  BY <1>3, <1>4, FillOwnFile
<1>6. content'[f] = Full(Session(c, c))
  BY <1>3, <1>5, StoresAssumption DEF Types, TypeOK
<1>7. Readable(f)' /\ Value(f)' = Session(c, c)
  BY <1>6, FullValue DEF Readable, Value
<1>8. \A l \in Loading(f)' : c = Taken(l)'
  BY <1>1, <1>2, <1>3, SessionElsewhere, StoresAssumption DEF SessionFileInv
<1>9. QED
  BY <1>3, <1>7, <1>8 DEF SessionFileInv, Session

(* A load takes what it found, and keeps it.                               *)
LEMMA SessionAfterLoading ==
  ASSUME Types, NEW c \in Pids, LocalTo(c), NEW f \in SessionFiles, SessionFileInv(f), f = path[c],
         LoadCookies(c) \/ SetCookies(c)
  PROVE  SessionFileInv(f)'
<1> SUFFICES ASSUME f \notin hurt' PROVE SessionFileInv(f)'
  BY DEF SessionFileInv
<1>1. /\ pc'[c] \in {"setCookies", "loadStorage"} /\ path' = path /\ hurt' = hurt /\ content' = content
  BY DEF LoadCookies, SetCookies, Goto, argVars, histVars, fileVars, Types, TypeOK
<1>2. (Readable(f)' <=> Readable(f)) /\ Value(f)' = Value(f)
  BY <1>1 DEF Readable, Value
<1>3. Saving(f)' = Saving(f) /\ c \notin Saving(f) /\ Loading(f)' \subseteq Loading(f) \cup {c}
  BY <1>1, SessionElsewhere, StoresAssumption DEF Saving, LoadCookies, SetCookies, Goto
<1>4. ASSUME LoadCookies(c)
      PROVE  /\ Readable(f) => Value(f).cookies = Taken(c)'
             /\ \A d \in Saving(f) : pc[d] # "cookiesFill" /\ d = Taken(c)'
  <2>1. Readable(f) /\ Taken(c)' = Value(f).cookies
    BY <1>4 DEF LoadCookies, Goto, Taken, Types, TypeOK
  <2>2. \A d \in Saving(f) : pc[d] \notin {"cookiesFill", "storageFill"}
    BY <1>1, <2>1 DEF SessionFileInv, Readable, Empty
  <2>3. QED
    BY <1>1, <2>1, <2>2 DEF SessionFileInv
<1>5. ASSUME SetCookies(c)
      PROVE  /\ Readable(f) => Value(f).cookies = Taken(c)'
             /\ \A d \in Saving(f) : pc[d] # "cookiesFill" /\ d = Taken(c)'
  <2>1. c \in Loading(f)
    BY <1>5 DEF SetCookies, Goto, Loading
  <2>2. applied[c] \in Applied
    BY DEF Types, TypeOK
  <2>3. applied'[c].cookies = held[c].cookies
    BY <1>5, <2>2 DEF SetCookies, Types, TypeOK, Applied
  <2>4. Taken(c)' = Taken(c)
    BY <1>5, <2>3 DEF SetCookies, Goto, Taken, Types, TypeOK
  <2>5. QED
    BY <1>1, <2>1, <2>4 DEF SessionFileInv
<1>6. \A d \in Saving(f) : pc'[d] = pc[d] /\ held'[d] = held[d]
  BY <1>3, SessionElsewhere, StoresAssumption
<1>7. \A l \in Loading(f)' \ {c} : Taken(l)' = Taken(l) /\ l \in Loading(f)
  BY SessionElsewhere, StoresAssumption
<1>8. \A l \in Loading(f)' : /\ Readable(f) => Value(f).cookies = Taken(l)'
                             /\ \A d \in Saving(f) : pc[d] # "cookiesFill" /\ d = Taken(l)'
  BY <1>1, <1>4, <1>5, <1>7 DEF SessionFileInv
<1>9. QED
  BY <1>1, <1>2, <1>3, <1>6, <1>8 DEF SessionFileInv

(* A step that applies nothing keeps it.                                   *)
LEMMA AppliedFrame ==
  ASSUME NEW c \in Pids, AppliedBy(c), LocalTo(c), applied'[c] = applied[c], pc'[c] # "loadStorage",
         pc[c] = "loadStorage" => pc'[c] = "ended"
  PROVE  AppliedBy(c)'
  BY DEF AppliedBy, LocalTo, Nothing, Session

(* The steps that apply nothing.                                           *)
LEMMA AppliesNothing ==
  ASSUME Types, NEW c \in Pids, CallStep(c), ~SetCookies(c), ~LoadStorage(c)
  PROVE  applied'[c] = applied[c] /\ pc'[c] # "loadStorage" /\ (pc[c] = "loadStorage" => pc'[c] = "ended")
<1> USE DEF Types, TypeOK
<1>1. CASE \E to \in {"recordOpen", "replayLoad", "getCookies", "loadCookies"}, g \in Paths : Begin(c, to, g)
  BY <1>1 DEF Begin, Goto
<1>2. CASE RecipeRead(c)
  BY <1>2 DEF RecipeRead, LoadMissing, Load, StepLacksVar, StepUnknown, Invoke, StepsDone, TouchMissing, End, Goto
<1>3. CASE RecordStep(c) \/ TouchLoad(c) \/ TouchOpen(c) \/ TouchFill(c)
  BY <1>3 DEF RecordStep, OpenRecord, FillRecord, TouchLoad, TouchOpen, TouchFill, End, Goto
<1>4. CASE SaveStep(c)
  BY <1>4 DEF SaveStep, CookiesFail, GetCookies, CookiesOpen, CookiesFill, NoStorage, CaptureStorage,
     StorageOpen, StorageFill, End, Goto
<1>5. CASE LoadCookiesMissing(c) \/ LoadCookies(c) \/ SetCookiesFails(c)
  BY <1>5 DEF LoadCookiesMissing, LoadCookies, SetCookiesFails, End, Goto
<1>6. CASE Die(c)
  BY <1>6 DEF Die
<1>7. QED
  BY <1>1, <1>2, <1>3, <1>4, <1>5, <1>6, StoresAssumption
  DEF CallStep, BeginRecord, BeginReplay, BeginSave, BeginLoad, ReplayStep, LoadStep, RecipeRead

LEMMA StepApplied ==
  ASSUME Types, SessionInv, NEW c \in Pids, CallStep(c)
  PROVE  AppliedInv'
<1>1. LocalTo(c) /\ \A d \in Pids : AppliedBy(d)
  BY StepsAreLocal DEF SessionInv, AppliedInv
<1>2. ASSUME NEW d \in Pids \ {c} PROVE AppliedBy(d)'
  BY <1>1 DEF AppliedBy, LocalTo, Unmoved, Nothing, Session
<1>3. AppliedBy(c)'
  <2>1. CASE ~SetCookies(c) /\ ~LoadStorage(c)
    BY <1>1, <2>1, AppliesNothing, AppliedFrame
  <2>2. CASE SetCookies(c)
    <3>1. pc[c] = "setCookies" /\ pc'[c] = "loadStorage" /\ applied[c] = Nothing
      BY <1>1, <2>2 DEF SetCookies, Goto, Types, TypeOK, AppliedBy
    <3>2. applied'[c].localStorage = NoCall
      BY <2>2, <3>1 DEF SetCookies, Nothing, Session, Types, TypeOK
    <3>3. QED
      BY <3>1, <3>2 DEF AppliedBy
  <2>3. CASE LoadStorage(c)
    <3>1. PICK l \in {NoCall} \cup (IF Readable(path[c]) THEN {Value(path[c]).localStorage} ELSE {}) :
            applied' = [applied EXCEPT ![c].localStorage = l]
      BY <2>3 DEF LoadStorage
    <3>2. /\ pc[c] = "loadStorage" /\ pc'[c] = "ended" /\ path'[c] = path[c] /\ hurt' = hurt
          /\ path[c] \in SessionFiles
      BY <2>3 DEF LoadStorage, End, Goto, argVars, histVars, Types, TypeOK, KindInv
    <3>3. applied'[c].localStorage = l /\ applied'[c].cookies = applied[c].cookies
      <4>1. applied[c] \in Applied
        BY DEF Types, TypeOK
      <4>2. QED
        BY <3>1, <4>1 DEF Applied, Types, TypeOK
    <3>4. ASSUME path[c] \notin hurt PROVE l \in {NoCall, applied[c].cookies}
      <4>1. c \in Loading(path[c]) /\ Taken(c) = applied[c].cookies
        BY <3>2 DEF Loading, Taken
      <4>2. SessionFileInv(path[c])
        BY <3>2 DEF SessionInv
      <4>3. Readable(path[c]) => Value(path[c]).localStorage \in {NoCall, applied[c].cookies}
        BY <3>4, <4>1, <4>2 DEF SessionFileInv
      <4>4. QED
        BY <3>1, <4>3
    <3>5. QED
      BY <3>2, <3>3, <3>4 DEF AppliedBy
  <2>4. QED
    BY <2>1, <2>2, <2>3
<1>4. QED
  BY <1>2, <1>3 DEF AppliedBy, AppliedInv

LEMMA InitSessions == StoresInit => SessionInv
  BY StoresAssumption DEF StoresInit, FilesInit, SessionInv, SessionFileInv, AppliedInv, AppliedBy, Saving, Loading, Readable,
     Absent, Nothing, Session

(* After these steps their call is neither saving nor loading, and they    *)
(* leave a session file as it is, or hurt it.                              *)
LEMMA LeavesSession ==
  ASSUME Types, NEW c \in Pids, NEW f \in SessionFiles, path'[c] = f,
         \/ Die(c) \/ CookiesFail(c) \/ GetCookies(c) \/ NoStorage(c) \/ LoadCookiesMissing(c)
         \/ SetCookiesFails(c) \/ LoadStorage(c)
         \/ \E to \in {"recordOpen", "replayLoad", "getCookies", "loadCookies"}, g \in Paths : Begin(c, to, g)
  PROVE  (f \notin hurt' => SameFile(f)) /\ c \notin Saving(f)' /\ c \notin Loading(f)'
<1> USE StoresAssumption DEF SameFile, Saving, Loading, Types, TypeOK
<1>1. CASE Die(c)
  BY <1>1 DEF Die, CloseFile, argVars
<1>2. CASE CookiesFail(c) \/ GetCookies(c) \/ NoStorage(c) \/ LoadCookiesMissing(c) \/ SetCookiesFails(c) \/ LoadStorage(c)
  BY <1>2 DEF CookiesFail, GetCookies, NoStorage, LoadCookiesMissing, SetCookiesFails, LoadStorage, End, Goto,
     histVars, fileVars
<1>3. CASE \E to \in {"recordOpen", "replayLoad", "getCookies", "loadCookies"}, g \in Paths : Begin(c, to, g)
  BY <1>3 DEF Begin, Goto, histVars, fileVars
<1>4. QED
  BY <1>1, <1>2, <1>3

LEMMA RecipeStepIsElsewhere ==
  ASSUME Types, NEW c \in Pids, RecordStep(c) \/ ReplayStep(c)
  PROVE  path'[c] \in RecipeFiles
  BY DEF RecordStep, OpenRecord, FillRecord, ReplayStep, LoadMissing, Load, StepLacksVar, StepUnknown, Invoke,
     StepsDone, TouchMissing, TouchLoad, TouchOpen, TouchFill, End, Goto, argVars, Types, KindInv

LEMMA StepSessions == Types /\ SessionInv /\ [Next]_vars => SessionInv'
<1> SUFFICES ASSUME Types, SessionInv, [Next]_vars PROVE SessionInv'
  OBVIOUS
<1>1. CASE UNCHANGED vars
  BY <1>1 DEF vars, argVars, histVars, fileVars, SessionInv, SessionFileInv, AppliedInv, AppliedBy, Saving, Loading, Taken,
     Readable, Value
<1>2. ASSUME NEW c \in Pids, CallStep(c), NEW f \in SessionFiles PROVE SessionFileInv(f)'
  <2>1. LocalTo(c) /\ f \in Paths /\ SessionFileInv(f)
    BY <1>2, StepsAreLocal, StoresAssumption DEF SessionInv
  <2>2. CASE path'[c] # f
    BY <2>1, <2>2, SessionElsewhere, SessionFrame DEF LocalTo
  <2>3. CASE path'[c] = f /\ (\/ Die(c) \/ CookiesFail(c) \/ GetCookies(c) \/ NoStorage(c) \/ LoadCookiesMissing(c)
                              \/ SetCookiesFails(c) \/ LoadStorage(c)
                              \/ \E to \in {"recordOpen", "replayLoad", "getCookies", "loadCookies"}, g \in Paths : Begin(c, to, g))
    BY <2>1, <2>3, LeavesSession, SessionFrame
  <2>4. CASE RecordStep(c) \/ ReplayStep(c)
    BY <2>2, <2>4, RecipeStepIsElsewhere, StoresAssumption
  <2>5. ASSUME path'[c] = f, CookiesOpen(c) \/ CookiesFill(c) \/ CaptureStorage(c) \/ StorageOpen(c) \/ StorageFill(c)
                             \/ LoadCookies(c) \/ SetCookies(c)
        PROVE  SessionFileInv(f)'
    <3>1. f = path[c]
      BY <2>5 DEF CookiesOpen, CookiesFill, CaptureStorage, StorageOpen, StorageFill, LoadCookies, SetCookies, argVars
    <3>2. QED
      BY <2>1, <2>5, <3>1, SessionAfterCookiesOpen, SessionAfterCookiesFill, SessionAfterCapture,
         SessionAfterStorageOpen, SessionAfterStorageFill, SessionAfterLoading
  <2>6. \/ Die(c) \/ CookiesFail(c) \/ GetCookies(c) \/ NoStorage(c) \/ LoadCookiesMissing(c)
        \/ SetCookiesFails(c) \/ LoadStorage(c)
        \/ \E to \in {"recordOpen", "replayLoad", "getCookies", "loadCookies"}, g \in Paths : Begin(c, to, g)
        \/ RecordStep(c) \/ ReplayStep(c)
        \/ CookiesOpen(c) \/ CookiesFill(c) \/ CaptureStorage(c) \/ StorageOpen(c) \/ StorageFill(c)
        \/ LoadCookies(c) \/ SetCookies(c)
    BY <1>2, StoresAssumption
    DEF CallStep, BeginRecord, BeginReplay, BeginSave, BeginLoad, SaveStep, LoadStep
  <2>7. QED
    BY <2>2, <2>3, <2>4, <2>5, <2>6
<1>3. ASSUME NEW c \in Pids, CallStep(c) PROVE SessionInv'
  BY <1>2, <1>3, StepApplied DEF SessionInv
<1>4. QED
  BY <1>1, <1>3 DEF Next, CallStep

-------------------------------------------------------------------------------
(* Replays.                                                                *)

LEMMA SequencesOfCall ==
  ASSUME Types, NEW c \in Pids
  PROVE  /\ ran[c] \in Seq(Steps) /\ Len(ran[c]) \in Nat /\ (ran[c] = <<>> <=> Len(ran[c]) = 0)
         /\ actions[c] \in Seq(Steps) /\ Len(actions[c]) \in Nat
         /\ \A b \in Bodies : b \in Seq(Steps) /\ Len(b) \in Nat
<1>1. ran[c] \in Seq(Steps) /\ actions[c] \in Bodies \cup {<<>>} /\ Bodies \subseteq Seq(Steps)
  BY StoresAssumption DEF Types, TypeOK
<1>2. actions[c] \in Seq(Steps)
  BY <1>1, EmptySeq
<1>3. QED
  BY <1>1, <1>2, EmptySeq, LenProperties

(* A call that has run nothing.                                            *)
LEMMA RanNothing ==
  ASSUME NEW c \in Pids, Types', ran'[c] = <<>>
  PROVE  ReplayBy(c)'
<1>1. actions'[c] \in Bodies \cup {<<>>} /\ Bodies \subseteq Seq(Steps)
  BY StoresAssumption DEF Types, TypeOK
<1>2. Len(actions'[c]) \in Nat
  <2>1. actions'[c] \in Seq(Steps)
    BY <1>1, EmptySeq
  <2>2. QED
    BY <2>1, LenProperties
<1>3. Len(ran'[c]) = 0
  BY EmptySeq
<1>4. \A i \in 1..0 : FALSE
  OBVIOUS
<1>5. QED
  BY <1>2, <1>3, <1>4 DEF ReplayBy

(* A call that runs nothing more.                                          *)
LEMMA RanNothingMore ==
  ASSUME Types, NEW c \in Pids, ReplayBy(c), ran'[c] = ran[c], actions'[c] = actions[c], given'[c] = given[c],
         ran[c] # <<>> => pc'[c] \in {"step", "touchLoad", "touchOpen", "touchFill", "ended"},
         pc'[c] \in {"touchLoad", "touchOpen", "touchFill"} \/ result'[c] = "ok"
           => \/ ran[c] = <<>> \/ Len(ran[c]) = Len(actions[c])
  PROVE  ReplayBy(c)'
  BY DEF ReplayBy

LEMMA RunsOneMore ==
  ASSUME Types, NEW c \in Pids, ReplayBy(c), Invoke(c)
  PROVE  ReplayBy(c)'
<1> DEFINE n == Len(ran[c])
<1>1. /\ pc[c] = "step" /\ StepsLeft(c) /\ HasVars(c) /\ NextStep(c).known
      /\ ran'[c] = Append(ran[c], NextStep(c)) /\ actions' = actions /\ given' = given
      /\ pc' = pc /\ result' = result
  BY DEF Invoke, argVars, Types, TypeOK
<1>2. /\ actions[c] \in Bodies /\ result[c] = "none" /\ n \in Nat /\ n < Len(actions[c])
      /\ ran[c] \in Seq(Steps) /\ Len(actions[c]) \in Nat /\ actions[c] \in Seq(Steps)
  BY <1>1, SequencesOfCall DEF Types, KindInv, StepsLeft
<1>3. NextStep(c) \in Steps
  BY <1>2, ElementOfSeq DEF NextStep
<1>4. /\ Len(ran'[c]) = n + 1
      /\ \A i \in 1..n : ran'[c][i] = ran[c][i]
      /\ ran'[c][n + 1] = NextStep(c)
  BY <1>1, <1>2, <1>3, AppendProperties
<1>5. ASSUME NEW i \in 1..(n + 1)
      PROVE  ran'[c][i] = actions[c][i] /\ ran'[c][i].known /\ ran'[c][i].needs \in given[c] \cup {NoVar}
  <2>1. CASE i \in 1..n
    BY <1>4, <2>1 DEF ReplayBy
  <2>2. CASE i = n + 1
    BY <1>1, <1>4, <2>2 DEF NextStep, HasVars
  <2>3. QED
    BY <1>2, <1>5, <2>1, <2>2
<1>6. QED
  BY <1>1, <1>2, <1>4, <1>5 DEF ReplayBy

LEMMA StepReplay ==
  ASSUME Types, Types', ReplayInv, NEW c \in Pids, CallStep(c), NEW d \in Pids
  PROVE  ReplayBy(d)'
<1>1. LocalTo(c) /\ ReplayBy(d) /\ ReplayBy(c)
  BY StepsAreLocal DEF ReplayInv, ReplayBy
<1>2. CASE d # c
  BY <1>1, <1>2 DEF ReplayBy, LocalTo, Unmoved
<1>3. CASE d = c
  <2>1. result[c] = "none" /\ pc[c] # "ended"
    BY <1>1 DEF LocalTo, Types, KindInv
  <2>2. CASE Invoke(c)
    BY <1>1, <1>3, <2>2, RunsOneMore
  <2>3. CASE ran[c] = <<>> /\ ~Invoke(c)
    <3>1. ran'[c] = <<>>
      BY <2>3 DEF CallStep, BeginRecord, BeginReplay, BeginSave, BeginLoad, Begin,
        RecordStep, OpenRecord, FillRecord, ReplayStep, LoadMissing, Load, StepLacksVar, StepUnknown,
        StepsDone, TouchMissing, TouchLoad, TouchOpen, TouchFill,
        SaveStep, CookiesFail, GetCookies, CookiesOpen, CookiesFill, NoStorage, CaptureStorage, StorageOpen, StorageFill,
        LoadStep, LoadCookiesMissing, LoadCookies, SetCookies, SetCookiesFails, LoadStorage, Die
    <3>2. QED
      BY <1>3, <3>1, RanNothing
  <2>4. CASE ran[c] # <<>> /\ ~Invoke(c)
    <3>1. pc[c] \in {"step", "touchLoad", "touchOpen", "touchFill"}
      BY <1>1, <2>1, <2>4 DEF ReplayBy
    <3>2. \/ StepLacksVar(c) \/ StepUnknown(c) \/ StepsDone(c) \/ TouchMissing(c) \/ TouchLoad(c) \/ TouchOpen(c)
          \/ TouchFill(c) \/ Die(c)
      BY <2>4, <3>1 DEF CallStep, BeginRecord, BeginReplay, BeginSave, BeginLoad, Begin,
        RecordStep, OpenRecord, FillRecord, ReplayStep, LoadMissing, Load,
        SaveStep, CookiesFail, GetCookies, CookiesOpen, CookiesFill, NoStorage, CaptureStorage, StorageOpen, StorageFill,
        LoadStep, LoadCookiesMissing, LoadCookies, SetCookies, SetCookiesFails, LoadStorage, End, Goto
    <3>3. ran'[c] = ran[c] /\ actions'[c] = actions[c] /\ given'[c] = given[c]
      BY <3>2 DEF StepLacksVar, StepUnknown, StepsDone, TouchMissing, TouchLoad, TouchOpen, TouchFill, Die, argVars
    <3>4. pc'[c] \in {"touchLoad", "touchOpen", "touchFill", "ended"}
      BY <3>2 DEF StepLacksVar, StepUnknown, StepsDone, TouchMissing, TouchLoad, TouchOpen, TouchFill, Die, End, Goto,
        Types, TypeOK
    <3>5. pc'[c] \in {"touchLoad", "touchOpen", "touchFill"} \/ result'[c] = "ok"
            => StepsDone(c) \/ pc[c] \in {"touchLoad", "touchOpen", "touchFill"}
      BY <2>1, <3>2 DEF StepLacksVar, StepUnknown, TouchMissing, TouchLoad, TouchOpen, TouchFill, Die, End, Goto,
        Types, TypeOK
    <3>6. StepsDone(c) => Len(ran[c]) = Len(actions[c])
      BY <1>1, SequencesOfCall DEF StepsDone, StepsLeft, ReplayBy
    <3>7. pc[c] \in {"touchLoad", "touchOpen", "touchFill"} => Len(ran[c]) = Len(actions[c])
      BY <1>1, <2>4 DEF ReplayBy
    <3>8. QED
      BY <1>1, <1>3, <3>3, <3>4, <3>5, <3>6, <3>7, RanNothingMore
  <2>5. QED
    BY <2>2, <2>3, <2>4
<1>4. QED
  BY <1>2, <1>3

LEMMA InitReplay == StoresInit => ReplayInv
<1> SUFFICES ASSUME StoresInit, NEW c \in Pids PROVE ReplayBy(c)
  BY DEF ReplayInv, ReplayBy
<1>1. ran[c] = <<>> /\ actions[c] = <<>>
  BY DEF StoresInit
<1>2. Len(ran[c]) = 0 /\ Len(actions[c]) = 0
  BY <1>1, EmptySeq
<1>3. \A i \in 1..0 : FALSE
  OBVIOUS
<1>4. QED
  BY <1>1, <1>2, <1>3 DEF ReplayBy

-------------------------------------------------------------------------------
(* The invariant, and what follows from it.                                *)

StoresInv == Types /\ RecipeInv /\ SessionInv /\ ReplayInv

LEMMA StoresInvariance == Spec => []StoresInv
<1>1. StoresInit => StoresInv
  BY InitTypes, InitRecipes, InitSessions, InitReplay DEF StoresInv
<1>2. StoresInv /\ [Next]_vars => StoresInv'
  <2> SUFFICES ASSUME StoresInv, [Next]_vars PROVE StoresInv'
    OBVIOUS
  <2>1. Types' /\ RecipeInv' /\ SessionInv'
    BY StepTypes, StepRecipes, StepSessions DEF StoresInv
  <2>2. ReplayInv'
    <3>1. CASE UNCHANGED vars
      BY <3>1 DEF vars, argVars, StoresInv, ReplayInv, ReplayBy
    <3>2. ASSUME NEW c \in Pids, CallStep(c) PROVE ReplayInv'
      BY <2>1, <3>2, StepReplay DEF StoresInv, ReplayInv, ReplayBy
    <3>3. QED
      BY <3>1, <3>2 DEF Next, CallStep
  <2>3. QED
    BY <2>1, <2>2 DEF StoresInv
<1>3. QED
  BY <1>1, <1>2, PTL DEF Spec

(* Every file of a recipe holds a recipe, every file of a session a        *)
(* session, and a call writes to its own file only, for any number of      *)
(* calls and files (profile/recipes.go:39-108, sessions.go:43-119).        *)
THEOREM StoreTypes == Spec => []TypeOK
<1>1. StoresInv => TypeOK
  BY DEF StoresInv, Types
<1>2. QED
  BY <1>1, StoresInvariance, PTL

(* A recording is in its file after any number of replays of the recipe,   *)
(* while no two calls were at the file at once and no crash cut a write    *)
(* (profile/recipes.go:99-108).                                            *)
THEOREM RecordingIsKept == Spec => []RecordingKept
<1>1. StoresInv => RecordingKept
  <2> SUFFICES ASSUME RecipeInv, NEW f \in RecipeFiles \ hurt, Busy(f) = {}, latest[f] # NoCall
               PROVE  Readable(f) /\ Value(f).by = latest[f] /\ Value(f).actions = actions[latest[f]]
    BY DEF StoresInv, RecordingKept
  <2>1. Readable(f) /\ Recorded(f, Value(f))
    BY DEF RecipeInv, RecipeFileInv
  <2>2. QED
    BY <2>1 DEF Recorded
<1>2. QED
  BY <1>1, StoresInvariance, PTL

(* A session file has the cookies and the localStorage of one save, and a  *)
(* load applies those of one save, under the same condition, for any       *)
(* number of saves and loads (mcp/tools/sessions.go:31-44, 67-74).         *)
THEOREM SessionsAreOneSave == Spec => []SessionIsOneSave
<1>1. StoresInv => SessionIsOneSave
  BY DEF StoresInv, SessionInv, SessionFileInv, AppliedInv, AppliedBy, SessionIsOneSave
<1>2. QED
  BY <1>1, StoresInvariance, PTL

(* What a replay invokes is one recording from its first step on, without  *)
(* any condition, for recordings of any length                             *)
(* (mcp/tools/recipes.go:63-108).                                          *)
THEOREM ReplaysRunOneRecording == Spec => []ReplayRunsOneRecording
<1>1. ASSUME StoresInv, NEW c \in Pids, ran[c] # <<>>
      PROVE  /\ \E b \in Bodies : IsPrefix(ran[c], b) /\ (result[c] = "ok" => ran[c] = b)
             /\ \A i \in DOMAIN ran[c] : ran[c][i].known /\ ran[c][i].needs \in given[c] \cup {NoVar}
  <2> DEFINE n == Len(ran[c])
             b == actions[c]
  <2>1. b \in Bodies /\ ran[c] \in Seq(Steps) /\ b \in Seq(Steps) /\ n \in Nat /\ n <= Len(b)
    BY <1>1, SequencesOfCall DEF StoresInv, ReplayInv, ReplayBy
  <2>2. \A i \in 1..n : ran[c][i] = b[i] /\ ran[c][i].known /\ ran[c][i].needs \in given[c] \cup {NoVar}
    BY <1>1 DEF StoresInv, ReplayInv, ReplayBy
  <2>3. DOMAIN ran[c] = 1..n /\ DOMAIN b = 1..Len(b) /\ Len(b) \in Nat
    BY <2>1, LenProperties
  <2>4. SubSeq(ran[c], 1, n) = SubSeq(b, 1, n)
    BY <2>1, <2>2
  <2>5. IsPrefix(ran[c], b)
    BY <2>1, <2>4 DEF IsPrefix
  <2>6. result[c] = "ok" => ran[c] = b
    <3>1. SUFFICES ASSUME result[c] = "ok" PROVE ran[c] = b
      OBVIOUS
    <3>2. n = Len(b)
      BY <1>1, <3>1 DEF StoresInv, ReplayInv, ReplayBy
    <3>3. QED
      BY <2>1, <2>2, <3>2, SeqEqual
  <2>7. QED
    BY <2>1, <2>2, <2>3, <2>5, <2>6
<1>2. StoresInv => ReplayRunsOneRecording
  BY <1>1 DEF ReplayRunsOneRecording
<1>3. QED
  BY <1>2, StoresInvariance, PTL
===============================================================================
