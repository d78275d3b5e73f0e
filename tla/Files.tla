--------------------------------- MODULE Files ---------------------------------
(***************************************************************************)
(* The files that bridge processes share, as the code uses them: read      *)
(* whole, written by os.WriteFile, removed by path.  WriteFile opens the   *)
(* file with O_TRUNC and then writes, and nothing locks it: a reader may   *)
(* find it empty, two writers may leave a mixture of both, and a writer    *)
(* whose file was removed writes to a file that has no name any more.      *)
(***************************************************************************)
CONSTANTS
  Pids,    \* the processes
  Paths,   \* the paths they share
  NoPath   \* "no open file, or one that has no name any more"

ASSUME FilesAssumption == NoPath \notin Paths

VARIABLES
  content, \* what is at each path
  fd       \* the path of the file a process is writing

fileVars == <<content, fd>>

Absent  == [state |-> "absent"]
Empty   == [state |-> "empty"]
Garbled == [state |-> "garbled"]
Full(v) == [state |-> "full", value |-> v]

FilesInit ==
  /\ content = [f \in Paths |-> Absent]
  /\ fd = [p \in Pids |-> NoPath]

(* A file that is missing or does not decode is an error to its reader.    *)
Readable(f) == content[f].state = "full"
Value(f) == content[f].value

Truncate(p, f) ==
  /\ content' = [content EXCEPT ![f] = Empty]
  /\ fd' = [fd EXCEPT ![p] = f]

(* The two texts may differ in length, so that the rest of a longer one    *)
(* follows the shorter.                                                    *)
Fill(p, v) ==
  /\ content' \in IF fd[p] = NoPath THEN {content}
                  ELSE {[content EXCEPT ![fd[p]] = c] :
                          c \in {Full(v)} \cup IF content[fd[p]] = Empty THEN {} ELSE {Garbled}}
  /\ fd' = [fd EXCEPT ![p] = NoPath]

Unlink(f) ==
  /\ content' = [content EXCEPT ![f] = Absent]
  /\ fd' = [q \in Pids |-> IF fd[q] = f THEN NoPath ELSE fd[q]]

CloseFile(p) ==
  /\ fd' = [fd EXCEPT ![p] = NoPath]
  /\ UNCHANGED content
===============================================================================
