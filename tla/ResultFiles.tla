---------------------------- MODULE ResultFiles ----------------------------
(***************************************************************************)
(* The laboratory results that get_results downloads                       *)
(* (extractors/hi_precision.js): row by row, each through a temporary file *)
(* that is renamed, in a directory that outlives the worker.               *)
(*                                                                         *)
(* The temporary file is named after the row and the process, so that a    *)
(* call that goes on after its time-out shares it with the next call.  A   *)
(* call writes to the file it has opened, whatever its name has become.    *)
(***************************************************************************)
EXTENDS Naturals, Sequences

CONSTANTS
  ResultCalls,
  FileName,    \* row of the table -> the name its laboratory number and type are made into
  Closed       \* no file

Rows  == DOMAIN FileName
Names == {FileName[i] : i \in Rows}
Paths == {"pdf", "tmp"} \X Names
File  == [row : Rows, whole : BOOLEAN, old : BOOLEAN]

ASSUME ResultsAssumption ==
  FileName \in Seq(Names) /\ Closed \notin Paths \cup File

VARIABLES
  dir,         \* the directory: path -> file, or Closed where there is none
  row,         \* the row that each call is at
  phase,       \* and what it does with it
  writing,     \* the file that it is writing, by its present path
  report,      \* the rows it reports as downloaded
  replied,     \* whether its caller has been answered
  overlapped   \* history: two calls have run at once

resultVars == <<dir, row, phase, writing, report, replied, overlapped>>

Phases == {"idle", "rows", "writes", "wrote", "done"}

ResultsTypeOK ==
  /\ dir \in [Paths -> File \cup {Closed}]
  /\ row \in [ResultCalls -> 1..(Len(FileName) + 1)]
  /\ phase \in [ResultCalls -> Phases]
  /\ writing \in [ResultCalls -> Paths \cup {Closed}]
  /\ report \in [ResultCalls -> SUBSET Rows]
  /\ replied \in [ResultCalls -> BOOLEAN] /\ overlapped \in BOOLEAN

ResultsInit ==
  /\ dir = [p \in Paths |-> Closed]
  /\ row = [c \in ResultCalls |-> 1] /\ phase = [c \in ResultCalls |-> "idle"]
  /\ writing = [c \in ResultCalls |-> Closed] /\ report = [c \in ResultCalls |-> {}]
  /\ replied = [c \in ResultCalls |-> FALSE] /\ overlapped = FALSE

Running == {c \in ResultCalls : phase[c] \in {"rows", "writes", "wrote"}}

Pdf(c) == <<"pdf", FileName[row[c]]>>
Tmp(c) == <<"tmp", FileName[row[c]]>>

NextRow(c, what) ==
  /\ row' = [row EXCEPT ![c] = @ + 1] /\ phase' = [phase EXCEPT ![c] = what]
  /\ writing' = [writing EXCEPT ![c] = Closed]

-----------------------------------------------------------------------------

(* Mutant: files are pruned whatever their age.                            *)
PrunedAll == [p \in Paths |-> Closed]

\* pruneStaleResults, of temporary files too.
Pruned == [p \in Paths |-> IF dir[p] # Closed /\ dir[p].old THEN Closed ELSE dir[p]]

\* Dashboard, table and directory are there, and old files are removed; or it throws.
StartResults(c) ==
  /\ phase[c] = "idle" /\ \A d \in Running : replied[d]
  /\ overlapped' = (overlapped \/ Running # {})
  /\ \/ phase' = [phase EXCEPT ![c] = "rows"] /\ dir' = Pruned /\ UNCHANGED replied
     \/ /\ phase' = [phase EXCEPT ![c] = "done"] /\ replied' = [replied EXCEPT ![c] = TRUE]
        /\ UNCHANGED dir
  /\ UNCHANGED <<row, writing, report>>

AtRow(c, what) == phase[c] = what /\ row[c] \in Rows

\* No link; the list of tests or the file cannot be fetched, is HTML or too large.
NotDownloaded(c) ==
  /\ AtRow(c, "rows") /\ NextRow(c, "rows")
  /\ UNCHANGED <<dir, report, replied, overlapped>>

\* writeFile truncates the temporary file that is there, another call's too.
Open(c) ==
  /\ AtRow(c, "rows")
  /\ phase' = [phase EXCEPT ![c] = "writes"]
  /\ writing' = [writing EXCEPT ![c] = Tmp(c)]
  /\ dir' = [dir EXCEPT ![Tmp(c)] = [row |-> row[c], whole |-> FALSE, old |-> FALSE]]
  /\ UNCHANGED <<row, report, replied, overlapped>>

\* The body is written; what two calls write to one file at once need not be whole.
Write(c) ==
  /\ AtRow(c, "writes")
  /\ phase' = [phase EXCEPT ![c] = "wrote"]
  /\ writing' = [writing EXCEPT ![c] = Closed]
  /\ IF writing[c] = Closed THEN UNCHANGED dir
     ELSE \E whole \in {TRUE, \A d \in ResultCalls \ {c} : writing[d] # writing[c]} :
            dir' = [dir EXCEPT ![writing[c]] = [row |-> row[c], whole |-> whole, old |-> FALSE]]
  /\ UNCHANGED <<row, report, replied, overlapped>>

\* The disk is full: the file is left as it is.
WriteFails(c) ==
  /\ AtRow(c, "writes") /\ NextRow(c, "rows")
  /\ UNCHANGED <<dir, report, replied, overlapped>>

\* A call that still writes to the renamed file writes to the result; one that
\* writes to the result it replaces writes to no file.
Moved(c) ==
  [d \in ResultCalls |-> CASE d = c -> Closed
                           [] d # c /\ writing[d] = Tmp(c) -> Pdf(c)
                           [] d # c /\ writing[d] = Pdf(c) -> Closed
                           [] OTHER -> writing[d]]

Rename(c) ==
  /\ AtRow(c, "wrote")
  /\ IF dir[Tmp(c)] = Closed
     THEN NextRow(c, "rows") /\ UNCHANGED <<dir, report>>
     ELSE /\ dir' = [dir EXCEPT ![Pdf(c)] = dir[Tmp(c)], ![Tmp(c)] = Closed]
          /\ writing' = Moved(c)
          /\ row' = [row EXCEPT ![c] = @ + 1] /\ phase' = [phase EXCEPT ![c] = "rows"]
          /\ report' = [report EXCEPT ![c] = @ \cup {row[c]}]
  /\ UNCHANGED <<replied, overlapped>>

FinishResults(c) ==
  /\ phase[c] = "rows" /\ row[c] \notin Rows
  /\ phase' = [phase EXCEPT ![c] = "done"] /\ replied' = [replied EXCEPT ![c] = TRUE]
  /\ UNCHANGED <<dir, row, writing, report, overlapped>>

ResultsTimeOut(c) ==
  /\ c \in Running /\ ~replied[c]
  /\ replied' = [replied EXCEPT ![c] = TRUE]
  /\ UNCHANGED <<dir, row, phase, writing, report, overlapped>>

\* The worker is killed, and started with the same process number.
WorkerDies ==
  /\ Running # {}
  /\ phase' = [c \in ResultCalls |-> IF c \in Running THEN "done" ELSE phase[c]]
  /\ writing' = [c \in ResultCalls |-> Closed]
  /\ report' = [c \in ResultCalls |-> IF c \in Running THEN {} ELSE report[c]]
  /\ UNCHANGED <<dir, row, replied, overlapped>>

\* RESULT_TTL_MS passes while no call runs: what was reported before may be removed.
DayPasses ==
  /\ Running = {}
  /\ dir' = [p \in Paths |-> IF dir[p] = Closed THEN Closed ELSE [dir[p] EXCEPT !.old = TRUE]]
  /\ report' = [c \in ResultCalls |-> {}]
  /\ UNCHANGED <<row, phase, writing, replied, overlapped>>

ResultsStep(c) ==
  \/ NotDownloaded(c) \/ Open(c) \/ Write(c) \/ WriteFails(c) \/ Rename(c)
  \/ FinishResults(c) \/ ResultsTimeOut(c)

ResultsNext ==
  \/ WorkerDies \/ DayPasses
  \/ \E c \in ResultCalls : StartResults(c) \/ ResultsStep(c)

ResultsSpec == ResultsInit /\ [][ResultsNext]_resultVars

-----------------------------------------------------------------------------

(* A row that is reported as downloaded within the day has its file, whole *)
(* and with a result of that name, whatever later calls do, and if they    *)
(* fail or the worker dies in the middle of a file.  With calls that       *)
(* overlap "a partial file never surfaces as a download_path" (lines 413   *)
(* to 416) is not true: they share the temporary file.                     *)
ReportedIsThere ==
  ~overlapped =>
    \A c \in ResultCalls : \A i \in report[c] :
      LET f == dir[<<"pdf", FileName[i]>>]
      IN  f # Closed /\ f.whole /\ FileName[f.row] = FileName[i]
=============================================================================
