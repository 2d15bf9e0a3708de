------------------------------ MODULE CSVWriter ------------------------------
(***************************************************************************)
(* The result file, through the CSVWriters of one process after another.   *)
(* The constructor writes the header if there is no file; write() appends  *)
(* a row; write_all() writes its results one by one.  Opening the file may *)
(* fail, and throws; what a stream then fails to write, because the disk   *)
(* is full, is dropped without a word.                                     *)
(*                                                                         *)
(* The file is its text.  A row reaches it when its stream is closed, in   *)
(* one system call.                                                        *)
(***************************************************************************)
EXTENDS CSVFields

CONSTANTS BenchmarkResult,  \* the results, as rows of fields
          Header,           \* the names of the columns, of which there are some
          MaxRows,          \* bound: calls of write() that return
          MaxProcesses      \* bound: processes

ASSUME CSVWriterAssumption ==
  /\ BenchmarkResult \cup {Header} \subseteq Seq(Seq(Char)) \ {<<>>}
  /\ MaxRows \in Nat
  /\ MaxProcesses \in Nat \ {0}

VARIABLES exists,     \* there is a file
          file,       \* its text
          pc,         \* where the process is
          results,    \* what write_all() has still to write
          processes,  \* processes so far
          \* Not in the code:
          returned,   \* the results for which write() has returned
          cut,        \* a full disk has cut what was written
          headless    \* a process has died before it wrote the header

disk == <<exists, file>>
history == <<returned, cut, headless>>

vars == <<disk, pc, results, processes, history>>

Batch == UNION {[1 .. k -> BenchmarkResult] : k \in 1 .. 2}

TypeOK ==
  /\ exists \in BOOLEAN
  /\ file \in Seq(Char)
  /\ ~exists => file = <<>>
  /\ pc \in {"construct", "header", "ready", "gone"}
  /\ results \in Seq(BenchmarkResult)
  /\ processes \in 1 .. MaxProcesses
  /\ returned \in Seq(BenchmarkResult)
  /\ {cut, headless} \subseteq BOOLEAN

Init ==
  /\ exists = FALSE /\ file = <<>>
  /\ pc = "construct" /\ results = <<>> /\ processes = 1
  /\ returned = <<>> /\ cut = FALSE /\ headless = FALSE

\* A closing stream writes its text, or as much of it as there is room for.
AppendWhole(row) ==
  /\ file' = file \o Line(row)
  /\ UNCHANGED <<exists, cut>>

AppendCut(row) ==
  /\ \E k \in 0 .. Len(Line(row)) - 1 : file' = file \o SubSeq(Line(row), 1, k)
  /\ cut' = TRUE
  /\ UNCHANGED exists

-----------------------------------------------------------------------------
(* The constructor *)

FindFile ==
  /\ pc = "construct" /\ exists
  /\ pc' = "ready"
  /\ UNCHANGED <<disk, results, processes, history>>

\* Mutant: the header is written whatever there is.
CreateAlways ==
  /\ pc = "construct"
  /\ exists' = TRUE /\ file' = <<>>
  /\ pc' = "header"
  /\ UNCHANGED <<results, processes, history>>

CreateFile ==
  /\ pc = "construct" /\ ~exists
  /\ exists' = TRUE /\ file' = <<>>
  /\ pc' = "header"
  /\ UNCHANGED <<results, processes, history>>

\* There is no object, and its caller ends here.
CreateThrows ==
  /\ pc = "construct" /\ ~exists
  /\ pc' = "gone"
  /\ UNCHANGED <<disk, results, processes, history>>

WriteHeader ==
  /\ pc = "header"
  /\ AppendWhole(Header)
  /\ pc' = "ready"
  /\ UNCHANGED <<results, processes, returned, headless>>

WriteHeaderCut ==
  /\ pc = "header"
  /\ AppendCut(Header)
  /\ pc' = "ready"
  /\ UNCHANGED <<results, processes, returned, headless>>

-----------------------------------------------------------------------------
(* write() and write_all() *)

WriteAll ==
  /\ pc = "ready" /\ results = <<>>
  /\ results' \in {batch \in Batch : Len(returned) + Len(batch) <= MaxRows}
  /\ UNCHANGED <<disk, pc, processes, history>>

Writing == pc = "ready" /\ results # <<>>

Returned ==
  /\ returned' = Append(returned, Head(results))
  /\ results' = Tail(results)
  /\ UNCHANGED <<pc, processes, headless>>

Write ==
  /\ Writing
  /\ AppendWhole(Head(results))
  /\ Returned

WriteCut ==
  /\ Writing
  /\ AppendCut(Head(results))
  /\ Returned

\* The rest of the results is not written; the caller may go on.
WriteThrows ==
  /\ Writing
  /\ results' = <<>>
  /\ UNCHANGED <<disk, pc, processes, history>>

-----------------------------------------------------------------------------
(* The processes *)

\* The process ends, of its own accord or not.
Exit ==
  /\ pc # "gone"
  /\ pc' = "gone"
  /\ results' = <<>>
  /\ headless' = (headless \/ pc = "header")
  /\ UNCHANGED <<disk, processes, returned, cut>>

NewProcess ==
  /\ pc = "gone" /\ processes < MaxProcesses
  /\ processes' = processes + 1
  /\ pc' = "construct"
  /\ UNCHANGED <<disk, results, history>>

Next ==
  \/ FindFile \/ CreateFile \/ CreateThrows
  \/ WriteHeader \/ WriteHeaderCut
  \/ WriteAll \/ Write \/ WriteCut \/ WriteThrows
  \/ Exit \/ NewProcess

Spec == Init /\ [][Next]_vars

-----------------------------------------------------------------------------
(* Properties *)

\* Nothing that has reached the file is ever lost or changed, by this process
\* or by a later one: the only stream that truncates is that of a constructor
\* which has found no file.
FileOnlyGrows == [][IsPrefix(file, file')]_vars

HasHeader == exists /\ pc # "header" /\ ~headless

\* A reader of the file gets the header, once, and the results whose write()
\* has returned, in their order and field by field, unless a full disk has cut
\* one: whatever characters they have, an exception has written nothing, and
\* no exception means that the row is there.  A process that has died before
\* the header was written leaves a file that never gets one.
FileReadsBack ==
  ~cut => Read(file) =
     [Reader EXCEPT !.rows = (IF HasHeader THEN <<Header>> ELSE <<>>) \o returned]
=============================================================================
