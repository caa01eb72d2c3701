----------------------------- MODULE ServerStore -----------------------------
(***************************************************************************)
(* Servers kept in files, by programs that run one after the other.        *)
(*                                                                         *)
(* The multi-database tool (pir_multi_db_metrics_tool.cc) preprocesses a   *)
(* random database of its own, saves the server to every path at which it  *)
(* finds no file, and then answers from files it picks at random, through  *)
(* one buffer of the size of the first.  Other programs load a server and  *)
(* save it again.  Any of them may die, or meet a full disk, at any point. *)
(***************************************************************************)
EXTENDS ServerFile

CONSTANTS
    NumDatabases,    \* --num_databases
    MaxJobs,         \* bound: programs that are run
    None             \* no file, no program, not yet

ASSUME StoreAssumption ==
    /\ NumDatabases \in Nat \ {0} /\ MaxJobs \in Nat
    /\ \A db \in 1 .. MaxJobs : Apart(db)

VARIABLES
    disk,    \* the file at each path: its whole cells, and whether half a cell follows
    job,     \* the program that is running
    jobs,    \* how many were started; the tool's database is named by this number
    owner    \* ghost: the server of the last save to each path, if it returned OK

vars == <<disk, job, jobs, owner>>

Paths == 0 .. NumDatabases - 1
Usable(result) == result \notin {Refused, Undefined}

File(cells, torn) == [cells |-> cells, torn |-> torn]
CutFiles(cells) ==
    {File(SubSeq(cells, 1, n), torn) : n \in 0 .. Len(cells) - 1, torn \in BOOLEAN}
        \cup {File(cells, FALSE)}

\* From half a cell reads go on in the middle of another: Undefined stands for
\* whatever they make of it.
Loads(buffer, size) == IF size.torn THEN {Refused, Undefined} ELSE {Load(buffer)}

Tool == job # None /\ job.kind = "tool"
Library == job # None /\ job.kind = "library"

-----------------------------------------------------------------------------
(* SaveToFile *)

\* The file is truncated and written in place, and found good after a flush.
SaveOK(path, server) ==
    /\ disk' = [disk EXCEPT ![path] = File(Content(server), FALSE)]
    /\ owner' = [owner EXCEPT ![path] = server]

\* An error, or the end of the program.
SaveStops(path, server) ==
    /\ \E file \in CutFiles(Content(server)) : disk' = [disk EXCEPT ![path] = file]
    /\ owner' = [owner EXCEPT ![path] = None]

-----------------------------------------------------------------------------
(* The multi-database tool *)

StartTool ==
    /\ job = None /\ jobs < MaxJobs
    /\ jobs' = jobs + 1
    /\ job' = [kind |-> "tool", db |-> jobs', next |-> 0, own |-> {},
               size |-> None, buffer |-> <<>>, served |-> None]
    /\ UNCHANGED <<disk, owner>>

Saving == Tool /\ job.next \in Paths

HasContent(path) == disk[path] # None /\ (disk[path].cells # <<>> \/ disk[path].torn)

\* "File exists, skip saving"
KeepFile ==
    /\ Saving /\ HasContent(job.next)
    /\ job' = [job EXCEPT !.next = @ + 1]
    /\ UNCHANGED <<disk, jobs, owner>>

\* A mutation: the status of the save is not looked at.
SlipSaveFile ==
    /\ Saving /\ ~HasContent(job.next)
    /\ \/ SaveOK(job.next, Fresh(job.db)) \/ SaveStops(job.next, Fresh(job.db))
    /\ job' = [job EXCEPT !.next = @ + 1, !.own = @ \cup {job.next}]
    /\ UNCHANGED jobs

SaveFile ==
    /\ Saving /\ ~HasContent(job.next)
    /\ SaveOK(job.next, Fresh(job.db))
    /\ job' = [job EXCEPT !.next = @ + 1, !.own = @ \cup {job.next}]
    /\ UNCHANGED jobs

StopSaveFile ==
    /\ Saving /\ ~HasContent(job.next)
    /\ SaveStops(job.next, Fresh(job.db))
    /\ job' = None
    /\ UNCHANGED jobs

\* The buffer is as large as the first file, and not initialised.
Allocate ==
    /\ Tool /\ ~Saving /\ job.size = None
    /\ job' = [job EXCEPT !.size = disk[0],
                          !.buffer = [p \in DOMAIN disk[0].cells |-> Unknown]]
    /\ UNCHANGED <<disk, jobs, owner>>

\* A mutation: a loop that stops a cell too early.
SlipOverlaid(buffer, file, half) ==
    [p \in DOMAIN buffer |-> IF p < Len(file.cells) THEN file.cells[p] ELSE buffer[p]]

\* What the loop around read leaves in the buffer: a file that is shorter does
\* not reach its end, and half a cell may or may not change the cell.
Overlaid(buffer, file, half) ==
    [p \in DOMAIN buffer |->
        CASE p <= Len(file.cells)                   -> file.cells[p]
          [] file.torn /\ p = Len(file.cells) + 1   -> half
          [] OTHER                                  -> buffer[p]]

\* One iteration: read, load, answer.  An error ends the tool.
Serve(path) ==
    /\ Tool /\ job.size # None
    /\ job.served # None => Usable(job.served.server)
    /\ \E half \in {Unknown} \cup {job.buffer[p] : p \in DOMAIN job.buffer
                                       \cap {Len(disk[path].cells) + 1}} :
       LET buffer == Overlaid(job.buffer, disk[path], half)
       IN  \E server \in Loads(buffer, job.size) :
               job' = [job EXCEPT !.buffer = buffer,
                                  !.served = [path |-> path, server |-> server]]
    /\ UNCHANGED <<disk, jobs, owner>>

-----------------------------------------------------------------------------
(* A program that loads a server and saves it *)

\* A bound: servers that were loaded with parts missing are not saved again.  Their
\* files have cells of other sizes, and a buffer could end inside of one.
Whole(server) == Len(Content(server)) = Len(Content(Fresh(0)))

LoadFromFile(path) ==
    /\ job = None /\ jobs < MaxJobs
    /\ disk[path] # None
    /\ \E server \in Loads(disk[path].cells, disk[path]) :
          /\ Usable(server) /\ Whole(server)
          /\ job' = [kind |-> "library", server |-> server]
    /\ jobs' = jobs + 1
    /\ UNCHANGED <<disk, owner>>

SaveToFile(path) ==
    /\ Library
    /\ SaveOK(path, job.server)
    /\ UNCHANGED <<job, jobs>>

StopSaveToFile(path) ==
    /\ Library
    /\ SaveStops(path, job.server)
    /\ job' = None
    /\ UNCHANGED jobs

\* Any program ends, by itself or not.  The tool removes the path without a
\* number, at which there is no file.
EndJob ==
    /\ job # None
    /\ job' = None
    /\ UNCHANGED <<disk, jobs, owner>>

-----------------------------------------------------------------------------
Init ==
    /\ disk = [path \in Paths |-> None]
    /\ job = None
    /\ jobs = 0
    /\ owner = [path \in Paths |-> None]

Next ==
    \/ StartTool \/ KeepFile \/ SaveFile \/ StopSaveFile \/ Allocate
    \/ \E path \in Paths :
          Serve(path) \/ LoadFromFile(path) \/ SaveToFile(path) \/ StopSaveToFile(path)
    \/ EndJob

Spec == Init /\ [][Next]_vars

-----------------------------------------------------------------------------
(* Properties *)

\* Two servers that no request tells apart.
SameServer(one, other) ==
    /\ Usable(one)
    /\ one.db = other.db
    /\ Multiplied(one.pack) = Multiplied(other.pack)
    /\ one.outs = other.outs
    /\ one.second = other.second

Preprocessed(server) == \E db \in 1 .. jobs : server = Fresh(db)

\* A server that was made from preprocessing comes back from its file, whatever
\* was at the path before.
SavedComesBack ==
    \A path \in Paths :
        owner[path] # None /\ Preprocessed(owner[path]) =>
            SameServer(Load(disk[path].cells), owner[path])

\* An iteration on a file that was saved to its end, next to such a first file,
\* answers as the server in it, whatever the buffer held from earlier iterations
\* on files that were not.
WholeFilesServe ==
    Tool /\ job.served # None /\ owner[0] # None /\ owner[job.served.path] # None
    /\ Preprocessed(owner[0]) /\ Preprocessed(owner[job.served.path]) =>
        SameServer(job.served.server, owner[job.served.path])

\* From files that it did not find but saved itself the tool answers from the
\* database that it compares the answer with.
OwnDatabase ==
    Tool /\ job.served # None /\ {0, job.served.path} \subseteq job.own =>
        SameServer(job.served.server, Fresh(job.db))

\* "Serializes the server's preprocessed data and database to a binary file": a
\* server that answers as one made from preprocessing, if itself was loaded,
\* comes back from its file.
EverySaveComesBack ==
    \A path \in Paths, db \in 1 .. jobs :
        owner[path] # None /\ SameServer(owner[path], Fresh(db)) =>
            SameServer(Load(disk[path].cells), owner[path])
=============================================================================
