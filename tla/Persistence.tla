---------------------------- MODULE Persistence ----------------------------
(***************************************************************************)
(* The dump that DB::close writes and the load that DB::run starts, over   *)
(* several lives of the process: src/db/persistance/dumper.rs, DB::run and *)
(* DB::close, and what decides when they run (main.rs, shutdown, app.rs,   *)
(* the HTTP server).  The process may be killed at any step; a SIGTERM is  *)
(* such a kill, since only SIGINT is handled.  The machine does not fail:  *)
(* nothing is synced, so what a loss of power leaves is not modelled.      *)
(*                                                                         *)
(* A shard is abstracted to one value, the number of the process life that *)
(* last wrote it, 0 if it is empty.  Admission control and gzip are off    *)
(* (with gzip, a failure to write the trailer goes unnoticed).             *)
(***************************************************************************)
EXTENDS Integers, Sequences, SequencesExt, FiniteSetsExt

CONSTANTS
  NShards,      \* shards of the storage
  MaxVersions,  \* dump.max_versions, 0 to keep every version
  MaxRuns,      \* bound: lives of the process
  MaxFaults     \* bound: I/O errors over all lives

ASSUME PersistenceConstants ==
  /\ NShards \in Nat \ {0}
  /\ MaxVersions \in Nat
  /\ MaxRuns \in Nat \ {0}
  /\ MaxFaults \in Nat

Shards == 1..NShards
Values == 0..MaxRuns

\* A file of a version directory.  stamp is the time in its name, by which a
\* load tells the files of two dumps apart; whole says that all entries have
\* been flushed to it.
File == [shard : Shards, stamp : 1..MaxRuns, name : {"tmp", "dump"},
         whole : BOOLEAN, val : Values]

VARIABLES
  dirs,      \* the version directories by modification time, oldest first
  run,       \* number of the current or last life of the process
  main,      \* async_main: down, serving, or dropping the runtime
  token,     \* the shutdown token is cancelled
  app,       \* the task of App::serve
  mem,       \* the storage: shard -> value
  load,      \* the load task: [at, from, left, ok]
  own,       \* number of the directory of the dump in progress
  walked,    \* shards collected so far
  snap,      \* what was collected
  writer,    \* shard -> its writer task
  failures,  \* some writer has failed
  doomed,    \* directories that rotation has yet to remove
  faults,    \* I/O errors so far
  made,      \* history: the dumps begun, [run, num, ok, snap]
  torn       \* history: a removal is half done ("now") or was given up so ("left")

dumpVars == <<own, walked, snap, writer, failures>>
diskVars == <<dirs, doomed, torn>>
vars == <<dirs, run, main, token, app, mem, load, own, walked, snap, writer,
          failures, doomed, faults, made, torn>>

Empty == [s \in Shards |-> 0]
NoLoad == [at |-> "done", from |-> 0, left |-> {}, ok |-> FALSE]
NoWriters == [s \in Shards |-> "none"]

TypeOK ==
  /\ dirs \in Seq([num : 1..MaxRuns, files : SUBSET File])
  /\ \A i, j \in DOMAIN dirs : dirs[i].num = dirs[j].num => i = j
  /\ run \in 0..MaxRuns
  /\ main \in {"down", "serving", "exiting"}
  /\ token \in BOOLEAN
  /\ app \in {"off", "bind", "serve", "number", "collect", "write", "rotate", "done"}
  /\ mem \in [Shards -> Values]
  /\ load \in [at : {"pick", "read", "done"}, from : 0..MaxRuns, left : SUBSET Shards, ok : BOOLEAN]
  /\ own \in 0..MaxRuns
  /\ walked \in 0..NShards
  /\ snap \in [Shards -> Values]
  /\ writer \in [Shards -> {"none", "queued", "open", "flushed"}]
  /\ failures \in BOOLEAN
  /\ doomed \in Seq(1..MaxRuns)
  /\ \A i \in DOMAIN doomed : \E j \in DOMAIN dirs : doomed[i] = dirs[j].num
  /\ faults \in 0..MaxFaults
  /\ made \in Seq([run : 1..MaxRuns, num : 1..MaxRuns, ok : BOOLEAN, snap : [Shards -> Values]])
  /\ torn \in {"no", "now", "left"}

\* A dump that has come through: its history entry and its directory.
WholeDump == [run |-> 1, num |-> 1, ok |-> TRUE, snap |-> [s \in Shards |-> 1]]
WholeDir ==
  [num |-> 1,
   files |-> {[shard |-> s, stamp |-> 1, name |-> "dump", whole |-> TRUE, val |-> 1] : s \in Shards}]

\* The first life is over: it has left nothing, or one complete dump.
Init ==
  /\ run = 1 /\ main = "down" /\ token = FALSE /\ app = "off"
  /\ mem = Empty /\ load = NoLoad
  /\ own = 0 /\ walked = 0 /\ snap = Empty /\ writer = NoWriters /\ failures = FALSE
  /\ doomed = <<>> /\ faults = 0 /\ torn = "no"
  /\ \/ dirs = <<>> /\ made = <<>>
     \/ dirs = <<WholeDir>> /\ made = <<WholeDump>>

-----------------------------------------------------------------------------
(* The directory *)

Numbers == {dirs[i].num : i \in DOMAIN dirs}
FilesOf(n) == UNION {dirs[i].files : i \in {j \in DOMAIN dirs : dirs[j].num = n}}

\* Creating, renaming or removing a file makes its directory the newest.
Others(n) ==
  IF n \in Numbers THEN RemoveAt(dirs, CHOOSE i \in DOMAIN dirs : dirs[i].num = n) ELSE dirs
Touched(n, files) == Append(Others(n), [num |-> n, files |-> files])

\* next_version_dir: one more than the largest number in use.
NextVersion_Count == Len(dirs) + 1
NextVersion == Max(Numbers \cup {0}) + 1

\* get_latest_version_dir: the newest by modification time, 0 if there is none.
LatestVersion_Oldest == IF dirs = <<>> THEN 0 ELSE Head(dirs).num
LatestVersion == IF dirs = <<>> THEN 0 ELSE Last(dirs).num

\* rotate_version_dirs: all but the newest max, newest first.
Outdated_Oldest ==
  IF MaxVersions = 0 \/ Len(dirs) <= MaxVersions THEN <<>>
  ELSE [i \in 1..(Len(dirs) - MaxVersions) |-> dirs[i + MaxVersions].num]
Outdated ==
  IF MaxVersions = 0 \/ Len(dirs) <= MaxVersions THEN <<>>
  ELSE [i \in 1..(Len(dirs) - MaxVersions) |-> dirs[Len(dirs) - MaxVersions + 1 - i].num]

-----------------------------------------------------------------------------
(* The process *)

\* DB::run starts the load task and does not wait for it.
LoadStarted == [at |-> "pick", from |-> 0, left |-> {}, ok |-> TRUE]

\* main, App::new, App::serve: the load task and the server task start.
Start ==
  /\ main = "down"
  /\ run < MaxRuns
  /\ run' = run + 1
  /\ main' = "serving"
  /\ token' = FALSE
  /\ app' = "bind"
  /\ mem' = Empty
  /\ load' = LoadStarted
  /\ own' = 0 /\ walked' = 0 /\ snap' = Empty /\ writer' = NoWriters /\ failures' = FALSE
  /\ UNCHANGED <<diskVars, made, faults>>

\* listen_and_serve: a server that cannot bind goes straight to close.
Bind(ok) ==
  /\ app = "bind"
  /\ app' = IF ok THEN "serve" ELSE "number"
  /\ UNCHANGED <<diskVars, run, main, token, mem, load, dumpVars, made, faults>>

\* A miss that is served writes the storage.
Serve(s) ==
  /\ app = "serve"
  /\ mem' = [mem EXCEPT ![s] = run]
  /\ UNCHANGED <<diskVars, run, main, token, app, load, dumpVars, made, faults>>

Interrupt ==
  /\ main = "serving"
  /\ ~token
  /\ token' = TRUE
  /\ UNCHANGED <<diskVars, run, main, app, mem, load, dumpVars, made, faults>>

\* The server has drained its connections: App::close, DB::close, dump.
Drained ==
  /\ app = "serve"
  /\ token
  /\ app' = "number"
  /\ UNCHANGED <<diskVars, run, main, token, mem, load, dumpVars, made, faults>>

\* await_shutdown: done() gives its permit back, so that wait_for_completion
\* never waits.  The runtime drops its tasks; what blocking threads have begun
\* is finished: an open file, the removal of a directory.
MainReturns ==
  /\ main = "serving"
  /\ token
  /\ main' = "exiting"
  /\ app' = IF app = "done" THEN app ELSE "off"
  /\ mem' = Empty
  /\ load' = NoLoad
  /\ writer' = [s \in Shards |-> IF writer[s] = "queued" THEN "none" ELSE writer[s]]
  /\ doomed' = IF doomed = <<>> THEN <<>> ELSE <<Head(doomed)>>
  /\ UNCHANGED <<dirs, run, token, own, walked, snap, failures, made, torn, faults>>

Cleared ==
  /\ main' = "down" /\ app' = "off" /\ token' = FALSE
  /\ mem' = Empty /\ load' = NoLoad
  /\ own' = 0 /\ walked' = 0 /\ snap' = Empty /\ writer' = NoWriters /\ failures' = FALSE

Exit ==
  /\ main = "exiting"
  /\ writer = NoWriters
  /\ doomed = <<>>
  /\ Cleared
  /\ UNCHANGED <<diskVars, run, made, faults>>

\* The process is killed: memory is gone, the disk is as it stands.
Crash ==
  /\ main # "down"
  /\ Cleared
  /\ doomed' = <<>>
  /\ torn' = IF torn = "now" THEN "left" ELSE torn
  /\ UNCHANGED <<dirs, run, made, faults>>

Fault ==
  /\ faults < MaxFaults
  /\ faults' = faults + 1

-----------------------------------------------------------------------------
(* load *)

\* get_latest_version_dir and the listing of its files: the whole dumps of the
\* latest stamp.  No directory or no file is an error; no older one is tried.
DumpFiles(n) ==
  LET dumps == {f \in FilesOf(n) : f.name = "dump"}
  IN  {f \in dumps : \A g \in dumps : g.stamp <= f.stamp}

LoadPick ==
  /\ load.at = "pick"
  /\ LET n == LatestVersion
         left == {f.shard : f \in DumpFiles(n)}
     IN  load' = IF left = {}
                 THEN [load EXCEPT !.at = "done", !.ok = FALSE]
                 ELSE [load EXCEPT !.at = "read", !.from = n, !.left = left]
  /\ UNCHANGED <<diskVars, run, main, token, app, mem, dumpVars, made, faults>>

LoadTask(s, ok) ==
  LET left == load.left \ {s}
  IN  load' = [load EXCEPT !.left = left,
                           !.at = IF left = {} THEN "done" ELSE "read",
                           !.ok = load.ok /\ ok]

\* A reader task: nothing once the token is cancelled, else Storage::set of
\* what the file holds, whatever the storage has by now.
LoadFile(s) ==
  /\ load.at = "read"
  /\ s \in load.left
  /\ LoadTask(s, TRUE)
  /\ \E f \in DumpFiles(load.from) :
       /\ f.shard = s
       /\ mem' = IF token \/ f.val = 0 THEN mem ELSE [mem EXCEPT ![s] = f.val]
  /\ UNCHANGED <<diskVars, run, main, token, app, dumpVars, made, faults>>

\* The file has been removed meanwhile.
LoadMisses(s) ==
  /\ load.at = "read"
  /\ s \in load.left
  /\ \A f \in DumpFiles(load.from) : f.shard # s
  /\ LoadTask(s, FALSE)
  /\ UNCHANGED <<diskVars, run, main, token, app, mem, dumpVars, made, faults>>

\* An I/O error or a bad checksum: nothing is restored.
LoadFails(s) ==
  /\ load.at = "read"
  /\ s \in load.left
  /\ LoadTask(s, FALSE)
  /\ Fault
  /\ UNCHANGED <<diskVars, run, main, token, app, mem, dumpVars, made>>

-----------------------------------------------------------------------------
(* dump, in DB::close *)

\* create_dir_all for the next version.
MakeDir ==
  /\ app = "number"
  /\ app' = "collect"
  /\ own' = NextVersion
  /\ dirs' = Touched(NextVersion, FilesOf(NextVersion))
  /\ made' = Append(made, [run |-> run, num |-> NextVersion, ok |-> FALSE, snap |-> Empty])
  /\ UNCHANGED <<run, main, token, mem, load, walked, snap, writer, failures, doomed, torn, faults>>

\* walk_shards copies one shard after the other, then every shard, empty or
\* not, gets a writer task.
Collect ==
  /\ app = "collect"
  /\ walked < NShards
  /\ walked' = walked + 1
  /\ snap' = [snap EXCEPT ![walked'] = mem[walked']]
  /\ app' = IF walked' = NShards THEN "write" ELSE "collect"
  /\ writer' = IF walked' = NShards THEN [s \in Shards |-> "queued"] ELSE writer
  /\ UNCHANGED <<diskVars, run, main, token, mem, load, own, failures, made, faults>>

\* The steps of a writer: create the file under its temporary name, write and
\* flush the entries, rename the file.  What a temporary file holds is nobody's
\* business; whole and val tell what the renamed one holds.
Named(s, name, whole) ==
  [shard |-> s, stamp |-> run, name |-> name, whole |-> whole, val |-> IF whole THEN snap[s] ELSE 0]
OwnFiles(s) == {f \in FilesOf(own) : f.shard = s /\ f.stamp = run}
Replaced(s, f) == Touched(own, (FilesOf(own) \ OwnFiles(s)) \cup {f})

Create(s) ==
  /\ writer[s] = "queued"
  /\ writer' = [writer EXCEPT ![s] = "open"]
  /\ dirs' = Replaced(s, Named(s, "tmp", FALSE))

Ready_Open(s) == writer[s] \in {"open", "flushed"}
Ready(s) == writer[s] = "flushed"

Flush(s) ==
  /\ writer[s] = "open"
  /\ writer' = [writer EXCEPT ![s] = "flushed"]
  /\ dirs' = dirs

Rename(s) ==
  /\ Ready(s)
  /\ writer' = [writer EXCEPT ![s] = "none"]
  /\ dirs' = Replaced(s, Named(s, "dump", writer[s] = "flushed"))

WriteStep(s) ==
  /\ Create(s) \/ Flush(s) \/ Rename(s)
  /\ UNCHANGED <<run, main, token, app, mem, load, own, walked, snap, failures, doomed, made, torn, faults>>

\* Any of these may fail: the writer ends and leaves what it has.
WriteFails(s) ==
  /\ writer[s] # "none"
  /\ writer' = [writer EXCEPT ![s] = "none"]
  /\ failures' = TRUE
  /\ Fault
  /\ UNCHANGED <<diskVars, run, main, token, app, mem, load, own, walked, snap, made>>

\* All writers have ended: list what is to be removed, even after failures.
Rotate ==
  /\ app = "write"
  /\ writer = NoWriters
  /\ doomed' = Outdated
  /\ app' = "rotate"
  /\ UNCHANGED <<dirs, run, main, token, mem, load, dumpVars, made, torn, faults>>

\* remove_dir_all: the files first, each of which makes the directory newer.
RemoveFile ==
  /\ doomed # <<>>
  /\ \E f \in FilesOf(Head(doomed)) : dirs' = Touched(Head(doomed), FilesOf(Head(doomed)) \ {f})
  /\ torn' = IF torn = "left" THEN "left" ELSE "now"
  /\ UNCHANGED <<run, main, token, app, mem, load, dumpVars, doomed, made, faults>>

Popped_Not == doomed
Popped == Tail(doomed)
RemoveDir ==
  /\ doomed # <<>>
  /\ FilesOf(Head(doomed)) = {}
  /\ dirs' = Others(Head(doomed))
  /\ doomed' = Popped
  /\ torn' = IF torn = "left" THEN "left" ELSE "no"
  /\ UNCHANGED <<run, main, token, app, mem, load, dumpVars, made, faults>>

\* A removal that fails is logged, and rotation goes on with the next.
RemoveFails ==
  /\ doomed # <<>>
  /\ doomed' = Popped
  /\ torn' = IF torn = "now" THEN "left" ELSE torn
  /\ Fault
  /\ UNCHANGED <<dirs, run, main, token, app, mem, load, dumpVars, made>>

\* The dump returns, Ok unless a writer has failed; DB::close then cancels the
\* token, and so does App::close.
Closed ==
  /\ app' = "done"
  /\ token' = TRUE

DumpReturns ==
  /\ app = "rotate"
  /\ doomed = <<>>
  /\ Closed
  /\ made' = [made EXCEPT ![Len(made)].ok = ~failures, ![Len(made)].snap = snap]
  /\ UNCHANGED <<diskVars, run, main, mem, load, dumpVars, faults>>

\* 60 s are over at an await: the dump is dropped, but not its writer tasks nor
\* the removal under way.  An error in creating the directory ends it as well.
DumpTimeout_Never == FALSE
DumpTimeout ==
  /\ app \in {"number", "write", "rotate"}
  /\ Closed
  /\ doomed' = IF doomed = <<>> THEN <<>> ELSE <<Head(doomed)>>
  /\ UNCHANGED <<dirs, run, main, mem, load, dumpVars, made, torn, faults>>

-----------------------------------------------------------------------------
Reader(s) == LoadFile(s) \/ LoadMisses(s) \/ LoadFails(s)
Writer(s) == WriteStep(s) \/ WriteFails(s)
Removal == RemoveFile \/ RemoveDir \/ RemoveFails
AppTask == Drained \/ MakeDir \/ Collect \/ Rotate \/ DumpReturns \/ DumpTimeout

Next ==
  \/ Start
  \/ \E ok \in BOOLEAN : Bind(ok)
  \/ Interrupt \/ MainReturns \/ Exit \/ Crash
  \/ LoadPick
  \/ \E s \in Shards : Serve(s) \/ Reader(s) \/ Writer(s)
  \/ Removal
  \/ AppTask

\* The app's task is scheduled; its blocking I/O may hang.
Spec == Init /\ [][Next]_vars /\ WF_vars(AppTask)

-----------------------------------------------------------------------------
(* Properties *)

Complete(d) ==
  \E dir \in Range(dirs) :
    /\ dir.num = d.num
    /\ \A s \in Shards : \E f \in dir.files :
         f.shard = s /\ f.name = "dump" /\ f.stamp = d.run /\ f.val = d.snap[s]

\* Whatever writer fails or is killed at whatever step, a file has the name by
\* which a load finds it only if every entry has been flushed to it.
OnlyWholeFiles == \A d \in Range(dirs) : \A f \in d.files : f.name = "dump" => f.whole

\* No two dumps write into one directory, although create_dir_all is content
\* with a directory that exists and rotation frees numbers.
DirsApart == \A d \in Range(dirs) : \A f, g \in d.files : f.stamp = g.stamp

\* A dump that has returned Ok is complete on disk until max_versions later
\* dumps have begun, however many of them fail, time out or are killed, as
\* long as no removal has been left half done.
DumpSurvives ==
  \A i \in DOMAIN made :
    (made[i].ok /\ torn # "left" /\ (MaxVersions = 0 \/ Len(made) - i < MaxVersions)) => Complete(made[i])

\* If the last dump of the earlier lives returned Ok, then once the load has
\* returned Ok the process serves all that this dump held, except where
\* requests have written the storage since; with the same reservation.
RestartRestores ==
  (app \in {"bind", "serve"} /\ ~token /\ load.at = "done" /\ load.ok /\ torn # "left" /\ made # <<>>)
    => LET d == Last(made)
       IN  d.ok => \A s \in Shards : mem[s] \in {d.snap[s], run}

\* DB::close returns or the process ends, even if a disk write hangs.
CloseReturns == (app \in {"number", "collect", "write", "rotate"}) ~> (app \in {"off", "done"})

-----------------------------------------------------------------------------
(* What the proofs add to make the invariants inductive *)

Protected(i) == MaxVersions = 0 \/ Len(made) - i < MaxVersions

\* Which tasks there are at which time: writers and a removal never at once.
StagesOK ==
  /\ main = "down" => app = "off" /\ writer = NoWriters /\ doomed = <<>>
  /\ main = "exiting" => app \in {"off", "done"}
  /\ app \in {"bind", "serve", "number", "collect"} => writer = NoWriters /\ doomed = <<>>
  /\ app = "rotate" => writer = NoWriters
  /\ app = "write" \/ writer # NoWriters => doomed = <<>>
  /\ doomed = <<>> => torn # "now"

\* A life makes one dump.  While it writes, its directory is there and its own.
DumpsOK ==
  /\ \A n \in Numbers : n <= Len(made)
  /\ Len(made) <= IF app \in {"bind", "serve", "number"} THEN run - 1 ELSE run
  /\ app \in {"collect", "write", "rotate"} \/ writer # NoWriters =>
       /\ made # <<>>
       /\ Last(made).num = own /\ Last(made).run = run /\ ~Last(made).ok
  /\ app \in {"collect", "write"} \/ writer # NoWriters =>
       own \in Numbers /\ \A f \in FilesOf(own) : f.stamp = run
  /\ \A n \in Numbers : \A f, g \in FilesOf(n) : f.shard = g.shard => f = g
  /\ \A i, j \in DOMAIN doomed : doomed[i] = doomed[j] => i = j

\* Unless a removal was given up: dumps are numbered one after the other, the
\* last one's directory is there, the directories are in the order of their
\* numbers except for the one being removed, and the last max_versions are
\* not among those.
OrderOK ==
  torn # "left" =>
    /\ \A i \in DOMAIN made : made[i].num = i
    /\ made # <<>> => Len(made) \in Numbers
    /\ \A i, j \in DOMAIN dirs :
         i <= j /\ (torn = "now" => j < Len(dirs)) => dirs[j].num - dirs[i].num >= j - i
    /\ torn = "now" => dirs # <<>> /\ Last(dirs).num = Head(doomed)
    /\ \A i \in DOMAIN doomed : ~Protected(doomed[i])

\* A writer that has ended without a failure has left its file.
WrittenOK ==
  app \in {"write", "rotate"} /\ ~failures /\ torn # "left" =>
    \A s \in Shards : writer[s] = "none" =>
      \E f \in FilesOf(own) : f.shard = s /\ f.name = "dump" /\ f.stamp = run /\ f.val = snap[s]

\* The load reads the last dump, shard by shard.
LoadOK ==
  (app \in {"bind", "serve"} /\ ~token /\ load.ok /\ torn # "left" /\ made # <<>> /\ Last(made).ok)
    => /\ load.at = "read" => load.from = Len(made)
       /\ \A s \in Shards :
            mem[s] \in {run, IF load.at = "pick" \/ (load.at = "read" /\ s \in load.left)
                             THEN 0 ELSE Last(made).snap[s]}

IndInv ==
  /\ TypeOK /\ OnlyWholeFiles /\ DirsApart /\ DumpSurvives
  /\ StagesOK /\ DumpsOK /\ OrderOK /\ WrittenOK /\ LoadOK
=============================================================================
