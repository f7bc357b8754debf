------------------------------ MODULE Database ------------------------------
(***************************************************************************)
(* The database metadata of a Scanner master: the tables and bulk jobs it  *)
(* keeps in memory (DatabaseMetadata meta_), the cache of table            *)
(* descriptors (TableMetaCache), and the files on storage both are read    *)
(* back from when a master restarts: the database descriptor, one          *)
(* descriptor file per table and the table "megafile" with all of them.    *)
(*                                                                         *)
(* The calls that change them are NewTable, DeleteTables, GetTables,       *)
(* IngestVideos and the metadata steps of a bulk job (process_job and      *)
(* FinishedWork).  A master may stop between any two writes to storage; a  *)
(* new master then recovers from what the files hold.                      *)
(*                                                                         *)
(* A table is represented by its name, a descriptor by the name of the     *)
(* table it describes, the items of a table by whether all of them have    *)
(* been saved.  Each write of one file is atomic.                          *)
(*                                                                         *)
(* process_job reads and writes meta_ without work_mutex_.  A client call  *)
(* that runs in one of those stretches is a data race on the maps; here    *)
(* the clients call while no bulk job is running or while its workers are  *)
(* at work (Serving), and ingest only while none is running.               *)
(***************************************************************************)
EXTENDS Integers, Sequences, FiniteSets

CONSTANTS
  Names,                 \* table names
  NoName,                \* in the place of a name: no such table or file
  Outputs,               \* sequences of names a bulk job or an ingest creates
  CheckpointFrequency,   \* BulkJobParameters.checkpoint_frequency
  MaxTables,             \* bound: table ids handed out
  MaxBulkJobs,           \* bound: bulk job ids handed out
  MaxRestarts            \* bound: restarts of the master

ASSUME NamesAssumption == NoName \notin Names
ASSUME OutputsAssumption == Outputs \subseteq Seq(Names) \ {<<>>}
ASSUME FrequencyAssumption == CheckpointFrequency \in Nat \ {0}
ASSUME BoundsAssumption ==
  MaxTables \in Nat /\ MaxBulkJobs \in Nat /\ MaxRestarts \in Nat

VARIABLES
  meta,       \* meta_: names and committed flags of tables, bulk jobs, next ids
  cache,      \* table_metas_: table id -> descriptor held in memory
  db,         \* storage: the database descriptor
  mega,       \* storage: the megafile, table id -> descriptor
  files,      \* storage: the descriptor file of each table id
  saved,      \* ids whose present table has all of its items on storage
  maker,      \* which call created the present table of an id
  job,        \* the bulk job in process_job
  handler,    \* the table call in progress on the thread of handle_rpcs
  issued,     \* ids that workers have been told of
  reported,   \* tables and bulk jobs reported to a client as finished
  restarts

vars == <<meta, cache, db, mega, files, saved, maker, job, handler, issued,
          reported, restarts>>

history == <<issued, reported, restarts>>

storage == <<db, mega, files, saved, maker>>

TableIds == 0 .. MaxTables - 1

BulkJobIds == 0 .. MaxBulkJobs - 1

Descriptors == [TableIds -> Names \cup {NoName}]

Makers == {"none", "NewTable", "IngestVideos", "process_job"}

JobStates == {"none", "uncommitted", "committed"}

Metadata ==
  [names     : Descriptors,
   committed : [TableIds -> BOOLEAN],
   next      : 0 .. MaxTables,
   jobs      : [BulkJobIds -> JobStates],
   nextJob   : 0 .. MaxBulkJobs]

EmptyMetadata ==
  [names     |-> [i \in TableIds |-> NoName],
   committed |-> [i \in TableIds |-> FALSE],
   next      |-> 0,
   jobs      |-> [k \in BulkJobIds |-> "none"],
   nextJob   |-> 0]

----------------------------------------------------------------------------
(* Faulty variants of definitions below (mutants); no specification uses them *)

\* the cache is updated but not written as the megafile
Fault_MegafileNotWritten(ids) ==
  /\ cache' = [i \in TableIds |-> IF i \in ids THEN meta'.names[i] ELSE cache[i]]
  /\ mega' = mega

\* the cache keeps an entry it has for the id (insert in place of assignment)
Fault_EntryKept(ids) ==
  /\ cache' = [i \in TableIds |-> IF i \in ids /\ cache[i] = NoName
                                    THEN meta'.names[i] ELSE cache[i]]
  /\ mega' = cache'

\* the deletion is not written to storage
Fault_DeleteNotWritten(doomed) ==
  /\ handler.op = "none" /\ job.phase \in {"idle", "running"}
  /\ LET ids == {i \in TableIds : meta.names[i] \in doomed}
     IN /\ meta' = [meta EXCEPT !.names = [i \in TableIds |->
                                 IF i \in ids THEN NoName ELSE @[i]]]
        /\ reported' = [reported EXCEPT !.tables = @ \ ids]
  /\ UNCHANGED <<cache, db, mega, files, saved, maker, job, handler, issued,
                 restarts>>

\* the first finished job commits the tables of all
Fault_CommitsAll(i) ==
  /\ job.phase = "running" /\ handler.op = "none"
  /\ i \in (job.tables \cap saved) \ (job.used \cup job.blacklisted)
  /\ meta' = [meta EXCEPT !.committed =
                [t \in TableIds |-> t \in job.tables \/ @[t]]]
  /\ job' = [job EXCEPT !.used = @ \cup {i}]
  /\ db' = [meta' EXCEPT !.committed =
              [t \in TableIds |-> meta'.names[t] # NoName /\ @[t]]]
  /\ UNCHANGED <<cache, mega, files, saved, maker, handler, history>>

\* the metadata are not written when the bulk job ends
Fault_LastWriteMissing ==
  /\ job.phase = "running" /\ handler.op = "none"
  /\ job.tables = job.used \cup job.blacklisted
  /\ meta' = [meta EXCEPT !.jobs = [@ EXCEPT ![job.id] = "committed"]]
  /\ job' = [job EXCEPT !.phase = "committed"]
  /\ UNCHANGED <<cache, db, mega, files, saved, maker, handler, history>>

\* the workers get the job before the database descriptor is written
Fault_WorkersStartedFirst ==
  /\ job.phase = "updated"
  /\ \/ /\ job.id \notin issued.jobs
        /\ issued' = [tables |-> issued.tables \cup job.tables,
                      jobs   |-> issued.jobs \cup {job.id}]
        /\ UNCHANGED <<db, job>>
     \/ /\ job.id \in issued.jobs
        /\ db' = [meta EXCEPT !.committed =
                    [t \in TableIds |-> meta.names[t] # NoName /\ @[t]]]
        /\ job' = [job EXCEPT !.phase = "running"]
        /\ UNCHANGED issued
  /\ UNCHANGED <<meta, cache, mega, files, saved, maker, handler, reported,
                 restarts>>

----------------------------------------------------------------------------
(* DatabaseMetadata *)

has_table(m, name) == \E i \in TableIds : m.names[i] = name

\* The ids that add_table gives to the n tables added one after the other.
NewIds(m, n) == m.next .. m.next + n - 1

\* add_table for each name of a sequence none of which is in the database.
add_tables(m, outs) ==
  LET ids == NewIds(m, Len(outs))
  IN [names     |-> [i \in TableIds |-> IF i \in ids THEN outs[i - m.next + 1]
                                                     ELSE m.names[i]],
      committed |-> [i \in TableIds |-> i \notin ids /\ m.committed[i]],
      next      |-> m.next + Len(outs),
      jobs      |-> m.jobs,
      nextJob   |-> m.nextJob]

commit_tables(m, ids) ==
  [m EXCEPT !.committed = [i \in TableIds |-> i \in ids \/ @[i]]]

\* The name goes; the committed flag stays behind.
remove_tables(m, ids) ==
  [m EXCEPT !.names = [i \in TableIds |-> IF i \in ids THEN NoName ELSE @[i]]]

add_bulk_job(m) ==
  [names     |-> m.names,
   committed |-> m.committed,
   next      |-> m.next,
   jobs      |-> [m.jobs EXCEPT ![m.nextJob] = "uncommitted"],
   nextJob   |-> m.nextJob + 1]

commit_bulk_job(m, k) == [m EXCEPT !.jobs = [@ EXCEPT ![k] = "committed"]]

\* What write_database_metadata stores: flags of tables that still have a name.
get_descriptor(m) ==
  [m EXCEPT !.committed = [i \in TableIds |-> m.names[i] # NoName /\ @[i]]]

\* Names for new tables are distinct and not in the database.
NamesFree(m, outs) ==
  /\ \A j \in 1 .. Len(outs) : ~has_table(m, outs[j])
  /\ \A j, k \in 1 .. Len(outs) : outs[j] = outs[k] => j = k

Addable(m, outs) == NamesFree(m, outs) /\ m.next + Len(outs) <= MaxTables

\* The present table of each of these ids is a new one, with no items yet.
Created(ids, by) ==
  /\ saved' = saved \ ids
  /\ maker' = [i \in TableIds |-> IF i \in ids THEN by ELSE maker[i]]

(* TableMetaCache *)

\* memoized_read: an entry of the cache wins over the table's own file.
Lookup(entries, i) == IF entries[i] # NoName THEN entries[i] ELSE files[i]

\* prefetch of the tables in ids.
Prefetched(entries, ids) ==
  [i \in TableIds |-> IF i \in ids THEN Lookup(entries, i) ELSE entries[i]]

----------------------------------------------------------------------------
(* The bulk job *)

NoJob == [phase |-> "idle", id |-> 0, outputs |-> <<>>, tables |-> {},
          first |-> 0, used |-> {}, blacklisted |-> {}]

\* No call of a client is being served, and none is kept waiting by the locks.
Serving == handler.op = "none" /\ job.phase \in {"idle", "running"}

NewJob(outs) ==
  /\ job.phase = "idle" /\ handler.op = "none"
  /\ meta.nextJob < MaxBulkJobs
  /\ meta' = add_bulk_job(meta)
  /\ job' = [phase |-> "validating", id |-> meta.nextJob, outputs |-> outs,
             tables |-> {}, first |-> 0, used |-> {}, blacklisted |-> {}]
  /\ UNCHANGED <<cache, storage, handler, history>>

\* process_job's early returns: packet sizes, the DAG or the output names are
\* not valid.
RejectJob ==
  /\ job.phase = "validating"
  /\ job' = NoJob
  /\ UNCHANGED <<meta, cache, storage, handler, history>>

\* Each output table is put in the cache, which is then written as the megafile.
CacheTables(ids) ==
  /\ cache' = [i \in TableIds |-> IF i \in ids THEN meta'.names[i] ELSE cache[i]]
  /\ mega' = cache'

\* The output tables are added to meta_, then to the cache.
UpdateTables ==
  /\ job.phase = "validating"
  /\ Addable(meta, job.outputs)
  /\ LET ids == NewIds(meta, Len(job.outputs))
     IN /\ meta' = add_tables(meta, job.outputs)
        /\ CacheTables(ids)
        /\ Created(ids, "process_job")
        /\ job' = [job EXCEPT !.phase = "updated", !.tables = ids,
                              !.first = meta.next]
  /\ UNCHANGED <<db, files, handler, history>>

\* The database descriptor is written, then the workers get the job.
StartWorkers ==
  /\ job.phase = "updated"
  /\ db' = get_descriptor(meta)
  /\ issued' = [tables |-> issued.tables \cup job.tables,
                jobs   |-> issued.jobs \cup {job.id}]
  /\ job' = [job EXCEPT !.phase = "running"]
  /\ UNCHANGED <<meta, cache, mega, files, saved, maker, handler, reported, restarts>>

\* The save workers have stored the last item of an output table.
SaveTable(i) ==
  /\ job.phase = "running"
  /\ i \in job.tables \ saved
  /\ saved' = saved \cup {i}
  /\ UNCHANGED <<meta, cache, db, mega, files, maker, job, handler, history>>

\* FinishedWork for the last task of the job with output table i.
FinishedWork(i) ==
  /\ job.phase = "running" /\ handler.op = "none"
  /\ i \in (job.tables \cap saved) \ (job.used \cup job.blacklisted)
  /\ meta' = commit_tables(meta, {i})
  /\ job' = [job EXCEPT !.used = @ \cup {i}]
  /\ db' = IF (i - job.first) % CheckpointFrequency = 0
             THEN get_descriptor(meta') ELSE db
  /\ UNCHANGED <<cache, mega, files, saved, maker, handler, history>>

blacklist_job(i) ==
  /\ job.phase = "running" /\ handler.op = "none"
  /\ i \in job.tables \ (job.used \cup job.blacklisted)
  /\ job' = [job EXCEPT !.blacklisted = @ \cup {i}]
  /\ UNCHANGED <<meta, cache, storage, handler, history>>

AllTasksUsed == job.tables = job.used \cup job.blacklisted

CommitBulkJob ==
  /\ job.phase = "running" /\ handler.op = "none"
  /\ AllTasksUsed
  /\ meta' = commit_bulk_job(meta, job.id)
  /\ db' = get_descriptor(meta')
  /\ job' = [job EXCEPT !.phase = "committed"]
  /\ UNCHANGED <<cache, mega, files, saved, maker, handler, history>>

\* finished_fn: from here on GetJobStatus answers finished.
ReportFinished ==
  /\ job.phase = "committed"
  /\ reported' = [tables |-> reported.tables \cup
                               {i \in job.used : meta.names[i] # NoName},
                  jobs   |-> reported.jobs \cup {job.id}]
  /\ job' = NoJob
  /\ UNCHANGED <<meta, cache, storage, handler, issued, restarts>>

\* no_workers_timeout: the job fails and nothing is written.
FailNoWorkers ==
  /\ job.phase = "running"
  /\ ~AllTasksUsed
  /\ job' = NoJob
  /\ UNCHANGED <<meta, cache, storage, handler, history>>

\* A shutdown ends the job: the metadata are written, the job is not committed.
FailShutdown ==
  /\ job.phase = "running" /\ handler.op = "none"
  /\ db' = get_descriptor(meta)
  /\ job' = NoJob
  /\ UNCHANGED <<meta, cache, mega, files, saved, maker, handler, history>>

----------------------------------------------------------------------------
(* The table calls of clients *)

NoHandler == [op |-> "none", meta |-> EmptyMetadata, todo |-> {}, good |-> {}]

GetTables(name) ==
  /\ Serving
  /\ has_table(meta, name)
  /\ cache' = Prefetched(cache, {i \in TableIds : meta.names[i] = name})
  /\ UNCHANGED <<meta, storage, job, handler, history>>

DeleteTables(doomed) ==
  /\ Serving
  /\ LET ids == {i \in TableIds : meta.names[i] \in doomed}
     IN /\ meta' = remove_tables(meta, ids)
        /\ reported' = [reported EXCEPT !.tables = @ \ ids]
  /\ db' = get_descriptor(meta')
  /\ UNCHANGED <<cache, mega, files, saved, maker, job, handler, issued, restarts>>

\* NewTable: add and commit in memory, and write the table's descriptor file.
NewTable(name) ==
  /\ Serving
  /\ Addable(meta, <<name>>)
  /\ meta' = commit_tables(add_tables(meta, <<name>>), {meta.next})
  /\ files' = [files EXCEPT ![meta.next] = name]
  /\ Created({meta.next}, "NewTable")
  /\ handler' = [op |-> "NewTable", meta |-> EmptyMetadata, todo |-> {meta.next},
                 good |-> {}]
  /\ UNCHANGED <<cache, db, mega, job, history>>

NewTableWriteMetadata ==
  /\ handler.op = "NewTable"
  /\ db' = get_descriptor(meta)
  /\ handler' = [handler EXCEPT !.op = "NewTableItems"]
  /\ UNCHANGED <<meta, cache, mega, files, saved, maker, job, history>>

NewTableWriteItems ==
  /\ handler.op = "NewTableItems"
  /\ saved' = saved \cup handler.todo
  /\ handler' = NoHandler
  /\ UNCHANGED <<meta, cache, db, mega, files, maker, job, history>>

recover_and_init_database ==
  /\ meta' = db
  /\ cache' = mega

\* ingest_videos works on its own copy of the metadata, read from storage.
IngestVideos(outs) ==
  /\ Serving /\ job.phase = "idle"
  /\ Addable(db, outs)
  /\ handler' = [op |-> "Ingest", meta |-> add_tables(db, outs),
                 todo |-> NewIds(db, Len(outs)), good |-> {}]
  /\ Created(NewIds(db, Len(outs)), "IngestVideos")
  /\ UNCHANGED <<meta, cache, db, mega, files, job, history>>

\* A name used twice or already in the database: no table is added, meta_ is read again.
IngestRefused(outs) ==
  /\ Serving /\ job.phase = "idle"
  /\ ~NamesFree(db, outs)
  /\ recover_and_init_database
  /\ UNCHANGED <<storage, job, handler, history>>

\* parse_and_write_video or parse_video_inplace succeeds for one video.
IngestVideo(i) ==
  /\ handler.op = "Ingest" /\ i \in handler.todo
  /\ saved' = saved \cup {i}
  /\ files' = [files EXCEPT ![i] = handler.meta.names[i]]
  /\ handler' = [handler EXCEPT !.todo = @ \ {i}, !.good = @ \cup {i}]
  /\ UNCHANGED <<meta, cache, db, mega, maker, job, history>>

\* ... or fails, which may leave a descriptor file behind.
IngestBadVideo(i) ==
  /\ handler.op = "Ingest" /\ i \in handler.todo
  /\ files' \in {files, [files EXCEPT ![i] = handler.meta.names[i]]}
  /\ handler' = [handler EXCEPT !.todo = @ \ {i},
                                !.meta = remove_tables(@, {i})]
  /\ UNCHANGED <<meta, cache, db, mega, saved, maker, job, history>>

IngestAllFailed ==
  /\ handler.op = "Ingest" /\ handler.todo = {} /\ handler.good = {}
  /\ recover_and_init_database
  /\ handler' = NoHandler
  /\ UNCHANGED <<storage, job, history>>

IngestWriteMetadata ==
  /\ handler.op = "Ingest" /\ handler.todo = {} /\ handler.good # {}
  /\ handler' = [handler EXCEPT !.op = "IngestMegafile",
                                !.meta = commit_tables(@, handler.good)]
  /\ db' = get_descriptor(handler'.meta)
  /\ UNCHANGED <<meta, cache, mega, files, saved, maker, job, history>>

\* A fresh cache is read from the megafile, completed with the descriptor
\* files of the committed tables and written back; the master recovers.
IngestWriteMegafile ==
  /\ handler.op = "IngestMegafile"
  /\ mega' = Prefetched(mega, {i \in TableIds : handler.meta.names[i] # NoName
                                                /\ handler.meta.committed[i]})
  /\ meta' = db
  /\ cache' = mega'
  /\ handler' = NoHandler
  /\ UNCHANGED <<db, files, saved, maker, job, history>>

----------------------------------------------------------------------------
\* The master stops and another one starts on the same storage.
Restart ==
  /\ restarts < MaxRestarts
  /\ restarts' = restarts + 1
  /\ recover_and_init_database
  /\ job' = NoJob
  /\ handler' = NoHandler
  /\ UNCHANGED <<storage, issued, reported>>

Init ==
  /\ meta = EmptyMetadata
  /\ cache = [i \in TableIds |-> NoName]
  /\ db = EmptyMetadata
  /\ mega = [i \in TableIds |-> NoName]
  /\ files = [i \in TableIds |-> NoName]
  /\ saved = {}
  /\ maker = [i \in TableIds |-> "none"]
  /\ job = NoJob
  /\ handler = NoHandler
  /\ issued = [tables |-> {}, jobs |-> {}]
  /\ reported = [tables |-> {}, jobs |-> {}]
  /\ restarts = 0

Next ==
  \/ \E outs \in Outputs : NewJob(outs)
  \/ RejectJob
  \/ UpdateTables
  \/ StartWorkers
  \/ \E i \in TableIds : SaveTable(i)
  \/ \E i \in TableIds : FinishedWork(i)
  \/ \E i \in TableIds : blacklist_job(i)
  \/ CommitBulkJob
  \/ ReportFinished
  \/ FailNoWorkers
  \/ FailShutdown
  \/ \E name \in Names : GetTables(name)
  \/ \E doomed \in SUBSET Names : DeleteTables(doomed)
  \/ \E name \in Names : NewTable(name)
  \/ NewTableWriteMetadata
  \/ NewTableWriteItems
  \/ \E outs \in Outputs : IngestVideos(outs)
  \/ \E outs \in Outputs : IngestRefused(outs)
  \/ \E i \in TableIds : IngestVideo(i)
  \/ \E i \in TableIds : IngestBadVideo(i)
  \/ IngestAllFailed
  \/ IngestWriteMetadata
  \/ IngestWriteMegafile
  \/ Restart

Spec == Init /\ [][Next]_vars
----------------------------------------------------------------------------
TypeOK ==
  /\ meta \in Metadata /\ db \in Metadata
  /\ cache \in Descriptors /\ mega \in Descriptors /\ files \in Descriptors
  /\ saved \subseteq TableIds
  /\ maker \in [TableIds -> Makers]
  /\ job \in [phase : {"idle", "validating", "updated", "running", "committed"},
              id : 0 .. MaxBulkJobs, outputs : Outputs \cup {<<>>},
              tables : SUBSET TableIds, first : 0 .. MaxTables,
              used : SUBSET TableIds, blacklisted : SUBSET TableIds]
  /\ handler \in [op : {"none", "NewTable", "NewTableItems", "Ingest",
                        "IngestMegafile"},
                  meta : Metadata, todo : SUBSET TableIds,
                  good : SUBSET TableIds]
  /\ issued \in [tables : SUBSET TableIds, jobs : SUBSET BulkJobIds]
  /\ reported \in [tables : SUBSET TableIds, jobs : SUBSET BulkJobIds]
  /\ restarts \in 0 .. MaxRestarts

\* A descriptor can be read for every table of the database: for one named in
\* the database descriptor whenever the master stops, and for one named in
\* meta_ whenever a client may ask, so that memoized_read never opens a file
\* that was not written (BACKOFF_FAIL ends the master).
DescriptorsReadable ==
  /\ \A i \in TableIds : db.names[i] # NoName => Lookup(mega, i) # NoName
  /\ Serving =>
       \A i \in TableIds : meta.names[i] # NoName => Lookup(cache, i) # NoName

\* The descriptor served for the output table of a bulk job is its own, also
\* when a master that stopped in process_job left the same id in the megafile.
JobDescriptors ==
  Serving => \A i \in TableIds :
    meta.names[i] # NoName /\ maker[i] = "process_job"
      => Lookup(cache, i) = meta.names[i]

\* Between the calls of clients, the database descriptor on storage (which
\* clients read directly) lists the tables of meta_ under the same ids, and
\* calls no table committed that meta_ does not.
StorageAgrees ==
  Serving =>
    /\ db.next = meta.next
    /\ \A i \in TableIds : /\ db.names[i] = meta.names[i]
                           /\ db.committed[i] => meta.committed[i]

\* A table that process_job or ingest_videos made is called committed on
\* storage only when all of its items are there, wherever a master stopped.
CommittedComplete ==
  \A i \in TableIds :
    /\ db.names[i] # NoName /\ db.committed[i]
    /\ maker[i] \in {"process_job", "IngestVideos"}
    => i \in saved

\* What finished_fn reported stays: the bulk job and each of its tables that
\* was neither blacklisted nor deleted are committed on storage ever after.
FinishedDurable ==
  /\ \A i \in reported.tables : db.names[i] # NoName /\ db.committed[i]
  /\ \A k \in reported.jobs : db.jobs[k] = "committed"

\* An id that workers were told of is never given to another table or bulk job,
\* by this master or a later one: a worker that outlives its master can neither
\* overwrite the items of another table nor finish the tasks of another job.
NeverReissued ==
  [][/\ \A i \in issued.tables : meta'.names[i] \in {meta.names[i], NoName}
     /\ \A k \in issued.jobs :
          job'.phase # "idle" /\ job'.id = k => job.phase # "idle" /\ job.id = k
    ]_vars
=============================================================================
