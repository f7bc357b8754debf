--------------------------- MODULE DatabaseSteps ---------------------------
(***************************************************************************)
(* The inductive invariant of Database, and that the steps of a bulk job,  *)
(* of a restart and the simpler ones of table calls preserve it.           *)
(* DatabaseProofs has the other steps and the theorems.                    *)
(***************************************************************************)
EXTENDS Database, TLAPS

----------------------------------------------------------------------------
(* The inductive invariant *)

\* Ids at or above the next one to be handed out name no table and no job.
Unused(m) ==
  /\ \A i \in TableIds : i >= m.next => m.names[i] = NoName /\ ~m.committed[i]
  /\ \A k \in BulkJobIds : k >= m.nextJob => m.jobs[k] = "none"

\* On the ids that both have handed out, storage and memory agree.
Agree ==
  \A i \in TableIds :
    i < db.next /\ i < meta.next =>
      /\ db.names[i] = meta.names[i]
      /\ db.committed[i] => meta.committed[i]

\* Storage is never ahead of memory in the bulk jobs it knows.
JobsAgree ==
  /\ db.nextJob <= meta.nextJob
  /\ \A k \in BulkJobIds : db.jobs[k] = "committed" => meta.jobs[k] = "committed"

\* Where a master is in process_job and in a table call.
Position ==
  /\ job.phase = "validating" => handler.op = "none"
  /\ job.phase = "updated" =>
       /\ handler.op = "none"
       /\ db.next = job.first
       /\ db.next <= meta.next
       /\ mega = cache
  /\ job.phase = "committed" => handler.op = "none"
  /\ handler.op \in {"Ingest", "IngestMegafile"} => job.phase = "idle"
  /\ handler.op = "NewTable" =>
       /\ db.next + 1 = meta.next
       /\ \A i \in TableIds : i >= db.next /\ meta.names[i] # NoName
            => files[i] # NoName /\ maker[i] = "NewTable"
  /\ handler.op \in {"none", "NewTableItems", "Ingest"} /\ job.phase # "updated"
       => db.next = meta.next
  /\ handler.op = "IngestMegafile" => meta.next <= db.next
  /\ job.phase # "idle" => job.id < meta.nextJob

\* The copy of the metadata that ingest_videos works on.
IngestCopy ==
  handler.op = "Ingest" =>
       /\ db.next <= handler.meta.next
       /\ \A i \in TableIds : i < db.next =>
            /\ handler.meta.names[i] = db.names[i]
            /\ handler.meta.committed[i] = db.committed[i]
       /\ \A i \in TableIds : i >= db.next /\ handler.meta.names[i] # NoName
            => i \in handler.todo \cup handler.good
       /\ Unused(handler.meta)
       /\ handler.todo \cap handler.good = {}
       /\ handler.meta.jobs = db.jobs /\ handler.meta.nextJob = db.nextJob
       /\ \A i \in handler.todo \cup handler.good :
            i >= db.next /\ maker[i] = "IngestVideos"
                         /\ handler.meta.names[i] # NoName
       /\ \A i \in handler.good : i \in saved /\ files[i] # NoName

\* Every named table has a descriptor, that of a bulk job its own one.
Described(m, entries) ==
  \A i \in TableIds : m.names[i] # NoName =>
    /\ Lookup(entries, i) # NoName
    /\ maker[i] = "process_job" => entries[i] = m.names[i]

\* A committed table of a bulk job or an ingest has all of its items.
Complete(m) ==
  \A i \in TableIds :
    /\ m.names[i] # NoName /\ m.committed[i]
    /\ maker[i] \in {"process_job", "IngestVideos"}
    => i \in saved

\* The tables of the bulk job.
JobTables ==
  /\ job.phase = "validating" => job.used = {} /\ job.outputs \in Outputs
  /\ job.phase \in {"updated", "running", "committed"} =>
       /\ \A i \in job.tables : i < meta.next
       /\ \A i \in job.used : i \in job.tables /\ meta.committed[i]
  /\ job.phase = "running" => \A i \in job.tables : i < db.next
  /\ job.phase = "committed" =>
       /\ \A i \in job.tables : i < db.next
       /\ \A i \in job.used : db.names[i] # NoName => db.committed[i]
       /\ db.jobs[job.id] = "committed"

\* Ids that workers know are below the next ones to be handed out.
Issued ==
  /\ \A i \in issued.tables : i < db.next /\ i < meta.next
  /\ \A k \in issued.jobs : k < db.nextJob

\* What was reported as finished is on storage.
Reported ==
  /\ \A i \in reported.tables :
       i < db.next /\ i < meta.next /\ db.names[i] # NoName /\ db.committed[i]
  /\ \A k \in reported.jobs : db.jobs[k] = "committed"

\* The inductive invariant.
IInv ==
  /\ TypeOK
  /\ Unused(meta) /\ Unused(db)
  /\ Agree /\ JobsAgree
  /\ Position
  /\ IngestCopy
  /\ Described(meta, cache) /\ Described(db, mega)
  /\ Complete(meta) /\ Complete(db)
  /\ JobTables
  /\ Issued
  /\ Reported

----------------------------------------------------------------------------
(* What the operations of DatabaseMetadata change and keep *)

USE NamesAssumption, BoundsAssumption

\* The counters of memory and of storage are natural numbers.
LEMMA Counters ==
  ASSUME TypeOK
  PROVE  meta.next \in Nat /\ db.next \in Nat /\ meta.nextJob \in Nat /\ db.nextJob \in Nat
BY DEF TypeOK, Metadata

\* get_descriptor keeps everything but the flags of tables that have no name.
LEMMA DescriptorFields ==
  ASSUME NEW m \in Metadata
  PROVE  /\ get_descriptor(m) \in Metadata
         /\ get_descriptor(m).names = m.names
         /\ get_descriptor(m).next = m.next
         /\ get_descriptor(m).jobs = m.jobs
         /\ get_descriptor(m).nextJob = m.nextJob
         /\ \A i \in TableIds :
              get_descriptor(m).committed[i] = (m.names[i] # NoName /\ m.committed[i])
BY Zenon DEF get_descriptor, Metadata, Descriptors

\* commit_table sets flags and nothing else.
LEMMA CommitFields ==
  ASSUME NEW m \in Metadata, NEW ids
  PROVE  /\ commit_tables(m, ids) \in Metadata
         /\ commit_tables(m, ids).names = m.names
         /\ commit_tables(m, ids).next = m.next
         /\ commit_tables(m, ids).jobs = m.jobs
         /\ commit_tables(m, ids).nextJob = m.nextJob
         /\ \A i \in TableIds :
              commit_tables(m, ids).committed[i] = (i \in ids \/ m.committed[i])
BY Zenon DEF commit_tables, Metadata, Descriptors

\* remove_table takes names away and nothing else.
LEMMA RemoveFields ==
  ASSUME NEW m \in Metadata, NEW ids
  PROVE  /\ remove_tables(m, ids) \in Metadata
         /\ remove_tables(m, ids).committed = m.committed
         /\ remove_tables(m, ids).next = m.next
         /\ remove_tables(m, ids).jobs = m.jobs
         /\ remove_tables(m, ids).nextJob = m.nextJob
         /\ \A i \in TableIds :
              remove_tables(m, ids).names[i]
                = IF i \in ids THEN NoName ELSE m.names[i]
BY DEF remove_tables, Metadata, Descriptors

\* add_table gives new ids, uncommitted, and leaves the old ones alone.
LEMMA AddFields ==
  ASSUME NEW m \in Metadata, NEW outs \in Seq(Names),
         m.next + Len(outs) <= MaxTables
  PROVE  /\ add_tables(m, outs) \in Metadata
         /\ add_tables(m, outs).next = m.next + Len(outs)
         /\ add_tables(m, outs).jobs = m.jobs
         /\ add_tables(m, outs).nextJob = m.nextJob
         /\ \A i \in TableIds : i \notin NewIds(m, Len(outs)) =>
              /\ add_tables(m, outs).names[i] = m.names[i]
              /\ add_tables(m, outs).committed[i] = m.committed[i]
         /\ \A i \in NewIds(m, Len(outs)) :
              /\ i \in TableIds
              /\ add_tables(m, outs).names[i] \in Names
              /\ ~add_tables(m, outs).committed[i]
<1> DEFINE ids   == NewIds(m, Len(outs))
           names == [i \in TableIds |-> IF i \in ids THEN outs[i - m.next + 1]
                                                     ELSE m.names[i]]
           flags == [i \in TableIds |-> i \notin ids /\ m.committed[i]]
<1>1. m.next \in Nat /\ Len(outs) \in Nat
  BY DEF Metadata
<1>2. \A i \in ids : i \in TableIds /\ outs[i - m.next + 1] \in Names
  BY <1>1 DEF NewIds, TableIds
<1>3. names \in Descriptors /\ flags \in [TableIds -> BOOLEAN]
  BY <1>2 DEF Descriptors, Metadata
<1>4. add_tables(m, outs) =
        [names |-> names, committed |-> flags, next |-> m.next + Len(outs),
         jobs |-> m.jobs, nextJob |-> m.nextJob]
  BY DEF add_tables, Metadata
<1>5. m.next + Len(outs) \in 0 .. MaxTables
  BY <1>1
<1>6. add_tables(m, outs) \in Metadata
  BY <1>3, <1>4, <1>5 DEF Metadata
<1>7. /\ \A i \in TableIds : i \notin ids =>
            names[i] = m.names[i] /\ flags[i] = m.committed[i]
      /\ \A i \in ids : names[i] \in Names /\ ~flags[i]
  BY Zenon, <1>2 DEF Metadata
<1> HIDE DEF names, flags
<1>8. /\ add_tables(m, outs).names = names
      /\ add_tables(m, outs).committed = flags
      /\ add_tables(m, outs).next = m.next + Len(outs)
      /\ add_tables(m, outs).jobs = m.jobs
      /\ add_tables(m, outs).nextJob = m.nextJob
  BY <1>4
<1> QED
  BY <1>2, <1>6, <1>7, <1>8

\* add_table for a single table.
LEMMA AddOneFields ==
  ASSUME NEW m \in Metadata, NEW outs \in Seq(Names), Len(outs) = 1,
         m.next + 1 <= MaxTables
  PROVE  /\ m.next \in TableIds
         /\ add_tables(m, outs) \in Metadata
         /\ add_tables(m, outs).next = m.next + 1
         /\ add_tables(m, outs).jobs = m.jobs
         /\ add_tables(m, outs).nextJob = m.nextJob
         /\ \A i \in TableIds : i # m.next =>
              /\ add_tables(m, outs).names[i] = m.names[i]
              /\ add_tables(m, outs).committed[i] = m.committed[i]
<1>1. m.next \in Nat
  BY DEF Metadata
<1>2. \A i : i \in NewIds(m, Len(outs)) <=> i = m.next
  BY <1>1 DEF NewIds
<1> QED
  BY ZenonT(40), <1>1, <1>2, AddFields DEF TableIds

\* add_bulk_job changes the entry of the new id only.
LEMMA BulkJobFields ==
  ASSUME NEW m \in Metadata
  PROVE  /\ m.nextJob < MaxBulkJobs =>
              /\ add_bulk_job(m) \in Metadata
              /\ add_bulk_job(m).nextJob = m.nextJob + 1
              /\ m.nextJob \in BulkJobIds
         /\ add_bulk_job(m).names = m.names
         /\ add_bulk_job(m).committed = m.committed
         /\ add_bulk_job(m).next = m.next
         /\ \A k \in BulkJobIds : k # m.nextJob =>
              add_bulk_job(m).jobs[k] = m.jobs[k]
<1> DEFINE jobs == [m.jobs EXCEPT ![m.nextJob] = "uncommitted"]
<1>1. add_bulk_job(m) =
        [names |-> m.names, committed |-> m.committed, next |-> m.next,
         jobs |-> jobs, nextJob |-> m.nextJob + 1]
  BY DEF add_bulk_job, Metadata
<1>2. jobs \in [BulkJobIds -> JobStates]
      /\ \A k \in BulkJobIds : k # m.nextJob => jobs[k] = m.jobs[k]
  BY Zenon DEF Metadata, JobStates
<1>3. m.nextJob < MaxBulkJobs =>
        m.nextJob \in BulkJobIds /\ m.nextJob + 1 \in 0 .. MaxBulkJobs
  BY DEF Metadata, BulkJobIds
<1>4. m.nextJob < MaxBulkJobs => add_bulk_job(m) \in Metadata
  BY <1>1, <1>2, <1>3 DEF Metadata
<1> QED
  BY <1>1, <1>2, <1>3, <1>4

\* commit_bulk_job changes the entry of that bulk job only.
LEMMA CommitJobFields ==
  ASSUME NEW m \in Metadata, NEW k \in BulkJobIds
  PROVE  /\ commit_bulk_job(m, k) \in Metadata
         /\ commit_bulk_job(m, k).names = m.names
         /\ commit_bulk_job(m, k).committed = m.committed
         /\ commit_bulk_job(m, k).next = m.next
         /\ commit_bulk_job(m, k).nextJob = m.nextJob
         /\ commit_bulk_job(m, k).jobs[k] = "committed"
         /\ \A l \in BulkJobIds : l # k =>
              commit_bulk_job(m, k).jobs[l] = m.jobs[l]
BY Zenon DEF commit_bulk_job, Metadata, JobStates, BulkJobIds

\* Prefetching keeps the entries of the cache and makes no table unreadable.
LEMMA LookupType ==
  ASSUME files \in Descriptors, NEW entries \in Descriptors, NEW ids
  PROVE  /\ \A i \in TableIds : Lookup(entries, i) \in Names \cup {NoName}
         /\ Prefetched(entries, ids) \in Descriptors
         /\ \A i \in TableIds : entries[i] # NoName =>
              Prefetched(entries, ids)[i] = entries[i]
         /\ \A i \in TableIds : Lookup(entries, i) # NoName =>
              Lookup(Prefetched(entries, ids), i) # NoName
BY DEF Lookup, Prefetched, Descriptors

----------------------------------------------------------------------------
(* Each action preserves the inductive invariant *)


\* NewJob: the new bulk job is in memory only.
LEMMA NewJobPreserves ==
  ASSUME IInv, NEW outs \in Outputs, NewJob(outs)
  PROVE  IInv'
<1>0. /\ TypeOK /\ Unused(meta) /\ Unused(db) /\ Agree
      /\ JobsAgree /\ Position /\ IngestCopy
      /\ Described(meta, cache) /\ Described(db, mega)
      /\ Complete(meta) /\ Complete(db) /\ JobTables /\ Issued /\ Reported
  BY DEF IInv
<1>f1. /\ meta' \in Metadata /\ meta.nextJob \in BulkJobIds
       /\ meta'.names = meta.names /\ meta'.committed = meta.committed
       /\ meta'.next = meta.next /\ meta'.nextJob = meta.nextJob + 1
       /\ \A k \in BulkJobIds : k # meta.nextJob => meta'.jobs[k] = meta.jobs[k]
  BY <1>0, BulkJobFields DEF NewJob, TypeOK
<1>f2. meta.nextJob \in Nat /\ db.nextJob \in Nat
  BY <1>0 DEF TypeOK, Metadata
<1>1. TypeOK'
  BY <1>0, <1>f1, <1>f2 DEF NewJob, storage, history, NoJob, TypeOK, BulkJobIds
<1>2. Unused(meta)'
  BY <1>0, <1>f1, <1>f2 DEF NewJob, storage, history, NoJob, Unused, BulkJobIds
<1>3. Unused(db)'
  BY <1>0, <1>f1, <1>f2 DEF NewJob, storage, history, NoJob, Unused
<1>4. Agree'
  BY <1>0, <1>f1, <1>f2 DEF NewJob, storage, history, NoJob, Agree
<1>5. JobsAgree'
  BY <1>0, <1>f1, <1>f2 DEF NewJob, storage, history, NoJob, JobsAgree, Unused,
    BulkJobIds
<1>6. Position'
  BY <1>0, <1>f1, <1>f2 DEF NewJob, storage, history, NoJob, Position,
    BulkJobIds
<1>7. IngestCopy'
  BY <1>0, <1>f1, <1>f2 DEF NewJob, storage, history, NoJob, IngestCopy, Unused
<1>8. Described(meta, cache)'
  BY <1>0, <1>f1, <1>f2 DEF NewJob, storage, history, NoJob, Described, Lookup
<1>9. Described(db, mega)'
  BY <1>0, <1>f1, <1>f2 DEF NewJob, storage, history, NoJob, Described, Lookup
<1>10. Complete(meta)'
  BY <1>0, <1>f1, <1>f2 DEF NewJob, storage, history, NoJob, Complete
<1>11. Complete(db)'
  BY <1>0, <1>f1, <1>f2 DEF NewJob, storage, history, NoJob, Complete
<1>12. JobTables'
  BY <1>0, <1>f1, <1>f2 DEF NewJob, storage, history, NoJob, JobTables
<1>13. Issued'
  BY <1>0, <1>f1, <1>f2 DEF NewJob, storage, history, NoJob, Issued
<1>14. Reported'
  BY <1>0, <1>f1, <1>f2 DEF NewJob, storage, history, NoJob, Reported
<1> QED
  BY <1>1, <1>2, <1>3, <1>4, <1>5, <1>6, <1>7, <1>8, <1>9, <1>10, <1>11, <1>12,
    <1>13, <1>14 DEF IInv


\* A rejected bulk job touches nothing on storage.
LEMMA RejectJobPreserves ==
  ASSUME IInv, RejectJob
  PROVE  IInv'
<1>0. /\ TypeOK /\ Unused(meta) /\ Unused(db) /\ Agree
      /\ JobsAgree /\ Position /\ IngestCopy
      /\ Described(meta, cache) /\ Described(db, mega)
      /\ Complete(meta) /\ Complete(db) /\ JobTables /\ Issued /\ Reported
  BY DEF IInv
<1>1. TypeOK'
  BY <1>0 DEF RejectJob, storage, history, NoJob, TypeOK
<1>2. Unused(meta)'
  BY <1>0 DEF RejectJob, storage, history, NoJob, Unused
<1>3. Unused(db)'
  BY <1>0 DEF RejectJob, storage, history, NoJob, Unused
<1>4. Agree'
  BY <1>0 DEF RejectJob, storage, history, NoJob, Agree
<1>5. JobsAgree'
  BY <1>0 DEF RejectJob, storage, history, NoJob, JobsAgree
<1>6. Position'
  BY <1>0 DEF RejectJob, storage, history, NoJob, Position
<1>7. IngestCopy'
  BY <1>0 DEF RejectJob, storage, history, NoJob, IngestCopy, Unused
<1>8. Described(meta, cache)'
  BY <1>0 DEF RejectJob, storage, history, NoJob, Described, Lookup
<1>9. Described(db, mega)'
  BY <1>0 DEF RejectJob, storage, history, NoJob, Described, Lookup
<1>10. Complete(meta)'
  BY <1>0 DEF RejectJob, storage, history, NoJob, Complete
<1>11. Complete(db)'
  BY <1>0 DEF RejectJob, storage, history, NoJob, Complete
<1>12. JobTables'
  BY <1>0 DEF RejectJob, storage, history, NoJob, JobTables
<1>13. Issued'
  BY <1>0 DEF RejectJob, storage, history, NoJob, Issued
<1>14. Reported'
  BY <1>0 DEF RejectJob, storage, history, NoJob, Reported
<1> QED
  BY <1>1, <1>2, <1>3, <1>4, <1>5, <1>6, <1>7, <1>8, <1>9, <1>10, <1>11, <1>12,
    <1>13, <1>14 DEF IInv


\* process_job adds the output tables to meta_, the cache and the megafile.
LEMMA UpdateTablesPreserves ==
  ASSUME IInv, UpdateTables
  PROVE  IInv'
<1>0. /\ TypeOK /\ Unused(meta) /\ Unused(db) /\ Agree
      /\ JobsAgree /\ Position /\ IngestCopy
      /\ Described(meta, cache) /\ Described(db, mega)
      /\ Complete(meta) /\ Complete(db) /\ JobTables /\ Issued /\ Reported
  BY DEF IInv
<1>f1. /\ job.outputs \in Seq(Names) /\ Len(job.outputs) \in Nat
  BY <1>0, OutputsAssumption DEF UpdateTables, JobTables
<1>f2. /\ meta' \in Metadata /\ meta'.next = meta.next + Len(job.outputs)
       /\ meta'.jobs = meta.jobs /\ meta'.nextJob = meta.nextJob
       /\ \A i \in TableIds : i \notin NewIds(meta, Len(job.outputs)) =>
            meta'.names[i] = meta.names[i] /\ meta'.committed[i] = meta.committed[i]
       /\ \A i \in NewIds(meta, Len(job.outputs)) :
            i \in TableIds /\ meta'.names[i] \in Names /\ ~meta'.committed[i]
  BY <1>0, <1>f1, AddFields DEF UpdateTables, Addable, TypeOK
<1>f3. /\ meta.next \in Nat /\ db.next \in Nat /\ meta.nextJob \in Nat /\ db.nextJob \in Nat
  BY <1>0, Counters, Zenon
<1>f4. \A i : i \in NewIds(meta, Len(job.outputs)) <=>
             i \in Int /\ meta.next <= i /\ i < meta.next + Len(job.outputs)
  BY <1>f1, <1>f3 DEF NewIds
<1>f5. \A i \in TableIds : i \in Int
  BY DEF TableIds
<1>f6. handler.op = "none" /\ db.next = meta.next
  BY <1>0 DEF UpdateTables, Position
<1>f7. \A i \in TableIds : db.names[i] = meta.names[i]
  BY <1>0, <1>f3, <1>f5, <1>f6 DEF Agree, Unused
<1>1. TypeOK'
<2>1. NewIds(meta, Len(job.outputs)) \subseteq TableIds
  BY <1>f2
<2>2. cache' \in Descriptors /\ mega' \in Descriptors
  BY Zenon, <1>0, <1>f2 DEF UpdateTables, CacheTables, TypeOK, Descriptors, Metadata
<2>3. saved' \subseteq TableIds /\ maker' \in [TableIds -> Makers]
  BY <1>0 DEF UpdateTables, Created, TypeOK, Makers
<2>4. job'.tables \subseteq TableIds /\ job'.first \in 0 .. MaxTables
      /\ job' = [job EXCEPT !.phase = "updated", !.tables = NewIds(meta, Len(job.outputs)), !.first = meta.next]
  BY <1>0, <2>1 DEF UpdateTables, TypeOK, Metadata
<2> QED
  BY Zenon, <1>0, <1>f2, <2>1, <2>2, <2>3, <2>4 DEF UpdateTables, TypeOK, history
<1>2. Unused(meta)'
<2>1. \A i \in TableIds : i >= meta'.next => meta'.names[i] = NoName /\ ~meta'.committed[i]
  <3> SUFFICES ASSUME NEW i \in TableIds, i >= meta'.next
               PROVE  meta'.names[i] = NoName /\ ~meta'.committed[i]
    OBVIOUS
  <3>1. i >= meta.next /\ i \notin NewIds(meta, Len(job.outputs))
    BY <1>f1, <1>f2, <1>f3, <1>f4, <1>f5
  <3> QED
    BY <1>0, <1>f2, <3>1 DEF Unused
<2>2. \A k \in BulkJobIds : k >= meta'.nextJob => meta'.jobs[k] = "none"
  BY <1>0, <1>f2 DEF Unused
<2> QED
  BY Zenon, <2>1, <2>2 DEF Unused
<1>3. Unused(db)'
  BY <1>0, <1>f1, <1>f2, <1>f3, <1>f4, <1>f5, <1>f6, <1>f7 DEF UpdateTables,
    CacheTables, Created, history, Unused
<1>4. Agree'
  BY <1>0, <1>f1, <1>f2, <1>f3, <1>f4, <1>f5, <1>f6, <1>f7 DEF UpdateTables,
    CacheTables, Created, history, Agree
<1>5. JobsAgree'
  BY <1>0, <1>f1, <1>f2, <1>f3, <1>f4, <1>f5, <1>f6, <1>f7 DEF UpdateTables,
    CacheTables, Created, history, JobsAgree
<1>6. Position'
  BY <1>0, <1>f1, <1>f2, <1>f3, <1>f4, <1>f5, <1>f6, <1>f7 DEF UpdateTables,
    CacheTables, Created, history, Position
<1>7. IngestCopy'
  BY <1>0, <1>f1, <1>f2, <1>f3, <1>f4, <1>f5, <1>f6, <1>f7 DEF UpdateTables,
    CacheTables, Created, history, IngestCopy, Unused
<1>8. Described(meta, cache)'
  BY <1>0, <1>f1, <1>f2, <1>f3, <1>f4, <1>f5, <1>f6, <1>f7 DEF UpdateTables,
    CacheTables, Created, history, Described, Lookup
<1>9. Described(db, mega)'
  BY ZenonT(40), <1>0, <1>f1, <1>f2, <1>f3, <1>f4, <1>f5, <1>f6, <1>f7 DEF UpdateTables,
    CacheTables, Created, history, Described, Lookup, Unused
<1>10. Complete(meta)'
  BY <1>0, <1>f1, <1>f2, <1>f3, <1>f4, <1>f5, <1>f6, <1>f7 DEF UpdateTables,
    CacheTables, Created, history, Complete
<1>11. Complete(db)'
  BY <1>0, <1>f1, <1>f2, <1>f3, <1>f4, <1>f5, <1>f6, <1>f7 DEF UpdateTables,
    CacheTables, Created, history, Complete, Unused
<1>12. JobTables'
  BY <1>0, <1>f1, <1>f2, <1>f3, <1>f4, <1>f5, <1>f6, <1>f7 DEF UpdateTables,
    CacheTables, Created, history, JobTables
<1>13. Issued'
  BY <1>0, <1>f1, <1>f2, <1>f3, <1>f4, <1>f5, <1>f6, <1>f7 DEF UpdateTables,
    CacheTables, Created, history, Issued, TypeOK
<1>14. Reported'
  BY <1>0, <1>f1, <1>f2, <1>f3, <1>f4, <1>f5, <1>f6, <1>f7 DEF UpdateTables,
    CacheTables, Created, history, Reported, TypeOK
<1> QED
  BY <1>1, <1>2, <1>3, <1>4, <1>5, <1>6, <1>7, <1>8, <1>9, <1>10, <1>11, <1>12,
    <1>13, <1>14 DEF IInv


\* Writing the database descriptor makes the ids of the job durable.
LEMMA StartWorkersPreserves ==
  ASSUME IInv, StartWorkers
  PROVE  IInv'
<1>0. /\ TypeOK /\ Unused(meta) /\ Unused(db) /\ Agree
      /\ JobsAgree /\ Position /\ IngestCopy
      /\ Described(meta, cache) /\ Described(db, mega)
      /\ Complete(meta) /\ Complete(db) /\ JobTables /\ Issued /\ Reported
  BY DEF IInv
<1>f1. /\ db' \in Metadata /\ db'.names = meta.names /\ db'.next = meta.next
       /\ db'.jobs = meta.jobs /\ db'.nextJob = meta.nextJob
       /\ \A i \in TableIds : db'.committed[i] = (meta.names[i] # NoName /\ meta.committed[i])
  BY <1>0, DescriptorFields DEF StartWorkers, TypeOK
<1>f2. /\ meta.next \in Nat /\ db.next \in Nat /\ meta.nextJob \in Nat /\ db.nextJob \in Nat
  BY <1>0, Counters, Zenon
<1>f3. job.id \in BulkJobIds
  BY <1>0 DEF StartWorkers, Position, TypeOK, Metadata, BulkJobIds
<1>f4. reported.tables \subseteq TableIds /\ reported.jobs \subseteq BulkJobIds
  BY <1>0 DEF TypeOK
<1>1. TypeOK'
  BY Zenon, <1>0, <1>f1, <1>f2, <1>f3, <1>f4 DEF StartWorkers, TypeOK
<1>2. Unused(meta)'
  BY <1>0, <1>f1, <1>f2, <1>f3, <1>f4 DEF StartWorkers, Unused
<1>3. Unused(db)'
  BY Zenon, <1>0, <1>f1, <1>f2, <1>f3, <1>f4 DEF StartWorkers, Unused
<1>4. Agree'
  BY Zenon, <1>0, <1>f1, <1>f2, <1>f3, <1>f4 DEF StartWorkers, Agree
<1>5. JobsAgree'
  BY <1>0, <1>f1, <1>f2, <1>f3, <1>f4 DEF StartWorkers, JobsAgree
<1>6. Position'
  BY <1>0, <1>f1, <1>f2, <1>f3, <1>f4 DEF StartWorkers, Position
<1>7. IngestCopy'
  BY <1>0, <1>f1, <1>f2, <1>f3, <1>f4 DEF StartWorkers, IngestCopy, Unused,
    Position
<1>8. Described(meta, cache)'
  BY <1>0, <1>f1, <1>f2, <1>f3, <1>f4 DEF StartWorkers, Described, Lookup
<1>9. Described(db, mega)'
  BY <1>0, <1>f1, <1>f2, <1>f3, <1>f4 DEF StartWorkers, Described, Lookup,
    Position
<1>10. Complete(meta)'
  BY <1>0, <1>f1, <1>f2, <1>f3, <1>f4 DEF StartWorkers, Complete
<1>11. Complete(db)'
  BY Zenon, <1>0, <1>f1, <1>f2, <1>f3, <1>f4 DEF StartWorkers, Complete
<1>12. JobTables'
  BY <1>0, <1>f1, <1>f2, <1>f3, <1>f4 DEF StartWorkers, JobTables
<1>13. Issued'
  BY <1>0, <1>f1, <1>f2, <1>f3, <1>f4 DEF StartWorkers, Issued, Position,
    JobTables, JobsAgree, TypeOK, TableIds, BulkJobIds
<1>14. Reported'
<2>1. ASSUME NEW i \in reported.tables
      PROVE  i < db'.next /\ i < meta'.next /\ db'.names[i] # NoName /\ db'.committed[i]
  BY ZenonT(40), <1>0, <1>f1, <1>f2, <1>f4 DEF StartWorkers, Reported, Agree
<2>2. ASSUME NEW k \in reported.jobs
      PROVE  db'.jobs[k] = "committed"
  BY <1>0, <1>f1, <1>f4 DEF StartWorkers, Reported, JobsAgree
<2> QED
  BY <2>1, <2>2 DEF StartWorkers, Reported
<1> QED
  BY <1>1, <1>2, <1>3, <1>4, <1>5, <1>6, <1>7, <1>8, <1>9, <1>10, <1>11, <1>12,
    <1>13, <1>14 DEF IInv


\* Saved items make no table less complete.
LEMMA SaveTablePreserves ==
  ASSUME IInv, NEW i \in TableIds, SaveTable(i)
  PROVE  IInv'
<1>0. /\ TypeOK /\ Unused(meta) /\ Unused(db) /\ Agree
      /\ JobsAgree /\ Position /\ IngestCopy
      /\ Described(meta, cache) /\ Described(db, mega)
      /\ Complete(meta) /\ Complete(db) /\ JobTables /\ Issued /\ Reported
  BY DEF IInv
<1>1. TypeOK'
  BY <1>0 DEF SaveTable, history, TypeOK
<1>2. Unused(meta)'
  BY <1>0 DEF SaveTable, history, Unused
<1>3. Unused(db)'
  BY <1>0 DEF SaveTable, history, Unused
<1>4. Agree'
  BY <1>0 DEF SaveTable, history, Agree
<1>5. JobsAgree'
  BY <1>0 DEF SaveTable, history, JobsAgree
<1>6. Position'
  BY <1>0 DEF SaveTable, history, Position
<1>7. IngestCopy'
  BY <1>0 DEF SaveTable, history, IngestCopy, Unused
<1>8. Described(meta, cache)'
  BY <1>0 DEF SaveTable, history, Described, Lookup
<1>9. Described(db, mega)'
  BY <1>0 DEF SaveTable, history, Described, Lookup
<1>10. Complete(meta)'
  BY <1>0 DEF SaveTable, history, Complete
<1>11. Complete(db)'
  BY <1>0 DEF SaveTable, history, Complete
<1>12. JobTables'
  BY <1>0 DEF SaveTable, history, JobTables
<1>13. Issued'
  BY <1>0 DEF SaveTable, history, Issued
<1>14. Reported'
  BY <1>0 DEF SaveTable, history, Reported
<1> QED
  BY <1>1, <1>2, <1>3, <1>4, <1>5, <1>6, <1>7, <1>8, <1>9, <1>10, <1>11, <1>12,
    <1>13, <1>14 DEF IInv


\* finished_fn reports what was written before it.
LEMMA ReportFinishedPreserves ==
  ASSUME IInv, ReportFinished
  PROVE  IInv'
<1>0. /\ TypeOK /\ Unused(meta) /\ Unused(db) /\ Agree
      /\ JobsAgree /\ Position /\ IngestCopy
      /\ Described(meta, cache) /\ Described(db, mega)
      /\ Complete(meta) /\ Complete(db) /\ JobTables /\ Issued /\ Reported
  BY DEF IInv
<1>f1. job.id \in BulkJobIds
  BY <1>0 DEF ReportFinished, Position, TypeOK, Metadata, BulkJobIds
<1>1. TypeOK'
  BY <1>0, <1>f1 DEF ReportFinished, storage, history, NoJob, TypeOK
<1>2. Unused(meta)'
  BY <1>0, <1>f1 DEF ReportFinished, storage, history, NoJob, Unused
<1>3. Unused(db)'
  BY <1>0, <1>f1 DEF ReportFinished, storage, history, NoJob, Unused
<1>4. Agree'
  BY <1>0, <1>f1 DEF ReportFinished, storage, history, NoJob, Agree
<1>5. JobsAgree'
  BY <1>0, <1>f1 DEF ReportFinished, storage, history, NoJob, JobsAgree
<1>6. Position'
  BY <1>0, <1>f1 DEF ReportFinished, storage, history, NoJob, Position
<1>7. IngestCopy'
  BY <1>0, <1>f1 DEF ReportFinished, storage, history, NoJob, IngestCopy,
    Unused
<1>8. Described(meta, cache)'
  BY <1>0, <1>f1 DEF ReportFinished, storage, history, NoJob, Described, Lookup
<1>9. Described(db, mega)'
  BY <1>0, <1>f1 DEF ReportFinished, storage, history, NoJob, Described, Lookup
<1>10. Complete(meta)'
  BY <1>0, <1>f1 DEF ReportFinished, storage, history, NoJob, Complete
<1>11. Complete(db)'
  BY <1>0, <1>f1 DEF ReportFinished, storage, history, NoJob, Complete
<1>12. JobTables'
  BY Zenon, <1>0, <1>f1 DEF ReportFinished, storage, history, NoJob, JobTables
<1>13. Issued'
  BY <1>0, <1>f1 DEF ReportFinished, storage, history, NoJob, Issued
<1>14. Reported'
  BY Zenon, <1>0, <1>f1 DEF ReportFinished, storage, history, NoJob, Reported,
    JobTables, Agree, TypeOK
<1> QED
  BY <1>1, <1>2, <1>3, <1>4, <1>5, <1>6, <1>7, <1>8, <1>9, <1>10, <1>11, <1>12,
    <1>13, <1>14 DEF IInv


\* A job given up for want of workers leaves the metadata as they are.
LEMMA FailNoWorkersPreserves ==
  ASSUME IInv, FailNoWorkers
  PROVE  IInv'
<1>0. /\ TypeOK /\ Unused(meta) /\ Unused(db) /\ Agree
      /\ JobsAgree /\ Position /\ IngestCopy
      /\ Described(meta, cache) /\ Described(db, mega)
      /\ Complete(meta) /\ Complete(db) /\ JobTables /\ Issued /\ Reported
  BY DEF IInv
<1>1. TypeOK'
  BY <1>0 DEF FailNoWorkers, storage, history, NoJob, TypeOK
<1>2. Unused(meta)'
  BY <1>0 DEF FailNoWorkers, storage, history, NoJob, Unused
<1>3. Unused(db)'
  BY <1>0 DEF FailNoWorkers, storage, history, NoJob, Unused
<1>4. Agree'
  BY <1>0 DEF FailNoWorkers, storage, history, NoJob, Agree
<1>5. JobsAgree'
  BY <1>0 DEF FailNoWorkers, storage, history, NoJob, JobsAgree
<1>6. Position'
  BY <1>0 DEF FailNoWorkers, storage, history, NoJob, Position
<1>7. IngestCopy'
  BY <1>0 DEF FailNoWorkers, storage, history, NoJob, IngestCopy, Unused
<1>8. Described(meta, cache)'
  BY <1>0 DEF FailNoWorkers, storage, history, NoJob, Described, Lookup
<1>9. Described(db, mega)'
  BY <1>0 DEF FailNoWorkers, storage, history, NoJob, Described, Lookup
<1>10. Complete(meta)'
  BY <1>0 DEF FailNoWorkers, storage, history, NoJob, Complete
<1>11. Complete(db)'
  BY <1>0 DEF FailNoWorkers, storage, history, NoJob, Complete
<1>12. JobTables'
  BY <1>0 DEF FailNoWorkers, storage, history, NoJob, JobTables
<1>13. Issued'
  BY <1>0 DEF FailNoWorkers, storage, history, NoJob, Issued
<1>14. Reported'
  BY <1>0 DEF FailNoWorkers, storage, history, NoJob, Reported
<1> QED
  BY <1>1, <1>2, <1>3, <1>4, <1>5, <1>6, <1>7, <1>8, <1>9, <1>10, <1>11, <1>12,
    <1>13, <1>14 DEF IInv


\* blacklist_job changes only what the job still waits for.
LEMMA blacklist_job_Preserves ==
  ASSUME IInv, NEW i \in TableIds, blacklist_job(i)
  PROVE  IInv'
<1>0. /\ TypeOK /\ Unused(meta) /\ Unused(db) /\ Agree
      /\ JobsAgree /\ Position /\ IngestCopy
      /\ Described(meta, cache) /\ Described(db, mega)
      /\ Complete(meta) /\ Complete(db) /\ JobTables /\ Issued /\ Reported
  BY DEF IInv
<1>1. TypeOK'
  BY <1>0 DEF blacklist_job, storage, history, TypeOK
<1>2. Unused(meta)'
  BY <1>0 DEF blacklist_job, storage, history, Unused
<1>3. Unused(db)'
  BY <1>0 DEF blacklist_job, storage, history, Unused
<1>4. Agree'
  BY <1>0 DEF blacklist_job, storage, history, Agree
<1>5. JobsAgree'
  BY <1>0 DEF blacklist_job, storage, history, JobsAgree
<1>6. Position'
  BY <1>0 DEF blacklist_job, storage, history, Position
<1>7. IngestCopy'
  BY <1>0 DEF blacklist_job, storage, history, IngestCopy, Unused
<1>8. Described(meta, cache)'
  BY <1>0 DEF blacklist_job, storage, history, Described, Lookup
<1>9. Described(db, mega)'
  BY <1>0 DEF blacklist_job, storage, history, Described, Lookup
<1>10. Complete(meta)'
  BY <1>0 DEF blacklist_job, storage, history, Complete
<1>11. Complete(db)'
  BY <1>0 DEF blacklist_job, storage, history, Complete
<1>12. JobTables'
  BY <1>0 DEF blacklist_job, storage, history, JobTables
<1>13. Issued'
  BY <1>0 DEF blacklist_job, storage, history, Issued
<1>14. Reported'
  BY <1>0 DEF blacklist_job, storage, history, Reported
<1> QED
  BY <1>1, <1>2, <1>3, <1>4, <1>5, <1>6, <1>7, <1>8, <1>9, <1>10, <1>11, <1>12,
    <1>13, <1>14 DEF IInv


\* The end of process_job commits the bulk job and writes meta_.
LEMMA CommitBulkJobPreserves ==
  ASSUME IInv, CommitBulkJob
  PROVE  IInv'
<1>0. /\ TypeOK /\ Unused(meta) /\ Unused(db) /\ Agree
      /\ JobsAgree /\ Position /\ IngestCopy
      /\ Described(meta, cache) /\ Described(db, mega)
      /\ Complete(meta) /\ Complete(db) /\ JobTables /\ Issued /\ Reported
  BY DEF IInv
<1>f1. job.id \in BulkJobIds
  BY <1>0 DEF CommitBulkJob, Position, TypeOK, Metadata, BulkJobIds
<1>f2. /\ meta' \in Metadata /\ meta'.names = meta.names
       /\ meta'.committed = meta.committed /\ meta'.next = meta.next
       /\ meta'.nextJob = meta.nextJob /\ meta'.jobs[job.id] = "committed"
       /\ \A l \in BulkJobIds : l # job.id => meta'.jobs[l] = meta.jobs[l]
  BY <1>0, <1>f1, CommitJobFields DEF CommitBulkJob, TypeOK
<1>f3. /\ db' \in Metadata /\ db'.names = meta'.names /\ db'.next = meta'.next
       /\ db'.jobs = meta'.jobs /\ db'.nextJob = meta'.nextJob
       /\ \A i \in TableIds : db'.committed[i] = (meta'.names[i] # NoName /\ meta'.committed[i])
  BY <1>f2, DescriptorFields DEF CommitBulkJob, TypeOK
<1>f4. /\ meta.next \in Nat /\ db.next \in Nat /\ meta.nextJob \in Nat /\ db.nextJob \in Nat
  BY <1>0, Counters, Zenon
<1>f5. \A i \in TableIds : i \in Int
  BY DEF TableIds
<1>f6. handler.op = "none" /\ db.next = meta.next
  BY <1>0 DEF CommitBulkJob, Position
<1>f7. \A i \in TableIds : db.names[i] = meta.names[i]
  BY <1>0, <1>f4, <1>f5, <1>f6 DEF Agree, Unused
<1>f8. reported.tables \subseteq TableIds /\ reported.jobs \subseteq BulkJobIds
       /\ issued.tables \subseteq TableIds /\ issued.jobs \subseteq BulkJobIds
  BY <1>0 DEF TypeOK
<1>f9. meta' \in Metadata /\ db' \in Metadata
  BY <1>f2, <1>f3
<1>1. TypeOK'
  BY <1>0, <1>f9 DEF CommitBulkJob, history, TypeOK
<1>2. Unused(meta)'
  BY <1>0, <1>f1, <1>f2, <1>f4 DEF CommitBulkJob, history, Unused, Position,
    BulkJobIds
<1>3. Unused(db)'
  BY Zenon, <1>0, <1>f3, <1>2 DEF CommitBulkJob, history, Unused
<1>4. Agree'
  BY Zenon, <1>0, <1>f1, <1>f2, <1>f3, <1>f4, <1>f5, <1>f6, <1>f7, <1>f8, <1>f9 DEF
    CommitBulkJob, history, Agree
<1>5. JobsAgree'
  BY <1>0, <1>f1, <1>f2, <1>f3, <1>f4, <1>f5, <1>f6, <1>f7, <1>f8, <1>f9 DEF
    CommitBulkJob, history, JobsAgree
<1>6. Position'
  BY <1>0, <1>f1, <1>f2, <1>f3, <1>f4, <1>f5, <1>f6, <1>f7, <1>f8, <1>f9 DEF
    CommitBulkJob, history, Position
<1>7. IngestCopy'
  BY <1>0, <1>f1, <1>f2, <1>f3, <1>f4, <1>f5, <1>f6, <1>f7, <1>f8, <1>f9 DEF
    CommitBulkJob, history, IngestCopy, Unused, Position
<1>8. Described(meta, cache)'
  BY <1>0, <1>f1, <1>f2, <1>f3, <1>f4, <1>f5, <1>f6, <1>f7, <1>f8, <1>f9 DEF
    CommitBulkJob, history, Described, Lookup
<1>9. Described(db, mega)'
  BY <1>0, <1>f1, <1>f2, <1>f3, <1>f4, <1>f5, <1>f6, <1>f7, <1>f8, <1>f9 DEF
    CommitBulkJob, history, Described, Lookup
<1>10. Complete(meta)'
  BY <1>0, <1>f1, <1>f2, <1>f3, <1>f4, <1>f5, <1>f6, <1>f7, <1>f8, <1>f9 DEF
    CommitBulkJob, history, Complete
<1>11. Complete(db)'
  BY Zenon, <1>0, <1>f3, <1>10 DEF CommitBulkJob, history, Complete
<1>12. JobTables'
<2>1. \A i \in job.tables : i \in TableIds /\ i < meta.next
  BY <1>0 DEF CommitBulkJob, JobTables, TypeOK
<2>2. \A i \in job.used : i \in job.tables /\ meta.committed[i]
  BY <1>0 DEF CommitBulkJob, JobTables
<2>3. \A i \in job.used : db'.names[i] # NoName => db'.committed[i]
  BY Zenon, <1>f2, <1>f3, <2>1, <2>2
<2>4. job'.tables = job.tables /\ job'.used = job.used /\ job'.id = job.id
      /\ job'.phase = "committed"
  BY <1>0 DEF CommitBulkJob, TypeOK
<2>5. meta'.next = meta.next /\ db'.next = meta.next
      /\ meta'.committed = meta.committed /\ db'.jobs[job.id] = "committed"
  BY <1>f2, <1>f3
<2> QED
  BY <2>1, <2>2, <2>3, <2>4, <2>5 DEF JobTables
<1>13. Issued'
  BY <1>0, <1>f2, <1>f3, <1>f4, <1>f6, <1>f8 DEF CommitBulkJob, history,
    Issued, JobsAgree, BulkJobIds
<1>14. Reported'
<2>1. ASSUME NEW i \in reported.tables
      PROVE  i < db'.next /\ i < meta'.next /\ db'.names[i] # NoName /\ db'.committed[i]
  <3>1. i \in TableIds /\ i < db.next /\ i < meta.next /\ db.names[i] # NoName
        /\ db.committed[i]
    BY <1>0, <1>f8 DEF Reported
  <3>2. meta.names[i] # NoName /\ meta.committed[i]
    BY <1>0, <3>1 DEF Agree
  <3> QED
    BY Zenon, <1>f2, <1>f3, <3>1, <3>2
<2>2. ASSUME NEW k \in reported.jobs
      PROVE  db'.jobs[k] = "committed"
  BY <1>0, <1>f2, <1>f3, <1>f8 DEF Reported, JobsAgree
<2> QED
  BY <2>1, <2>2 DEF CommitBulkJob, Reported, history
<1> QED
  BY <1>1, <1>2, <1>3, <1>4, <1>5, <1>6, <1>7, <1>8, <1>9, <1>10, <1>11, <1>12,
    <1>13, <1>14 DEF IInv


\* A shutdown writes meta_ without committing the job.
LEMMA FailShutdownPreserves ==
  ASSUME IInv, FailShutdown
  PROVE  IInv'
<1>0. /\ TypeOK /\ Unused(meta) /\ Unused(db) /\ Agree
      /\ JobsAgree /\ Position /\ IngestCopy
      /\ Described(meta, cache) /\ Described(db, mega)
      /\ Complete(meta) /\ Complete(db) /\ JobTables /\ Issued /\ Reported
  BY DEF IInv
<1>f1. /\ db' \in Metadata /\ db'.names = meta.names /\ db'.next = meta.next
       /\ db'.jobs = meta.jobs /\ db'.nextJob = meta.nextJob
       /\ \A i \in TableIds : db'.committed[i] = (meta.names[i] # NoName /\ meta.committed[i])
  <2>1. meta \in Metadata /\ db' = get_descriptor(meta)
    BY <1>0, Zenon DEF FailShutdown, TypeOK
  <2> QED
    BY <2>1, DescriptorFields, Zenon
<1>f2. /\ meta.next \in Nat /\ db.next \in Nat /\ meta.nextJob \in Nat /\ db.nextJob \in Nat
  BY <1>0, Counters, Zenon
<1>f3. \A i \in TableIds : i \in Int
  BY DEF TableIds
<1>f4. handler.op = "none" /\ db.next = meta.next
  BY <1>0 DEF FailShutdown, Position
<1>f5. \A i \in TableIds : db.names[i] = meta.names[i]
  BY <1>0, <1>f2, <1>f3, <1>f4 DEF Agree, Unused
<1>f6. reported.tables \subseteq TableIds /\ reported.jobs \subseteq BulkJobIds
       /\ issued.tables \subseteq TableIds /\ issued.jobs \subseteq BulkJobIds
  BY <1>0 DEF TypeOK
<1>f7. db' \in Metadata
  <2>1. meta \in Metadata /\ db' = get_descriptor(meta)
    BY <1>0, Zenon DEF FailShutdown, TypeOK
  <2> QED
    BY <2>1, DescriptorFields, Zenon
<1>1. TypeOK'
  BY <1>0, <1>f7 DEF FailShutdown, history, NoJob, TypeOK
<1>2. Unused(meta)'
  BY <1>0, <1>f1, <1>f2, <1>f3, <1>f4, <1>f5, <1>f6, <1>f7 DEF FailShutdown,
    history, NoJob, Unused
<1>3. Unused(db)'
  BY ZenonT(40), <1>0, <1>f1, <1>f2, <1>f3, <1>f4, <1>f5, <1>f6, <1>f7 DEF FailShutdown,
    history, NoJob, Unused
<1>4. Agree'
  BY Zenon, <1>0, <1>f1, <1>f2, <1>f3, <1>f4, <1>f5, <1>f6, <1>f7 DEF FailShutdown,
    history, NoJob, Agree
<1>5. JobsAgree'
  BY <1>0, <1>f1, <1>f2, <1>f3, <1>f4, <1>f5, <1>f6, <1>f7 DEF FailShutdown,
    history, NoJob, JobsAgree
<1>6. Position'
  BY Zenon, <1>0, <1>f1, <1>f2, <1>f3, <1>f4, <1>f5, <1>f6, <1>f7 DEF FailShutdown,
    history, NoJob, Position
<1>7. IngestCopy'
  BY Zenon, <1>0, <1>f1, <1>f2, <1>f3, <1>f4, <1>f5, <1>f6, <1>f7 DEF FailShutdown,
    history, NoJob, IngestCopy, Unused
<1>8. Described(meta, cache)'
  BY <1>0, <1>f1, <1>f2, <1>f3, <1>f4, <1>f5, <1>f6, <1>f7 DEF FailShutdown,
    history, NoJob, Described, Lookup
<1>9. Described(db, mega)'
  BY <1>0, <1>f1, <1>f2, <1>f3, <1>f4, <1>f5, <1>f6, <1>f7 DEF FailShutdown,
    history, NoJob, Described, Lookup
<1>10. Complete(meta)'
  BY <1>0, <1>f1, <1>f2, <1>f3, <1>f4, <1>f5, <1>f6, <1>f7 DEF FailShutdown,
    history, NoJob, Complete
<1>11. Complete(db)'
  BY ZenonT(40), <1>0, <1>f1, <1>f2, <1>f3, <1>f4, <1>f5, <1>f6, <1>f7 DEF FailShutdown,
    history, NoJob, Complete
<1>12. JobTables'
  BY Zenon, <1>0, <1>f1, <1>f2, <1>f3, <1>f4, <1>f5, <1>f6, <1>f7 DEF FailShutdown,
    history, NoJob, JobTables
<1>13. Issued'
  BY <1>0, <1>f1, <1>f2, <1>f4, <1>f6 DEF FailShutdown, history, NoJob, Issued,
    JobsAgree, BulkJobIds
<1>14. Reported'
<2>1. ASSUME NEW i \in reported.tables
      PROVE  i < db'.next /\ i < meta'.next /\ db'.names[i] # NoName /\ db'.committed[i]
  BY ZenonT(40), <1>0, <1>f1, <1>f6 DEF FailShutdown, Reported, Agree
<2>2. ASSUME NEW k \in reported.jobs
      PROVE  db'.jobs[k] = "committed"
  BY <1>0, <1>f1, <1>f6 DEF Reported, JobsAgree
<2> QED
  BY <2>1, <2>2 DEF FailShutdown, Reported, history
<1> QED
  BY <1>1, <1>2, <1>3, <1>4, <1>5, <1>6, <1>7, <1>8, <1>9, <1>10, <1>11, <1>12,
    <1>13, <1>14 DEF IInv


\* GetTables adds entries to the cache and replaces none.
LEMMA GetTablesPreserves ==
  ASSUME IInv, NEW name \in Names, GetTables(name)
  PROVE  IInv'
<1>0. /\ TypeOK /\ Unused(meta) /\ Unused(db) /\ Agree
      /\ JobsAgree /\ Position /\ IngestCopy
      /\ Described(meta, cache) /\ Described(db, mega)
      /\ Complete(meta) /\ Complete(db) /\ JobTables /\ Issued /\ Reported
  BY DEF IInv
<1>f1. /\ cache' \in Descriptors
       /\ \A i \in TableIds : cache[i] # NoName => cache'[i] = cache[i]
       /\ \A i \in TableIds : Lookup(cache, i) # NoName => Lookup(cache', i) # NoName
  BY <1>0, LookupType DEF GetTables, TypeOK
<1>1. TypeOK'
  BY <1>0, <1>f1 DEF GetTables, storage, history, Serving, TypeOK
<1>2. Unused(meta)'
  BY <1>0, <1>f1 DEF GetTables, storage, history, Serving, Unused
<1>3. Unused(db)'
  BY <1>0, <1>f1 DEF GetTables, storage, history, Serving, Unused
<1>4. Agree'
  BY <1>0, <1>f1 DEF GetTables, storage, history, Serving, Agree
<1>5. JobsAgree'
  BY Zenon, <1>0, <1>f1 DEF GetTables, storage, history, Serving, JobsAgree
<1>6. Position'
  BY Zenon, <1>0, <1>f1 DEF GetTables, storage, history, Serving, Position
<1>7. IngestCopy'
  BY Zenon, <1>0, <1>f1 DEF GetTables, storage, history, Serving, IngestCopy, Unused
<1>8. Described(meta, cache)'
  BY Zenon, <1>0, <1>f1 DEF GetTables, storage, history, Serving, Described, Lookup
<1>9. Described(db, mega)'
  BY Zenon, <1>0, <1>f1 DEF GetTables, storage, history, Serving, Described, Lookup
<1>10. Complete(meta)'
  BY <1>0, <1>f1 DEF GetTables, storage, history, Serving, Complete
<1>11. Complete(db)'
  BY Zenon, <1>0, <1>f1 DEF GetTables, storage, history, Serving, Complete
<1>12. JobTables'
  BY <1>0, <1>f1 DEF GetTables, storage, history, Serving, JobTables
<1>13. Issued'
  BY <1>0, <1>f1 DEF GetTables, storage, history, Serving, Issued
<1>14. Reported'
  BY <1>0, <1>f1 DEF GetTables, storage, history, Serving, Reported
<1> QED
  BY <1>1, <1>2, <1>3, <1>4, <1>5, <1>6, <1>7, <1>8, <1>9, <1>10, <1>11, <1>12,
    <1>13, <1>14 DEF IInv


\* NewTable writes the items of the new table.
LEMMA NewTableWriteItemsPreserves ==
  ASSUME IInv, NewTableWriteItems
  PROVE  IInv'
<1>0. /\ TypeOK /\ Unused(meta) /\ Unused(db) /\ Agree
      /\ JobsAgree /\ Position /\ IngestCopy
      /\ Described(meta, cache) /\ Described(db, mega)
      /\ Complete(meta) /\ Complete(db) /\ JobTables /\ Issued /\ Reported
  BY DEF IInv
<1>f1. handler.todo \subseteq TableIds
  BY <1>0 DEF TypeOK
<1>f2. EmptyMetadata \in Metadata
  BY DEF EmptyMetadata, Metadata, Descriptors, JobStates
<1>1. TypeOK'
  BY <1>0, <1>f1, <1>f2 DEF NewTableWriteItems, history, NoHandler, TypeOK
<1>2. Unused(meta)'
  BY <1>0, <1>f1, <1>f2 DEF NewTableWriteItems, history, NoHandler, Unused
<1>3. Unused(db)'
  BY <1>0, <1>f1, <1>f2 DEF NewTableWriteItems, history, NoHandler, Unused
<1>4. Agree'
  BY <1>0, <1>f1, <1>f2 DEF NewTableWriteItems, history, NoHandler, Agree
<1>5. JobsAgree'
  BY <1>0, <1>f1, <1>f2 DEF NewTableWriteItems, history, NoHandler, JobsAgree
<1>6. Position'
  BY <1>0, <1>f1, <1>f2 DEF NewTableWriteItems, history, NoHandler, Position
<1>7. IngestCopy'
  BY <1>0, <1>f1, <1>f2 DEF NewTableWriteItems, history, NoHandler, IngestCopy,
    Unused
<1>8. Described(meta, cache)'
  BY <1>0, <1>f1, <1>f2 DEF NewTableWriteItems, history, NoHandler, Described,
    Lookup
<1>9. Described(db, mega)'
  BY <1>0, <1>f1, <1>f2 DEF NewTableWriteItems, history, NoHandler, Described,
    Lookup
<1>10. Complete(meta)'
  BY <1>0, <1>f1, <1>f2 DEF NewTableWriteItems, history, NoHandler, Complete
<1>11. Complete(db)'
  BY <1>0, <1>f1, <1>f2 DEF NewTableWriteItems, history, NoHandler, Complete
<1>12. JobTables'
  BY Zenon, <1>0, <1>f1, <1>f2 DEF NewTableWriteItems, history, NoHandler, JobTables
<1>13. Issued'
  BY <1>0, <1>f1, <1>f2 DEF NewTableWriteItems, history, NoHandler, Issued
<1>14. Reported'
  BY <1>0, <1>f1, <1>f2 DEF NewTableWriteItems, history, NoHandler, Reported
<1> QED
  BY <1>1, <1>2, <1>3, <1>4, <1>5, <1>6, <1>7, <1>8, <1>9, <1>10, <1>11, <1>12,
    <1>13, <1>14 DEF IInv


\* recover_and_init_database makes memory what storage holds, between calls.
LEMMA RecoverPreserves ==
  ASSUME IInv, recover_and_init_database, UNCHANGED <<storage, issued, reported>>,
         TypeOK', handler'.op = "none", job'.phase = "idle"
  PROVE  IInv'
<1>0. /\ TypeOK /\ Unused(db) /\ Described(db, mega) /\ Complete(db)
      /\ Issued /\ Reported
  BY DEF IInv
<1>1. /\ meta' = db /\ cache' = mega
      /\ db' = db /\ mega' = mega /\ files' = files /\ saved' = saved /\ maker' = maker
      /\ issued' = issued /\ reported' = reported
  BY DEF recover_and_init_database, storage
<1>2. db.next \in Nat /\ db.nextJob \in Nat
  BY <1>0, Counters, Zenon
<1>3. Unused(meta)' /\ Unused(db)'
  BY <1>0, <1>1 DEF Unused
<1>4. Agree' /\ JobsAgree'
  BY <1>1, <1>2 DEF Agree, JobsAgree
<1>5. Position'
  BY <1>1, <1>2 DEF Position
<1>6. IngestCopy'
  BY DEF IngestCopy
<1>7. Described(meta, cache)' /\ Described(db, mega)'
  BY <1>0, <1>1 DEF Described, Lookup
<1>8. Complete(meta)' /\ Complete(db)'
  BY <1>0, <1>1 DEF Complete
<1>9. JobTables'
  BY DEF JobTables
<1>10. Issued'
  BY <1>0, <1>1 DEF Issued
<1>11. Reported'
  BY <1>0, <1>1 DEF Reported
<1> QED
  BY <1>3, <1>4, <1>5, <1>6, <1>7, <1>8, <1>9, <1>10, <1>11 DEF IInv

\* The metadata and the call of a master that has just started.
LEMMA FreshTypes ==
  /\ NoHandler \in [op : {"none", "NewTable", "NewTableItems", "Ingest",
                          "IngestMegafile"},
                    meta : Metadata, todo : SUBSET TableIds,
                    good : SUBSET TableIds]
  /\ NoJob \in [phase : {"idle", "validating", "updated", "running", "committed"},
                id : 0 .. MaxBulkJobs, outputs : Outputs \cup {<<>>},
                tables : SUBSET TableIds, first : 0 .. MaxTables,
                used : SUBSET TableIds, blacklisted : SUBSET TableIds]
<1>1. EmptyMetadata \in Metadata
  BY DEF EmptyMetadata, Metadata, Descriptors, JobStates
<1> QED
  BY <1>1 DEF NoHandler, NoJob

\* A refused ingest reads meta_ back from storage.
LEMMA IngestRefusedPreserves ==
  ASSUME IInv, NEW outs \in Outputs, IngestRefused(outs)
  PROVE  IInv'
<1>1. /\ job' = job /\ handler' = handler /\ restarts' = restarts
      /\ job.phase = "idle" /\ handler.op = "none"
      /\ recover_and_init_database /\ UNCHANGED <<storage, issued, reported>>
  BY DEF IngestRefused, Serving, history
<1>2. TypeOK'
  BY <1>1 DEF IInv, TypeOK, recover_and_init_database, storage
<1> QED
  BY <1>1, <1>2, RecoverPreserves

\* An ingest without a good video reads meta_ back from storage.
LEMMA IngestAllFailedPreserves ==
  ASSUME IInv, IngestAllFailed
  PROVE  IInv'
<1>1. /\ job' = job /\ handler' = NoHandler /\ restarts' = restarts
      /\ recover_and_init_database /\ UNCHANGED <<storage, issued, reported>>
  BY DEF IngestAllFailed, history
<1>2. job.phase = "idle" /\ NoHandler.op = "none"
  BY DEF IngestAllFailed, IInv, Position, NoHandler
<1>3. TypeOK'
  BY <1>1, FreshTypes DEF IInv, TypeOK, recover_and_init_database, storage
<1> QED
  BY <1>1, <1>2, <1>3, RecoverPreserves

\* A restarted master has in memory what storage holds.
LEMMA RestartPreserves ==
  ASSUME IInv, Restart
  PROVE  IInv'
<1>1. /\ job' = NoJob /\ handler' = NoHandler /\ restarts' = restarts + 1
      /\ restarts < MaxRestarts
      /\ recover_and_init_database /\ UNCHANGED <<storage, issued, reported>>
  BY DEF Restart
<1>2. NoJob.phase = "idle" /\ NoHandler.op = "none"
  BY DEF NoJob, NoHandler
<1>3. restarts' \in 0 .. MaxRestarts
  BY <1>1 DEF IInv, TypeOK
<1>4. TypeOK'
  BY <1>1, <1>3, FreshTypes DEF IInv, TypeOK, recover_and_init_database, storage
<1> QED
  BY <1>1, <1>2, <1>4, RecoverPreserves

\* One ingested video has its items and its descriptor file.
LEMMA IngestVideoPreserves ==
  ASSUME IInv, NEW i \in TableIds, IngestVideo(i)
  PROVE  IInv'
<1>0. /\ TypeOK /\ Unused(meta) /\ Unused(db) /\ Agree
      /\ JobsAgree /\ Position /\ IngestCopy
      /\ Described(meta, cache) /\ Described(db, mega)
      /\ Complete(meta) /\ Complete(db) /\ JobTables /\ Issued /\ Reported
  BY DEF IInv
<1>f1. /\ files' \in Descriptors /\ files'[i] # NoName
       /\ \A t \in TableIds : t # i => files'[t] = files[t]
       /\ handler'.meta = handler.meta /\ handler'.op = "Ingest"
       /\ handler'.todo = handler.todo \ {i} /\ handler'.good = handler.good \cup {i}
       /\ handler' \in [op : {"Ingest"}, meta : Metadata, todo : SUBSET TableIds, good : SUBSET TableIds]
  BY ZenonT(40), <1>0 DEF IngestVideo, TypeOK, Descriptors, Metadata, IngestCopy
<1>1. TypeOK'
  BY <1>0, <1>f1 DEF IngestVideo, history, TypeOK
<1>2. Unused(meta)'
  BY <1>0, <1>f1 DEF IngestVideo, history, Unused
<1>3. Unused(db)'
  BY <1>0, <1>f1 DEF IngestVideo, history, Unused
<1>4. Agree'
  BY <1>0, <1>f1 DEF IngestVideo, history, Agree
<1>5. JobsAgree'
  BY <1>0, <1>f1 DEF IngestVideo, history, JobsAgree
<1>6. Position'
  BY <1>0, <1>f1 DEF IngestVideo, history, Position
<1>7. IngestCopy'
  BY <1>0, <1>f1 DEF IngestVideo, history, IngestCopy, Unused
<1>8. Described(meta, cache)'
  BY <1>0, <1>f1 DEF IngestVideo, history, Described, Lookup
<1>9. Described(db, mega)'
  BY <1>0, <1>f1 DEF IngestVideo, history, Described, Lookup
<1>10. Complete(meta)'
  BY <1>0, <1>f1 DEF IngestVideo, history, Complete
<1>11. Complete(db)'
  BY <1>0, <1>f1 DEF IngestVideo, history, Complete
<1>12. JobTables'
  BY <1>0, <1>f1 DEF IngestVideo, history, JobTables, Position
<1>13. Issued'
  BY <1>0, <1>f1 DEF IngestVideo, history, Issued
<1>14. Reported'
  BY <1>0, <1>f1 DEF IngestVideo, history, Reported
<1> QED
  BY <1>1, <1>2, <1>3, <1>4, <1>5, <1>6, <1>7, <1>8, <1>9, <1>10, <1>11, <1>12,
    <1>13, <1>14 DEF IInv


\* A bad video loses its table in the copy.
LEMMA IngestBadVideoPreserves ==
  ASSUME IInv, NEW i \in TableIds, IngestBadVideo(i)
  PROVE  IInv'
<1>0. /\ TypeOK /\ Unused(meta) /\ Unused(db) /\ Agree
      /\ JobsAgree /\ Position /\ IngestCopy
      /\ Described(meta, cache) /\ Described(db, mega)
      /\ Complete(meta) /\ Complete(db) /\ JobTables /\ Issued /\ Reported
  BY DEF IInv
<1>f1. /\ remove_tables(handler.meta, {i}) \in Metadata
       /\ remove_tables(handler.meta, {i}).committed = handler.meta.committed
       /\ remove_tables(handler.meta, {i}).next = handler.meta.next
       /\ remove_tables(handler.meta, {i}).jobs = handler.meta.jobs
       /\ remove_tables(handler.meta, {i}).nextJob = handler.meta.nextJob
       /\ \A t \in TableIds : remove_tables(handler.meta, {i}).names[t]
            = IF t = i THEN NoName ELSE handler.meta.names[t]
  BY <1>0, RemoveFields DEF TypeOK
<1>f2. /\ handler' = [op |-> "Ingest", meta |-> remove_tables(handler.meta, {i}),
                      todo |-> handler.todo \ {i}, good |-> handler.good]
  BY Zenon, <1>0 DEF IngestBadVideo, TypeOK
<1>f3. handler.meta.names[i] \in Names
  BY <1>0 DEF IngestBadVideo, IngestCopy, TypeOK, Metadata, Descriptors
<1>f4. /\ files' \in Descriptors
       /\ \A t \in TableIds : files[t] # NoName => files'[t] # NoName
       /\ \A t \in TableIds : t # i => files'[t] = files[t]
  BY <1>0, <1>f3 DEF IngestBadVideo, TypeOK, Descriptors
<1>1. TypeOK'
  BY <1>0, <1>f1, <1>f2, <1>f3, <1>f4 DEF IngestBadVideo, history, TypeOK
<1>2. Unused(meta)'
  BY <1>0, <1>f1, <1>f2, <1>f3, <1>f4 DEF IngestBadVideo, history, Unused
<1>3. Unused(db)'
  BY <1>0, <1>f1, <1>f2, <1>f3, <1>f4 DEF IngestBadVideo, history, Unused
<1>4. Agree'
  BY <1>0, <1>f1, <1>f2, <1>f3, <1>f4 DEF IngestBadVideo, history, Agree
<1>5. JobsAgree'
  BY <1>0, <1>f1, <1>f2, <1>f3, <1>f4 DEF IngestBadVideo, history, JobsAgree
<1>6. Position'
  BY SMTT(30), <1>0, <1>f1, <1>f2, <1>f3, <1>f4 DEF IngestBadVideo, history, Position
<1>7. IngestCopy'
<2>0. handler.op = "Ingest"
  BY Zenon DEF IngestBadVideo
<2>1. /\ handler'.meta.next = handler.meta.next /\ handler'.todo = handler.todo \ {i}
      /\ handler'.good = handler.good
      /\ handler'.meta.committed = handler.meta.committed
      /\ handler'.meta.jobs = handler.meta.jobs
      /\ handler'.meta.nextJob = handler.meta.nextJob
      /\ \A t \in TableIds : handler'.meta.names[t]
                = IF t = i THEN NoName ELSE handler.meta.names[t]
  BY Zenon, <1>f1, <1>f2
<2>2. db' = db /\ maker' = maker /\ saved' = saved
  BY DEF IngestBadVideo
<2>3. i >= db.next /\ i \notin handler.good
      /\ handler.todo \subseteq TableIds /\ handler.good \subseteq TableIds
  <3>1. i \in handler.todo
    BY Zenon DEF IngestBadVideo
  <3>2. handler.todo \subseteq TableIds /\ handler.good \subseteq TableIds
    BY <1>0 DEF TypeOK
  <3>3. i >= db.next /\ i \notin handler.good
    BY Zenon, <1>0, <2>0, <3>1 DEF IngestCopy
  <3> QED
    BY Zenon, <3>2, <3>3
<2>4. Unused(handler'.meta)
  <3>1. Unused(handler.meta)
    BY Zenon, <1>0, <2>0 DEF IngestCopy
  <3> QED
    BY Zenon, <2>1, <3>1 DEF Unused
<2>5. \A t \in TableIds : t < db.next => t # i
  BY SMTT(30), <2>3, <1>0 DEF TypeOK, Metadata, TableIds
<2>6. \A t \in TableIds : t < db.next =>
            /\ handler'.meta.names[t] = db.names[t]
            /\ handler'.meta.committed[t] = db.committed[t]
  BY Zenon, <1>0, <2>0, <2>1, <2>5 DEF IngestCopy
<2>7. \A t \in TableIds : t >= db.next /\ handler'.meta.names[t] # NoName
            => t \in handler'.todo \cup handler'.good
  BY Zenon, <1>0, <2>0, <2>1 DEF IngestCopy
<2>8. \A t \in handler'.todo \cup handler'.good :
            t >= db.next /\ maker[t] = "IngestVideos"
                         /\ handler'.meta.names[t] # NoName
  BY Zenon, <1>0, <2>0, <2>1, <2>3 DEF IngestCopy
<2>9. \A t \in handler'.good : t \in saved /\ files'[t] # NoName
  BY SMTT(30), <1>0, <2>0, <2>1, <2>3, <1>f4 DEF IngestCopy
<2> QED
  BY <1>0, <2>0, <2>1, <2>2, <2>4, <2>6, <2>7, <2>8, <2>9 DEF IngestCopy
<1>8. Described(meta, cache)'
  BY <1>0, <1>f1, <1>f2, <1>f3, <1>f4 DEF IngestBadVideo, history, Described,
    Lookup
<1>9. Described(db, mega)'
  BY <1>0, <1>f1, <1>f2, <1>f3, <1>f4 DEF IngestBadVideo, history, Described,
    Lookup
<1>10. Complete(meta)'
  BY <1>0, <1>f1, <1>f2, <1>f3, <1>f4 DEF IngestBadVideo, history, Complete
<1>11. Complete(db)'
  BY <1>0, <1>f1, <1>f2, <1>f3, <1>f4 DEF IngestBadVideo, history, Complete
<1>12. JobTables'
  BY <1>0, <1>f1, <1>f2, <1>f3, <1>f4 DEF IngestBadVideo, history, JobTables,
    Position
<1>13. Issued'
  BY <1>0, <1>f1, <1>f2, <1>f3, <1>f4 DEF IngestBadVideo, history, Issued
<1>14. Reported'
  BY <1>0, <1>f1, <1>f2, <1>f3, <1>f4 DEF IngestBadVideo, history, Reported
<1> QED
  BY <1>1, <1>2, <1>3, <1>4, <1>5, <1>6, <1>7, <1>8, <1>9, <1>10, <1>11, <1>12,
    <1>13, <1>14 DEF IInv

\* DeleteTables takes the same names from meta_ and from storage.
LEMMA DeleteTablesPreserves ==
  ASSUME IInv, NEW doomed \in SUBSET Names, DeleteTables(doomed)
  PROVE  IInv'
<1>0. /\ TypeOK /\ Unused(meta) /\ Unused(db) /\ Agree
      /\ JobsAgree /\ Position /\ IngestCopy
      /\ Described(meta, cache) /\ Described(db, mega)
      /\ Complete(meta) /\ Complete(db) /\ JobTables /\ Issued /\ Reported
  BY DEF IInv
<1>f1. /\ meta' \in Metadata /\ meta'.committed = meta.committed
       /\ meta'.next = meta.next /\ meta'.jobs = meta.jobs /\ meta'.nextJob = meta.nextJob
       /\ \A t \in TableIds : meta'.names[t]
            = IF t \in {i \in TableIds : meta.names[i] \in doomed} THEN NoName
              ELSE meta.names[t]
  BY <1>0, RemoveFields DEF DeleteTables, TypeOK
<1>f2. /\ db' \in Metadata /\ db'.names = meta'.names /\ db'.next = meta'.next
       /\ db'.jobs = meta'.jobs /\ db'.nextJob = meta'.nextJob
       /\ \A i \in TableIds : db'.committed[i] = (meta'.names[i] # NoName /\ meta'.committed[i])
  BY Zenon, <1>f1, DescriptorFields DEF DeleteTables, TypeOK
<1>f3. /\ meta.next \in Nat /\ db.next \in Nat /\ meta.nextJob \in Nat /\ db.nextJob \in Nat
  BY <1>0, Counters, Zenon
<1>f4. \A i \in TableIds : i \in Int
  BY DEF TableIds
<1>f5. handler.op = "none" /\ db.next = meta.next /\ job.phase \in {"idle", "running"}
  BY <1>0 DEF DeleteTables, Serving, Position
<1>f6. \A i \in TableIds : db.names[i] = meta.names[i]
  BY <1>0, <1>f3, <1>f4, <1>f5 DEF Agree, Unused
<1>f7. reported.tables \subseteq TableIds /\ reported.jobs \subseteq BulkJobIds
       /\ issued.tables \subseteq TableIds /\ issued.jobs \subseteq BulkJobIds
  BY <1>0 DEF TypeOK
<1>f8. meta' \in Metadata /\ db' \in Metadata
  BY <1>f1, <1>f2
<1>f9. \A t \in TableIds : meta'.names[t] # NoName => meta'.names[t] = meta.names[t]
  BY <1>f1
<1>f10. reported' = [tables |-> reported.tables \ {i \in TableIds : meta.names[i] \in doomed},
                    jobs |-> reported.jobs]
  BY Zenon, <1>0 DEF DeleteTables, TypeOK
<1>1. TypeOK'
  BY <1>0, <1>f8, <1>f10 DEF DeleteTables, TypeOK
<1>2. Unused(meta)'
  BY Zenon, <1>0, <1>f1 DEF DeleteTables, Unused
<1>3. Unused(db)'
  BY Zenon, <1>0, <1>f2, <1>2 DEF DeleteTables, Unused
<1>4. Agree'
  BY Zenon, <1>0, <1>f1, <1>f2 DEF DeleteTables, Agree
<1>5. JobsAgree'
  BY <1>f1, <1>f2, <1>f3 DEF JobsAgree
<1>6. Position'
  BY <1>0, <1>f1, <1>f2, <1>f5 DEF DeleteTables, Position
<1>7. IngestCopy'
  BY <1>0, <1>f5 DEF DeleteTables, IngestCopy, Unused
<1>8. Described(meta, cache)'
  BY <1>0, <1>f9 DEF DeleteTables, Described, Lookup
<1>9. Described(db, mega)'
  BY <1>0, <1>f2, <1>f6, <1>f9 DEF DeleteTables, Described, Lookup
<1>10. Complete(meta)'
  BY <1>0, <1>f1, <1>f9 DEF DeleteTables, Complete
<1>11. Complete(db)'
  BY Zenon, <1>0, <1>f2, <1>10 DEF DeleteTables, Complete
<1>12. JobTables'
  BY ZenonT(40), <1>0, <1>f1, <1>f2, <1>f5 DEF DeleteTables, JobTables
<1>13. Issued'
<2>1. \A i \in issued.tables : i < db'.next /\ i < meta'.next
  BY <1>0, <1>f1, <1>f2, <1>f5 DEF Issued
<2>2. ASSUME NEW k \in issued.jobs
      PROVE  k < db'.nextJob
  <3>1. k < db.nextJob /\ k \in Int
    BY <1>0, <1>f7 DEF Issued, BulkJobIds
  <3>2. db.nextJob <= db'.nextJob
    BY Zenon, <1>0, <1>f1, <1>f2 DEF JobsAgree
  <3>3. db.nextJob \in Int /\ db'.nextJob \in Int
    BY <1>f1, <1>f2, <1>f3
  <3> QED
    BY <3>1, <3>2, <3>3
<2> QED
  BY <2>1, <2>2 DEF Issued, DeleteTables
<1>14. Reported'
<2>1. ASSUME NEW i \in reported'.tables
      PROVE  i < db'.next /\ i < meta'.next /\ db'.names[i] # NoName /\ db'.committed[i]
  <3>1. i \in reported.tables /\ meta.names[i] \notin doomed
    BY <1>f10, <1>f7
  <3>2. i \in TableIds /\ i < db.next /\ i < meta.next /\ db.names[i] # NoName
        /\ db.committed[i]
    BY <1>0, <1>f7, <3>1 DEF Reported
  <3>3. meta.names[i] # NoName /\ meta.committed[i]
    BY <1>0, <3>2 DEF Agree
  <3> QED
    BY Zenon, <1>f1, <1>f2, <3>1, <3>2, <3>3
<2>2. ASSUME NEW k \in reported.jobs
      PROVE  db'.jobs[k] = "committed"
  BY <1>0, <1>f1, <1>f2, <1>f7 DEF Reported, JobsAgree
<2> QED
  BY <1>f10, <2>1, <2>2 DEF Reported
<1> QED
  BY <1>1, <1>2, <1>3, <1>4, <1>5, <1>6, <1>7, <1>8, <1>9, <1>10, <1>11, <1>12,
    <1>13, <1>14 DEF IInv

=============================================================================
