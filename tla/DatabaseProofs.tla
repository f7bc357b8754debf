--------------------------- MODULE DatabaseProofs ---------------------------
(***************************************************************************)
(* Proofs that the metadata of a master and what it finds on storage after *)
(* a restart stay consistent, for any names, outputs and bounds.  The      *)
(* inductive invariant and the first of its steps are in DatabaseSteps.    *)
(***************************************************************************)
EXTENDS DatabaseSteps

----------------------------------------------------------------------------
(* The remaining steps *)

USE NamesAssumption, BoundsAssumption

\* FinishedWork commits a table whose items are saved, perhaps on storage too.
LEMMA FinishedWorkPreserves ==
  ASSUME IInv, NEW i \in TableIds, FinishedWork(i)
  PROVE  IInv'
<1>0. /\ TypeOK /\ Unused(meta) /\ Unused(db) /\ Agree
      /\ JobsAgree /\ Position /\ IngestCopy
      /\ Described(meta, cache) /\ Described(db, mega)
      /\ Complete(meta) /\ Complete(db) /\ JobTables /\ Issued /\ Reported
  BY DEF IInv
<1>f1. /\ meta' \in Metadata /\ meta'.names = meta.names /\ meta'.next = meta.next
       /\ meta'.jobs = meta.jobs /\ meta'.nextJob = meta.nextJob
       /\ \A t \in TableIds : meta'.committed[t] = (t \in {i} \/ meta.committed[t])
  BY <1>0, CommitFields DEF FinishedWork, TypeOK
<1>f2. /\ meta.next \in Nat /\ db.next \in Nat /\ meta.nextJob \in Nat /\ db.nextJob \in Nat
  BY <1>0, Counters, Zenon
<1>f3. \A t \in TableIds : t \in Int
  BY DEF TableIds
<1>f4. handler.op = "none" /\ job.phase = "running" /\ db.next = meta.next
       /\ i \in job.tables /\ i \in saved
  BY <1>0 DEF FinishedWork, Position
<1>f5. \A t \in TableIds : db.names[t] = meta.names[t]
  BY <1>0, <1>f2, <1>f3, <1>f4 DEF Agree, Unused
<1>f6. reported.tables \subseteq TableIds /\ reported.jobs \subseteq BulkJobIds
       /\ issued.tables \subseteq TableIds /\ issued.jobs \subseteq BulkJobIds
  BY <1>0 DEF TypeOK
<1>f7. /\ get_descriptor(meta') \in Metadata /\ get_descriptor(meta').names = meta'.names
       /\ get_descriptor(meta').next = meta'.next /\ get_descriptor(meta').jobs = meta'.jobs
       /\ get_descriptor(meta').nextJob = meta'.nextJob
       /\ \A t \in TableIds : get_descriptor(meta').committed[t]
                                = (meta'.names[t] # NoName /\ meta'.committed[t])
  BY <1>f1, DescriptorFields
<1>f8. db' = db \/ db' = get_descriptor(meta')
  BY DEF FinishedWork
<1>f9. /\ db' \in Metadata /\ db'.next = meta.next
       /\ \A t \in TableIds : db'.names[t] = meta.names[t]
  BY <1>0, <1>f1, <1>f4, <1>f5, <1>f7, <1>f8 DEF TypeOK
<1>f10. /\ db.nextJob <= db'.nextJob /\ db'.nextJob <= meta.nextJob
       /\ \A k \in BulkJobIds : db'.jobs[k] = "committed" => meta.jobs[k] = "committed"
  BY <1>0, <1>f1, <1>f2, <1>f7, <1>f8 DEF JobsAgree, Unused
<1>f11. /\ \A t \in TableIds : t < meta.next /\ db'.committed[t] => meta'.committed[t]
       /\ \A t \in TableIds : t < meta.next /\ db.names[t] # NoName /\ db.committed[t] => db'.committed[t]
  BY ZenonT(40), <1>0, <1>f1, <1>f4, <1>f5, <1>f7, <1>f8 DEF Agree
<1>f12. job'.phase = "running" /\ job'.tables = job.tables /\ job'.id = job.id
       /\ job'.used = job.used \cup {i} /\ job'.first = job.first
  BY <1>0 DEF FinishedWork, TypeOK
<1>f13. meta' \in Metadata /\ db' \in Metadata
  BY <1>f1, <1>f9
<1>f14. \A k \in BulkJobIds : db.jobs[k] = "committed" => db'.jobs[k] = "committed"
  BY <1>0, <1>f1, <1>f7, <1>f8 DEF JobsAgree
<1>f15. \A k \in BulkJobIds : k >= db'.nextJob => db'.jobs[k] = "none"
  BY <1>0, <1>f1, <1>f7, <1>f8 DEF Unused
<1>1. TypeOK'
  BY <1>0, <1>f13 DEF FinishedWork, history, TypeOK
<1>2. Unused(meta)'
<2>1. i < meta.next
  BY <1>0, <1>f4 DEF JobTables
<2>2. \A t \in TableIds : t >= meta.next => t # i
  BY <1>f2, <1>f3, <2>1
<2>3. \A t \in TableIds : t >= meta'.next => meta'.names[t] = NoName /\ ~meta'.committed[t]
  BY Zenon, <1>0, <1>f1, <2>2 DEF Unused
<2> QED
  BY <1>0, <1>f1, <2>3 DEF Unused
<1>3. Unused(db)'
<2>1. \A t \in TableIds : t >= db'.next => db'.names[t] = NoName /\ ~db'.committed[t]
  <3> SUFFICES ASSUME NEW t \in TableIds, t >= db'.next
               PROVE  db'.names[t] = NoName /\ ~db'.committed[t]
    OBVIOUS
  <3>1. t >= meta.next
    BY <1>f9
  <3>2. CASE db' = db
    BY <1>0, <1>f4, <3>1, <3>2 DEF Unused
  <3>3. CASE db' = get_descriptor(meta')
    BY Zenon, <1>2, <1>f1, <1>f7, <3>1, <3>3 DEF Unused
  <3> QED
    BY <1>f8, <3>2, <3>3
<2> QED
  BY <1>f15, <2>1 DEF Unused
<1>4. Agree'
  BY ZenonT(40), <1>0, <1>f1, <1>f9, <1>f11 DEF FinishedWork, history, Agree
<1>5. JobsAgree'
  BY Zenon, <1>0, <1>f1, <1>f10 DEF FinishedWork, history, JobsAgree
<1>6. Position'
  BY <1>0, <1>f1, <1>f4, <1>f9, <1>f12 DEF FinishedWork, history, Position
<1>7. IngestCopy'
  BY <1>0, <1>f4 DEF FinishedWork, history, IngestCopy, Unused
<1>8. Described(meta, cache)'
  BY <1>0, <1>f1 DEF FinishedWork, history, Described, Lookup
<1>9. Described(db, mega)'
  BY ZenonT(40), <1>0, <1>f5, <1>f9 DEF FinishedWork, history, Described, Lookup
<1>10. Complete(meta)'
  BY Zenon, <1>0, <1>f1, <1>f4 DEF FinishedWork, history, Complete
<1>11. Complete(db)'
<2>1. ASSUME NEW t \in TableIds, db'.names[t] # NoName, db'.committed[t]
      PROVE  meta'.names[t] # NoName /\ meta'.committed[t]
  <3>1. meta.names[t] # NoName
    BY <1>f9, <2>1
  <3>2. t < meta.next
    BY <1>0, <1>f2, <1>f3, <3>1 DEF Unused
  <3> QED
    BY <1>f1, <1>f11, <2>1, <3>1, <3>2
<2> QED
  BY <1>10, <2>1 DEF Complete
<1>12. JobTables'
  BY ZenonT(40), <1>0, <1>f1, <1>f6, <1>f9, <1>f12, <1>f4 DEF FinishedWork, history,
    JobTables, TypeOK
<1>13. Issued'
<2>1. \A t \in issued.tables : t < db'.next /\ t < meta'.next
  BY <1>0, <1>f1, <1>f4, <1>f9 DEF Issued
<2>2. ASSUME NEW k \in issued.jobs
      PROVE  k < db'.nextJob
  <3>1. k < db.nextJob /\ k \in Int
    BY <1>0, <1>f6 DEF Issued, BulkJobIds
  <3>2. db.nextJob <= db'.nextJob
    BY <1>0, <1>f10 DEF JobsAgree
  <3>3. db.nextJob \in Int /\ db'.nextJob \in Int
    BY <1>f2, <1>f9 DEF Metadata
  <3> QED
    BY <3>1, <3>2, <3>3
<2> QED
  BY Zenon, <2>1, <2>2 DEF Issued, FinishedWork, history
<1>14. Reported'
<2>1. ASSUME NEW t \in reported.tables
      PROVE  t < db'.next /\ t < meta'.next /\ db'.names[t] # NoName /\ db'.committed[t]
  <3>1. t \in TableIds /\ t < db.next /\ t < meta.next /\ db.names[t] # NoName
        /\ db.committed[t]
    BY <1>0, <1>f6 DEF Reported
  <3> QED
    BY <1>f1, <1>f5, <1>f9, <1>f11, <3>1
<2>2. ASSUME NEW k \in reported.jobs
      PROVE  db'.jobs[k] = "committed"
  <3>1. db.jobs[k] = "committed" /\ k \in BulkJobIds
    BY <1>0, <1>f6 DEF Reported
  <3> QED
    BY <1>f14, <3>1
<2> QED
  BY Zenon, <2>1, <2>2 DEF FinishedWork, Reported, history
<1> QED
  BY <1>1, <1>2, <1>3, <1>4, <1>5, <1>6, <1>7, <1>8, <1>9, <1>10, <1>11, <1>12,
    <1>13, <1>14 DEF IInv


\* NewTable writes the descriptor file before the table is on storage.
LEMMA NewTablePreserves ==
  ASSUME IInv, NEW name \in Names, NewTable(name)
  PROVE  IInv'
<1>0. /\ TypeOK /\ Unused(meta) /\ Unused(db) /\ Agree
      /\ JobsAgree /\ Position /\ IngestCopy
      /\ Described(meta, cache) /\ Described(db, mega)
      /\ Complete(meta) /\ Complete(db) /\ JobTables /\ Issued /\ Reported
  BY DEF IInv
<1>f1. <<name>> \in Seq(Names) /\ Len(<<name>>) = 1
  OBVIOUS
<1>f2. /\ meta.next \in Nat /\ db.next \in Nat /\ meta.nextJob \in Nat /\ db.nextJob \in Nat
  BY <1>0, Counters, Zenon
<1>f3. \A i \in TableIds : i \in Int
  BY DEF TableIds
<1>f4. meta.next + 1 <= MaxTables
  BY <1>f1 DEF NewTable, Addable
<1>f5. /\ meta.next \in TableIds
       /\ add_tables(meta, <<name>>) \in Metadata /\ add_tables(meta, <<name>>).next = meta.next + 1
       /\ add_tables(meta, <<name>>).jobs = meta.jobs /\ add_tables(meta, <<name>>).nextJob = meta.nextJob
       /\ \A i \in TableIds : i # meta.next =>
            /\ add_tables(meta, <<name>>).names[i] = meta.names[i]
            /\ add_tables(meta, <<name>>).committed[i] = meta.committed[i]
  BY Zenon, <1>0, <1>f1, <1>f4, AddOneFields DEF TypeOK
<1>f6. /\ meta' \in Metadata /\ meta'.next = meta.next + 1
       /\ meta'.jobs = meta.jobs /\ meta'.nextJob = meta.nextJob
       /\ \A i \in TableIds : i # meta.next =>
            meta'.names[i] = meta.names[i] /\ meta'.committed[i] = meta.committed[i]
  <2>1. /\ meta' \in Metadata /\ meta'.names = add_tables(meta, <<name>>).names
        /\ meta'.next = add_tables(meta, <<name>>).next
        /\ meta'.jobs = add_tables(meta, <<name>>).jobs
        /\ meta'.nextJob = add_tables(meta, <<name>>).nextJob
    BY <1>f5, CommitFields DEF NewTable
  <2>2. \A i \in TableIds : meta'.committed[i]
          = (i \in {meta.next} \/ add_tables(meta, <<name>>).committed[i])
    BY <1>f5, CommitFields DEF NewTable
  <2>3. ASSUME NEW i \in TableIds, i # meta.next
        PROVE  meta'.names[i] = meta.names[i] /\ meta'.committed[i] = meta.committed[i]
    <3>1. meta'.committed[i] = add_tables(meta, <<name>>).committed[i]
      <4>1. meta'.committed[i] \in BOOLEAN /\ add_tables(meta, <<name>>).committed[i] \in BOOLEAN
        BY <1>f5, <2>1 DEF Metadata
      <4> QED
        BY <2>2, <2>3, <4>1
    <3> QED
      BY <1>f5, <2>1, <2>3, <3>1
  <2> QED
    BY <1>f5, <2>1, <2>3
<1>f7. handler.op = "none" /\ db.next = meta.next /\ job.phase \in {"idle", "running"}
  BY <1>0 DEF NewTable, Serving, Position
<1>f8. \A i \in TableIds : db.names[i] = meta.names[i]
  BY <1>0, <1>f2, <1>f3, <1>f7 DEF Agree, Unused
<1>f9. reported.tables \subseteq TableIds /\ reported.jobs \subseteq BulkJobIds
       /\ issued.tables \subseteq TableIds /\ issued.jobs \subseteq BulkJobIds
  BY <1>0 DEF TypeOK
<1>f10. /\ files' \in Descriptors /\ files'[meta.next] = name
       /\ \A i \in TableIds : i # meta.next => files'[i] = files[i]
  BY <1>0, <1>f5 DEF NewTable, TypeOK, Descriptors
<1>f11. /\ maker' \in [TableIds -> Makers] /\ maker'[meta.next] = "NewTable"
       /\ \A i \in TableIds : i # meta.next => maker'[i] = maker[i]
       /\ saved' = saved \ {meta.next}
  BY <1>0, <1>f5 DEF NewTable, Created, TypeOK, Makers
<1>f12. /\ EmptyMetadata \in Metadata
       /\ handler' = [op |-> "NewTable", meta |-> EmptyMetadata,
                      todo |-> {meta.next}, good |-> {}]
  BY DEF NewTable, NoHandler, EmptyMetadata, Metadata, Descriptors, JobStates
<1>f13. cache' = cache /\ db' = db /\ mega' = mega /\ job' = job
       /\ issued' = issued /\ reported' = reported
  BY DEF NewTable, history
<1>1. TypeOK'
<2>1. handler' \in [op : {"NewTable"}, meta : Metadata, todo : SUBSET TableIds,
                   good : SUBSET TableIds]
  BY <1>f5, <1>f12
<2>2. saved \subseteq TableIds
  BY <1>0 DEF TypeOK
<2>3. saved' = saved \ {meta.next}
  BY DEF NewTable, Created
<2>4. saved' \subseteq TableIds
  BY <2>2, <2>3
<2>5. maker' \in [TableIds -> Makers]
  BY <1>f11
<2>6. meta' \in Metadata /\ files' \in Descriptors
  BY <1>f6, <1>f10
<2> QED
  BY <1>0, <1>f13, <2>1, <2>4, <2>5, <2>6 DEF NewTable, history, TypeOK
<1>2. Unused(meta)'
  BY <1>0, <1>f2, <1>f3, <1>f6 DEF Unused
<1>3. Unused(db)'
  BY <1>0, <1>f13 DEF Unused
<1>4. Agree'
  BY <1>0, <1>f2, <1>f3, <1>f6, <1>f7, <1>f13 DEF Agree
<1>5. JobsAgree'
  BY <1>0, <1>f6, <1>f13 DEF JobsAgree
<1>6. Position'
<2>1. \A i \in TableIds : i >= db.next /\ meta'.names[i] # NoName
            => files'[i] # NoName /\ maker'[i] = "NewTable"
  BY <1>0, <1>f6, <1>f7, <1>f10, <1>f11 DEF Unused
<2> QED
  BY <1>0, <1>f2, <1>f6, <1>f7, <1>f12, <1>f13, <2>1 DEF Position
<1>7. IngestCopy'
  BY <1>f12 DEF IngestCopy
<1>8. Described(meta, cache)'
<2>1. \A i \in TableIds : i # meta.next => Lookup(cache, i)' = Lookup(cache, i)
  BY <1>f10, <1>f13 DEF Lookup
<2>2. \A i \in TableIds : i = meta.next => Lookup(cache, i)' # NoName
  BY <1>f10 DEF Lookup
<2> QED
  BY <1>0, <1>f6, <1>f11, <1>f13, <2>1, <2>2 DEF Described
<1>9. Described(db, mega)'
<2>1. \A i \in TableIds : i # meta.next => Lookup(mega, i)' = Lookup(mega, i)
  BY <1>f10, <1>f13 DEF Lookup
<2>2. db.names[meta.next] = NoName
  BY <1>0, <1>f2, <1>f5, <1>f7 DEF Unused
<2> QED
  BY <1>0, <1>f11, <1>f13, <2>1, <2>2 DEF Described
<1>10. Complete(meta)'
  BY <1>0, <1>f6, <1>f11 DEF Complete
<1>11. Complete(db)'
  BY <1>0, <1>f11, <1>f13 DEF Complete
<1>12. JobTables'
<2>1. \A i \in job.tables : i \in TableIds
  BY <1>0 DEF TypeOK
<2> QED
  BY <1>0, <1>f2, <1>f3, <1>f6, <1>f7, <1>f13, <2>1 DEF JobTables
<1>13. Issued'
  BY <1>0, <1>f2, <1>f3, <1>f6, <1>f9, <1>f13 DEF Issued
<1>14. Reported'
  BY <1>0, <1>f2, <1>f3, <1>f6, <1>f9, <1>f13 DEF Reported
<1> QED
  BY <1>1, <1>2, <1>3, <1>4, <1>5, <1>6, <1>7, <1>8, <1>9, <1>10, <1>11, <1>12,
    <1>13, <1>14 DEF IInv


\* NewTable writes meta_: the new table has its descriptor file.
LEMMA NewTableWriteMetadataPreserves ==
  ASSUME IInv, NewTableWriteMetadata
  PROVE  IInv'
<1>0. /\ TypeOK /\ Unused(meta) /\ Unused(db) /\ Agree
      /\ JobsAgree /\ Position /\ IngestCopy
      /\ Described(meta, cache) /\ Described(db, mega)
      /\ Complete(meta) /\ Complete(db) /\ JobTables /\ Issued /\ Reported
  BY DEF IInv
<1>f1. /\ db' \in Metadata /\ db'.names = meta.names /\ db'.next = meta.next
       /\ db'.jobs = meta.jobs /\ db'.nextJob = meta.nextJob
       /\ \A i \in TableIds : db'.committed[i] = (meta.names[i] # NoName /\ meta.committed[i])
  BY <1>0, DescriptorFields DEF NewTableWriteMetadata, TypeOK
<1>f2. /\ meta.next \in Nat /\ db.next \in Nat /\ meta.nextJob \in Nat /\ db.nextJob \in Nat
  BY <1>0, Counters, Zenon
<1>f3. \A i \in TableIds : i \in Int
  BY DEF TableIds
<1>f4. handler.op = "NewTable" /\ db.next + 1 = meta.next /\ job.phase \in {"idle", "running"}
  BY <1>0 DEF NewTableWriteMetadata, Position, TypeOK
<1>f5. reported.tables \subseteq TableIds /\ reported.jobs \subseteq BulkJobIds
       /\ issued.tables \subseteq TableIds /\ issued.jobs \subseteq BulkJobIds
  BY <1>0 DEF TypeOK
<1>f6. handler' \in [op : {"NewTableItems"}, meta : Metadata, todo : SUBSET TableIds,
                     good : SUBSET TableIds]
  BY <1>0 DEF NewTableWriteMetadata, TypeOK
<1>f7. meta' = meta /\ cache' = cache /\ mega' = mega /\ files' = files /\ maker' = maker
       /\ saved' = saved /\ job' = job /\ issued' = issued /\ reported' = reported
  BY DEF NewTableWriteMetadata, history
<1>f8. db' \in Metadata
  BY <1>f1
<1>1. TypeOK'
  BY <1>0, <1>f6, <1>f8 DEF NewTableWriteMetadata, history, TypeOK
<1>2. Unused(meta)'
  BY <1>0, <1>f7 DEF Unused
<1>3. Unused(db)'
  BY Zenon, <1>0, <1>f1 DEF Unused
<1>4. Agree'
  BY Zenon, <1>f1, <1>f7 DEF Agree
<1>5. JobsAgree'
  BY <1>f1, <1>f2, <1>f7 DEF JobsAgree
<1>6. Position'
  BY <1>0, <1>f1, <1>f4, <1>f6, <1>f7 DEF Position
<1>7. IngestCopy'
  BY <1>f6 DEF IngestCopy
<1>8. Described(meta, cache)'
  BY <1>0, <1>f7 DEF Described, Lookup
<1>9. Described(db, mega)'
<2>1. ASSUME NEW i \in TableIds, meta.names[i] # NoName
      PROVE  /\ Lookup(mega, i) # NoName
             /\ maker[i] = "process_job" => mega[i] = meta.names[i]
  <3>1. CASE i < db.next
    <4>1. db.names[i] = meta.names[i]
      BY <1>0, <1>f2, <1>f3, <1>f4, <3>1 DEF Agree
    <4> QED
      BY <1>0, <2>1, <4>1 DEF Described
  <3>2. CASE i >= db.next
    <4>1. files[i] # NoName /\ maker[i] = "NewTable"
      BY <1>0, <1>f4, <2>1, <3>2 DEF Position
    <4> QED
      BY <4>1 DEF Lookup
  <3> QED
    BY <3>1, <3>2, <1>f2, <1>f3
<2>2. \A i \in TableIds : Lookup(mega, i)' = Lookup(mega, i)
  BY <1>f7 DEF Lookup
<2> QED
  BY <1>f1, <1>f7, <2>1, <2>2 DEF Described
<1>10. Complete(meta)'
  BY <1>0, <1>f7 DEF Complete
<1>11. Complete(db)'
  BY Zenon, <1>0, <1>f1, <1>f7 DEF Complete
<1>12. JobTables'
<2>1. \A i \in job.tables : i \in TableIds
  BY <1>0 DEF TypeOK
<2> QED
  BY <1>0, <1>f1, <1>f2, <1>f3, <1>f4, <1>f7, <2>1 DEF JobTables
<1>13. Issued'
<2>1. \A i \in issued.tables : i < db'.next /\ i < meta'.next
  BY <1>0, <1>f1, <1>f7 DEF Issued
<2>2. \A k \in issued.jobs : k < db'.nextJob
  BY <1>0, <1>f1, <1>f2, <1>f5 DEF Issued, JobsAgree, BulkJobIds
<2> QED
  BY <1>f7, <2>1, <2>2 DEF Issued
<1>14. Reported'
<2>1. ASSUME NEW t \in reported.tables
      PROVE  t < db'.next /\ t < meta'.next /\ db'.names[t] # NoName /\ db'.committed[t]
  <3>1. t \in TableIds /\ t < db.next /\ t < meta.next /\ db.names[t] # NoName
        /\ db.committed[t]
    BY <1>0, <1>f5 DEF Reported
  <3>2. meta.names[t] # NoName /\ meta.committed[t]
    BY <1>0, <3>1 DEF Agree
  <3> QED
    BY Zenon, <1>f1, <1>f7, <3>1, <3>2
<2>2. ASSUME NEW k \in reported.jobs
      PROVE  db'.jobs[k] = "committed"
  BY <1>0, <1>f5, <1>f1 DEF Reported, JobsAgree
<2> QED
  BY <2>1, <2>2, <1>f7 DEF Reported
<1> QED
  BY <1>1, <1>2, <1>3, <1>4, <1>5, <1>6, <1>7, <1>8, <1>9, <1>10, <1>11, <1>12,
    <1>13, <1>14 DEF IInv


\* ingest_videos adds tables to its own copy of the metadata.
LEMMA IngestVideosPreserves ==
  ASSUME IInv, NEW outs \in Outputs, IngestVideos(outs)
  PROVE  IInv'
<1>0. /\ TypeOK /\ Unused(meta) /\ Unused(db) /\ Agree
      /\ JobsAgree /\ Position /\ IngestCopy
      /\ Described(meta, cache) /\ Described(db, mega)
      /\ Complete(meta) /\ Complete(db) /\ JobTables /\ Issued /\ Reported
  BY DEF IInv
<1>f1. outs \in Seq(Names) /\ Len(outs) \in Nat
  BY OutputsAssumption
<1>f2. /\ meta.next \in Nat /\ db.next \in Nat /\ meta.nextJob \in Nat /\ db.nextJob \in Nat
  BY <1>0, Counters, Zenon
<1>f3. \A i \in TableIds : i \in Int
  BY DEF TableIds
<1>f4. \A i : i \in NewIds(db, Len(outs)) <=> i \in Int /\ db.next <= i /\ i < db.next + Len(outs)
  BY SMTT(30), <1>f1, <1>f2 DEF NewIds
<1>f5. /\ add_tables(db, outs) \in Metadata /\ add_tables(db, outs).next = db.next + Len(outs)
       /\ add_tables(db, outs).jobs = db.jobs /\ add_tables(db, outs).nextJob = db.nextJob
       /\ \A i \in TableIds : i \notin NewIds(db, Len(outs)) =>
            /\ add_tables(db, outs).names[i] = db.names[i]
            /\ add_tables(db, outs).committed[i] = db.committed[i]
       /\ \A i \in NewIds(db, Len(outs)) :
            i \in TableIds /\ add_tables(db, outs).names[i] \in Names /\ ~add_tables(db, outs).committed[i]
  BY <1>0, <1>f1, AddFields DEF IngestVideos, Addable, TypeOK
<1>f6. handler' = [op |-> "Ingest", meta |-> add_tables(db, outs),
                     todo |-> NewIds(db, Len(outs)), good |-> {}]
  BY DEF IngestVideos
<1>f7. handler.op = "none" /\ db.next = meta.next /\ job.phase = "idle"
  BY <1>0 DEF IngestVideos, Serving, Position
<1>f8. /\ meta' = meta /\ cache' = cache /\ db' = db /\ mega' = mega /\ files' = files
       /\ job' = job /\ issued' = issued /\ reported' = reported
  BY DEF IngestVideos, history
<1>f9. /\ maker' \in [TableIds -> Makers] /\ saved' = saved \ NewIds(db, Len(outs))
       /\ \A i \in TableIds : maker'[i] = IF i \in NewIds(db, Len(outs)) THEN "IngestVideos" ELSE maker[i]
  BY Zenon, <1>0 DEF IngestVideos, Created, TypeOK, Makers
<1>f10. /\ NewIds(db, Len(outs)) \subseteq TableIds
       /\ \A i \in NewIds(db, Len(outs)) : db.names[i] = NoName /\ meta.names[i] = NoName
  BY Zenon, <1>0, <1>f2, <1>f4, <1>f5, <1>f7 DEF Unused
<1>1. TypeOK'
  BY SMTT(30), <1>0, <1>f5, <1>f6, <1>f9, <1>f10 DEF IngestVideos, history, TypeOK
<1>2. Unused(meta)'
  BY <1>0, <1>f8 DEF Unused
<1>3. Unused(db)'
  BY <1>0, <1>f8 DEF Unused
<1>4. Agree'
  BY <1>0, <1>f8 DEF Agree
<1>5. JobsAgree'
  BY Zenon, <1>0, <1>f8 DEF JobsAgree
<1>6. Position'
  BY <1>0, <1>f6, <1>f7, <1>f8 DEF Position
<1>7. IngestCopy'
<2> DEFINE copy == add_tables(db, outs)
           ids == NewIds(db, Len(outs))
<2>1. db.next <= copy.next
  BY <1>f1, <1>f2, <1>f5
<2>2. \A i \in TableIds : i < db.next =>
        copy.names[i] = db.names[i] /\ copy.committed[i] = db.committed[i]
  BY <1>f2, <1>f3, <1>f4, <1>f5
<2>3. ASSUME NEW i \in TableIds, i >= db.next, copy.names[i] # NoName
      PROVE  i \in ids
  <3>1. db.names[i] = NoName
    BY <1>0, <2>3 DEF Unused
  <3> QED
    BY <1>f5, <2>3, <3>1
<2>4. Unused(copy)
  <3>1. ASSUME NEW i \in TableIds, i >= copy.next
        PROVE  copy.names[i] = NoName /\ ~copy.committed[i]
    <4>1. i \notin ids /\ i >= db.next
      BY <1>f1, <1>f2, <1>f3, <1>f4, <1>f5, <3>1
    <4> QED
      BY <1>0, <1>f5, <4>1 DEF Unused
  <3>2. \A k \in BulkJobIds : k >= copy.nextJob => copy.jobs[k] = "none"
    BY <1>0, <1>f5 DEF Unused
  <3> QED
    BY <3>1, <3>2 DEF Unused
<2>5. \A i \in ids : i >= db.next /\ maker'[i] = "IngestVideos" /\ copy.names[i] # NoName
  BY <1>f4, <1>f5, <1>f9
<2>6. handler'.meta = copy /\ handler'.todo = ids /\ handler'.good = {} /\ db' = db
  BY <1>f6, <1>f8
<2>7. copy.jobs = db.jobs /\ copy.nextJob = db.nextJob
  BY Zenon, <1>f5
<2> HIDE DEF copy, ids
<2> QED
  BY <2>1, <2>2, <2>3, <2>4, <2>5, <2>6, <2>7 DEF IngestCopy
<1>8. Described(meta, cache)'
  BY <1>0, <1>f8, <1>f9, <1>f10 DEF Described, Lookup
<1>9. Described(db, mega)'
  BY <1>0, <1>f8, <1>f9, <1>f10 DEF Described, Lookup
<1>10. Complete(meta)'
  BY <1>0, <1>f8, <1>f9, <1>f10 DEF Complete
<1>11. Complete(db)'
  BY <1>0, <1>f8, <1>f9, <1>f10 DEF Complete
<1>12. JobTables'
  BY <1>0, <1>f7, <1>f8 DEF JobTables
<1>13. Issued'
  BY <1>0, <1>f8 DEF Issued
<1>14. Reported'
  BY <1>0, <1>f8 DEF Reported
<1> QED
  BY <1>1, <1>2, <1>3, <1>4, <1>5, <1>6, <1>7, <1>8, <1>9, <1>10, <1>11, <1>12,
    <1>13, <1>14 DEF IInv


\* ingest_videos writes its copy: every table in it has its descriptor file.
LEMMA IngestWriteMetadataPreserves ==
  ASSUME IInv, IngestWriteMetadata
  PROVE  IInv'
<1>0. /\ TypeOK /\ Unused(meta) /\ Unused(db) /\ Agree
      /\ JobsAgree /\ Position /\ IngestCopy
      /\ Described(meta, cache) /\ Described(db, mega)
      /\ Complete(meta) /\ Complete(db) /\ JobTables /\ Issued /\ Reported
  BY DEF IInv
<1>f1. /\ handler.op = "Ingest" /\ handler.todo = {} /\ job.phase = "idle" /\ db.next = meta.next
  BY <1>0 DEF IngestWriteMetadata, Position
<1>f2. /\ commit_tables(handler.meta, handler.good) \in Metadata /\ commit_tables(handler.meta, handler.good).names = handler.meta.names
       /\ commit_tables(handler.meta, handler.good).next = handler.meta.next /\ commit_tables(handler.meta, handler.good).jobs = handler.meta.jobs
       /\ commit_tables(handler.meta, handler.good).nextJob = handler.meta.nextJob
       /\ \A i \in TableIds : commit_tables(handler.meta, handler.good).committed[i]
                                = (i \in handler.good \/ handler.meta.committed[i])
  BY <1>0, CommitFields DEF TypeOK
<1>f3. handler' = [op |-> "IngestMegafile", meta |-> commit_tables(handler.meta, handler.good),
                     todo |-> handler.todo, good |-> handler.good]
  BY Zenon, <1>0 DEF IngestWriteMetadata, TypeOK
<1>f4. /\ db' = get_descriptor(commit_tables(handler.meta, handler.good)) /\ db' \in Metadata
       /\ db'.names = commit_tables(handler.meta, handler.good).names /\ db'.next = commit_tables(handler.meta, handler.good).next
       /\ db'.jobs = commit_tables(handler.meta, handler.good).jobs /\ db'.nextJob = commit_tables(handler.meta, handler.good).nextJob
       /\ \A i \in TableIds : db'.committed[i] = (commit_tables(handler.meta, handler.good).names[i] # NoName
            /\ commit_tables(handler.meta, handler.good).committed[i])
  BY <1>f2, <1>f3, DescriptorFields DEF IngestWriteMetadata
<1>f5. /\ db' \in Metadata /\ db'.names = handler.meta.names /\ db'.next = handler.meta.next
       /\ db'.jobs = handler.meta.jobs /\ db'.nextJob = handler.meta.nextJob
       /\ \A i \in TableIds : db'.committed[i] = (handler.meta.names[i] # NoName
            /\ (i \in handler.good \/ handler.meta.committed[i]))
  BY Zenon, <1>f2, <1>f4
<1>f6. /\ meta.next \in Nat /\ db.next \in Nat /\ meta.nextJob \in Nat /\ db.nextJob \in Nat
  BY <1>0, Counters, Zenon
<1>f7. \A i \in TableIds : i \in Int
  BY DEF TableIds
<1>f8. meta' = meta /\ cache' = cache /\ mega' = mega /\ files' = files /\ maker' = maker
       /\ saved' = saved /\ job' = job /\ issued' = issued /\ reported' = reported
  BY DEF IngestWriteMetadata, history
<1>f9. reported.tables \subseteq TableIds /\ reported.jobs \subseteq BulkJobIds
       /\ issued.tables \subseteq TableIds /\ issued.jobs \subseteq BulkJobIds
  BY <1>0 DEF TypeOK
<1>f10. /\ db.next <= handler.meta.next
       /\ handler.meta.jobs = db.jobs /\ handler.meta.nextJob = db.nextJob
       /\ Unused(handler.meta) /\ handler.meta.next \in Nat
  BY <1>0, <1>f1 DEF IngestCopy, TypeOK, Metadata
<1>f11. \A i \in TableIds : i < db.next =>
         /\ i \notin handler.good /\ handler.meta.names[i] = db.names[i]
         /\ handler.meta.committed[i] = db.committed[i]
  <2>1. /\ \A i \in TableIds : i < db.next =>
             handler.meta.names[i] = db.names[i] /\ handler.meta.committed[i] = db.committed[i]
        /\ \A i \in handler.todo \cup handler.good : i >= db.next
    BY <1>0, <1>f1, Zenon DEF IngestCopy
  <2>2. \A i \in TableIds : i < db.next => ~(i >= db.next)
    BY <1>f6, <1>f7
  <2> QED
    BY <2>1, <2>2, Zenon
<1>f12. \A i \in TableIds : i >= db.next /\ handler.meta.names[i] # NoName =>
         i \in saved /\ files[i] # NoName /\ maker[i] = "IngestVideos"
  BY <1>0, <1>f1 DEF IngestCopy
<1>f13. db' \in Metadata
  BY <1>f5
<1>1. TypeOK'
  BY <1>0, <1>f2, <1>f3, <1>f13 DEF IngestWriteMetadata, history, TypeOK
<1>2. Unused(meta)'
  BY <1>0, <1>f8 DEF Unused
<1>3. Unused(db)'
  BY Zenon, <1>f5, <1>f10 DEF Unused
<1>4. Agree'
  BY ZenonT(40), <1>0, <1>f1, <1>f5, <1>f8, <1>f11 DEF Agree
<1>5. JobsAgree'
  BY Zenon, <1>0, <1>f5, <1>f8, <1>f10 DEF JobsAgree
<1>6. Position'
  BY <1>0, <1>f1, <1>f3, <1>f5, <1>f8, <1>f10 DEF Position
<1>7. IngestCopy'
  BY <1>f3 DEF IngestCopy
<1>8. Described(meta, cache)'
  BY <1>0, <1>f8 DEF Described, Lookup
<1>9. Described(db, mega)'
<2>1. ASSUME NEW i \in TableIds, handler.meta.names[i] # NoName
      PROVE  /\ Lookup(mega, i) # NoName
             /\ maker[i] = "process_job" => mega[i] = handler.meta.names[i]
  <3>1. CASE i < db.next
    BY <1>0, <1>f11, <2>1, <3>1 DEF Described
  <3>2. CASE i >= db.next
    BY <1>f12, <2>1, <3>2 DEF Lookup
  <3> QED
    BY <3>1, <3>2, <1>f6, <1>f7
<2>2. \A i \in TableIds : Lookup(mega, i)' = Lookup(mega, i)
  BY <1>f8 DEF Lookup
<2> QED
  BY <1>f5, <1>f8, <2>1, <2>2 DEF Described
<1>10. Complete(meta)'
  BY <1>0, <1>f8 DEF Complete
<1>11. Complete(db)'
<2>1. ASSUME NEW i \in TableIds, db'.names[i] # NoName, db'.committed[i],
             maker[i] \in {"process_job", "IngestVideos"}
      PROVE  i \in saved
  <3>1. CASE i < db.next
    BY Zenon, <1>0, <1>f5, <1>f11, <2>1, <3>1 DEF Complete
  <3>2. CASE i >= db.next
    BY <1>f5, <1>f12, <2>1, <3>2
  <3> QED
    BY <3>1, <3>2, <1>f6, <1>f7
<2> QED
  BY <1>f8, <2>1 DEF Complete
<1>12. JobTables'
  BY <1>0, <1>f1, <1>f8 DEF JobTables
<1>13. Issued'
<2>1. \A i \in issued.tables : i < db'.next /\ i < meta'.next
  BY <1>0, <1>f5, <1>f6, <1>f7, <1>f8, <1>f9, <1>f10 DEF Issued
<2>2. \A k \in issued.jobs : k < db'.nextJob
  BY <1>0, <1>f5, <1>f10 DEF Issued
<2> QED
  BY <1>f8, <2>1, <2>2 DEF Issued
<1>14. Reported'
<2>1. ASSUME NEW t \in reported.tables
      PROVE  t < db'.next /\ t < meta'.next /\ db'.names[t] # NoName /\ db'.committed[t]
  <3>1. t \in TableIds /\ t < db.next /\ t < meta.next /\ db.names[t] # NoName
        /\ db.committed[t]
    BY <1>0, <1>f9 DEF Reported
  <3>2. t < db'.next
    BY <1>f5, <1>f6, <1>f7, <1>f10, <3>1
  <3> QED
    BY Zenon, <1>f5, <1>f8, <1>f11, <3>1, <3>2
<2>2. \A k \in reported.jobs : db'.jobs[k] = "committed"
  BY Zenon, <1>0, <1>f5, <1>f10 DEF Reported
<2> QED
  BY <1>f8, <2>1, <2>2 DEF Reported
<1> QED
  BY <1>1, <1>2, <1>3, <1>4, <1>5, <1>6, <1>7, <1>8, <1>9, <1>10, <1>11, <1>12,
    <1>13, <1>14 DEF IInv


\* ingest_videos completes the megafile and the master reads it back.
LEMMA IngestWriteMegafilePreserves ==
  ASSUME IInv, IngestWriteMegafile
  PROVE  IInv'
<1>0. /\ TypeOK /\ Unused(meta) /\ Unused(db) /\ Agree
      /\ JobsAgree /\ Position /\ IngestCopy
      /\ Described(meta, cache) /\ Described(db, mega)
      /\ Complete(meta) /\ Complete(db) /\ JobTables /\ Issued /\ Reported
  BY DEF IInv
<1>f1. /\ mega' \in Descriptors
       /\ \A i \in TableIds : mega[i] # NoName => mega'[i] = mega[i]
       /\ \A i \in TableIds : Lookup(mega, i) # NoName => Lookup(mega', i) # NoName
  BY <1>0, LookupType DEF IngestWriteMegafile, TypeOK
<1>f2. /\ EmptyMetadata \in Metadata
       /\ handler' = [op |-> "none", meta |-> EmptyMetadata, todo |-> {}, good |-> {}]
  BY SMTT(30) DEF IngestWriteMegafile, NoHandler, EmptyMetadata, Metadata, Descriptors, JobStates
<1>f3. handler.op = "IngestMegafile" /\ job.phase = "idle"
  BY <1>0 DEF IngestWriteMegafile, Position
<1>f4. meta' = db /\ cache' = mega' /\ db' = db /\ files' = files /\ saved' = saved
       /\ maker' = maker /\ job' = job /\ issued' = issued /\ reported' = reported
  BY DEF IngestWriteMegafile, history
<1>f5. /\ meta.next \in Nat /\ db.next \in Nat /\ meta.nextJob \in Nat /\ db.nextJob \in Nat
  BY <1>0, Counters, Zenon
<1>f6. Described(db, mega)'
  BY Zenon, <1>0, <1>f1, <1>f4 DEF Described, Lookup
<1>1. TypeOK'
  <2>1. handler' \in [op : {"none", "NewTable", "NewTableItems", "Ingest", "IngestMegafile"},
                      meta : Metadata, todo : SUBSET TableIds, good : SUBSET TableIds]
    BY <1>f2
  <2>2. restarts' = restarts
    BY DEF IngestWriteMegafile, history
  <2> QED
    BY <1>0, <1>f1, <1>f4, <2>1, <2>2, Zenon DEF TypeOK
<1>2. Unused(meta)'
  BY <1>0, <1>f4 DEF Unused
<1>3. Unused(db)'
  BY <1>0, <1>f4 DEF Unused
<1>4. Agree'
  BY <1>f4 DEF Agree
<1>5. JobsAgree'
  BY <1>f4, <1>f5 DEF JobsAgree
<1>6. Position'
  BY <1>0, <1>f2, <1>f3, <1>f4 DEF Position
<1>7. IngestCopy'
  BY <1>f2 DEF IngestCopy
<1>8. Described(meta, cache)'
  BY <1>f4, <1>f6 DEF Described, Lookup
<1>9. Described(db, mega)'
  BY <1>f6
<1>10. Complete(meta)'
  BY <1>0, <1>f4 DEF Complete
<1>11. Complete(db)'
  BY <1>0, <1>f4 DEF Complete
<1>12. JobTables'
  BY <1>0, <1>f3, <1>f4 DEF JobTables
<1>13. Issued'
  BY <1>0, <1>f4 DEF Issued
<1>14. Reported'
  BY <1>0, <1>f4 DEF Reported
<1> QED
  BY <1>1, <1>2, <1>3, <1>4, <1>5, <1>6, <1>7, <1>8, <1>9, <1>10, <1>11, <1>12,
    <1>13, <1>14 DEF IInv

----------------------------------------------------------------------------
(* The inductive invariant holds, and what follows from it *)

\* The database of a new master is empty and so is its storage.
LEMMA InitEstablishes == Init => IInv
<1> SUFFICES ASSUME Init PROVE IInv
  OBVIOUS
<1>1. EmptyMetadata \in Metadata
  BY DEF EmptyMetadata, Metadata, Descriptors, JobStates
<1>2. TypeOK
  BY <1>1 DEF Init, TypeOK, NoJob, NoHandler, Descriptors, Makers
<1>3. \A i \in TableIds : EmptyMetadata.names[i] = NoName /\ ~EmptyMetadata.committed[i]
  BY DEF EmptyMetadata
<1>4. \A k \in BulkJobIds : EmptyMetadata.jobs[k] = "none"
  BY DEF EmptyMetadata
<1>5. EmptyMetadata.next = 0 /\ EmptyMetadata.nextJob = 0
  BY DEF EmptyMetadata
<1>6. Unused(meta) /\ Unused(db) /\ Agree /\ JobsAgree
  BY SMTT(30), <1>3, <1>4, <1>5 DEF Init, Unused, Agree, JobsAgree
<1>7. Position /\ IngestCopy /\ JobTables /\ Issued /\ Reported
  BY Zenon, <1>5 DEF Init, NoJob, NoHandler, Position, IngestCopy, JobTables, Issued,
    Reported
<1>8. Described(meta, cache) /\ Described(db, mega) /\ Complete(meta) /\ Complete(db)
  BY <1>3 DEF Init, Described, Complete
<1> QED
  BY <1>2, <1>6, <1>7, <1>8 DEF IInv

\* Steps that change nothing keep the invariant.
LEMMA StutterPreserves == ASSUME IInv, UNCHANGED vars PROVE IInv'
<1>0. TypeOK'
  BY Zenon DEF IInv, vars, TypeOK
<1>1. Unused(meta)' /\ Unused(db)' /\ Agree' /\ JobsAgree' /\ Position'
  BY Zenon DEF IInv, vars, Unused, Agree, JobsAgree, Position
<1>2. IngestCopy'
  BY Zenon DEF IInv, vars, IngestCopy, Unused
<1>3. Described(meta, cache)' /\ Described(db, mega)' /\ Complete(meta)'
      /\ Complete(db)' /\ JobTables' /\ Issued' /\ Reported'
  BY DEF IInv, vars, Described, Lookup, Complete, JobTables, Issued, Reported
<1> QED
  BY <1>0, <1>1, <1>2, <1>3 DEF IInv

\* Every step of a master, its clients and its storage keeps the invariant.
LEMMA NextPreserves == ASSUME IInv, Next PROVE IInv'
<1>1. CASE \E outs \in Outputs : NewJob(outs)
  BY <1>1, NewJobPreserves
<1>2. CASE RejectJob
  BY <1>2, RejectJobPreserves
<1>3. CASE UpdateTables
  BY <1>3, UpdateTablesPreserves
<1>4. CASE StartWorkers
  BY <1>4, StartWorkersPreserves
<1>5. CASE \E i \in TableIds : SaveTable(i)
  BY <1>5, SaveTablePreserves
<1>6. CASE \E i \in TableIds : FinishedWork(i)
  BY <1>6, FinishedWorkPreserves
<1>7. CASE \E i \in TableIds : blacklist_job(i)
  BY <1>7, blacklist_job_Preserves
<1>8. CASE CommitBulkJob
  BY <1>8, CommitBulkJobPreserves
<1>9. CASE ReportFinished
  BY <1>9, ReportFinishedPreserves
<1>10. CASE FailNoWorkers
  BY <1>10, FailNoWorkersPreserves
<1>11. CASE FailShutdown
  BY <1>11, FailShutdownPreserves
<1>12. CASE \E name \in Names : GetTables(name)
  BY <1>12, GetTablesPreserves
<1>13. CASE \E doomed \in SUBSET Names : DeleteTables(doomed)
  BY <1>13, DeleteTablesPreserves
<1>14. CASE \E name \in Names : NewTable(name)
  BY <1>14, NewTablePreserves
<1>15. CASE NewTableWriteMetadata
  BY <1>15, NewTableWriteMetadataPreserves
<1>16. CASE NewTableWriteItems
  BY <1>16, NewTableWriteItemsPreserves
<1>17. CASE \E outs \in Outputs : IngestVideos(outs)
  BY <1>17, IngestVideosPreserves
<1>18. CASE \E outs \in Outputs : IngestRefused(outs)
  BY <1>18, IngestRefusedPreserves
<1>19. CASE \E i \in TableIds : IngestVideo(i)
  BY <1>19, IngestVideoPreserves
<1>20. CASE \E i \in TableIds : IngestBadVideo(i)
  BY <1>20, IngestBadVideoPreserves
<1>21. CASE IngestAllFailed
  BY <1>21, IngestAllFailedPreserves
<1>22. CASE IngestWriteMetadata
  BY <1>22, IngestWriteMetadataPreserves
<1>23. CASE IngestWriteMegafile
  BY <1>23, IngestWriteMegafilePreserves
<1>24. CASE Restart
  BY <1>24, RestartPreserves
<1> QED
  BY <1>1, <1>2, <1>3, <1>4, <1>5, <1>6, <1>7, <1>8, <1>9, <1>10, <1>11, <1>12,
    <1>13, <1>14, <1>15, <1>16, <1>17, <1>18, <1>19, <1>20, <1>21, <1>22, <1>23, <1>24 DEF Next

\* The invariant holds in every reachable state.
LEMMA Invariance == Spec => []IInv
<1>1. IInv /\ [Next]_vars => IInv'
  BY NextPreserves, StutterPreserves
<1> QED
  BY InitEstablishes, <1>1, PTL DEF Spec

\* Every variable keeps its type, for any names, outputs and bounds.
THEOREM TypeCorrect == Spec => []TypeOK
<1>1. IInv => TypeOK
  BY Zenon DEF IInv
<1> QED
  BY Invariance, <1>1, PTL

\* memoized_read always finds a descriptor: in the megafile or in the table's
\* own file, for a table of meta_ and for one of a master that restarts.
THEOREM ReadableAlways == Spec => []DescriptorsReadable
<1>1. IInv => DescriptorsReadable
  BY DEF IInv, Described, DescriptorsReadable
<1> QED
  BY Invariance, <1>1, PTL

\* The cache never answers with the descriptor of another table for an output
\* table of a bulk job.
THEOREM OwnDescriptors == Spec => []JobDescriptors
<1>1. IInv => JobDescriptors
  BY Zenon DEF IInv, Described, JobDescriptors, Lookup, TypeOK
<1> QED
  BY Invariance, <1>1, PTL

\* Between two calls of clients, storage lists the tables that meta_ has.
THEOREM StorageAgreesAlways == Spec => []StorageAgrees
<1>1. ASSUME IInv, Serving PROVE db.next = meta.next
  BY <1>1 DEF IInv, Position, Serving
<1>2. ASSUME IInv, Serving, NEW i \in TableIds
      PROVE  db.names[i] = meta.names[i] /\ (db.committed[i] => meta.committed[i])
  <2>1. db.next = meta.next /\ meta.next \in Nat /\ i \in Int
    <3>1. meta \in Metadata
      BY Zenon, <1>2 DEF IInv, TypeOK
    <3> QED
      BY <1>1, <1>2, <3>1 DEF Metadata, TableIds
  <2>2. CASE i < meta.next
    BY <1>2, <2>1, <2>2 DEF IInv, Agree
  <2>3. CASE i >= meta.next
    BY <1>2, <2>1, <2>3 DEF IInv, Unused
  <2> QED
    BY <2>1, <2>2, <2>3
<1>3. IInv => StorageAgrees
  BY <1>1, <1>2 DEF StorageAgrees
<1> QED
  BY Invariance, <1>3, PTL

\* A restarted master finds no committed table of a bulk job or an ingest
\* without its items.
THEOREM CommittedCompleteAlways == Spec => []CommittedComplete
<1>1. IInv => CommittedComplete
  BY DEF IInv, Complete, CommittedComplete
<1> QED
  BY Invariance, <1>1, PTL

\* A bulk job reported as finished survives any number of restarts.
THEOREM FinishedDurableAlways == Spec => []FinishedDurable
<1>1. IInv => FinishedDurable
  BY DEF IInv, Reported, FinishedDurable
<1> QED
  BY Invariance, <1>1, PTL

\* Ids the workers were told of name what they named, or nothing.
LEMMA TableIdsKept ==
  ASSUME IInv, Next, NEW i \in issued.tables
  PROVE  meta'.names[i] \in {meta.names[i], NoName}
<1>0. /\ i \in TableIds /\ i < db.next /\ i < meta.next
      /\ db.names[i] = meta.names[i]
  BY DEF IInv, TypeOK, Issued, Agree
<1>1. meta \in Metadata /\ db \in Metadata /\ meta.next \in Nat /\ i \in Int
  BY <1>0 DEF IInv, TypeOK, Metadata, TableIds
<1>2. CASE meta' = meta
  BY <1>2
<1>3. CASE meta' = db
  BY Zenon, <1>0, <1>3
<1>4. CASE \E outs \in Outputs : NewJob(outs)
  BY <1>0, <1>1, <1>4, BulkJobFields DEF NewJob
<1>5. CASE UpdateTables
  <2>1. job.outputs \in Seq(Names) /\ Len(job.outputs) \in Nat
    BY <1>5, OutputsAssumption DEF UpdateTables, IInv, JobTables
  <2>2. i \notin NewIds(meta, Len(job.outputs))
    BY <1>0, <1>1, <2>1 DEF NewIds
  <2> QED
    BY <1>0, <1>1, <1>5, <2>1, <2>2, AddFields DEF UpdateTables, Addable
<1>6. CASE \E t \in TableIds : FinishedWork(t)
  BY <1>1, <1>6, CommitFields DEF FinishedWork
<1>7. CASE CommitBulkJob
  <2>1. job.id \in BulkJobIds
    BY <1>7 DEF CommitBulkJob, IInv, Position, TypeOK, Metadata, BulkJobIds
  <2> QED
    BY <1>1, <1>7, <2>1, CommitJobFields DEF CommitBulkJob
<1>8. CASE \E doomed \in SUBSET Names : DeleteTables(doomed)
  BY <1>0, <1>1, <1>8, RemoveFields DEF DeleteTables
<1>9. ASSUME NEW name \in Names, NewTable(name)
      PROVE  meta'.names[i] \in {meta.names[i], NoName}
  <2>1. <<name>> \in Seq(Names) /\ Len(<<name>>) = 1
    OBVIOUS
  <2>2. meta.next + 1 <= MaxTables
    BY <1>9, <2>1 DEF NewTable, Addable
  <2>3. i # meta.next
    BY <1>0, <1>1
  <2>4. add_tables(meta, <<name>>) \in Metadata
        /\ add_tables(meta, <<name>>).names[i] = meta.names[i]
    BY Zenon, <1>0, <1>1, <2>1, <2>2, <2>3, AddOneFields
  <2> QED
    BY <1>9, <2>4, CommitFields DEF NewTable
<1>10. \/ meta' = meta \/ meta' = db
       \/ \E outs \in Outputs : NewJob(outs)
       \/ UpdateTables
       \/ \E t \in TableIds : FinishedWork(t)
       \/ CommitBulkJob
       \/ \E doomed \in SUBSET Names : DeleteTables(doomed)
       \/ \E name \in Names : NewTable(name)
  BY Zenon DEF Next, RejectJob, StartWorkers, SaveTable, blacklist_job, ReportFinished,
    FailNoWorkers, FailShutdown, GetTables, NewTableWriteMetadata,
    NewTableWriteItems, IngestVideos, IngestRefused, IngestVideo,
    IngestBadVideo, IngestAllFailed, IngestWriteMetadata, IngestWriteMegafile,
    Restart, recover_and_init_database
<1> QED
  BY Zenon, <1>2, <1>3, <1>4, <1>5, <1>6, <1>7, <1>8, <1>9, <1>10

\* A bulk job that starts has an id no worker has heard of.
LEMMA JobIdsFresh ==
  ASSUME IInv, Next, NEW k \in issued.jobs, job'.phase # "idle", job'.id = k
  PROVE  job.phase # "idle" /\ job.id = k
<1>1. CASE \E outs \in Outputs : NewJob(outs)
  <2>1. k = meta.nextJob
    BY <1>1 DEF NewJob
  <2>2. k < db.nextJob /\ db.nextJob <= meta.nextJob
    BY DEF IInv, Issued, JobsAgree
  <2>3. db.nextJob \in Nat /\ meta.nextJob \in Nat
    BY DEF IInv, TypeOK, Metadata
  <2> QED
    BY <2>1, <2>2, <2>3
<1>2. CASE ~\E outs \in Outputs : NewJob(outs)
  <2>1. job \in [phase : {"idle", "validating", "updated", "running", "committed"},
              id : 0 .. MaxBulkJobs, outputs : Outputs \cup {<<>>},
              tables : SUBSET TableIds, first : 0 .. MaxTables,
              used : SUBSET TableIds, blacklisted : SUBSET TableIds]
    BY SMTT(30) DEF IInv, TypeOK
  <2>2. \/ job' = job \/ job' = NoJob
        \/ job.phase # "idle" /\ job'.id = job.id
    BY ZenonT(30), <1>2, <2>1 DEF Next, RejectJob, UpdateTables, StartWorkers, SaveTable,
      FinishedWork, blacklist_job, CommitBulkJob, ReportFinished, FailNoWorkers,
      FailShutdown, GetTables, DeleteTables, NewTable, NewTableWriteMetadata,
      NewTableWriteItems, IngestVideos, IngestRefused, IngestVideo,
      IngestBadVideo, IngestAllFailed, IngestWriteMetadata, IngestWriteMegafile,
      Restart
  <2> QED
    BY <2>2 DEF NoJob
<1> QED
  BY <1>1, <1>2

\* No id that workers hold is reused, however often the master restarts: the
\* database descriptor with the next ids is written before the workers start.
THEOREM NeverReissuedAlways == Spec => NeverReissued
<1> DEFINE Kept ==
      /\ \A i \in issued.tables : meta'.names[i] \in {meta.names[i], NoName}
      /\ \A k \in issued.jobs :
           job'.phase # "idle" /\ job'.id = k => job.phase # "idle" /\ job.id = k
<1>1. IInv /\ Next => Kept
  BY TableIdsKept, JobIdsFresh
<1>2. UNCHANGED vars => Kept
  BY DEF vars
<1> HIDE DEF Kept
<1>3. IInv /\ [Next]_vars => [Kept]_vars
  BY <1>1, <1>2
<1>4. Spec => [][Kept]_vars
  BY Invariance, <1>3, PTL DEF Spec
<1> QED
  BY <1>4 DEF NeverReissued, Kept
=============================================================================
