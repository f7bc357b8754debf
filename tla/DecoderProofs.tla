---------------------------- MODULE DecoderProofs ----------------------------
(***************************************************************************)
(* Proofs about the decoder automata and its caller, for any table, any    *)
(* rows the column source serves, any packet sizes and any codec delay.    *)
(***************************************************************************)
EXTENDS Decoder, TLAPS

-----------------------------------------------------------------------------
(* The inductive invariant *)

Segment == [start_keyframe : Nat, end_keyframe : Nat, valid_frames : Seq(Nat)]
Frame == Int \cup {Garbage}

\* What the proofs need of the types.
Shapes ==
  /\ pc \in CallerPlaces /\ fpc \in FeederPlaces
  /\ entry \in EvalWorkEntries \cup {NoEntry} /\ current_row \in Nat
  /\ encoded_data \in Seq(Segment)
  /\ current_frame \in Int /\ feeder_current_frame \in Int
  /\ retriever_data_idx \in Nat /\ retriever_valid_idx \in Nat
  /\ frames_retrieved \in Nat /\ frames_to_get \in Nat /\ feeder_data_idx \in Nat
  /\ buffer \in Seq(Frame) /\ codec \in Seq(Frame) /\ queue \in Seq(Frame)
  /\ feeder_waiting \in BOOLEAN /\ seeking \in BOOLEAN /\ not_done \in BOOLEAN
  /\ buffers_live \in BOOLEAN

\* Where the caller is while a get_frames call runs, and while it handles an io
\* packet that is initialized.
Getting == {"get_notify", "retrieve", "segment_wait", "segment_notify", "segment_count"}
Between == {"yield", "get_wait", "idle"}
Session == pc \in Getting \cup Between /\ encoded_data # <<>>

\* The feeder is at work, or about to be: it will come back only when it has fed
\* the segment or the caller has its frames.
Busy == ~feeder_waiting /\ fpc # "top"
Feeding == fpc \in {"check", "room", "feed", "receive", "drain"}

\* The feeder is parked, or works on a segment there is.
Feeder ==
  /\ feeder_waiting => fpc \in {"notify", "wait"}
  /\ fpc = "ended" => ~not_done
  /\ not_done \/ pc \in {"end_notify", "join", "done"}
  /\ Feeding => feeder_data_idx < Len(encoded_data)
  /\ feeder_data_idx <= Len(encoded_data)

\* Calls that run want a frame; between calls, the last one got all it wanted.
Counting ==
  /\ pc \in Getting => frames_to_get > 0
  /\ pc \notin Getting => frames_retrieved >= frames_to_get
  /\ pc \in Getting \ {"retrieve"} => frames_retrieved < frames_to_get
  /\ frames_retrieved <= frames_to_get

\* Nothing was ever decoded.
Untouched == encoded_data = <<>> /\ queue = <<>> /\ codec = <<>>

\* What an earlier io packet has left behind will be flushed: initialize sends a
\* discontinuity if the last get_frames call took frames.
Stale ==
  /\ pc \in {"idle", "discard", "init_wait"} => frames_retrieved > 0 \/ Untouched
  /\ pc \in {"get_wait", "yield"} => encoded_data # <<>>
  /\ pc \in Getting => encoded_data # <<>>
  /\ pc = "yield" => current_row = 0 \/ frames_retrieved > 0
  /\ pc \in {"discard", "init_wait"} => entry \in EvalWorkEntries /\ current_row = 0

\* The rows before those of each segment of an entry.
RowsBefore(e) == CHOOSE off \in [1..(Len(e.columns) + 1) -> 0..Len(e.row_ids)] :
                   Serves(e.columns, e.row_ids, off)
Place == RowsBefore(entry)[retriever_data_idx + 1] + retriever_valid_idx

Segm == encoded_data[retriever_data_idx + 1]

\* The retriever's place in the rows.
Rows ==
  /\ pc \notin Getting => buffer = <<>>
  /\ pc \in Getting => current_row + frames_to_get <= Len(entry.row_ids)
  /\ pc \in Getting => \/ frames_to_get = WorkSize
                       \/ current_row + WorkSize >= Len(entry.row_ids)
                            /\ current_row + frames_to_get = Len(entry.row_ids)
  /\ pc = "get_wait" => current_row < Len(entry.row_ids)
  /\ \A i \in 1..Len(buffer) : buffer[i] = entry.row_ids[current_row + i]
  /\ pc \in {"get_notify", "retrieve"} => Len(buffer) = frames_retrieved
  /\ pc \in {"segment_wait", "segment_notify", "segment_count"} =>
       Len(buffer) = frames_retrieved + 1
  /\ Session =>
       /\ entry \in EvalWorkEntries /\ encoded_data = entry.columns /\ buffers_live
       /\ retriever_data_idx <= Len(encoded_data)
       /\ IF retriever_data_idx < Len(encoded_data)
            THEN retriever_valid_idx < Len(Segm.valid_frames)
            ELSE retriever_valid_idx = 0
       /\ pc \in Getting \cup {"get_wait"} =>
            Place = current_row + Len(buffer)
       /\ pc \in {"yield", "idle"} =>
            \/ /\ current_row <= Len(entry.row_ids)
               /\ Place = current_row
            \/ current_row >= Len(entry.row_ids)

\* The number of the next decoded frame.  It is counted up at the end of the
\* iteration that changes the segment.
NextFrame == IF pc \in {"segment_notify", "segment_count"} THEN current_frame + 1
             ELSE current_frame

\* The queue and then the codec hold the frames from NextFrame on, up to the
\* sample the feeder is at.
Stream ==
  Session /\ pc # "segment_wait" /\ retriever_data_idx < Len(encoded_data) =>
    /\ Segm.start_keyframe <= NextFrame
    /\ NextFrame <= wanted_frame
    /\ \A i \in 1..Len(queue) : queue[i] = NextFrame + i - 1
    /\ \A i \in 1..Len(codec) : codec[i] = NextFrame + Len(queue) + i - 1
    /\ \/ /\ feeder_data_idx = retriever_data_idx /\ ~seeking
          /\ NextFrame + Len(queue) + Len(codec) = feeder_current_frame
          /\ codec_last = feeder_current_frame - 1 \/ feeder_current_frame = Segm.start_keyframe
          /\ frames_retrieved < frames_to_get => Busy
       \/ /\ feeder_data_idx = retriever_data_idx + 1 /\ seeking /\ codec = <<>>
          /\ feeder_waiting \/ fpc = "top"

\* Between two segments: the feeder comes to the start of the new one.
Change ==
  pc = "segment_wait" =>
    /\ 0 < retriever_data_idx /\ retriever_data_idx < Len(encoded_data)
    /\ retriever_valid_idx = 0
    /\ \/ feeder_data_idx = retriever_data_idx - 1 /\ ~seeking /\ Busy
       \/ /\ feeder_data_idx = retriever_data_idx /\ seeking
          /\ feeder_waiting \/ fpc = "top"

\* A feeder that has not begun with a segment is at its start, and does not begin
\* before the discontinuity.
Starts ==
  seeking /\ feeder_data_idx < Len(encoded_data) =>
    /\ not_done => feeder_waiting \/ fpc = "top"
    /\ Session => feeder_current_frame = encoded_data[feeder_data_idx + 1].start_keyframe

InSegmentChange == pc \in {"segment_wait", "segment_notify", "segment_count"}
Load == Len(queue) + Len(codec)

\* How much is decoded ahead.
Ahead ==
  /\ Len(codec) <= IF fpc = "receive" THEN Delay + 1 ELSE Delay
  /\ Load <= frames_to_wait + Delay + 2
  /\ fpc = "feed" => Load <= frames_to_wait + Delay + 1
  /\ fpc = "room" /\ frames_retrieved >= frames_to_get => Load <= frames_to_wait + Delay + 1
  /\ InSegmentChange => /\ Load <= frames_to_wait + Delay + 1
                        /\ fpc = "feed" => Load <= frames_to_wait + Delay

IInv == Shapes /\ Feeder /\ Counting /\ Stale /\ Rows /\ Stream /\ Change /\ Starts /\ Ahead

-----------------------------------------------------------------------------
(* Sequences, and what the column source promises *)

LEMMA Constants == frames_to_wait \in Nat /\ Delay \in Nat /\ WorkSize \in Nat /\ WorkSize > 0
BY DecoderAssumption

LEMMA AppendFrame ==
  ASSUME NEW s \in Seq(Frame), NEW x \in Frame
  PROVE  /\ Append(s, x) \in Seq(Frame) /\ Len(s) \in Nat
         /\ Len(Append(s, x)) = Len(s) + 1
         /\ \A i \in 1..(Len(s) + 1) : Append(s, x)[i] = IF i <= Len(s) THEN s[i] ELSE x
OBVIOUS

LEMMA TailFrame ==
  ASSUME NEW s \in Seq(Frame), s # <<>>
  PROVE  /\ Tail(s) \in Seq(Frame) /\ Len(s) \in Nat /\ Len(s) > 0
         /\ Len(Tail(s)) = Len(s) - 1
         /\ Head(s) = s[1] /\ Head(s) \in Frame
         /\ \A i \in 1..(Len(s) - 1) : Tail(s)[i] = s[i + 1]
OBVIOUS

LEMMA EmptyFrames == <<>> \in Seq(Frame) /\ Len(<<>>) = 0
OBVIOUS

LEMMA EntryFacts ==
  ASSUME NEW e \in EvalWorkEntries
  PROVE  /\ e.columns \in Seq(Segment) /\ e.columns # <<>>
         /\ Len(e.columns) \in Nat /\ Len(e.columns) > 0
         /\ e.row_ids \in Seq(Nat) /\ Len(e.row_ids) \in Nat /\ Len(e.row_ids) > 0
         /\ RowsBefore(e)[1] = 0 /\ RowsBefore(e)[Len(e.columns) + 1] = Len(e.row_ids)
         /\ \A k \in 1..(Len(e.columns) + 1) : RowsBefore(e)[k] \in 0..Len(e.row_ids)
         /\ \A k \in 1..Len(e.columns) :
              /\ e.columns[k] \in Segment
              /\ e.columns[k].start_keyframe \in Keyframes
              /\ Len(e.columns[k].valid_frames) \in Nat /\ Len(e.columns[k].valid_frames) > 0
              /\ RowsBefore(e)[k + 1] = RowsBefore(e)[k] + Len(e.columns[k].valid_frames)
              /\ \A j \in 1..Len(e.columns[k].valid_frames) :
                   /\ e.columns[k].valid_frames[j] \in Nat
                   /\ e.columns[k].valid_frames[j] = e.row_ids[RowsBefore(e)[k] + j]
                   /\ e.columns[k].start_keyframe <= e.columns[k].valid_frames[j]
                   /\ e.columns[k].valid_frames[j] < e.columns[k].end_keyframe
                   /\ j > 1 => e.columns[k].valid_frames[j - 1] < e.columns[k].valid_frames[j]
<1> DEFINE off == RowsBefore(e)
<1>1. /\ e.row_ids \in Seq(Nat) /\ e.row_ids # <<>>
      /\ e.columns \in Seq(Segment)
      /\ \E o \in [1..(Len(e.columns) + 1) -> 0..Len(e.row_ids)] :
           Serves(e.columns, e.row_ids, o)
  BY ColumnSourceAssumption DEF Segment
<1>2. /\ off \in [1..(Len(e.columns) + 1) -> 0..Len(e.row_ids)]
      /\ Serves(e.columns, e.row_ids, off)
  BY <1>1, Zenon DEF RowsBefore
<1> HIDE DEF off
<1>3. /\ Len(e.columns) \in Nat /\ Len(e.row_ids) \in Nat /\ Len(e.row_ids) > 0
      /\ DOMAIN e.columns = 1..Len(e.columns)
      /\ \A k \in 1..Len(e.columns) : e.columns[k] \in Segment
  BY <1>1
<1>4. off[1] = 0 /\ off[Len(e.columns) + 1] = Len(e.row_ids)
  BY <1>2 DEF Serves
<1>5. e.columns # <<>> /\ Len(e.columns) > 0
  BY <1>1, <1>3, <1>4
<1>6. \A k \in 1..(Len(e.columns) + 1) : off[k] \in 0..Len(e.row_ids)
  BY <1>2
<1>7. ASSUME NEW k \in 1..Len(e.columns)
      PROVE  /\ e.columns[k].start_keyframe \in Keyframes
             /\ Len(e.columns[k].valid_frames) \in Nat /\ Len(e.columns[k].valid_frames) > 0
             /\ off[k + 1] = off[k] + Len(e.columns[k].valid_frames)
             /\ \A j \in 1..Len(e.columns[k].valid_frames) :
                  /\ e.columns[k].valid_frames[j] \in Nat
                  /\ e.columns[k].valid_frames[j] = e.row_ids[off[k] + j]
                  /\ e.columns[k].start_keyframe <= e.columns[k].valid_frames[j]
                  /\ e.columns[k].valid_frames[j] < e.columns[k].end_keyframe
                  /\ j > 1 => e.columns[k].valid_frames[j - 1] < e.columns[k].valid_frames[j]
  <2> DEFINE s == e.columns[k]
  <2>1. s \in Segment
    BY <1>3
  <2>2. /\ s.start_keyframe \in Keyframes /\ s.valid_frames # <<>>
        /\ off[k + 1] = off[k] + Len(s.valid_frames)
        /\ \A j \in DOMAIN s.valid_frames :
             /\ s.valid_frames[j] = e.row_ids[off[k] + j]
             /\ s.start_keyframe <= s.valid_frames[j] /\ s.valid_frames[j] < s.end_keyframe
             /\ j > 1 => s.valid_frames[j - 1] < s.valid_frames[j]
    BY <1>2, <1>3, Zenon DEF Serves
  <2> HIDE DEF s
  <2>3. s.valid_frames \in Seq(Nat)
    BY <2>1 DEF Segment
  <2>4. /\ Len(s.valid_frames) \in Nat /\ Len(s.valid_frames) > 0
        /\ DOMAIN s.valid_frames = 1..Len(s.valid_frames)
        /\ \A j \in 1..Len(s.valid_frames) : s.valid_frames[j] \in Nat
    BY <2>2, <2>3
  <2>5. /\ s.start_keyframe \in Keyframes
        /\ off[k + 1] = off[k] + Len(s.valid_frames)
        /\ \A j \in 1..Len(s.valid_frames) :
             /\ s.valid_frames[j] = e.row_ids[off[k] + j]
             /\ s.start_keyframe <= s.valid_frames[j] /\ s.valid_frames[j] < s.end_keyframe
             /\ j > 1 => s.valid_frames[j - 1] < s.valid_frames[j]
    BY Zenon, <2>2, <2>4
  <2> QED
    BY <2>4, <2>5 DEF s
<1> QED
  BY <1>1, <1>3, <1>4, <1>5, <1>6, <1>7 DEF off

-----------------------------------------------------------------------------
(* The start of an io packet *)

LEMMA InitializePreserves == IInv /\ Initialize => IInv'
<1> SUFFICES ASSUME IInv, Initialize PROVE IInv'
  OBVIOUS
<1>1. /\ pc = "init_wait" /\ pc' = "yield" /\ feeder_waiting
      /\ encoded_data' = entry.columns /\ buffers_live' = TRUE
      /\ current_frame' = encoded_data'[1].start_keyframe
      /\ retriever_data_idx' = 0 /\ retriever_valid_idx' = 0 /\ seeking' = FALSE
      /\ queue' = (IF frames_retrieved > 0 THEN <<>> ELSE queue)
      /\ codec' = (IF frames_retrieved > 0 THEN <<>> ELSE codec)
      /\ feeder_data_idx' = 0
      /\ feeder_current_frame' =
           IF 0 < Len(encoded_data') THEN encoded_data'[0 + 1].start_keyframe
           ELSE feeder_current_frame
      /\ UNCHANGED <<entry, current_row, frames_retrieved, frames_to_get, buffer, fpc,
                     feeder_waiting, not_done>>
  BY DEF Initialize, flush_stale, flush_if, set_feeder_idx
<1>2. /\ frames_retrieved > 0 \/ Untouched
      /\ entry \in EvalWorkEntries /\ current_row = 0
  BY <1>1 DEF IInv, Stale
<1>3. queue' = <<>> /\ codec' = <<>>
  BY <1>1, <1>2 DEF Untouched
<1>4. /\ encoded_data' \in Seq(Segment) /\ encoded_data' # <<>>
      /\ Len(encoded_data') \in Nat /\ Len(encoded_data') > 0
      /\ RowsBefore(entry)[1] = 0 /\ Len(entry.row_ids) \in Nat
      /\ \A k \in 1..Len(encoded_data') :
           /\ encoded_data'[k] \in Segment /\ Len(encoded_data'[k].valid_frames) \in Nat
           /\ Len(encoded_data'[k].valid_frames) > 0
           /\ \A j \in 1..Len(encoded_data'[k].valid_frames) :
                encoded_data'[k].start_keyframe <= encoded_data'[k].valid_frames[j]
  BY <1>1, <1>2, EntryFacts, Zenon
<1>5. /\ encoded_data'[1] \in Segment /\ encoded_data'[1].start_keyframe \in Nat
      /\ Len(encoded_data'[1].valid_frames) > 0
      /\ encoded_data'[1].start_keyframe <= encoded_data'[1].valid_frames[1]
  <2>1. 1 \in 1..Len(encoded_data')
    BY <1>4
  <2>2. /\ encoded_data'[1] \in Segment /\ Len(encoded_data'[1].valid_frames) \in Nat
        /\ Len(encoded_data'[1].valid_frames) > 0
        /\ \A j \in 1..Len(encoded_data'[1].valid_frames) :
             encoded_data'[1].start_keyframe <= encoded_data'[1].valid_frames[j]
    BY <1>4, <2>1, Zenon
  <2>3. 1 \in 1..Len(encoded_data'[1].valid_frames)
    BY <2>2
  <2>4. encoded_data'[1].start_keyframe \in Nat
    BY <2>2 DEF Segment
  <2> QED
    BY <2>2, <2>3, <2>4, Zenon
<1>6. current_frame' = encoded_data'[1].start_keyframe
      /\ feeder_current_frame' = encoded_data'[1].start_keyframe
  BY <1>1, <1>4
<1>7. Shapes'
  <2>1. /\ pc' \in CallerPlaces /\ seeking' \in BOOLEAN /\ buffers_live' \in BOOLEAN
        /\ queue' \in Seq(Frame) /\ codec' \in Seq(Frame)
    BY <1>1, <1>3, EmptyFrames, Zenon DEF CallerPlaces
  <2>2. /\ current_frame' \in Int /\ feeder_current_frame' \in Int
        /\ retriever_data_idx' \in Nat /\ retriever_valid_idx' \in Nat
        /\ feeder_data_idx' \in Nat
    BY <1>1, <1>5, <1>6
  <2> QED
    BY <1>1, <1>4, <2>1, <2>2 DEF IInv, Shapes
<1>8. Feeder' /\ Counting' /\ Stale'
  BY <1>1, <1>2, <1>4 DEF IInv, Feeder, Feeding, Counting, Stale, Getting
<1>9. Rows'
  <2>1. /\ buffer' = <<>> /\ pc' = "yield" /\ pc' \notin Getting
        /\ pc' \notin {"segment_wait", "segment_notify", "segment_count", "get_notify",
                       "retrieve", "get_wait"}
    BY <1>1 DEF IInv, Rows, Getting
  <2>2. Place' = 0
    <3>1. RowsBefore(entry)[1] = 0
      BY <1>4, Zenon
    <3>2. entry' = entry /\ retriever_data_idx' = 0 /\ retriever_valid_idx' = 0
      BY <1>1, Zenon
    <3>3. 0 + 1 = 1 /\ 0 + 0 = 0
      OBVIOUS
    <3> QED
      BY <3>1, <3>2, <3>3, Zenon DEF Place
  <2>3. Segm' = encoded_data'[1]
    <3>1. retriever_data_idx' + 1 = 1
      BY <1>1
    <3> QED
      BY <3>1, Zenon DEF Segm
  <2> QED
    BY <1>1, <1>2, <1>4, <1>5, <2>1, <2>2, <2>3 DEF Rows
<1>10. Stream'
  <2>1. NextFrame' = encoded_data'[1].start_keyframe
    BY <1>1, <1>6 DEF NextFrame
  <2>2. /\ Segm' = encoded_data'[1]
        /\ wanted_frame' = encoded_data'[1].valid_frames[1]
    BY <1>1 DEF Segm, wanted_frame
  <2>3. ~(frames_retrieved' < frames_to_get')
    BY <1>1 DEF IInv, Counting, Getting, Shapes
  <2>4. /\ Len(queue') = 0 /\ Len(codec') = 0
        /\ \A i \in 1..Len(queue') : FALSE
        /\ \A i \in 1..Len(codec') : FALSE
    BY <1>3
  <2>5. NextFrame' + Len(queue') + Len(codec') = feeder_current_frame'
    BY <1>5, <1>6, <2>1, <2>4
  <2>6. Segm'.start_keyframe <= NextFrame' /\ NextFrame' <= wanted_frame'
    BY <1>5, <2>1, <2>2
  <2> QED
    BY <1>1, <1>6, <2>1, <2>2, <2>3, <2>4, <2>5, <2>6, Zenon DEF Stream
<1>11. Change' /\ Starts'
  BY <1>1 DEF Change, Starts
<1>12. Ahead'
  <2>1. Len(queue') = 0 /\ Len(codec') = 0
    BY <1>3
  <2> QED
    BY <1>1, <2>1, Constants DEF Ahead, Load, InSegmentChange
<1> QED
  BY <1>7, <1>8, <1>9, <1>10, <1>11, <1>12 DEF IInv

-----------------------------------------------------------------------------
(* The feeder *)

\* A step of the feeder that only changes where it is.
LEMMA FeederMoves ==
  ASSUME IInv, fpc' \in FeederPlaces, feeder_waiting' \in BOOLEAN, Feeder', Ahead',
         UNCHANGED <<FeederLeaves, feeder_data_idx, feeder_current_frame, decoderVars,
                     encoded_data, seeking, not_done>>,
         Busy /\ frames_retrieved < frames_to_get /\ feeder_data_idx < Len(encoded_data) => Busy',
         not_done /\ (feeder_waiting \/ fpc = "top") => feeder_waiting' \/ fpc' = "top"
  PROVE  IInv'
<1>1. /\ UNCHANGED <<pc, entry, current_row, buffers_live>>
      /\ UNCHANGED <<current_frame, retriever_data_idx, retriever_valid_idx, frames_retrieved,
                     frames_to_get, buffer>>
      /\ UNCHANGED <<feeder_data_idx, feeder_current_frame, codec, codec_last, queue>>
      /\ UNCHANGED <<encoded_data, seeking, not_done>>
  BY DEF FeederLeaves, entryVars, retrieverVars, decoderVars
<1>2. Shapes'
  BY <1>1 DEF IInv, Shapes
<1>3. Counting' /\ Stale'
  BY <1>1 DEF IInv, Counting, Stale, Untouched
<1>4. Rows'
  BY <1>1 DEF IInv, Rows, Session, Place, Segm
<1>5. Starts'
  BY <1>1 DEF IInv, Starts, Session
<1>6. Session => not_done
  BY DEF IInv, Feeder, Session, Getting, Between
<1>7. Session' = Session /\ NextFrame' = NextFrame /\ Segm' = Segm /\ wanted_frame' = wanted_frame
  BY <1>1 DEF Session, NextFrame, Segm, wanted_frame
<1>8. Stream'
  <2> SUFFICES ASSUME Session, pc # "segment_wait", retriever_data_idx < Len(encoded_data)
               PROVE  Stream'
    BY <1>1, <1>7 DEF Stream
  <2> QED
    BY <1>1, <1>6, <1>7 DEF IInv, Stream, Shapes
<1>9. Change'
  <2> SUFFICES ASSUME pc = "segment_wait" PROVE Change'
    BY <1>1 DEF Change
  <2>1. frames_retrieved < frames_to_get /\ not_done
    BY DEF IInv, Counting, Getting, Feeder
  <2> QED
    BY <1>1, <2>1 DEF IInv, Change, Shapes
<1> QED
  BY <1>2, <1>3, <1>4, <1>5, <1>8, <1>9 DEF IInv

LEMMA ParkPreserves == IInv /\ Park => IInv'
<1> SUFFICES ASSUME IInv, Park PROVE IInv'
  OBVIOUS
<1>1. /\ UNCHANGED <<FeederLeaves, feeder_data_idx, feeder_current_frame, decoderVars,
                     encoded_data, seeking, not_done>>
      /\ UNCHANGED <<pc, codec, queue, frames_retrieved, frames_to_get>>
  BY DEF Park, FeederLeaves, entryVars, retrieverVars, decoderVars
<1>2. /\ fpc = "top" /\ fpc' = (IF not_done THEN "notify" ELSE "ended")
      /\ feeder_waiting' = (IF not_done THEN TRUE ELSE feeder_waiting)
  BY DEF Park
<1>3. /\ fpc' \in FeederPlaces /\ feeder_waiting' \in BOOLEAN
      /\ Busy /\ frames_retrieved < frames_to_get /\ feeder_data_idx < Len(encoded_data) => Busy'
      /\ not_done /\ (feeder_waiting \/ fpc = "top") => feeder_waiting' \/ fpc' = "top"
  BY Zenon, <1>2 DEF IInv, Shapes, FeederPlaces, Busy
<1>4. Feeder'
  BY <1>1, <1>2 DEF IInv, Feeder, Shapes, Feeding
<1>5. Ahead'
  BY <1>1, <1>2 DEF IInv, Ahead, Load, InSegmentChange
<1> QED
  BY <1>1, <1>3, <1>4, <1>5, FeederMoves

LEMMA FeederNotifiesPreserves == IInv /\ FeederNotifies => IInv'
<1> SUFFICES ASSUME IInv, FeederNotifies PROVE IInv'
  OBVIOUS
<1>1. /\ UNCHANGED <<FeederLeaves, feeder_data_idx, feeder_current_frame, decoderVars,
                     encoded_data, seeking, not_done>>
      /\ UNCHANGED <<pc, codec, queue, frames_retrieved, frames_to_get, feeder_waiting>>
      /\ fpc = "notify" /\ fpc' = "wait"
  BY DEF FeederNotifies, FeederLeaves, entryVars, retrieverVars, decoderVars, sharedVars
<1>3. /\ fpc' \in FeederPlaces /\ feeder_waiting' \in BOOLEAN
      /\ Busy /\ frames_retrieved < frames_to_get /\ feeder_data_idx < Len(encoded_data) => Busy'
      /\ not_done /\ (feeder_waiting \/ fpc = "top") => feeder_waiting' \/ fpc' = "top"
  BY <1>1 DEF IInv, Shapes, FeederPlaces, Busy
<1>4. Feeder'
  BY <1>1 DEF IInv, Feeder, Shapes, Feeding
<1>5. Ahead'
  BY <1>1 DEF IInv, Ahead, Load, InSegmentChange
<1> QED
  BY <1>1, <1>3, <1>4, <1>5, FeederMoves

LEMMA AwaitRequestPreserves == IInv /\ AwaitRequest => IInv'
<1> SUFFICES ASSUME IInv, AwaitRequest PROVE IInv'
  OBVIOUS
<1>1. /\ UNCHANGED <<FeederLeaves, feeder_data_idx, feeder_current_frame, decoderVars,
                     encoded_data, seeking, not_done>>
      /\ UNCHANGED <<pc, codec, queue, frames_retrieved, frames_to_get, feeder_waiting>>
      /\ fpc = "wait"
      /\ fpc' = IF feeder_waiting THEN "wait"
                ELSE IF Len(encoded_data) <= feeder_data_idx THEN "top" ELSE "check"
  BY DEF AwaitRequest, FeederLeaves, entryVars, retrieverVars, decoderVars, sharedVars
<1>2. Len(encoded_data) \in Nat /\ feeder_data_idx \in Nat
  BY DEF IInv, Shapes
<1>3. /\ fpc' \in FeederPlaces /\ feeder_waiting' \in BOOLEAN
      /\ Busy /\ frames_retrieved < frames_to_get /\ feeder_data_idx < Len(encoded_data) => Busy'
      /\ not_done /\ (feeder_waiting \/ fpc = "top") => feeder_waiting' \/ fpc' = "top"
  BY <1>1, <1>2 DEF IInv, Shapes, FeederPlaces, Busy
<1>4. Feeder'
  BY <1>1, <1>2 DEF IInv, Feeder, Shapes, Feeding
<1>5. Ahead'
  BY <1>1 DEF IInv, Ahead, Load, InSegmentChange
<1> QED
  BY <1>1, <1>3, <1>4, <1>5, FeederMoves

LEMMA CheckRetrievedPreserves == IInv /\ CheckRetrieved => IInv'
<1> SUFFICES ASSUME IInv, CheckRetrieved PROVE IInv'
  OBVIOUS
<1>1. /\ UNCHANGED <<FeederLeaves, feeder_data_idx, feeder_current_frame, decoderVars,
                     encoded_data, seeking, not_done>>
      /\ UNCHANGED <<pc, codec, queue, frames_retrieved, frames_to_get, feeder_waiting>>
      /\ fpc = "check"
      /\ fpc' = IF frames_retrieved < frames_to_get THEN "room" ELSE "top"
  BY DEF CheckRetrieved, FeederLeaves, entryVars, retrieverVars, decoderVars, sharedVars
<1>3. /\ fpc' \in FeederPlaces /\ feeder_waiting' \in BOOLEAN
      /\ Busy /\ frames_retrieved < frames_to_get /\ feeder_data_idx < Len(encoded_data) => Busy'
      /\ not_done /\ (feeder_waiting \/ fpc = "top") => feeder_waiting' \/ fpc' = "top"
  BY <1>1 DEF IInv, Shapes, FeederPlaces, Busy, Feeder
<1>4. Feeder'
  BY <1>1 DEF IInv, Feeder, Shapes, Feeding
<1>5. Ahead'
  <2>1. fpc' = "room" => ~(frames_retrieved >= frames_to_get)
    BY <1>1 DEF IInv, Shapes
  <2> QED
    BY <1>1, <2>1 DEF IInv, Ahead, Load, InSegmentChange
<1> QED
  BY <1>1, <1>3, <1>4, <1>5, FeederMoves

LEMMA HasRoomPreserves == IInv /\ HasRoom => IInv'
<1> SUFFICES ASSUME IInv, HasRoom PROVE IInv'
  OBVIOUS
<1>1. /\ UNCHANGED <<FeederLeaves, feeder_data_idx, feeder_current_frame, decoderVars,
                     encoded_data, seeking, not_done>>
      /\ UNCHANGED <<pc, codec, queue, frames_retrieved, frames_to_get, feeder_waiting>>
      /\ fpc = "room" /\ fpc' = "feed" /\ ~buffers_full
  BY DEF HasRoom, FeederLeaves, entryVars, retrieverVars, decoderVars, sharedVars
<1>3. /\ fpc' \in FeederPlaces /\ feeder_waiting' \in BOOLEAN
      /\ Busy /\ frames_retrieved < frames_to_get /\ feeder_data_idx < Len(encoded_data) => Busy'
      /\ not_done /\ (feeder_waiting \/ fpc = "top") => feeder_waiting' \/ fpc' = "top"
  BY <1>1 DEF IInv, Shapes, FeederPlaces, Busy, Feeder
<1>4. Feeder'
  BY <1>1 DEF IInv, Feeder, Shapes, Feeding
<1>5. Ahead'
  <2>1. Len(queue) \in Nat /\ Len(codec) \in Nat /\ Len(codec) <= Delay
    BY <1>1 DEF IInv, Shapes, Ahead
  <2>2. frames_retrieved < frames_to_get => Load <= frames_to_wait + Delay
    BY <1>1, <2>1, Constants DEF buffers_full, Load
  <2>3. ~(frames_retrieved < frames_to_get) => frames_retrieved >= frames_to_get
    BY DEF IInv, Shapes
  <2>4. Load \in Int /\ Load <= frames_to_wait + Delay + 1
    BY <1>1, <2>1, <2>2, <2>3, Constants DEF IInv, Ahead, Load
  <2>5. InSegmentChange => Load <= frames_to_wait + Delay
    BY <2>2 DEF IInv, Counting, Getting, InSegmentChange
  <2>6. Load' = Load /\ InSegmentChange' = InSegmentChange
    BY <1>1 DEF Load, InSegmentChange
  <2> QED
    BY <1>1, <2>1, <2>4, <2>5, <2>6, Constants DEF Ahead
<1> QED
  BY <1>1, <1>3, <1>4, <1>5, FeederMoves

LEMMA FeedEndPreserves == IInv /\ FeedEnd => IInv'
<1> SUFFICES ASSUME IInv, FeedEnd PROVE IInv'
  OBVIOUS
<1>1. /\ UNCHANGED <<FeederLeaves, feeder_data_idx, feeder_current_frame, decoderVars,
                     encoded_data, seeking, not_done>>
      /\ UNCHANGED <<pc, codec, queue, frames_retrieved, frames_to_get, feeder_waiting>>
      /\ fpc = "feed" /\ fpc' = "drain"
  BY DEF FeedEnd, FeederLeaves, entryVars, retrieverVars, decoderVars, sharedVars
<1>3. /\ fpc' \in FeederPlaces /\ feeder_waiting' \in BOOLEAN
      /\ Busy /\ frames_retrieved < frames_to_get /\ feeder_data_idx < Len(encoded_data) => Busy'
      /\ not_done /\ (feeder_waiting \/ fpc = "top") => feeder_waiting' \/ fpc' = "top"
  BY <1>1 DEF IInv, Shapes, FeederPlaces, Busy, Feeder
<1>4. Feeder'
  BY <1>1 DEF IInv, Feeder, Shapes, Feeding
<1>5. Ahead'
  BY <1>1 DEF IInv, Ahead, Load, InSegmentChange
<1> QED
  BY <1>1, <1>3, <1>4, <1>5, FeederMoves

LEMMA SampleFedPreserves == IInv /\ SampleFed => IInv'
<1> SUFFICES ASSUME IInv, SampleFed PROVE IInv'
  OBVIOUS
<1>1. /\ UNCHANGED <<FeederLeaves, feeder_data_idx, feeder_current_frame, decoderVars,
                     encoded_data, seeking, not_done>>
      /\ UNCHANGED <<pc, codec, queue, frames_retrieved, frames_to_get, feeder_waiting>>
      /\ fpc = "receive" /\ fpc' = "check" /\ Len(codec) <= Delay
  BY DEF SampleFed, FeederLeaves, entryVars, retrieverVars, decoderVars, sharedVars
<1>3. /\ fpc' \in FeederPlaces /\ feeder_waiting' \in BOOLEAN
      /\ Busy /\ frames_retrieved < frames_to_get /\ feeder_data_idx < Len(encoded_data) => Busy'
      /\ not_done /\ (feeder_waiting \/ fpc = "top") => feeder_waiting' \/ fpc' = "top"
  BY <1>1 DEF IInv, Shapes, FeederPlaces, Busy, Feeder
<1>4. Feeder'
  BY <1>1 DEF IInv, Feeder, Shapes, Feeding
<1>5. Ahead'
  BY <1>1 DEF IInv, Ahead, Load, InSegmentChange
<1> QED
  BY <1>1, <1>3, <1>4, <1>5, FeederMoves

\* A step that changes nothing the invariant looks at.
LEMMA Stutter ==
  ASSUME IInv,
         UNCHANGED <<pc, entryVars, retrieverVars, feederVars, decoderVars, sharedVars>>
  PROVE  IInv'
<1>1. /\ UNCHANGED <<pc, entry, current_row, buffers_live>>
      /\ UNCHANGED <<current_frame, retriever_data_idx, retriever_valid_idx, frames_retrieved,
                     frames_to_get, buffer>>
      /\ UNCHANGED <<fpc, feeder_data_idx, feeder_current_frame, codec, codec_last, queue>>
      /\ UNCHANGED <<encoded_data, feeder_waiting, seeking, not_done>>
  BY DEF entryVars, retrieverVars, feederVars, decoderVars, sharedVars
<1>2. Shapes' /\ Feeder' /\ Counting' /\ Stale'
  BY <1>1 DEF IInv, Shapes, Feeder, Feeding, Counting, Stale, Untouched
<1>3. Rows'
  BY <1>1 DEF IInv, Rows, Session, Place, Segm
<1>4. Stream'
  BY <1>1 DEF IInv, Stream, Session, NextFrame, Segm, wanted_frame, Busy
<1>5. Change' /\ Starts'
  BY <1>1 DEF IInv, Change, Starts, Session, Busy
<1>6. Ahead'
  BY <1>1 DEF IInv, Ahead, Load, InSegmentChange
<1> QED
  BY <1>2, <1>3, <1>4, <1>5, <1>6 DEF IInv

LEMMA WaitsPreserve ==
  IInv /\ (AwaitRoom \/ CodecRefuses \/ WaitForFeeder \/ SegmentSleep) => IInv'
BY Stutter DEF AwaitRoom, CodecRefuses, WaitForFeeder, SegmentSleep, FeederLeaves

\* What the feeder finds in the codec while it works.
LEMMA FeedingFacts ==
  ASSUME IInv, Feeding
  PROVE  /\ feeder_data_idx \in Nat /\ feeder_data_idx < Len(encoded_data)
         /\ Len(encoded_data) \in Nat /\ ~feeder_waiting /\ fpc # "top"
         /\ Session => ~seeking
         /\ Session /\ pc # "segment_wait" /\ retriever_data_idx < Len(encoded_data) =>
              /\ feeder_data_idx = retriever_data_idx
              /\ NextFrame + Len(queue) + Len(codec) = feeder_current_frame
              /\ codec_last = feeder_current_frame - 1
                   \/ feeder_current_frame = Segm.start_keyframe
              /\ Segm.start_keyframe \in Keyframes
<1>1. /\ feeder_data_idx \in Nat /\ feeder_data_idx < Len(encoded_data)
      /\ Len(encoded_data) \in Nat /\ ~feeder_waiting /\ fpc # "top"
  BY DEF IInv, Shapes, Feeder, Feeding
<1>2. Session => ~seeking
  BY <1>1 DEF IInv, Starts, Feeder, Session, Getting, Between
<1>3. ASSUME Session, pc # "segment_wait", retriever_data_idx < Len(encoded_data)
      PROVE  /\ feeder_data_idx = retriever_data_idx
             /\ NextFrame + Len(queue) + Len(codec) = feeder_current_frame
             /\ codec_last = feeder_current_frame - 1
                  \/ feeder_current_frame = Segm.start_keyframe
             /\ Segm.start_keyframe \in Keyframes
  <2>1. entry \in EvalWorkEntries /\ encoded_data = entry.columns
    BY <1>3 DEF IInv, Rows
  <2>2. retriever_data_idx + 1 \in 1..Len(entry.columns)
    BY <1>1, <1>3, <2>1 DEF IInv, Shapes
  <2>3. \A k \in 1..Len(entry.columns) : entry.columns[k].start_keyframe \in Keyframes
    BY <2>1, EntryFacts
  <2>4. Segm.start_keyframe \in Keyframes
    BY <2>1, <2>2, <2>3, Zenon DEF Segm
  <2> QED
    BY <1>1, <1>3, <2>4 DEF IInv, Stream
<1> QED
  BY <1>1, <1>2, <1>3

LEMMA FeedSamplePreserves == IInv /\ FeedSample => IInv'
<1> SUFFICES ASSUME IInv, FeedSample PROVE IInv'
  OBVIOUS
<1>1. /\ UNCHANGED <<pc, entry, current_row, buffers_live>>
      /\ UNCHANGED <<current_frame, retriever_data_idx, retriever_valid_idx, frames_retrieved,
                     frames_to_get, buffer>>
      /\ UNCHANGED <<feeder_data_idx, queue, encoded_data, feeder_waiting, seeking, not_done>>
      /\ fpc = "feed" /\ fpc' = "receive" /\ feeder_current_frame' = feeder_current_frame + 1
  BY DEF FeedSample, FeederLeaves, entryVars, retrieverVars, sharedVars
<1>2. PICK p \in {picture(feeder_current_frame)} \cup (IF buffers_live THEN {} ELSE {Garbage}) :
        codec' = Append(codec, p) /\ codec_last' = p
  BY DEF FeedSample
<1>3. feeder_current_frame \in Int /\ codec \in Seq(Frame) /\ queue \in Seq(Frame)
  BY DEF IInv, Shapes
<1>4. p \in Frame
  BY <1>2, <1>3 DEF picture, Frame
<1>5. /\ codec' \in Seq(Frame) /\ Len(codec) \in Nat /\ Len(codec') = Len(codec) + 1
      /\ \A i \in 1..(Len(codec) + 1) : codec'[i] = IF i <= Len(codec) THEN codec[i] ELSE p
  BY <1>2, <1>3, <1>4, AppendFrame
<1>6. /\ Feeding /\ feeder_data_idx \in Nat /\ feeder_data_idx < Len(encoded_data)
      /\ Len(encoded_data) \in Nat /\ ~feeder_waiting
      /\ Session => ~seeking
      /\ Session /\ pc # "segment_wait" /\ retriever_data_idx < Len(encoded_data) =>
           /\ feeder_data_idx = retriever_data_idx
           /\ NextFrame + Len(queue) + Len(codec) = feeder_current_frame
           /\ codec_last = feeder_current_frame - 1
                \/ feeder_current_frame = Segm.start_keyframe
           /\ Segm.start_keyframe \in Keyframes
  <2>1. Feeding
    BY <1>1 DEF Feeding
  <2> QED
    BY <2>1, FeedingFacts, Zenon
<1>7. Shapes'
  BY <1>1, <1>5 DEF IInv, Shapes, FeederPlaces
<1>8. Feeder' /\ Counting'
  BY <1>1, <1>6 DEF IInv, Feeder, Feeding, Counting
<1>9. Stale'
  BY <1>1, <1>6 DEF IInv, Stale, Untouched
<1>10. Rows'
  BY <1>1 DEF IInv, Rows, Session, Place, Segm
<1>11. Session' = Session /\ NextFrame' = NextFrame /\ Segm' = Segm /\ wanted_frame' = wanted_frame
  BY <1>1 DEF Session, NextFrame, Segm, wanted_frame
<1>12. Stream'
  <2> SUFFICES ASSUME Session, pc # "segment_wait", retriever_data_idx < Len(encoded_data)
               PROVE  Stream'
    BY <1>1, <1>11 DEF Stream
  <2>1. buffers_live
    BY DEF IInv, Rows
  <2>2. p = feeder_current_frame
    BY <1>2, <1>6, <2>1 DEF picture
  <2>3. Len(queue) \in Nat /\ NextFrame \in Int
    BY <1>3 DEF NextFrame, IInv, Shapes
  <2>4. NextFrame + Len(queue) + Len(codec') = feeder_current_frame'
    <3>1. /\ NextFrame + Len(queue) + Len(codec) = feeder_current_frame
          /\ Len(codec) \in Nat /\ Len(codec') = Len(codec) + 1
      BY <1>5, <1>6
    <3> QED
      BY <1>1, <2>3, <3>1
  <2>5. \A i \in 1..Len(codec') : codec'[i] = NextFrame + Len(queue) + i - 1
    <3>1. \A i \in 1..Len(codec) : codec[i] = NextFrame + Len(queue) + i - 1
      BY DEF IInv, Stream
    <3>2. p = NextFrame + Len(queue) + (Len(codec) + 1) - 1
      BY <1>5, <1>6, <2>2, <2>3
    <3> SUFFICES ASSUME NEW i \in 1..(Len(codec) + 1)
                 PROVE  codec'[i] = NextFrame + Len(queue) + i - 1
      BY <1>5
    <3>3. CASE i <= Len(codec)
      BY <1>5, <3>1, <3>3
    <3>4. CASE i = Len(codec) + 1
      BY <1>5, <3>2, <3>4
    <3> QED
      BY <1>5, <3>3, <3>4
  <2>6. codec_last' = feeder_current_frame' - 1
    BY <1>1, <1>2, <1>3, <2>2
  <2>7. Busy' /\ ~seeking'
    BY <1>1, <1>6 DEF Busy
  <2>8. /\ Segm.start_keyframe <= NextFrame /\ NextFrame <= wanted_frame
        /\ \A i \in 1..Len(queue) : queue[i] = NextFrame + i - 1
    BY DEF IInv, Stream
  <2> QED
    BY <1>1, <1>6, <1>11, <2>4, <2>5, <2>6, <2>7, <2>8, Zenon DEF Stream
<1>13. Change'
  BY <1>1, <1>6 DEF IInv, Change, Busy
<1>14. Starts'
  BY <1>1, <1>6, <1>11 DEF IInv, Starts
<1>15. Ahead'
  <2>1. Len(queue) \in Nat
    BY <1>3
  <2> QED
    BY <1>1, <1>5, <2>1, Constants DEF IInv, Ahead, Load, InSegmentChange
<1> QED
  BY <1>7, <1>8, <1>9, <1>10, <1>12, <1>13, <1>14, <1>15 DEF IInv

LEMMA ReceiveFramePreserves == IInv /\ ReceiveFrame => IInv'
<1> SUFFICES ASSUME IInv, ReceiveFrame PROVE IInv'
  OBVIOUS
<1>1. /\ UNCHANGED <<pc, entry, current_row, buffers_live>>
      /\ UNCHANGED <<current_frame, retriever_data_idx, retriever_valid_idx, frames_retrieved,
                     frames_to_get, buffer>>
      /\ UNCHANGED <<fpc, feeder_data_idx, feeder_current_frame, codec_last>>
      /\ UNCHANGED <<encoded_data, feeder_waiting, seeking, not_done>>
      /\ fpc \in {"receive", "drain"} /\ codec # <<>>
      /\ queue' = Append(queue, Head(codec)) /\ codec' = Tail(codec)
  BY DEF ReceiveFrame, FeederLeaves, entryVars, retrieverVars, feederVars, sharedVars
<1>2. codec \in Seq(Frame) /\ queue \in Seq(Frame) /\ NextFrame \in Int
  BY DEF IInv, Shapes, NextFrame
<1>3. /\ codec' \in Seq(Frame) /\ Len(codec) \in Nat /\ Len(codec) > 0
      /\ Len(codec') = Len(codec) - 1 /\ Head(codec) = codec[1] /\ Head(codec) \in Frame
      /\ \A i \in 1..(Len(codec) - 1) : codec'[i] = codec[i + 1]
  BY <1>1, <1>2, TailFrame
<1>4. /\ queue' \in Seq(Frame) /\ Len(queue) \in Nat /\ Len(queue') = Len(queue) + 1
      /\ \A i \in 1..(Len(queue) + 1) : queue'[i] = IF i <= Len(queue) THEN queue[i] ELSE codec[1]
  BY <1>1, <1>2, <1>3, AppendFrame
<1>5. Feeding
  BY <1>1 DEF Feeding
<1>6. Shapes' /\ Feeder' /\ Counting'
  BY <1>1, <1>3, <1>4 DEF IInv, Shapes, Feeder, Feeding, Counting
<1>7. Stale'
  BY <1>1 DEF IInv, Stale, Untouched
<1>8. Rows'
  BY <1>1 DEF IInv, Rows, Session, Place, Segm
<1>9. Session' = Session /\ NextFrame' = NextFrame /\ Segm' = Segm /\ wanted_frame' = wanted_frame
  BY <1>1 DEF Session, NextFrame, Segm, wanted_frame
<1>10. Stream'
  <2> SUFFICES ASSUME Session, pc # "segment_wait", retriever_data_idx < Len(encoded_data)
               PROVE  Stream'
    BY <1>1, <1>9 DEF Stream
  <2>1. /\ \A i \in 1..Len(queue) : queue[i] = NextFrame + i - 1
        /\ \A i \in 1..Len(codec) : codec[i] = NextFrame + Len(queue) + i - 1
    BY DEF IInv, Stream
  <2>2. \A i \in 1..Len(queue') : queue'[i] = NextFrame + i - 1
    <3>1. codec[1] = NextFrame + (Len(queue) + 1) - 1
      BY <1>2, <1>3, <1>4, <2>1
    <3> SUFFICES ASSUME NEW i \in 1..(Len(queue) + 1) PROVE queue'[i] = NextFrame + i - 1
      BY <1>4
    <3>2. CASE i <= Len(queue)
      BY <1>4, <2>1, <3>2
    <3>3. CASE i = Len(queue) + 1
      BY <1>4, <3>1, <3>3
    <3> QED
      BY <1>4, <3>2, <3>3
  <2>3. \A i \in 1..Len(codec') : codec'[i] = NextFrame + Len(queue') + i - 1
    BY <1>2, <1>3, <1>4, <2>1
  <2>4. NextFrame + Len(queue') + Len(codec') = NextFrame + Len(queue) + Len(codec)
    BY <1>2, <1>3, <1>4
  <2>5. /\ Segm.start_keyframe <= NextFrame /\ NextFrame <= wanted_frame
        /\ feeder_data_idx = retriever_data_idx /\ ~seeking
        /\ NextFrame + Len(queue) + Len(codec) = feeder_current_frame
        /\ codec_last = feeder_current_frame - 1 \/ feeder_current_frame = Segm.start_keyframe
        /\ Busy
    BY <1>5, FeedingFacts DEF IInv, Stream, Busy
  <2>6. Busy'
    BY <1>1, <2>5 DEF Busy
  <2> QED
    BY <1>1, <1>9, <2>2, <2>3, <2>4, <2>5, <2>6, Zenon DEF Stream
<1>11. Change' /\ Starts'
  BY <1>1, <1>9 DEF IInv, Change, Starts, Busy
<1>12. Ahead'
  <2>1. Load' = Load /\ InSegmentChange' = InSegmentChange
    BY <1>1, <1>3, <1>4 DEF Load, InSegmentChange
  <2> QED
    BY <1>1, <1>3, <2>1, Constants DEF IInv, Ahead
<1> QED
  BY <1>6, <1>7, <1>8, <1>10, <1>11, <1>12 DEF IInv

LEMMA SegmentFedPreserves == IInv /\ SegmentFed => IInv'
<1> SUFFICES ASSUME IInv, SegmentFed PROVE IInv'
  OBVIOUS
<1>1. /\ UNCHANGED <<pc, entry, current_row, buffers_live>>
      /\ UNCHANGED <<current_frame, retriever_data_idx, retriever_valid_idx, frames_retrieved,
                     frames_to_get, buffer>>
      /\ UNCHANGED <<codec, queue, encoded_data, feeder_waiting, not_done>>
      /\ fpc = "drain" /\ fpc' = "top" /\ codec = <<>> /\ codec_last' = None /\ seeking' = TRUE
      /\ feeder_data_idx' = feeder_data_idx + 1
      /\ feeder_current_frame' =
           IF feeder_data_idx + 1 < Len(encoded_data)
             THEN encoded_data[feeder_data_idx + 1 + 1].start_keyframe ELSE feeder_current_frame
  BY DEF SegmentFed, set_feeder_idx, FeederLeaves, entryVars, retrieverVars
<1>2. Feeding
  BY <1>1 DEF Feeding
<1>3. /\ feeder_data_idx \in Nat /\ feeder_data_idx < Len(encoded_data)
      /\ Len(encoded_data) \in Nat /\ ~feeder_waiting
      /\ Session /\ pc # "segment_wait" /\ retriever_data_idx < Len(encoded_data) =>
           feeder_data_idx = retriever_data_idx
  BY <1>2, FeedingFacts, Zenon
<1>4. feeder_current_frame' \in Int /\ feeder_data_idx' \in Nat
  <2>1. encoded_data \in Seq(Segment) /\ feeder_current_frame \in Int
    BY DEF IInv, Shapes
  <2>2. \A k \in 1..Len(encoded_data) : encoded_data[k] \in Segment
    BY <2>1
  <2>3. \A k \in 1..Len(encoded_data) : encoded_data[k].start_keyframe \in Int
    BY <2>2 DEF Segment
  <2> QED
    BY <1>1, <1>3, <2>1, <2>3
<1>5. Shapes'
  BY <1>1, <1>4 DEF IInv, Shapes, FeederPlaces
<1>6. Feeder' /\ Counting'
  BY <1>1, <1>3 DEF IInv, Feeder, Feeding, Counting
<1>7. Stale'
  BY <1>1 DEF IInv, Stale, Untouched
<1>8. Rows'
  BY <1>1 DEF IInv, Rows, Session, Place, Segm
<1>9. Session' = Session /\ NextFrame' = NextFrame /\ Segm' = Segm /\ wanted_frame' = wanted_frame
  BY <1>1 DEF Session, NextFrame, Segm, wanted_frame
<1>10. Stream'
  <2> SUFFICES ASSUME Session, pc # "segment_wait", retriever_data_idx < Len(encoded_data)
               PROVE  Stream'
    BY <1>1, <1>9 DEF Stream
  <2> QED
    BY <1>1, <1>3, <1>9 DEF IInv, Stream
<1>11. Change'
  BY <1>1, <1>3 DEF IInv, Change, Shapes
<1>12. Starts'
  BY <1>1, <1>3 DEF Starts
<1>13. Ahead'
  BY <1>1 DEF IInv, Ahead, Load, InSegmentChange
<1> QED
  BY <1>5, <1>6, <1>7, <1>8, <1>10, <1>11, <1>12, <1>13 DEF IInv

-----------------------------------------------------------------------------
(* The caller outside the io packets *)

\* A step after which no io packet is initialized, or that changes nothing the
\* retriever looks at.
LEMMA OutsideStep ==
  ASSUME Shapes', Feeder', Counting', Stale', Ahead',
         pc' \notin Getting \cup Between, buffer' = <<>>,
         seeking' /\ feeder_data_idx' < Len(encoded_data') /\ not_done' =>
           feeder_waiting' \/ fpc' = "top"
  PROVE  IInv'
<1>1. ~Session' /\ pc' \notin Getting /\ pc' \notin {"get_wait", "segment_wait"}
  BY DEF Session, Getting, Between
<1>2. Rows'
  BY <1>1 DEF Rows, Getting
<1>3. Stream' /\ Change' /\ Starts'
  BY <1>1 DEF Stream, Change, Starts
<1> QED
  BY <1>2, <1>3 DEF IInv

LEMMA DiscardFacts ==
  ASSUME Shapes, discard_frame
  PROVE  /\ queue' \in Seq(Frame) /\ Len(queue) \in Nat /\ Len(queue') \in Nat
         /\ Len(queue') <= Len(queue)
         /\ queue = <<>> => queue' = <<>>
         /\ queue # <<>> => queue' = Tail(queue)
<1>1. queue \in Seq(Frame) /\ queue' = IF queue = <<>> THEN <<>> ELSE Tail(queue)
  BY DEF Shapes, discard_frame
<1>2. CASE queue = <<>>
  BY <1>1, <1>2, EmptyFrames
<1>3. CASE queue # <<>>
  BY <1>1, <1>3, TailFrame
<1> QED
  BY <1>2, <1>3

LEMMA FeedPreserves ==
  ASSUME IInv, NEW e \in EvalWorkEntries, Feed(e)
  PROVE  IInv'
<1>1. /\ pc = "idle" /\ pc' = "discard" /\ entry' = e /\ current_row' = 0 /\ buffers_live' = FALSE
      /\ UNCHANGED <<current_frame, retriever_data_idx, retriever_valid_idx, frames_retrieved,
                     frames_to_get, buffer>>
      /\ UNCHANGED <<fpc, feeder_data_idx, feeder_current_frame, codec, codec_last, queue>>
      /\ UNCHANGED <<encoded_data, feeder_waiting, seeking, not_done>>
  BY DEF Feed, retrieverVars, feederVars, decoderVars, sharedVars
<1>2. Shapes'
  BY Zenon, <1>1 DEF IInv, Shapes, CallerPlaces
<1>3. Feeder' /\ Counting'
  BY <1>1 DEF IInv, Feeder, Feeding, Counting, Getting
<1>4. Stale'
  BY <1>1 DEF IInv, Stale, Untouched, Getting
<1>5. Ahead'
  BY <1>1 DEF IInv, Ahead, Load, InSegmentChange
<1>6. /\ pc' \notin Getting \cup Between /\ buffer' = <<>>
      /\ seeking' /\ feeder_data_idx' < Len(encoded_data') /\ not_done' =>
           feeder_waiting' \/ fpc' = "top"
  BY <1>1 DEF IInv, Rows, Starts, Getting, Between
<1> QED
  BY <1>2, <1>3, <1>4, <1>5, <1>6, OutsideStep

LEMMA DiscardsPreserve == IInv /\ (InitDiscard \/ EndDiscard) => IInv'
<1> SUFFICES ASSUME IInv, InitDiscard \/ EndDiscard PROVE IInv'
  OBVIOUS
<1>1. /\ \/ pc = "discard" /\ pc' \in {"discard", "init_wait"}
         \/ pc = "end_discard" /\ pc' \in {"end_discard", "end_wait"}
      /\ discard_frame
      /\ UNCHANGED <<entry, current_row, buffers_live>>
      /\ UNCHANGED <<current_frame, retriever_data_idx, retriever_valid_idx, frames_retrieved,
                     frames_to_get, buffer>>
      /\ UNCHANGED <<fpc, feeder_data_idx, feeder_current_frame, codec, codec_last>>
      /\ UNCHANGED <<encoded_data, feeder_waiting, seeking, not_done>>
  BY DEF InitDiscard, EndDiscard, entryVars, retrieverVars, feederVars, sharedVars
<1>2. /\ queue' \in Seq(Frame) /\ Len(queue) \in Nat /\ Len(queue') \in Nat
      /\ Len(queue') <= Len(queue)
      /\ queue = <<>> => queue' = <<>>
  BY <1>1, DiscardFacts DEF IInv
<1>3. Shapes'
  BY <1>1, <1>2 DEF IInv, Shapes, CallerPlaces
<1>4. Feeder' /\ Counting'
  BY <1>1 DEF IInv, Feeder, Feeding, Counting, Getting
<1>5. Stale'
  BY <1>1, <1>2 DEF IInv, Stale, Untouched, Getting
<1>6. Ahead'
  <2>1. Len(codec) \in Nat
    BY DEF IInv, Shapes
  <2> QED
    BY <1>1, <1>2, <2>1, Constants DEF IInv, Ahead, Load, InSegmentChange
<1>7. /\ pc' \notin Getting \cup Between /\ buffer' = <<>>
      /\ seeking' /\ feeder_data_idx' < Len(encoded_data') /\ not_done' =>
           feeder_waiting' \/ fpc' = "top"
  BY <1>1 DEF IInv, Rows, Starts, Getting, Between
<1> QED
  BY <1>3, <1>4, <1>5, <1>6, <1>7, OutsideStep

LEMMA EndPreserves ==
  IInv /\ (Destroy \/ StopFeeder \/ Join \/ (CallerNotifies /\ pc = "end_notify")) => IInv'
<1> SUFFICES ASSUME IInv, Destroy \/ StopFeeder \/ Join \/ (CallerNotifies /\ pc = "end_notify")
             PROVE  IInv'
  OBVIOUS
<1>1. /\ \/ /\ pc = "idle" /\ pc' = "end_discard" /\ frames_retrieved' = 0 /\ frames_to_get' = 0
            /\ buffers_live' = FALSE /\ UNCHANGED <<feeder_waiting, not_done>>
         \/ /\ pc = "end_wait" /\ pc' = "end_notify" /\ not_done' = FALSE /\ feeder_waiting' = FALSE
            /\ UNCHANGED <<frames_retrieved, frames_to_get, buffers_live>>
         \/ /\ \/ pc = "join" /\ pc' = "done"
               \/ pc = "end_notify" /\ pc' = "join"
            /\ UNCHANGED <<frames_retrieved, frames_to_get, buffers_live, feeder_waiting, not_done>>
      /\ UNCHANGED <<entry, current_row>>
      /\ UNCHANGED <<current_frame, retriever_data_idx, retriever_valid_idx, buffer>>
      /\ UNCHANGED <<fpc, feeder_data_idx, feeder_current_frame, codec, codec_last, queue>>
      /\ UNCHANGED <<encoded_data, seeking>>
  BY DEF Destroy, StopFeeder, Join, CallerNotifies, entryVars, retrieverVars, feederVars,
         decoderVars, sharedVars
<1>2. Shapes'
  <2>1. pc' \in CallerPlaces
    BY <1>1 DEF CallerPlaces
  <2>2. frames_retrieved' \in Nat /\ frames_to_get' \in Nat
    BY <1>1 DEF IInv, Shapes
  <2>3. feeder_waiting' \in BOOLEAN /\ not_done' \in BOOLEAN /\ buffers_live' \in BOOLEAN
    BY <1>1, Zenon DEF IInv, Shapes
  <2> QED
    BY <1>1, <2>1, <2>2, <2>3 DEF IInv, Shapes
<1>3. Feeder' /\ Counting'
  BY <1>1 DEF IInv, Feeder, Feeding, Counting, Getting
<1>4. Stale'
  BY <1>1 DEF IInv, Stale, Untouched, Getting
<1>5. Ahead'
  <2>1. frames_retrieved' >= frames_to_get' => frames_retrieved >= frames_to_get
    BY <1>1 DEF IInv, Counting, Getting
  <2> QED
    BY <1>1, <2>1 DEF IInv, Ahead, Load, InSegmentChange
<1>6. /\ pc' \notin Getting \cup Between /\ buffer' = <<>>
      /\ seeking' /\ feeder_data_idx' < Len(encoded_data') /\ not_done' =>
           feeder_waiting' \/ fpc' = "top"
  BY <1>1 DEF IInv, Rows, Starts, Getting, Between
<1> QED
  BY <1>2, <1>3, <1>4, <1>5, <1>6, OutsideStep
-----------------------------------------------------------------------------
(* The caller within an io packet *)

\* The place of the retriever in a segment, if any is left.
LEMMA SessionFacts ==
  ASSUME IInv, Session
  PROVE  /\ entry \in EvalWorkEntries /\ encoded_data = entry.columns
         /\ Len(encoded_data) \in Nat /\ Len(entry.row_ids) \in Nat /\ Len(entry.row_ids) > 0
         /\ retriever_data_idx \in 0..Len(encoded_data) /\ Place \in Int
         /\ retriever_data_idx = Len(encoded_data) => Place = Len(entry.row_ids)
         /\ retriever_data_idx < Len(encoded_data) =>
              /\ Segm \in Segment /\ Segm.start_keyframe \in Nat
              /\ Len(Segm.valid_frames) \in Nat
              /\ retriever_valid_idx \in 0..(Len(Segm.valid_frames) - 1)
              /\ wanted_frame \in Nat /\ wanted_frame = entry.row_ids[Place + 1]
              /\ RowsBefore(entry)[retriever_data_idx + 1] \in Nat
              /\ RowsBefore(entry)[retriever_data_idx + 2] =
                   RowsBefore(entry)[retriever_data_idx + 1] + Len(Segm.valid_frames)
<1>1. /\ entry \in EvalWorkEntries /\ encoded_data = entry.columns
      /\ retriever_data_idx <= Len(encoded_data)
      /\ IF retriever_data_idx < Len(encoded_data)
           THEN retriever_valid_idx < Len(Segm.valid_frames)
           ELSE retriever_valid_idx = 0
  BY DEF IInv, Rows
<1>2. /\ Len(encoded_data) \in Nat /\ Len(entry.row_ids) \in Nat /\ Len(entry.row_ids) > 0
      /\ RowsBefore(entry)[Len(encoded_data) + 1] = Len(entry.row_ids)
      /\ \A k \in 1..(Len(encoded_data) + 1) : RowsBefore(entry)[k] \in 0..Len(entry.row_ids)
      /\ \A k \in 1..Len(encoded_data) :
           /\ encoded_data[k] \in Segment
           /\ Len(encoded_data[k].valid_frames) \in Nat
           /\ RowsBefore(entry)[k + 1] =
                RowsBefore(entry)[k] + Len(encoded_data[k].valid_frames)
           /\ \A j \in 1..Len(encoded_data[k].valid_frames) :
                /\ encoded_data[k].valid_frames[j] \in Nat
                /\ encoded_data[k].valid_frames[j] = entry.row_ids[RowsBefore(entry)[k] + j]
  BY <1>1, EntryFacts, Zenon
<1>3. retriever_data_idx \in 0..Len(encoded_data) /\ retriever_valid_idx \in Nat
  BY <1>1, <1>2 DEF IInv, Shapes
<1>4. Place \in Int
  <2>1. retriever_data_idx + 1 \in 1..(Len(encoded_data) + 1)
    BY <1>2, <1>3
  <2>2. RowsBefore(entry)[retriever_data_idx + 1] \in 0..Len(entry.row_ids)
    BY <1>2, <2>1
  <2> QED
    BY <1>2, <1>3, <2>2 DEF Place
<1>5. retriever_data_idx = Len(encoded_data) => Place = Len(entry.row_ids)
  BY <1>1, <1>2, <1>3 DEF Place
<1>6. ASSUME retriever_data_idx < Len(encoded_data)
      PROVE  /\ Segm \in Segment /\ Segm.start_keyframe \in Nat
             /\ Len(Segm.valid_frames) \in Nat
             /\ retriever_valid_idx \in 0..(Len(Segm.valid_frames) - 1)
             /\ wanted_frame \in Nat /\ wanted_frame = entry.row_ids[Place + 1]
             /\ RowsBefore(entry)[retriever_data_idx + 1] \in Nat
             /\ RowsBefore(entry)[retriever_data_idx + 2] =
                  RowsBefore(entry)[retriever_data_idx + 1] + Len(Segm.valid_frames)
  <2>1. retriever_data_idx + 1 \in 1..Len(encoded_data)
    BY <1>2, <1>3, <1>6
  <2>2. /\ Segm \in Segment /\ Len(Segm.valid_frames) \in Nat
        /\ RowsBefore(entry)[retriever_data_idx + 1 + 1] =
             RowsBefore(entry)[retriever_data_idx + 1] + Len(Segm.valid_frames)
        /\ \A j \in 1..Len(Segm.valid_frames) :
             /\ Segm.valid_frames[j] \in Nat
             /\ Segm.valid_frames[j] = entry.row_ids[RowsBefore(entry)[retriever_data_idx + 1] + j]
    BY <1>2, <2>1, Zenon DEF Segm
  <2>3. retriever_valid_idx + 1 \in 1..Len(Segm.valid_frames)
    BY <1>1, <1>3, <1>6, <2>2
  <2>4. RowsBefore(entry)[retriever_data_idx + 1] \in Nat
    BY <1>2, <1>3
  <2>5. retriever_data_idx + 1 + 1 = retriever_data_idx + 2
        /\ RowsBefore(entry)[retriever_data_idx + 1] + (retriever_valid_idx + 1) = Place + 1
    BY <1>3, <2>4 DEF Place
  <2>6. wanted_frame \in Nat /\ wanted_frame = entry.row_ids[Place + 1]
    BY <2>2, <2>3, <2>5 DEF wanted_frame, Segm
  <2>7. Segm.start_keyframe \in Nat
    BY <2>2 DEF Segment
  <2>8. retriever_valid_idx \in 0..(Len(Segm.valid_frames) - 1)
    BY <1>3, <2>2, <2>3
  <2> QED
    BY <2>2, <2>4, <2>5, <2>6, <2>7, <2>8
<1> QED
  BY <1>1, <1>2, <1>3, <1>4, <1>5, <1>6

\* While a call lacks frames, a segment is left.
LEMMA SegmentIsLeft ==
  ASSUME IInv, \/ pc = "get_wait"
               \/ pc \in {"get_notify", "retrieve"} /\ frames_retrieved < frames_to_get
  PROVE  Session /\ retriever_data_idx < Len(encoded_data)
<1>1. Session
  BY DEF IInv, Stale, Session, Getting, Between
<1>2. Place = current_row + Len(buffer) /\ current_row \in Nat
  BY <1>1 DEF IInv, Rows, Getting, Shapes
<1>3. frames_retrieved \in Nat /\ frames_to_get \in Nat
  BY DEF IInv, Shapes
<1>4. /\ Len(entry.row_ids) \in Nat /\ Len(encoded_data) \in Nat
      /\ retriever_data_idx \in 0..Len(encoded_data)
      /\ retriever_data_idx = Len(encoded_data) => Place = Len(entry.row_ids)
  BY <1>1, SessionFacts, Zenon
<1>5. current_row + Len(buffer) < Len(entry.row_ids)
  <2>1. CASE pc = "get_wait"
    <3>1. Len(buffer) = 0 /\ current_row < Len(entry.row_ids)
      BY <2>1 DEF IInv, Rows, Getting
    <3> QED
      BY <1>2, <3>1
  <2>2. CASE pc \in {"get_notify", "retrieve"} /\ frames_retrieved < frames_to_get
    <3>1. Len(buffer) = frames_retrieved /\ current_row + frames_to_get <= Len(entry.row_ids)
      BY <2>2 DEF IInv, Rows, Getting
    <3> QED
      BY <1>2, <1>3, <1>4, <2>2, <3>1
  <2> QED
    BY <2>1, <2>2
<1> QED
  BY <1>1, <1>2, <1>4, <1>5

LEMMA YieldPreserves == IInv /\ Yield => IInv'
<1> SUFFICES ASSUME IInv, Yield PROVE IInv'
  OBVIOUS
<1>1. /\ pc = "yield"
      /\ pc' = IF current_row < Len(entry.row_ids) THEN "get_wait" ELSE "idle"
      /\ UNCHANGED <<entry, current_row, buffers_live>>
      /\ UNCHANGED <<current_frame, retriever_data_idx, retriever_valid_idx, frames_retrieved,
                     frames_to_get, buffer>>
      /\ UNCHANGED <<fpc, feeder_data_idx, feeder_current_frame, codec, codec_last, queue>>
      /\ UNCHANGED <<encoded_data, feeder_waiting, seeking, not_done>>
  BY DEF Yield, entryVars, retrieverVars, feederVars, decoderVars, sharedVars
<1>2. Session /\ encoded_data # <<>> /\ pc' \in {"get_wait", "idle"}
  BY <1>1 DEF IInv, Stale, Session, Between
<1>3. /\ entry \in EvalWorkEntries /\ Len(entry.row_ids) \in Nat /\ Len(entry.row_ids) > 0
      /\ current_row \in Nat /\ Place \in Int
  BY <1>2, SessionFacts DEF IInv, Shapes
<1>4. Shapes'
  BY <1>1, <1>2 DEF IInv, Shapes, CallerPlaces
<1>5. Feeder' /\ Counting'
  BY <1>1, <1>2 DEF IInv, Feeder, Feeding, Counting, Getting
<1>6. Stale'
  BY <1>1, <1>2, <1>3 DEF IInv, Stale, Getting
<1>7. /\ Session' /\ NextFrame' = NextFrame /\ Segm' = Segm
      /\ wanted_frame' = wanted_frame /\ Place' = Place /\ Busy' = Busy
  BY <1>1, <1>2 DEF Session, Between, NextFrame, Segm, wanted_frame, Place, Busy
<1>8. Rows'
  <2>1. buffer = <<>> /\ Len(buffer) = 0
    BY <1>1 DEF IInv, Rows, Getting
  <2>2. \/ current_row <= Len(entry.row_ids) /\ Place = current_row
        \/ current_row >= Len(entry.row_ids)
    BY <1>1, <1>2 DEF IInv, Rows
  <2>3. pc' = "get_wait" => Place = current_row + Len(buffer) /\ current_row < Len(entry.row_ids)
    BY <1>1, <1>3, <2>1, <2>2
  <2>4. /\ entry \in EvalWorkEntries /\ encoded_data = entry.columns /\ buffers_live
        /\ retriever_data_idx <= Len(encoded_data)
        /\ IF retriever_data_idx < Len(encoded_data)
             THEN retriever_valid_idx < Len(Segm.valid_frames)
             ELSE retriever_valid_idx = 0
    BY <1>2 DEF IInv, Rows
  <2> QED
    BY <1>1, <1>2, <1>7, <2>1, <2>2, <2>3, <2>4 DEF Rows, Getting
<1>9. Stream'
  BY <1>1, <1>2, <1>7 DEF IInv, Stream
<1>10. Change' /\ Starts'
  BY <1>1, <1>2, <1>7 DEF IInv, Change, Starts
<1>11. Ahead'
  BY <1>1, <1>2 DEF IInv, Ahead, Load, InSegmentChange
<1> QED
  BY <1>4, <1>5, <1>6, <1>8, <1>9, <1>10, <1>11 DEF IInv

LEMMA MinOfTwo ==
  ASSUME NEW a \in Int, NEW b \in Int
  PROVE  /\ Min({a, b}) \in {a, b} /\ Min({a, b}) <= a /\ Min({a, b}) <= b
<1>1. \E x \in {a, b} : \A y \in {a, b} : x <= y
  <2>1. CASE a <= b
    BY <2>1
  <2>2. CASE b <= a
    BY <2>2
  <2> QED
    BY <2>1, <2>2
<1>2. Min({a, b}) \in {a, b} /\ \A y \in {a, b} : Min({a, b}) <= y
  BY <1>1, Zenon DEF Min
<1> QED
  BY <1>2

LEMMA GetFramesPreserves == IInv /\ GetFrames => IInv'
<1> SUFFICES ASSUME IInv, GetFrames PROVE IInv'
  OBVIOUS
<1>1. /\ pc = "get_wait" /\ feeder_waiting /\ frames_retrieved' = 0
      /\ frames_to_get' = Min({WorkSize, Len(entry.row_ids) - current_row})
      /\ UNCHANGED <<entry, current_row, buffers_live>>
      /\ UNCHANGED <<current_frame, retriever_data_idx, retriever_valid_idx, buffer>>
      /\ UNCHANGED <<fpc, feeder_data_idx, feeder_current_frame, encoded_data, not_done>>
  BY DEF GetFrames, entryVars, feederVars
<1>2. Session /\ retriever_data_idx < Len(encoded_data)
  BY <1>1, SegmentIsLeft
<1>3. /\ Len(entry.row_ids) \in Nat /\ current_row \in Nat /\ current_row < Len(entry.row_ids)
      /\ Len(Segm.valid_frames) \in Nat /\ retriever_valid_idx < Len(Segm.valid_frames)
      /\ retriever_valid_idx \in Nat /\ Len(encoded_data) \in Nat
  BY SMTT(30), <1>1, <1>2, SessionFacts DEF IInv, Shapes, Rows
<1>4. fpc \in {"notify", "wait"}
  BY <1>1 DEF IInv, Feeder
<1>5. /\ \/ /\ feeder_data_idx = retriever_data_idx /\ ~seeking
            /\ feeder_waiting' = FALSE /\ pc' = "get_notify"
         \/ /\ feeder_data_idx = retriever_data_idx + 1
            /\ feeder_waiting' = TRUE /\ pc' = "retrieve"
      /\ UNCHANGED <<codec, codec_last, queue, seeking>>
  <2>1. needs_feeder <=> retriever_data_idx = feeder_data_idx
    BY <1>2, <1>3 DEF needs_feeder, Segm
  <2>2. \/ feeder_data_idx = retriever_data_idx /\ ~seeking
        \/ feeder_data_idx = retriever_data_idx + 1
    BY <1>1, <1>2 DEF IInv, Stream
  <2>3. retriever_data_idx \in Nat /\ seeking \in BOOLEAN
    BY DEF IInv, Shapes
  <2>4. CASE feeder_data_idx = retriever_data_idx /\ ~seeking
    <3>1. needs_feeder
      BY <2>1, <2>4
    <3>2. /\ flush_if(feeder_data_idx < Len(encoded_data) /\ seeking)
          /\ seeking' = (seeking /\ feeder_data_idx >= Len(encoded_data))
          /\ feeder_waiting' = FALSE /\ pc' = "get_notify"
      BY <3>1, Zenon DEF GetFrames
    <3> QED
      BY <2>3, <2>4, <3>2 DEF flush_if
  <2>5. CASE feeder_data_idx = retriever_data_idx + 1
    <3>1. ~needs_feeder
      BY <2>1, <2>3, <2>5
    <3>2. pc' = "retrieve" /\ UNCHANGED <<decoderVars, feeder_waiting, seeking>>
      BY <3>1, Zenon DEF GetFrames
    <3> QED
      BY <1>1, <2>5, <3>2 DEF decoderVars
  <2> QED
    BY Zenon, <2>2, <2>4, <2>5
<1>6. /\ frames_to_get' \in Nat /\ frames_to_get' > 0
      /\ current_row + frames_to_get' <= Len(entry.row_ids)
      /\ \/ frames_to_get' = WorkSize
         \/ current_row + WorkSize >= Len(entry.row_ids)
              /\ current_row + frames_to_get' = Len(entry.row_ids)
  <2> DEFINE left == Len(entry.row_ids) - current_row
  <2>1. left \in Int /\ left > 0
    BY <1>3
  <2>2. frames_to_get' \in {WorkSize, left} /\ frames_to_get' <= WorkSize /\ frames_to_get' <= left
    <3>1. frames_to_get' = Min({WorkSize, left}) /\ WorkSize \in Int
      BY <1>1, Constants
    <3> HIDE DEF left
    <3> QED
      BY <2>1, <3>1, MinOfTwo, Zenon
  <2> QED
    BY <1>3, <2>1, <2>2, Constants
<1>7. Shapes'
  <2>1. pc' \in CallerPlaces /\ feeder_waiting' \in BOOLEAN /\ seeking' \in BOOLEAN
    BY <1>5, Zenon DEF IInv, Shapes, CallerPlaces
  <2> QED
    BY <1>1, <1>5, <1>6, <2>1 DEF IInv, Shapes
<1>8. Feeder'
  BY <1>1, <1>4, <1>5 DEF IInv, Feeder, Feeding
<1>9. Counting' /\ Stale'
  BY <1>1, <1>2, <1>5, <1>6 DEF Counting, Stale, Getting, Session
<1>10. /\ Session' /\ NextFrame' = NextFrame /\ Segm' = Segm
       /\ wanted_frame' = wanted_frame /\ Place' = Place
  BY Zenon, <1>1, <1>2, <1>5 DEF Session, Getting, NextFrame, Segm, wanted_frame, Place
<1>11. Rows'
  <2>1. buffer = <<>> /\ Len(buffer) = 0
    BY Zenon, <1>1 DEF IInv, Rows, Getting
  <2>2. /\ entry \in EvalWorkEntries /\ encoded_data = entry.columns /\ buffers_live
        /\ Place = current_row + Len(buffer) /\ retriever_data_idx <= Len(encoded_data)
    BY <1>1, <1>2 DEF IInv, Rows, Getting
  <2>3. pc' \in Getting /\ pc' \notin {"get_wait", "yield", "idle", "segment_wait",
                                       "segment_notify", "segment_count"}
    BY <1>5 DEF Getting
  <2> QED
    BY <1>1, <1>2, <1>3, <1>6, <1>10, <2>1, <2>2, <2>3 DEF Rows
<1>12. Stream'
  <2>1. /\ Segm.start_keyframe <= NextFrame /\ NextFrame <= wanted_frame
        /\ \A i \in 1..Len(queue) : queue[i] = NextFrame + i - 1
        /\ \A i \in 1..Len(codec) : codec[i] = NextFrame + Len(queue) + i - 1
    BY <1>1, <1>2 DEF IInv, Stream
  <2>2. CASE feeder_data_idx = retriever_data_idx /\ ~seeking /\ feeder_waiting' = FALSE
    <3>1. Busy' /\ retriever_data_idx # retriever_data_idx + 1
      BY <1>1, <1>4, <2>2 DEF Busy, IInv, Shapes
    <3>2. /\ NextFrame + Len(queue) + Len(codec) = feeder_current_frame
          /\ codec_last = feeder_current_frame - 1 \/ feeder_current_frame = Segm.start_keyframe
      BY <1>1, <1>2, <2>2, <3>1 DEF IInv, Stream
    <3> QED
      BY <1>1, <1>5, <1>10, <2>1, <2>2, <3>1, <3>2, Zenon DEF Stream
  <2>3. CASE feeder_data_idx = retriever_data_idx + 1 /\ feeder_waiting' = TRUE
    <3>1. retriever_data_idx # retriever_data_idx + 1
      BY DEF IInv, Shapes
    <3>2. seeking /\ codec = <<>>
      BY <1>1, <1>2, <2>3, <3>1 DEF IInv, Stream
    <3> QED
      BY <1>1, <1>5, <1>10, <2>1, <2>3, <3>2, Zenon DEF Stream
  <2> QED
    BY Zenon, <1>5, <2>2, <2>3
<1>13. Change' /\ Starts'
  BY <1>1, <1>2, <1>5, <1>10 DEF IInv, Change, Starts
<1>14. Ahead'
  BY <1>1, <1>4, <1>5 DEF IInv, Ahead, Load, InSegmentChange
<1> QED
  BY <1>7, <1>8, <1>9, <1>11, <1>12, <1>13, <1>14 DEF IInv

LEMMA CallerNotifiesPreserves == IInv /\ CallerNotifies => IInv'
<1> SUFFICES ASSUME IInv, CallerNotifies, pc # "end_notify" PROVE IInv'
  BY EndPreserves
<1>1. /\ \/ pc = "get_notify" /\ pc' = "retrieve"
         \/ pc = "segment_notify" /\ pc' = "segment_count"
      /\ UNCHANGED <<entry, current_row, buffers_live>>
      /\ UNCHANGED <<current_frame, retriever_data_idx, retriever_valid_idx, frames_retrieved,
                     frames_to_get, buffer>>
      /\ UNCHANGED <<fpc, feeder_data_idx, feeder_current_frame, codec, codec_last, queue>>
      /\ UNCHANGED <<encoded_data, feeder_waiting, seeking, not_done>>
  BY DEF CallerNotifies, entryVars, retrieverVars, feederVars, decoderVars, sharedVars
<1>2. Shapes' /\ Feeder'
  BY <1>1 DEF IInv, Shapes, CallerPlaces, Feeder, Feeding
<1>3. Counting' /\ Stale'
  BY <1>1 DEF IInv, Counting, Stale, Getting
<1>4. /\ Session /\ Session' /\ NextFrame' = NextFrame /\ Segm' = Segm
      /\ wanted_frame' = wanted_frame /\ Place' = Place /\ Busy' = Busy
  BY <1>1 DEF IInv, Stale, Session, Getting, NextFrame, Segm, wanted_frame, Place, Busy
<1>5. Rows'
  BY <1>1, <1>4 DEF IInv, Rows, Getting
<1>6. Stream'
  BY <1>1, <1>4 DEF IInv, Stream
<1>7. Change' /\ Starts'
  BY <1>1, <1>4 DEF IInv, Change, Starts
<1>8. Ahead'
  BY <1>1 DEF IInv, Ahead, Load, InSegmentChange
<1> QED
  BY <1>2, <1>3, <1>5, <1>6, <1>7, <1>8 DEF IInv

\* Taking the first decoded frame leaves the following ones.
LEMMA StreamTail ==
  ASSUME IInv, Retrieving, queue' = Tail(queue), UNCHANGED codec
  PROVE  /\ Session /\ retriever_data_idx < Len(encoded_data)
         /\ queue' \in Seq(Frame) /\ Len(queue) \in Nat /\ Len(queue') = Len(queue) - 1
         /\ Head(queue) = current_frame /\ current_frame \in Int
         /\ \A i \in 1..Len(queue') : queue'[i] = (current_frame + 1) + i - 1
         /\ \A i \in 1..Len(codec') : codec'[i] = (current_frame + 1) + Len(queue') + i - 1
         /\ (current_frame + 1) + Len(queue') + Len(codec')
              = current_frame + Len(queue) + Len(codec)
         /\ Load' = Load - 1 /\ Load \in Int
<1>1. pc = "retrieve" /\ frames_retrieved < frames_to_get /\ queue # <<>>
  BY DEF Retrieving
<1>2. Session /\ retriever_data_idx < Len(encoded_data)
  BY <1>1, SegmentIsLeft
<1>3. queue \in Seq(Frame) /\ codec \in Seq(Frame) /\ current_frame \in Int
  BY DEF IInv, Shapes
<1>4. /\ queue' \in Seq(Frame) /\ Len(queue) \in Nat /\ Len(queue) > 0
      /\ Len(queue') = Len(queue) - 1 /\ Head(queue) = queue[1]
      /\ \A i \in 1..(Len(queue) - 1) : queue'[i] = queue[i + 1]
  BY <1>1, <1>3, TailFrame
<1>5. /\ \A i \in 1..Len(queue) : queue[i] = current_frame + i - 1
      /\ \A i \in 1..Len(codec) : codec[i] = current_frame + Len(queue) + i - 1
  BY <1>1, <1>2 DEF IInv, Stream, NextFrame
<1>6. Len(codec) \in Nat
  BY <1>3
<1>7. Head(queue) = current_frame
  BY <1>3, <1>4, <1>5
<1>8. \A i \in 1..Len(queue') : queue'[i] = (current_frame + 1) + i - 1
  BY <1>3, <1>4, <1>5
<1>9. \A i \in 1..Len(codec') : codec'[i] = (current_frame + 1) + Len(queue') + i - 1
  BY <1>3, <1>4, <1>5, <1>6
<1>10. /\ (current_frame + 1) + Len(queue') + Len(codec')
            = current_frame + Len(queue) + Len(codec)
       /\ Load' = Load - 1 /\ Load \in Int
  BY <1>3, <1>4, <1>6 DEF Load
<1> QED
  BY <1>2, <1>3, <1>4, <1>7, <1>8, <1>9, <1>10

LEMMA SkipFramePreserves == IInv /\ SkipFrame => IInv'
<1> SUFFICES ASSUME IInv, SkipFrame PROVE IInv'
  OBVIOUS
<1>1. /\ Retrieving /\ pc = "retrieve" /\ queue # <<>> /\ current_frame # wanted_frame
      /\ queue' = Tail(queue) /\ current_frame' = current_frame + 1
      /\ UNCHANGED <<pc, entry, current_row, buffers_live>>
      /\ UNCHANGED <<retriever_data_idx, retriever_valid_idx, frames_retrieved, frames_to_get,
                     buffer>>
      /\ UNCHANGED <<fpc, feeder_data_idx, feeder_current_frame, codec, codec_last>>
      /\ UNCHANGED <<encoded_data, feeder_waiting, seeking, not_done>>
  BY DEF SkipFrame, Retrieving, discard_frame, entryVars, feederVars, sharedVars
<1>2. /\ Session /\ retriever_data_idx < Len(encoded_data)
      /\ queue' \in Seq(Frame) /\ Len(queue) \in Nat /\ Len(queue') = Len(queue) - 1
      /\ current_frame \in Int
      /\ \A i \in 1..Len(queue') : queue'[i] = (current_frame + 1) + i - 1
      /\ \A i \in 1..Len(codec') : codec'[i] = (current_frame + 1) + Len(queue') + i - 1
      /\ (current_frame + 1) + Len(queue') + Len(codec')
           = current_frame + Len(queue) + Len(codec)
      /\ Load' = Load - 1 /\ Load \in Int
  BY <1>1, StreamTail, Zenon
<1>3. Shapes'
  BY <1>1, <1>2 DEF IInv, Shapes
<1>4. Feeder' /\ Counting' /\ Stale'
  BY Zenon, <1>1 DEF IInv, Feeder, Feeding, Counting, Stale, Getting
<1>5. Rows'
  BY <1>1 DEF IInv, Rows, Session, Place, Segm
<1>6. /\ Session' /\ Segm' = Segm /\ wanted_frame' = wanted_frame /\ Busy' = Busy
      /\ NextFrame = current_frame /\ NextFrame' = current_frame + 1
  BY <1>1, <1>2 DEF Session, Segm, wanted_frame, Busy, NextFrame
<1>7. Stream'
  <2>1. wanted_frame \in Nat /\ Segm.start_keyframe \in Nat
    BY SMTT(30), <1>2, SessionFacts
  <2>2. Segm.start_keyframe <= current_frame /\ current_frame <= wanted_frame
    BY <1>1, <1>2, <1>6 DEF IInv, Stream
  <2>3. Segm.start_keyframe <= current_frame + 1 /\ current_frame + 1 <= wanted_frame
    BY <1>1, <1>2, <2>1, <2>2
  <2>4. \/ /\ feeder_data_idx = retriever_data_idx /\ ~seeking
           /\ current_frame + Len(queue) + Len(codec) = feeder_current_frame
           /\ codec_last = feeder_current_frame - 1 \/ feeder_current_frame = Segm.start_keyframe
           /\ frames_retrieved < frames_to_get => Busy
        \/ /\ feeder_data_idx = retriever_data_idx + 1 /\ seeking /\ codec = <<>>
           /\ feeder_waiting \/ fpc = "top"
    BY Zenon, <1>1, <1>2, <1>6 DEF IInv, Stream
  <2> QED
    BY <1>1, <1>2, <1>6, <2>3, <2>4, Zenon DEF Stream
<1>8. Change' /\ Starts'
  BY Zenon, <1>1, <1>2, <1>6 DEF IInv, Change, Starts
<1>9. Ahead'
  BY <1>1, <1>2, Constants DEF IInv, Ahead, InSegmentChange
<1> QED
  BY <1>3, <1>4, <1>5, <1>7, <1>8, <1>9 DEF IInv

\* Where the retriever is when it takes a frame
LEMMA TakeFrameFacts ==
  ASSUME IInv, TakeFrame
  PROVE  /\ Session /\ pc = "retrieve" /\ Head(queue) = current_frame /\ current_frame \in Int
         /\ retriever_data_idx \in Nat /\ retriever_valid_idx \in Nat
         /\ Len(encoded_data) \in Nat /\ retriever_data_idx < Len(encoded_data)
         /\ Len(Segm.valid_frames) \in Nat /\ retriever_valid_idx < Len(Segm.valid_frames)
         /\ current_frame = entry.row_ids[Place + 1] /\ Place = current_row + Len(buffer)
         /\ UNCHANGED <<entry, encoded_data, current_row>>
<1>1. /\ Retrieving /\ pc = "retrieve" /\ current_frame = wanted_frame
      /\ queue' = Tail(queue) /\ UNCHANGED <<entry, encoded_data, current_row, codec>>
  BY Zenon DEF TakeFrame, Retrieving, entryVars, sharedVars
<1>2. /\ Session /\ retriever_data_idx < Len(encoded_data)
      /\ Head(queue) = current_frame /\ current_frame \in Int
  BY <1>1, StreamTail, Zenon
<1>3. retriever_data_idx \in Nat /\ retriever_valid_idx \in Nat
  BY Zenon DEF IInv, Shapes
<1>4. Place = current_row + Len(buffer) /\ retriever_valid_idx < Len(Segm.valid_frames)
  BY <1>1, <1>2, Zenon DEF IInv, Rows, Getting
<1>5. /\ Len(encoded_data) \in Nat /\ Len(Segm.valid_frames) \in Nat
      /\ wanted_frame = entry.row_ids[Place + 1]
  BY <1>2, SessionFacts, Zenon
<1>. QED
  BY <1>1, <1>2, <1>3, <1>4, <1>5, Zenon

\* The frame that is taken is the one of the next row.
LEMMA TakenFrame ==
  ASSUME IInv, TakeFrame
  PROVE  /\ buffer' \in Seq(Frame) /\ Len(buffer) \in Nat /\ Len(buffer') = Len(buffer) + 1
         /\ \A i \in 1..Len(buffer') : buffer'[i] = entry.row_ids[current_row + i]
<1>1. buffer' = Append(buffer, Head(queue))
  BY Zenon DEF TakeFrame
<1>2. /\ buffer \in Seq(Frame) /\ Len(buffer) \in Nat /\ current_row \in Nat
      /\ \A i \in 1..Len(buffer) : buffer[i] = entry.row_ids[current_row + i]
  BY DEF IInv, Shapes, Rows
<1>3. Head(queue) \in Frame /\ Head(queue) = entry.row_ids[(current_row + Len(buffer)) + 1]
  BY TakeFrameFacts, Zenon DEF Frame
<1>4. /\ buffer' \in Seq(Frame) /\ Len(buffer') = Len(buffer) + 1
      /\ \A i \in 1..(Len(buffer) + 1) :
           buffer'[i] = IF i <= Len(buffer) THEN buffer[i] ELSE Head(queue)
  BY <1>1, <1>2, <1>3, AppendFrame, Zenon
<1>5. ASSUME NEW i \in 1..(Len(buffer) + 1)
      PROVE  buffer'[i] = entry.row_ids[current_row + i]
  <2>1. CASE i \in 1..Len(buffer)
    BY <1>2, <1>4, <2>1
  <2>2. CASE i = Len(buffer) + 1
    <3>1. ~(i <= Len(buffer)) /\ current_row + i = (current_row + Len(buffer)) + 1
      BY <1>2, <2>2
    <3>. QED
      BY <1>3, <1>4, <3>1, Zenon
  <2>. QED
    BY <1>2, <2>1, <2>2
<1>. QED
  BY <1>2, <1>4, <1>5, Zenon

\* The retriever moves to the next row, in the segment or in the next one.
LEMMA PlaceMoves ==
  ASSUME IInv, TakeFrame
  PROVE  /\ Place' = Place + 1
         /\ retriever_data_idx' \in Nat /\ retriever_valid_idx' \in Nat
         /\ retriever_data_idx' <= Len(encoded_data)
         /\ IF retriever_data_idx' < Len(encoded_data)
              THEN retriever_valid_idx' < Len(Segm'.valid_frames)
              ELSE retriever_valid_idx' = 0
<1>1. /\ Session /\ retriever_data_idx \in Nat /\ retriever_valid_idx \in Nat
      /\ Len(encoded_data) \in Nat /\ retriever_data_idx < Len(encoded_data)
      /\ Len(Segm.valid_frames) \in Nat /\ retriever_valid_idx < Len(Segm.valid_frames)
      /\ UNCHANGED <<entry, encoded_data>>
  BY TakeFrameFacts, Zenon
<1>2. /\ RowsBefore(entry)[retriever_data_idx + 1] \in Nat
      /\ RowsBefore(entry)[retriever_data_idx + 2] =
           RowsBefore(entry)[retriever_data_idx + 1] + Len(Segm.valid_frames)
      /\ entry \in EvalWorkEntries /\ encoded_data = entry.columns
  BY <1>1, SessionFacts, Zenon
<1>3. last_of_segment <=> retriever_valid_idx + 1 = Len(Segm.valid_frames)
  BY DEF last_of_segment, Segm
<1>4. CASE last_of_segment
  <2>1. retriever_data_idx' = retriever_data_idx + 1 /\ retriever_valid_idx' = 0
    BY <1>4, Zenon DEF TakeFrame
  <2>2. /\ retriever_data_idx' + 1 = retriever_data_idx + 2 /\ retriever_data_idx' \in Nat
        /\ retriever_data_idx' <= Len(encoded_data)
        /\ retriever_data_idx' < Len(encoded_data) =>
             retriever_data_idx' + 1 \in 1..Len(encoded_data)
    BY <1>1, <2>1
  <2>3. Place' = Place + 1
    <3>1. Place' = RowsBefore(entry)[retriever_data_idx + 2] + 0
      BY <1>1, <2>1, <2>2, Zenon DEF Place
    <3>. DEFINE r == RowsBefore(entry)[retriever_data_idx + 1]
                n == Len(Segm.valid_frames)
    <3>2. /\ r \in Nat /\ n \in Nat /\ retriever_valid_idx + 1 = n
          /\ Place' = (r + n) + 0 /\ Place = r + retriever_valid_idx
      BY <1>1, <1>2, <1>3, <1>4, <3>1, Zenon DEF Place
    <3>. HIDE DEF r, n
    <3>. QED
      BY <1>1, <3>2
  <2>4. retriever_data_idx' < Len(encoded_data) =>
          retriever_valid_idx' < Len(Segm'.valid_frames)
    <3>1. \A k \in 1..Len(encoded_data) : 0 < Len(encoded_data[k].valid_frames)
      <4>1. \A k \in 1..Len(encoded_data) : Len(encoded_data[k].valid_frames) > 0
        BY <1>2, EntryFacts, Zenon
      <4>. QED
        BY <4>1
    <3>. QED
      BY <1>1, <2>1, <2>2, <3>1, Zenon DEF Segm
  <2>. QED
    BY <2>1, <2>2, <2>3, <2>4
<1>5. CASE ~last_of_segment
  <2>1. retriever_valid_idx' = retriever_valid_idx + 1 /\ retriever_data_idx' = retriever_data_idx
    BY <1>5, Zenon DEF TakeFrame
  <2>2. Place' = Place + 1
    <3>. DEFINE r == RowsBefore(entry)[retriever_data_idx + 1]
    <3>1. /\ r \in Nat /\ Place = r + retriever_valid_idx
          /\ Place' = r + (retriever_valid_idx + 1)
      BY <1>1, <1>2, <2>1, Zenon DEF Place
    <3>. HIDE DEF r
    <3>. QED
      BY <1>1, <3>1
  <2>3. Segm' = Segm
    BY <1>1, <2>1, Zenon DEF Segm
  <2>. QED
    BY <1>1, <1>3, <1>5, <2>1, <2>2, <2>3
<1>. QED
  BY <1>4, <1>5

\* The frames wanted of a segment are in order.
LEMMA NextWanted ==
  ASSUME IInv, TakeFrame, ~last_of_segment
  PROVE  current_frame + 1 <= wanted_frame'
<1>1. /\ retriever_data_idx \in Nat /\ retriever_valid_idx \in Nat /\ current_frame \in Int
      /\ Len(encoded_data) \in Nat /\ retriever_data_idx < Len(encoded_data)
      /\ Len(Segm.valid_frames) \in Nat /\ retriever_valid_idx < Len(Segm.valid_frames)
      /\ Session /\ UNCHANGED encoded_data
  BY TakeFrameFacts, Zenon
<1>2. retriever_valid_idx' = retriever_valid_idx + 1 /\ retriever_data_idx' = retriever_data_idx
  BY DEF TakeFrame
<1>. DEFINE f == Segm.valid_frames
            i == retriever_valid_idx + 2
<1>3. /\ retriever_data_idx + 1 \in 1..Len(encoded_data)
      /\ i \in 1..Len(f) /\ i > 1 /\ i - 1 = retriever_valid_idx + 1
      /\ retriever_valid_idx' + 1 = i
  BY <1>1, <1>2 DEF last_of_segment, Segm
<1>4. current_frame = f[i - 1] /\ wanted_frame' = f[i]
  BY <1>1, <1>2, <1>3, Zenon DEF TakeFrame, wanted_frame, Segm
<1>5. f[i] \in Nat /\ f[i - 1] < f[i]
  <2>1. entry \in EvalWorkEntries /\ encoded_data = entry.columns
    BY <1>1, SessionFacts, Zenon
  <2>2. \A k \in 1..Len(encoded_data) : \A j \in 1..Len(encoded_data[k].valid_frames) :
          /\ encoded_data[k].valid_frames[j] \in Nat
          /\ j > 1 => encoded_data[k].valid_frames[j - 1] < encoded_data[k].valid_frames[j]
    BY <2>1, EntryFacts, Zenon
  <2>3. \A j \in 1..Len(f) : f[j] \in Nat /\ (j > 1 => f[j - 1] < f[j])
    BY <1>3, <2>2, Zenon DEF Segm
  <2>. HIDE DEF f, i
  <2>. QED
    BY <1>3, <2>3, Zenon
<1>. HIDE DEF f, i
<1>. QED
  BY <1>1, <1>4, <1>5

LEMMA TakeFramePreserves == IInv /\ TakeFrame => IInv'
<1> SUFFICES ASSUME IInv, TakeFrame PROVE IInv'
  OBVIOUS
<1>1. /\ Retrieving /\ pc = "retrieve" /\ frames_retrieved < frames_to_get
      /\ queue' = Tail(queue) /\ UNCHANGED <<entry, current_row, buffers_live, frames_to_get>>
      /\ UNCHANGED <<fpc, feeder_data_idx, feeder_current_frame, codec, codec_last>>
      /\ UNCHANGED <<encoded_data, feeder_waiting, seeking, not_done>>
  BY Zenon DEF TakeFrame, Retrieving, entryVars, feederVars, sharedVars
<1>2. /\ Session /\ retriever_data_idx < Len(encoded_data)
      /\ queue' \in Seq(Frame) /\ Len(queue) \in Nat /\ Len(queue') = Len(queue) - 1
      /\ current_frame \in Int
      /\ \A i \in 1..Len(queue') : queue'[i] = (current_frame + 1) + i - 1
      /\ \A i \in 1..Len(codec') : codec'[i] = (current_frame + 1) + Len(queue') + i - 1
      /\ (current_frame + 1) + Len(queue') + Len(codec')
           = current_frame + Len(queue) + Len(codec)
      /\ Load' = Load - 1 /\ Load \in Int
  BY <1>1, StreamTail, Zenon
<1>3. /\ retriever_data_idx \in Nat /\ Len(encoded_data) \in Nat /\ current_row \in Nat
      /\ frames_retrieved \in Nat /\ frames_to_get \in Nat /\ Len(buffer) = frames_retrieved
      /\ Place = current_row + Len(buffer)
  BY <1>1, TakeFrameFacts, Zenon DEF IInv, Shapes, Rows
<1>4. /\ buffer' \in Seq(Frame) /\ Len(buffer') = frames_retrieved + 1
      /\ \A i \in 1..Len(buffer') : buffer'[i] = entry.row_ids[current_row + i]
  BY <1>3, TakenFrame, Zenon
<1>5. /\ retriever_data_idx' \in Nat /\ retriever_valid_idx' \in Nat
      /\ retriever_data_idx' <= Len(encoded_data)
      /\ IF retriever_data_idx' < Len(encoded_data)
           THEN retriever_valid_idx' < Len(Segm'.valid_frames)
           ELSE retriever_valid_idx' = 0
  BY PlaceMoves, Zenon
<1>6. Place' = current_row + Len(buffer')
  <2>1. Place' = Place + 1
    BY PlaceMoves, Zenon
  <2>. QED
    BY <1>3, <1>4, <2>1
<1>7. \/ /\ pc' = "segment_wait" /\ UNCHANGED <<frames_retrieved, current_frame>>
         /\ last_of_segment /\ retriever_data_idx + 1 < Len(encoded_data)
      \/ /\ pc' = "retrieve" /\ frames_retrieved' = frames_retrieved + 1
         /\ current_frame' = current_frame + 1
         /\ ~(last_of_segment /\ retriever_data_idx + 1 < Len(encoded_data))
  BY <1>1, Zenon DEF TakeFrame
<1>8. /\ pc' \in {"retrieve", "segment_wait"}
      /\ frames_retrieved' \in Nat /\ current_frame' \in Int
      /\ frames_retrieved <= frames_retrieved' /\ frames_retrieved' <= frames_to_get
      /\ pc' = "retrieve" => Len(buffer') = frames_retrieved'
      /\ pc' = "segment_wait" => Len(buffer') = frames_retrieved' + 1
      /\ pc' = "segment_wait" => frames_retrieved' < frames_to_get
  BY <1>1, <1>2, <1>3, <1>4, <1>7
<1>9. pc' \in Getting /\ pc \in Getting /\ pc' \in CallerPlaces /\ Session'
  BY <1>1, <1>2, <1>8 DEF Getting, CallerPlaces, Session
<1>10. Shapes'
  BY <1>1, <1>2, <1>4, <1>5, <1>8, <1>9, Zenon DEF IInv, Shapes
<1>11. Feeder' /\ Starts'
  BY <1>1, <1>2, <1>9, Zenon DEF IInv, Feeder, Feeding, Starts
<1>12. Counting' /\ Stale'
  BY <1>1, <1>3, <1>8, <1>9 DEF IInv, Counting, Stale, Getting
<1>13. Rows'
  <2>1. /\ current_row + frames_to_get <= Len(entry.row_ids)
        /\ \/ frames_to_get = WorkSize
           \/ current_row + WorkSize >= Len(entry.row_ids)
                /\ current_row + frames_to_get = Len(entry.row_ids)
        /\ entry \in EvalWorkEntries /\ encoded_data = entry.columns /\ buffers_live
    BY <1>2, <1>9, Zenon DEF IInv, Rows
  <2>2. /\ pc' \notin {"get_wait", "yield", "idle"}
        /\ pc' \in {"get_notify", "retrieve"} => pc' = "retrieve"
        /\ pc' \in {"segment_wait", "segment_notify", "segment_count"} => pc' = "segment_wait"
    BY <1>8
  <2>. QED
    BY <1>1, <1>4, <1>5, <1>6, <1>8, <1>9, <2>1, <2>2, Zenon DEF Rows
<1>14. \/ /\ feeder_data_idx = retriever_data_idx /\ ~seeking /\ Busy
          /\ current_frame + Len(queue) + Len(codec) = feeder_current_frame
          /\ codec_last = feeder_current_frame - 1 \/ feeder_current_frame = Segm.start_keyframe
       \/ /\ feeder_data_idx = retriever_data_idx + 1 /\ seeking /\ codec = <<>>
          /\ feeder_waiting \/ fpc = "top"
  BY <1>1, <1>2 DEF IInv, Stream, NextFrame
<1>15. Stream'
  <2>1. CASE last_of_segment
    <3>1. pc' # "segment_wait" => ~(retriever_data_idx' < Len(encoded_data'))
      BY <1>1, <1>3, <1>7, <2>1 DEF TakeFrame
    <3>. QED
      BY <3>1, Zenon DEF Stream
  <2>2. CASE ~last_of_segment
    <3>1. /\ retriever_data_idx' = retriever_data_idx /\ pc' = "retrieve"
          /\ current_frame' = current_frame + 1
      BY <1>7, <2>2, Zenon DEF TakeFrame
    <3>2. Segm' = Segm /\ Busy' = Busy
      BY <1>1, <3>1, Zenon DEF Segm, Busy
    <3>3. NextFrame' = current_frame + 1
      BY <3>1 DEF NextFrame
    <3>4. current_frame + 1 <= wanted_frame'
      BY <2>2, NextWanted
    <3>5. Segm.start_keyframe <= current_frame + 1
      <4>1. Segm.start_keyframe \in Nat
        BY <1>2, SessionFacts, Zenon
      <4>2. Segm.start_keyframe <= current_frame
        BY <1>1, <1>2 DEF IInv, Stream, NextFrame
      <4>. QED
        BY <1>2, <4>1, <4>2
    <3>. QED
      BY <1>1, <1>2, <1>14, <3>1, <3>2, <3>3, <3>4, <3>5, Zenon DEF Stream
  <2>. QED
    BY <2>1, <2>2
<1>16. Change'
  <2>1. CASE pc' = "segment_wait"
    <3>1. /\ retriever_data_idx' = retriever_data_idx + 1 /\ retriever_valid_idx' = 0
          /\ retriever_data_idx + 1 < Len(encoded_data)
      BY <1>7, <2>1 DEF TakeFrame
    <3>2. /\ 0 < retriever_data_idx' /\ retriever_data_idx' - 1 = retriever_data_idx
      BY <1>3, <3>1
    <3>3. Busy' = Busy
      BY <1>1, Zenon DEF Busy
    <3>. QED
      BY <1>1, <1>14, <3>1, <3>2, <3>3, Zenon DEF Change
  <2>2. CASE pc' # "segment_wait"
    BY <2>2, Zenon DEF Change
  <2>. QED
    BY <2>1, <2>2
<1>17. Ahead'
  <2>1. /\ Len(codec') = Len(codec) /\ fpc' = fpc /\ frames_to_get' = frames_to_get
        /\ frames_retrieved \in Nat /\ frames_to_get \in Nat /\ frames_retrieved' \in Nat
        /\ frames_retrieved < frames_to_get
    BY <1>1, <1>3, <1>8, Zenon
  <2>2. /\ Len(codec) <= IF fpc = "receive" THEN Delay + 1 ELSE Delay
        /\ Load <= frames_to_wait + Delay + 2
        /\ fpc = "feed" => Load <= frames_to_wait + Delay + 1
    BY Zenon DEF IInv, Ahead
  <2>. QED
    BY <1>2, <2>1, <2>2, Constants DEF Ahead
<1>. QED
  BY <1>10, <1>11, <1>12, <1>13, <1>15, <1>16, <1>17, Zenon DEF IInv

LEMMA SegmentDiscardPreserves == IInv /\ SegmentDiscard => IInv'
<1> SUFFICES ASSUME IInv, SegmentDiscard PROVE IInv'
  OBVIOUS
<1>1. /\ pc = "segment_wait" /\ discard_frame
      /\ UNCHANGED <<pc, entry, current_row, buffers_live>>
      /\ UNCHANGED <<current_frame, retriever_data_idx, retriever_valid_idx, frames_retrieved,
                     frames_to_get, buffer>>
      /\ UNCHANGED <<fpc, feeder_data_idx, feeder_current_frame, codec, codec_last>>
      /\ UNCHANGED <<encoded_data, feeder_waiting, seeking, not_done>>
  BY Zenon DEF SegmentDiscard, entryVars, retrieverVars, feederVars, sharedVars
<1>2. /\ queue' \in Seq(Frame) /\ Len(queue) \in Nat /\ Len(queue') \in Nat
      /\ Len(queue') <= Len(queue)
  BY <1>1, DiscardFacts DEF IInv
<1>3. Shapes'
  BY <1>1, <1>2 DEF IInv, Shapes
<1>4. Feeder' /\ Counting' /\ Stale'
  <2>1. pc \in Getting /\ Getting' = Getting
    BY <1>1 DEF Getting
  <2> QED
    BY <1>1, <2>1, Zenon DEF IInv, Feeder, Feeding, Counting, Stale
<1>5. Rows'
  BY <1>1, Zenon DEF IInv, Rows, Session, Place, Segm
<1>6. Stream' /\ Change' /\ Starts'
  BY <1>1 DEF IInv, Stream, Change, Starts, Session, Busy
<1>7. Ahead'
  <2>1. Len(codec) \in Nat
    BY DEF IInv, Shapes
  <2> QED
    BY <1>1, <1>2, <2>1, Constants DEF IInv, Ahead, Load, InSegmentChange
<1> QED
  BY <1>3, <1>4, <1>5, <1>6, <1>7 DEF IInv

LEMMA NextSegmentPreserves == IInv /\ NextSegment => IInv'
<1> SUFFICES ASSUME IInv, NextSegment PROVE IInv'
  OBVIOUS
<1>1. /\ pc = "segment_wait" /\ pc' = "segment_notify" /\ queue = <<>> /\ feeder_waiting
      /\ queue' = (IF seeking THEN <<>> ELSE queue) /\ codec' = (IF seeking THEN <<>> ELSE codec)
      /\ seeking' = FALSE /\ feeder_waiting' = FALSE
      /\ current_frame' = Segm.start_keyframe - 1
      /\ UNCHANGED <<entry, current_row, buffers_live>>
      /\ UNCHANGED <<retriever_data_idx, retriever_valid_idx, frames_retrieved, frames_to_get,
                     buffer>>
      /\ UNCHANGED <<fpc, feeder_data_idx, feeder_current_frame, encoded_data, not_done>>
  BY DEF NextSegment, flush_if, segment_start, Segm, entryVars, feederVars
<1>2. fpc \in {"notify", "wait"}
  BY <1>1 DEF IInv, Feeder
<1>3. /\ retriever_data_idx < Len(encoded_data) /\ retriever_valid_idx = 0
      /\ feeder_data_idx = retriever_data_idx /\ seeking
  BY <1>1 DEF IInv, Change, Busy
<1>4. queue' = <<>> /\ codec' = <<>> /\ Len(queue') = 0 /\ Len(codec') = 0
  BY <1>1, <1>3
<1>5. Session /\ Session' /\ pc' \in Getting
  BY <1>1 DEF IInv, Stale, Session, Getting
<1>6. Segm.start_keyframe \in Nat /\ wanted_frame \in Nat
  BY <1>3, <1>5, SessionFacts
<1>7. Segm.start_keyframe <= wanted_frame
  <2>1. entry \in EvalWorkEntries /\ encoded_data = entry.columns /\ Len(encoded_data) \in Nat
        /\ retriever_data_idx \in 0..Len(encoded_data)
        /\ retriever_valid_idx \in 0..(Len(Segm.valid_frames) - 1)
        /\ Len(Segm.valid_frames) \in Nat
    BY <1>3, <1>5, SessionFacts, Zenon
  <2>2. \A k \in 1..Len(encoded_data) : \A j \in 1..Len(encoded_data[k].valid_frames) :
          encoded_data[k].start_keyframe <= encoded_data[k].valid_frames[j]
    BY <2>1, EntryFacts, Zenon
  <2>3. retriever_data_idx + 1 \in 1..Len(encoded_data)
        /\ retriever_valid_idx + 1 \in 1..Len(Segm.valid_frames)
    BY <1>3, <2>1
  <2> QED
    BY <2>2, <2>3, Zenon DEF Segm, wanted_frame
<1>8. feeder_current_frame = Segm.start_keyframe
  BY <1>3, <1>5 DEF IInv, Starts, Segm
<1>9. Shapes'
  <2>1. /\ pc' \in CallerPlaces /\ seeking' \in BOOLEAN /\ feeder_waiting' \in BOOLEAN
        /\ queue' \in Seq(Frame) /\ codec' \in Seq(Frame)
    BY <1>1, <1>4, EmptyFrames, Zenon DEF CallerPlaces
  <2>2. current_frame' \in Int
    BY <1>1, <1>6
  <2> QED
    BY <1>1, <2>1, <2>2 DEF IInv, Shapes
<1>10. Feeder' /\ Counting' /\ Stale'
  BY Zenon, <1>1, <1>2 DEF IInv, Feeder, Feeding, Counting, Stale, Getting
<1>11. Segm' = Segm /\ wanted_frame' = wanted_frame /\ Place' = Place
  BY Zenon, <1>1 DEF Segm, wanted_frame, Place
<1>12. Rows'
  BY Zenon, <1>1, <1>5, <1>11 DEF IInv, Rows, Getting
<1>13. Stream'
  <2>1. NextFrame' = Segm.start_keyframe
    BY <1>1, <1>6 DEF NextFrame
  <2>2. Busy'
    BY <1>1, <1>2 DEF Busy
  <2>3. NextFrame' + Len(queue') + Len(codec') = feeder_current_frame'
    BY <1>1, <1>4, <1>6, <1>8, <2>1
  <2> QED
    BY <1>1, <1>3, <1>4, <1>6, <1>7, <1>8, <1>11, <2>1, <2>2, <2>3 DEF Stream
<1>14. Change' /\ Starts'
  BY <1>1 DEF Change, Starts
<1>15. Ahead'
  BY <1>1, <1>2, <1>4, Constants DEF Ahead, Load, InSegmentChange
<1> QED
  BY <1>9, <1>10, <1>12, <1>13, <1>14, <1>15 DEF IInv

LEMMA CountFramePreserves == IInv /\ CountFrame => IInv'
<1> SUFFICES ASSUME IInv, CountFrame PROVE IInv'
  OBVIOUS
<1>1. /\ pc = "segment_count" /\ pc' = "retrieve"
      /\ frames_retrieved' = frames_retrieved + 1 /\ current_frame' = current_frame + 1
      /\ UNCHANGED <<entry, current_row, buffers_live>>
      /\ UNCHANGED <<retriever_data_idx, retriever_valid_idx, frames_to_get, buffer>>
      /\ UNCHANGED <<fpc, feeder_data_idx, feeder_current_frame, codec, codec_last, queue>>
      /\ UNCHANGED <<encoded_data, feeder_waiting, seeking, not_done>>
  BY Zenon DEF CountFrame, entryVars, feederVars, decoderVars, sharedVars
<1>2. /\ frames_retrieved \in Nat /\ frames_to_get \in Nat /\ frames_retrieved < frames_to_get
      /\ current_frame \in Int
  BY Zenon, <1>1 DEF IInv, Shapes, Counting, Getting
<1>3. Shapes'
  <2>1. pc' \in CallerPlaces /\ frames_retrieved' \in Nat /\ current_frame' \in Int
    BY <1>1, <1>2 DEF CallerPlaces
  <2> QED
    BY <1>1, <2>1, Zenon DEF IInv, Shapes
<1>4. Feeder' /\ Counting' /\ Stale'
  <2>1. Counting'
    BY <1>1, <1>2 DEF Counting, Getting
  <2> QED
    BY <1>1, <2>1, Zenon DEF IInv, Feeder, Feeding, Stale, Getting
<1>5. /\ Session /\ Session' /\ NextFrame' = NextFrame /\ Segm' = Segm
      /\ wanted_frame' = wanted_frame /\ Place' = Place /\ Busy' = Busy
  BY Zenon, <1>1 DEF IInv, Stale, Session, Getting, NextFrame, Segm, wanted_frame, Place, Busy
<1>6. Rows'
  BY Zenon, <1>1, <1>5 DEF IInv, Rows, Getting
<1>7. Stream'
  BY Zenon, <1>1, <1>2, <1>5 DEF IInv, Stream
<1>8. Change' /\ Starts'
  BY Zenon, <1>1, <1>5 DEF IInv, Change, Starts
<1>9. Ahead'
  BY Zenon, <1>1 DEF IInv, Ahead, Load, InSegmentChange
<1> QED
  BY <1>3, <1>4, <1>6, <1>7, <1>8, <1>9 DEF IInv

LEMMA GetFramesReturnsPreserves == IInv /\ GetFramesReturns => IInv'
<1> SUFFICES ASSUME IInv, GetFramesReturns PROVE IInv'
  OBVIOUS
<1>1. /\ pc = "retrieve" /\ pc' = "yield" /\ frames_retrieved >= frames_to_get
      /\ current_row' = current_row + WorkSize /\ buffer' = <<>>
      /\ UNCHANGED <<entry, buffers_live, current_frame, retriever_data_idx,
                     retriever_valid_idx, frames_retrieved, frames_to_get>>
      /\ UNCHANGED <<fpc, feeder_data_idx, feeder_current_frame, codec, codec_last, queue>>
      /\ UNCHANGED <<encoded_data, feeder_waiting, seeking, not_done>>
  BY Zenon DEF GetFramesReturns, feederVars, decoderVars, sharedVars
<1>2. /\ frames_retrieved \in Nat /\ frames_to_get \in Nat /\ frames_to_get > 0
      /\ current_row \in Nat /\ frames_retrieved = frames_to_get
  BY <1>1 DEF IInv, Shapes, Counting, Getting
<1>3. Shapes'
  <2>1. current_row' \in Nat
    BY <1>1, <1>2, Constants
  <2> QED
    BY <1>1, <2>1, EmptyFrames DEF IInv, Shapes, CallerPlaces
<1>4. Feeder' /\ Counting' /\ Stale'
  BY Zenon, <1>1, <1>2 DEF IInv, Feeder, Feeding, Counting, Stale, Getting
<1>5. /\ Session /\ Session' /\ NextFrame' = NextFrame /\ Segm' = Segm
      /\ wanted_frame' = wanted_frame /\ Place' = Place /\ Busy' = Busy
  BY Zenon, <1>1 DEF IInv, Stale, Session, Getting, Between, NextFrame, Segm, wanted_frame, Place, Busy
<1>6. Rows'
  <2>1. /\ Place = current_row + frames_to_get
        /\ \/ frames_to_get = WorkSize
           \/ current_row + WorkSize >= Len(entry.row_ids)
        /\ current_row + frames_to_get <= Len(entry.row_ids)
    BY Zenon, <1>1, <1>2, <1>5 DEF IInv, Rows, Getting
  <2>2. \/ current_row' <= Len(entry.row_ids) /\ Place = current_row'
        \/ current_row' >= Len(entry.row_ids)
    BY <1>1, <2>1
  <2>3. /\ entry \in EvalWorkEntries /\ encoded_data = entry.columns /\ buffers_live
        /\ retriever_data_idx <= Len(encoded_data)
        /\ IF retriever_data_idx < Len(encoded_data)
             THEN retriever_valid_idx < Len(Segm.valid_frames)
             ELSE retriever_valid_idx = 0
    BY <1>5 DEF IInv, Rows
  <2>4. Len(buffer') = 0 /\ pc' \notin Getting
    BY Zenon, <1>1 DEF Getting
  <2> QED
    BY <1>1, <1>5, <2>2, <2>3, <2>4 DEF Rows
<1>7. Stream'
  BY Zenon, <1>1, <1>5 DEF IInv, Stream
<1>8. Change' /\ Starts'
  BY <1>1, <1>5 DEF IInv, Change, Starts
<1>9. Ahead'
  BY <1>1 DEF IInv, Ahead, Load, InSegmentChange
<1> QED
  BY <1>3, <1>4, <1>6, <1>7, <1>8, <1>9 DEF IInv

-----------------------------------------------------------------------------
(* The theorems *)

LEMMA IInvInit == Init => IInv
<1> SUFFICES ASSUME Init PROVE IInv
  OBVIOUS
<1>1. Shapes
  <2>1. /\ pc \in CallerPlaces /\ fpc \in FeederPlaces
        /\ entry \in EvalWorkEntries \cup {NoEntry}
        /\ feeder_waiting \in BOOLEAN /\ seeking \in BOOLEAN /\ not_done \in BOOLEAN
        /\ buffers_live \in BOOLEAN
        /\ buffer \in Seq(Frame) /\ codec \in Seq(Frame) /\ queue \in Seq(Frame)
    BY EmptyFrames, Zenon DEF Init, CallerPlaces, FeederPlaces
  <2>2. encoded_data \in Seq(Segment)
    BY DEF Init
  <2>3. /\ current_row \in Nat /\ current_frame \in Int /\ feeder_current_frame \in Int
        /\ retriever_data_idx \in Nat /\ retriever_valid_idx \in Nat
        /\ frames_retrieved \in Nat /\ frames_to_get \in Nat /\ feeder_data_idx \in Nat
    BY DEF Init
  <2> QED
    BY <2>1, <2>2, <2>3 DEF Shapes
<1>2. Feeder /\ Counting /\ Stale
  BY DEF Init, Feeder, Feeding, Counting, Stale, Getting, Untouched
<1>3. Rows /\ Stream /\ Change /\ Starts
  BY DEF Init, Rows, Stream, Change, Starts, Session, Getting
<1>4. Ahead
  BY Constants DEF Init, Ahead, Load, InSegmentChange
<1> QED
  BY <1>1, <1>2, <1>3, <1>4 DEF IInv

LEMMA IInvStep == IInv /\ [Next]_vars => IInv'
<1> SUFFICES ASSUME IInv, [Next]_vars PROVE IInv'
  OBVIOUS
<1>1. CASE CallerSteps
  BY <1>1, DiscardsPreserve, InitializePreserves, YieldPreserves, WaitsPreserve,
     GetFramesPreserves, CallerNotifiesPreserves, SkipFramePreserves, TakeFramePreserves,
     SegmentDiscardPreserves, NextSegmentPreserves, CountFramePreserves,
     GetFramesReturnsPreserves, EndPreserves, Zenon DEF CallerSteps
<1>2. CASE Requests
  BY <1>2, EndPreserves, FeedPreserves, Zenon DEF Requests
<1>3. CASE FeederSteps
  BY <1>3, ParkPreserves, FeederNotifiesPreserves, AwaitRequestPreserves,
     CheckRetrievedPreserves, WaitsPreserve, HasRoomPreserves, FeedSamplePreserves,
     FeedEndPreserves, ReceiveFramePreserves, SampleFedPreserves, SegmentFedPreserves,
     Zenon DEF FeederSteps
<1>4. CASE UNCHANGED vars
  BY <1>4, Stutter DEF vars
<1> QED
  BY <1>1, <1>2, <1>3, <1>4 DEF Next

\* The inductive invariant holds: the feeder, the retriever, the codec and the
\* queue of a DecoderAutomata are in step whenever an io packet is initialized
\* (decoder_automata.cpp:58-330).
THEOREM Invariance == Spec => []IInv
BY IInvInit, IInvStep, PTL DEF Spec

\* Every frame a get_frames call copies out (decoder_automata.cpp:153) is the
\* correctly decoded picture of the row asked for, in whichever order the feeder
\* thread and the caller run and whatever earlier io packets left behind.
THEOREM FramesAreRight == Spec => []FramesRight
<1>1. IInv => FramesRight
  <2> SUFFICES ASSUME IInv PROVE FramesRight
    OBVIOUS
  <2>1. buffer \in Seq(Frame)
    BY DEF IInv, Shapes
  <2>2. DOMAIN buffer = 1..Len(buffer)
    BY <2>1
  <2> QED
    BY <2>2 DEF IInv, Rows, FramesRight
<1> QED
  BY <1>1, Invariance, PTL

\* The retriever stays within the segments and does not run ahead of the frame it
\* wants: the assertions of get_frames and feeder (decoder_automata.cpp:149, 150,
\* 190) cannot fail.
THEOREM RetrieverStaysInStep == Spec => []RetrieverInStep
<1>1. IInv => RetrieverInStep
  <2> SUFFICES ASSUME IInv PROVE RetrieverInStep
    OBVIOUS
  <2>1. ASSUME Retrieving
        PROVE  /\ retriever_data_idx < Len(encoded_data)
               /\ retriever_valid_idx < Len(Segm.valid_frames)
               /\ current_frame <= wanted_frame
    <3>1. pc = "retrieve" /\ frames_retrieved < frames_to_get
      BY <2>1 DEF Retrieving
    <3>2. Session /\ retriever_data_idx < Len(encoded_data)
      BY <3>1, SegmentIsLeft
    <3> QED
      BY <3>1, <3>2 DEF IInv, Rows, Stream, NextFrame
  <2>2. ASSUME pc = "retrieve", retriever_data_idx = Len(encoded_data)
        PROVE  frames_retrieved = frames_to_get
    <3>1. ~(frames_retrieved < frames_to_get)
      <4> SUFFICES ASSUME frames_retrieved < frames_to_get PROVE FALSE
        OBVIOUS
      <4>1. retriever_data_idx < Len(encoded_data) /\ retriever_data_idx \in Nat
        BY <2>2, SegmentIsLeft DEF IInv, Shapes
      <4> QED
        BY <2>2, <4>1
    <3> QED
      BY <3>1 DEF IInv, Counting, Shapes
  <2> QED
    BY <2>1, <2>2 DEF RetrieverInStep, Segm
<1> QED
  BY <1>1, Invariance, PTL

\* The decoded frames that wait are bounded by the feeder's threshold, the delay
\* of the codec and two frames (decoder_automata.cpp:258).
THEOREM QueueStaysBounded == Spec => []QueueBounded
<1>1. IInv => QueueBounded
  <2> SUFFICES ASSUME IInv PROVE QueueBounded
    OBVIOUS
  <2>1. Len(queue) \in Nat /\ Len(codec) \in Nat
    BY DEF IInv, Shapes
  <2> QED
    BY <2>1, Constants DEF IInv, Ahead, Load, QueueBounded
<1> QED
  BY <1>1, Invariance, PTL
=============================================================================
