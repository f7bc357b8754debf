------------------------------- MODULE Decoder -------------------------------
(***************************************************************************)
(* How the frames of a video column are read: the column source turns the  *)
(* rows of an io packet into segments of encoded video                      *)
(* (engine/column_source.cpp), and the pre-evaluate worker has them decoded *)
(* in work packets (engine/evaluate_worker.cpp, PreEvaluateWorker) by a     *)
(* DecoderAutomata (video/decoder_automata.cpp).                            *)
(*                                                                          *)
(* The automata is two threads around one codec: the CALLER, which runs     *)
(* initialize, get_frames and the destructor and takes decoded frames from  *)
(* a queue, and the FEEDER, which sends the samples of the segments to the  *)
(* codec.  They share a mutex, one condition variable for both directions   *)
(* and a dozen atomics.  A critical section is one step, and so is what the *)
(* caller does while the feeder is parked (feeder_waiting_ is set and only  *)
(* the caller clears it); everything else is interleaved.  notify_one is    *)
(* modelled as it is: it wakes a thread that sleeps, and nothing is kept    *)
(* for a thread that does not sleep yet.                                    *)
(*                                                                          *)
(* A sample, and the picture decoded from it, is the number of its frame in *)
(* the table.  A picture is Garbage if its sample was read from a freed     *)
(* buffer, or was sent to a codec that had seen neither the frame before it *)
(* nor, the frame being no keyframe, any other start.                       *)
(*                                                                          *)
(* Left out, because nothing reads them or they never change: next_frame_,  *)
(* feeder_valid_idx_, feeder_next_frame_ and feeder_next_keyframe_;         *)
(* skip_frames_, which stays FALSE; the stripping of metadata units off a   *)
(* sample, which leaves its picture.  Samples are adjacent in the file, as  *)
(* H264ByteStreamIndexCreator appends them: is_adjacent of                  *)
(* slice_into_video_intervals is TRUE (videos ingested in place have gaps;  *)
(* they are decoded by a library, not by this class).                       *)
(***************************************************************************)
EXTENDS Integers, Sequences, FiniteSets, FiniteSetsExt

CONSTANTS
  Items,          \* the items of the table: a sequence of [frames, keyframes],
                  \*   keyframes being relative to the item and in order
  RowSets,        \* the row sequences an io packet may ask for
  MaxPackets,     \* bound: io packets one worker processes
  WorkSize,       \* work packet size: frames asked of one get_frames call
  frames_to_wait, \* decoded frames above which the feeder pauses (8)
  Delay,          \* frames the codec may hold back
  None, Garbage   \* no frame; a wrong picture

ASSUME DecoderAssumption ==
  /\ MaxPackets \in Nat /\ WorkSize \in Nat \ {0}
  /\ frames_to_wait \in Nat /\ Delay \in Nat
  /\ \A i \in DOMAIN Items :
       /\ Items[i].keyframes[1] = 0
       /\ \A k \in DOMAIN Items[i].keyframes : Items[i].keyframes[k] < Items[i].frames

VARIABLES
  pc,                   \* where the caller is
  packets, entry, current_row,
                        \* io packets so far; PreEvaluateWorker's entry_ and current_row_
  buffers_live,         \* the encoded buffers of encoded_data_ are allocated
  encoded_data,         \* the segments being decoded
  current_frame, retriever_data_idx, retriever_valid_idx,
  frames_retrieved, frames_to_get,
  buffer,               \* what the running get_frames call has copied out
  fpc,                  \* where the feeder is
  feeder_waiting, feeder_data_idx, feeder_current_frame, seeking, not_done,
  codec, codec_last,    \* pictures the codec holds; the last one it was sent
  queue,                \* decoded_frame_queue_
  asleep,               \* threads that sleep in wake_feeder_.wait
  fatal                 \* the codec refused a packet: LOG(FATAL)

entryVars == <<packets, entry, current_row, buffers_live>>
retrieverVars ==
  <<current_frame, retriever_data_idx, retriever_valid_idx, frames_retrieved,
    frames_to_get, buffer>>
feederVars == <<fpc, feeder_data_idx, feeder_current_frame>>
decoderVars == <<codec, codec_last, queue>>
sharedVars == <<encoded_data, feeder_waiting, seeking, not_done>>
vars == <<pc, entryVars, retrieverVars, feederVars, decoderVars, sharedVars, asleep, fatal>>

-----------------------------------------------------------------------------
(* The column source: from rows to segments                                *)

\* First row of item i.
item_start_row(i) == FoldFunction(+, 0, [j \in 1..(i - 1) |-> Items[j].frames])

NumRows == item_start_row(Len(Items)) + Items[Len(Items)].frames

\* The item a row is in.
item_from_row(r) == CHOOSE i \in DOMAIN Items :
  item_start_row(i) <= r /\ r < item_start_row(i) + Items[i].frames

\* Frames of the table, numbered by row, that are keyframes.
Keyframes ==
  UNION {{item_start_row(i) + k : k \in Range(Items[i].keyframes)} : i \in DOMAIN Items}

\* The subsequences of s that begin at the indices in starts.
SplitAt(s, starts) ==
  LET nth(k) == CHOOSE b \in starts : Cardinality({c \in starts : c <= b}) = k
      last(k) == IF k = Cardinality(starts) THEN Len(s) ELSE nth(k + 1) - 1
  IN [k \in 1..Cardinality(starts) |-> SubSeq(s, nth(k), last(k))]

\* A run of rows ends where the item changes or the rows do not increase.
slice_into_row_intervals(rs) ==
  SplitAt(rs, {j \in DOMAIN rs : \/ j = 1
                                 \/ item_from_row(rs[j]) # item_from_row(rs[j - 1])
                                 \/ rs[j] <= rs[j - 1]})

\* The group of pictures of frame f: kp[g] is the keyframe it starts with.
\* Between two rows of a run, end_keyframe_index is one more than the group
\* of the first.
group_of(kp, f) == CHOOSE g \in 1..(Len(kp) - 1) : kp[g] <= f /\ f < kp[g + 1]

\* A new interval begins only where a whole group is skipped ...
skips_group(from, to) == to > from + 1

\* ... also before the first row: the first interval starts at the first
\* keyframe unless that means decoding a group nothing is wanted of.
slice_into_video_intervals(kp, rs) ==
  LET g(j) == IF j = 0 THEN 1 ELSE group_of(kp, rs[j])
      starts == {j \in DOMAIN rs : j = 1 \/ skips_group(g(j - 1), g(j))}
      valid == SplitAt(rs, starts)
      first(k) == group_of(kp, Head(valid[k]))
  IN [k \in DOMAIN valid |->
        [start |-> IF k = 1 /\ ~skips_group(1, first(k)) THEN 1 ELSE first(k),
         end   |-> group_of(kp, valid[k][Len(valid[k])]) + 1,
         valid |-> valid[k]]]

\* The decode arguments for a run of rows of item i, in rows of the table.
read_video_column(i, rs) ==
  LET first == item_start_row(i)
      kp == Append(Items[i].keyframes, Items[i].frames)
      Args(v) == [start_keyframe |-> kp[v.start] + first,
                  end_keyframe   |-> kp[v.end] + first,
                  valid_frames   |-> [j \in DOMAIN v.valid |-> v.valid[j] + first]]
      intervals == slice_into_video_intervals(kp, [j \in DOMAIN rs |-> rs[j] - first])
  IN [k \in DOMAIN intervals |-> Args(intervals[k])]

\* ColumnSource::read for an H264 column.
DecodeArgs(rs) ==
  LET runs == slice_into_row_intervals(rs)
      args(k) == read_video_column(item_from_row(Head(runs[k])), runs[k])
  IN MapThenFoldSet(\o, <<>>, args, Min, DOMAIN runs)

\* What the load worker hands on for an io packet: the rows, and as the
\* column's elements the decode arguments for them.
EvalWorkEntries == {[row_ids |-> rs, columns |-> DecodeArgs(rs)] : rs \in RowSets}
NoEntry == [row_ids |-> <<>>, columns |-> <<>>]

\* The segments serve the rows: off[k] rows come before those of segment k, and
\* a segment holds its rows, in order, from a keyframe on.
Serves(segments, rows, off) ==
  /\ off[1] = 0 /\ off[Len(segments) + 1] = Len(rows)
  /\ \A k \in DOMAIN segments :
       LET s == segments[k] IN
       /\ s.start_keyframe \in Keyframes /\ s.valid_frames # <<>>
       /\ off[k + 1] = off[k] + Len(s.valid_frames)
       /\ \A j \in DOMAIN s.valid_frames :
            /\ s.valid_frames[j] = rows[off[k] + j]
            /\ s.start_keyframe <= s.valid_frames[j] /\ s.valid_frames[j] < s.end_keyframe
            /\ j > 1 => s.valid_frames[j - 1] < s.valid_frames[j]

\* What the column source promises the decoder for the rows it may be asked for.
ASSUME ColumnSourceAssumption ==
  \A e \in EvalWorkEntries :
    /\ e.row_ids \in Seq(Nat) /\ e.row_ids # <<>>
    /\ e.columns \in Seq([start_keyframe : Nat, end_keyframe : Nat, valid_frames : Seq(Nat)])
    /\ \E off \in [1..(Len(e.columns) + 1) -> 0..Len(e.row_ids)] :
         Serves(e.columns, e.row_ids, off)

-----------------------------------------------------------------------------
(* Faulty variants of definitions below (mutants); no specification uses   *)
(* them                                                                     *)

\* initialize relies on its own discards: no discontinuity is sent.
Fault_flush_stale == UNCHANGED decoderVars

\* The end of the iteration is not allowed for.
Fault_segment_start == encoded_data[retriever_data_idx + 1].start_keyframe

\* The feeder does not pause.
Fault_buffers_full == FALSE

\* The feeder is only restarted between segments.
Fault_needs_feeder ==
  /\ retriever_data_idx < Len(encoded_data)
  /\ retriever_valid_idx = Len(encoded_data[retriever_data_idx + 1].valid_frames)

-----------------------------------------------------------------------------
(* State                                                                   *)

CallerPlaces ==
  {"idle", "discard", "init_wait", "yield", "get_wait", "get_notify", "retrieve",
   "segment_wait", "segment_notify", "segment_count", "end_discard", "end_wait",
   "end_notify", "join", "done"}
FeederPlaces == {"top", "notify", "wait", "check", "room", "feed", "receive", "drain", "ended"}
Pictures == (0..(NumRows - 1)) \cup {Garbage}

\* Types of the state.
TypeOK ==
  /\ pc \in CallerPlaces /\ fpc \in FeederPlaces
  /\ packets \in 0..MaxPackets /\ entry \in EvalWorkEntries \cup {NoEntry} /\ current_row \in Nat
  /\ encoded_data \in Seq([start_keyframe : Nat, end_keyframe : Nat, valid_frames : Seq(Nat)])
  /\ current_frame \in -1..NumRows
  /\ {retriever_data_idx, retriever_valid_idx, frames_retrieved, frames_to_get,
      feeder_data_idx, feeder_current_frame} \subseteq Nat
  /\ buffer \in Seq(Pictures) /\ codec \in Seq(Pictures) /\ queue \in Seq(Pictures)
  /\ codec_last \in Pictures \cup {None}
  /\ asleep \subseteq {"caller", "feeder"}
  /\ {feeder_waiting, seeking, not_done, buffers_live, fatal} \subseteq BOOLEAN

\* The constructor has started the feeder thread; nothing is encoded yet.
Init ==
  /\ pc = "idle" /\ packets = 0 /\ entry = NoEntry /\ current_row = 0 /\ buffers_live = TRUE
  /\ encoded_data = <<>> /\ current_frame = 0
  /\ retriever_data_idx = 0 /\ retriever_valid_idx = 0
  /\ frames_retrieved = 0 /\ frames_to_get = 0 /\ buffer = <<>>
  /\ fpc = "top" /\ feeder_waiting = FALSE /\ feeder_data_idx = 0
  /\ feeder_current_frame = 0 /\ seeking = FALSE /\ not_done = TRUE
  /\ codec = <<>> /\ codec_last = None /\ queue = <<>>
  /\ asleep = {} /\ fatal = FALSE

-----------------------------------------------------------------------------
(* The codec and its queue (SoftwareVideoDecoder)                          *)

\* feed with discontinuity set, if b holds: the queue is emptied and what
\* the codec still holds is received and dropped.
flush_if(b) ==
  /\ queue' = IF b THEN <<>> ELSE queue
  /\ codec' = IF b THEN <<>> ELSE codec
  /\ codec_last' = IF b THEN None ELSE codec_last

\* discard_frame: drop the oldest decoded frame, if there is one.
discard_frame == queue' = IF queue = <<>> THEN <<>> ELSE Tail(queue)

\* What decoding the sample of frame f yields, given what the codec was
\* sent before it.
picture(f) == IF f \in Keyframes \/ codec_last = f - 1 THEN f ELSE Garbage

-----------------------------------------------------------------------------
(* The condition variable                                                  *)

\* notify_one: at most one thread ever sleeps on the other's notifications.
notify_one == asleep' \in IF asleep = {} THEN {{}} ELSE {asleep \ {t} : t \in asleep}

\* wait(lk, pred) with a false predicate.
Sleep(t) == asleep' = asleep \cup {t}

Awake(t) == t \notin asleep /\ ~fatal

-----------------------------------------------------------------------------
(* The caller: PreEvaluateWorker and the automata's public methods         *)

\* PreEvaluateWorker::feed: the encoded buffers of the last io packet are
\* freed, then initialize begins on those of the new one.
Feed(work_entry) ==
  /\ pc = "idle" /\ packets < MaxPackets
  /\ packets' = packets + 1 /\ entry' = work_entry /\ current_row' = 0
  /\ buffers_live' = FALSE
  /\ pc' = "discard"
  /\ UNCHANGED <<retrieverVars, feederVars, decoderVars, sharedVars, asleep>>

\* initialize: drop decoded frames; the feeder may still be adding some.
InitDiscard ==
  /\ pc = "discard"
  /\ discard_frame
  /\ pc' = IF queue' = <<>> THEN "init_wait" ELSE "discard"
  /\ UNCHANGED <<entryVars, retrieverVars, feederVars, codec, codec_last, sharedVars, asleep>>

\* A discontinuity is only sent if the last get_frames call took frames.
flush_stale == flush_if(frames_retrieved > 0)

\* set_feeder_idx(i): the feeder goes to the first frame of segment i.
set_feeder_idx(i, data) ==
  /\ feeder_data_idx' = i
  /\ feeder_current_frame' =
       IF i < Len(data) THEN data[i + 1].start_keyframe ELSE feeder_current_frame

\* initialize, once the feeder is parked: take over the new segments.
Initialize ==
  /\ pc = "init_wait" /\ feeder_waiting
  /\ encoded_data' = entry.columns /\ buffers_live' = TRUE
  /\ current_frame' = encoded_data'[1].start_keyframe
  /\ retriever_data_idx' = 0 /\ retriever_valid_idx' = 0
  /\ flush_stale
  /\ set_feeder_idx(0, encoded_data')
  /\ seeking' = FALSE
  /\ pc' = "yield"
  /\ UNCHANGED <<packets, entry, current_row, frames_retrieved, frames_to_get, buffer, fpc,
                 feeder_waiting, not_done, asleep>>

\* PreEvaluateWorker::yield: ask for the next work packet, or be done with
\* this io packet.
Yield ==
  /\ pc = "yield"
  /\ pc' = IF current_row < Len(entry.row_ids) THEN "get_wait" ELSE "idle"
  /\ UNCHANGED <<entryVars, retrieverVars, feederVars, decoderVars, sharedVars, asleep>>

\* The wait for a parked feeder finds it at work.
WaitForFeeder ==
  /\ pc \in {"init_wait", "get_wait", "end_wait"} /\ ~feeder_waiting
  /\ Sleep("caller")
  /\ UNCHANGED <<pc, entryVars, retrieverVars, feederVars, decoderVars, sharedVars>>

\* The feeder has work to do for this call: it is in the retriever's segment.
needs_feeder ==
  /\ retriever_data_idx < Len(encoded_data)
  /\ \/ retriever_valid_idx = Len(encoded_data[retriever_data_idx + 1].valid_frames)
     \/ retriever_data_idx = feeder_data_idx

\* get_frames, once the feeder is parked: set the number of frames to get
\* and, unless all of the retriever's segment is fed, restart the feeder.
GetFrames ==
  /\ pc = "get_wait" /\ feeder_waiting
  /\ frames_retrieved' = 0
  /\ frames_to_get' = Min({WorkSize, Len(entry.row_ids) - current_row})
  /\ IF needs_feeder
     THEN /\ flush_if(feeder_data_idx < Len(encoded_data) /\ seeking)
          /\ seeking' = (seeking /\ feeder_data_idx >= Len(encoded_data))
          /\ feeder_waiting' = FALSE
          /\ pc' = "get_notify"
     ELSE /\ pc' = "retrieve"
          /\ UNCHANGED <<decoderVars, feeder_waiting, seeking>>
  /\ UNCHANGED <<entryVars, current_frame, retriever_data_idx, retriever_valid_idx, buffer,
                 feederVars, encoded_data, not_done, asleep>>

\* The notifications that follow a critical section of the caller.
CallerNotifies ==
  /\ pc \in {"get_notify", "segment_notify", "end_notify"}
  /\ notify_one
  /\ pc' = CASE pc = "get_notify" -> "retrieve"
             [] pc = "segment_notify" -> "segment_count"
             [] pc = "end_notify" -> "join"
  /\ UNCHANGED <<entryVars, retrieverVars, feederVars, decoderVars, sharedVars>>

wanted_frame == encoded_data[retriever_data_idx + 1].valid_frames[retriever_valid_idx + 1]
last_of_segment ==
  retriever_valid_idx + 1 = Len(encoded_data[retriever_data_idx + 1].valid_frames)

Retrieving == pc = "retrieve" /\ frames_retrieved < frames_to_get /\ queue # <<>>

\* get_frames: the next decoded frame is not wanted.
SkipFrame ==
  /\ Retrieving /\ current_frame # wanted_frame
  /\ discard_frame
  /\ current_frame' = current_frame + 1
  /\ UNCHANGED <<pc, entryVars, retriever_data_idx, retriever_valid_idx, frames_retrieved,
                 frames_to_get, buffer, feederVars, codec, codec_last, sharedVars, asleep>>

\* get_frames: copy out the next decoded frame.  After the last frame of a
\* segment that is not the last one, the feeder has to be restarted.
TakeFrame ==
  /\ Retrieving /\ current_frame = wanted_frame
  /\ queue' = Tail(queue) /\ buffer' = Append(buffer, Head(queue))
  /\ IF last_of_segment
     THEN retriever_data_idx' = retriever_data_idx + 1 /\ retriever_valid_idx' = 0
     ELSE retriever_valid_idx' = retriever_valid_idx + 1 /\ UNCHANGED retriever_data_idx
  /\ IF last_of_segment /\ retriever_data_idx + 1 < Len(encoded_data)
     THEN pc' = "segment_wait" /\ UNCHANGED <<frames_retrieved, current_frame>>
     ELSE /\ frames_retrieved' = frames_retrieved + 1
          /\ current_frame' = current_frame + 1
          /\ UNCHANGED pc
  /\ UNCHANGED <<entryVars, frames_to_get, feederVars, codec, codec_last, sharedVars, asleep>>

\* The predicate of the wait between segments: drop what is decoded ...
SegmentDiscard ==
  /\ pc = "segment_wait" /\ queue # <<>>
  /\ discard_frame
  /\ UNCHANGED <<pc, entryVars, retrieverVars, feederVars, codec, codec_last, sharedVars, asleep>>

\* ... and sleep if the feeder is at work.
SegmentSleep ==
  /\ pc = "segment_wait" /\ queue = <<>> /\ ~feeder_waiting
  /\ Sleep("caller")
  /\ UNCHANGED <<pc, entryVars, retrieverVars, feederVars, decoderVars, sharedVars>>

\* Frame number the retriever expects first of the segment it moves to (one
\* less: it is counted up at the end of the iteration).
segment_start == encoded_data[retriever_data_idx + 1].start_keyframe - 1

\* The feeder is parked at the end of the segment: flush, and restart it.
NextSegment ==
  /\ pc = "segment_wait" /\ queue = <<>> /\ feeder_waiting
  /\ flush_if(seeking) /\ seeking' = FALSE
  /\ feeder_waiting' = FALSE
  /\ current_frame' = segment_start
  /\ pc' = "segment_notify"
  /\ UNCHANGED <<entryVars, retriever_data_idx, retriever_valid_idx, frames_retrieved,
                 frames_to_get, buffer, feederVars, encoded_data, not_done, asleep>>

\* The frame taken before the change of segment is counted.
CountFrame ==
  /\ pc = "segment_count"
  /\ frames_retrieved' = frames_retrieved + 1 /\ current_frame' = current_frame + 1
  /\ pc' = "retrieve"
  /\ UNCHANGED <<entryVars, retriever_data_idx, retriever_valid_idx, frames_to_get, buffer,
                 feederVars, decoderVars, sharedVars, asleep>>

\* get_frames returns; yield moves on.
GetFramesReturns ==
  /\ pc = "retrieve" /\ frames_retrieved >= frames_to_get
  /\ current_row' = current_row + WorkSize /\ buffer' = <<>>
  /\ pc' = "yield"
  /\ UNCHANGED <<packets, entry, buffers_live, current_frame, retriever_data_idx,
                 retriever_valid_idx, frames_retrieved, frames_to_get, feederVars, decoderVars,
                 sharedVars, asleep>>

\* The worker ends: it frees the encoded buffers, then destroys the automata,
\* which asks the feeder to stop.
Destroy ==
  /\ pc = "idle"
  /\ buffers_live' = FALSE
  /\ frames_to_get' = 0 /\ frames_retrieved' = 0
  /\ pc' = "end_discard"
  /\ UNCHANGED <<packets, entry, current_row, current_frame, retriever_data_idx,
                 retriever_valid_idx, buffer, feederVars, decoderVars, sharedVars, asleep>>

EndDiscard ==
  /\ pc = "end_discard"
  /\ discard_frame
  /\ pc' = IF queue' = <<>> THEN "end_wait" ELSE "end_discard"
  /\ UNCHANGED <<entryVars, retrieverVars, feederVars, codec, codec_last, sharedVars, asleep>>

StopFeeder ==
  /\ pc = "end_wait" /\ feeder_waiting
  /\ not_done' = FALSE /\ feeder_waiting' = FALSE
  /\ pc' = "end_notify"
  /\ UNCHANGED <<entryVars, retrieverVars, feederVars, decoderVars, encoded_data, seeking, asleep>>

Join ==
  /\ pc = "join" /\ fpc = "ended"
  /\ pc' = "done"
  /\ UNCHANGED <<entryVars, retrieverVars, feederVars, decoderVars, sharedVars, asleep>>

-----------------------------------------------------------------------------
(* The feeder thread                                                       *)

FeederLeaves == <<pc, entryVars, retrieverVars>>

\* Head of the loop: park, or end with the automata.
Park ==
  /\ fpc = "top"
  /\ IF not_done THEN feeder_waiting' = TRUE /\ fpc' = "notify"
     ELSE fpc' = "ended" /\ UNCHANGED feeder_waiting
  /\ UNCHANGED <<FeederLeaves, feeder_data_idx, feeder_current_frame, decoderVars,
                 encoded_data, seeking, not_done, asleep, fatal>>

FeederNotifies ==
  /\ fpc = "notify"
  /\ notify_one
  /\ fpc' = "wait"
  /\ UNCHANGED <<FeederLeaves, feeder_data_idx, feeder_current_frame, decoderVars, sharedVars,
                 fatal>>

\* Sleep until the caller asks for frames; a request made when all segments
\* are fed is ignored.
AwaitRequest ==
  /\ fpc = "wait"
  /\ IF feeder_waiting THEN Sleep("feeder") /\ UNCHANGED fpc
     ELSE /\ fpc' = IF Len(encoded_data) <= feeder_data_idx THEN "top" ELSE "check"
          /\ UNCHANGED asleep
  /\ UNCHANGED <<FeederLeaves, feeder_data_idx, feeder_current_frame, decoderVars, sharedVars,
                 fatal>>

\* Feed on while the caller lacks frames.
CheckRetrieved ==
  /\ fpc = "check"
  /\ fpc' = IF frames_retrieved < frames_to_get THEN "room" ELSE "top"
  /\ UNCHANGED <<FeederLeaves, feeder_data_idx, feeder_current_frame, decoderVars, sharedVars,
                 asleep, fatal>>

buffers_full == frames_retrieved < frames_to_get /\ Len(queue) > frames_to_wait

\* While enough frames are decoded, keep notifying the caller ...
AwaitRoom ==
  /\ fpc = "room" /\ buffers_full /\ "caller" \in asleep
  /\ notify_one
  /\ UNCHANGED <<FeederLeaves, feederVars, decoderVars, sharedVars, fatal>>

\* ... then go on.
HasRoom ==
  /\ fpc = "room" /\ ~buffers_full
  /\ fpc' = "feed"
  /\ UNCHANGED <<FeederLeaves, feeder_data_idx, feeder_current_frame, decoderVars, sharedVars,
                 asleep, fatal>>

segment_exhausted == feeder_current_frame >= encoded_data[feeder_data_idx + 1].end_keyframe

\* Send the next sample of the segment to the codec.  If its buffer has been
\* freed, the codec sees the sample, some other bytes, or refuses the packet.
FeedSample ==
  /\ fpc = "feed" /\ ~segment_exhausted
  /\ \E p \in {picture(feeder_current_frame)} \cup (IF buffers_live THEN {} ELSE {Garbage}) :
       codec' = Append(codec, p) /\ codec_last' = p
  /\ feeder_current_frame' = feeder_current_frame + 1
  /\ fpc' = "receive"
  /\ UNCHANGED <<FeederLeaves, feeder_data_idx, queue, sharedVars, asleep, fatal>>

CodecRefuses ==
  /\ fpc = "feed" /\ ~segment_exhausted /\ ~buffers_live
  /\ fatal' = TRUE
  /\ UNCHANGED <<FeederLeaves, feederVars, decoderVars, sharedVars, asleep>>

\* At the end of the segment an empty packet makes the codec give up all it
\* holds.
FeedEnd ==
  /\ fpc = "feed" /\ segment_exhausted
  /\ fpc' = "drain"
  /\ UNCHANGED <<FeederLeaves, feeder_data_idx, feeder_current_frame, decoderVars, sharedVars,
                 asleep, fatal>>

\* feed_packet: receive a frame the codec gives out.
ReceiveFrame ==
  /\ fpc \in {"receive", "drain"} /\ codec # <<>>
  /\ queue' = Append(queue, Head(codec)) /\ codec' = Tail(codec)
  /\ UNCHANGED <<FeederLeaves, feederVars, codec_last, sharedVars, asleep, fatal>>

\* The codec wants more input (EAGAIN).
SampleFed ==
  /\ fpc = "receive" /\ Len(codec) <= Delay
  /\ fpc' = "check"
  /\ UNCHANGED <<FeederLeaves, feeder_data_idx, feeder_current_frame, decoderVars, sharedVars,
                 asleep, fatal>>

\* The codec is empty (EOF) and is reset; the feeder goes to the next
\* segment, which starts with a discontinuity.
SegmentFed ==
  /\ fpc = "drain" /\ codec = <<>>
  /\ codec_last' = None
  /\ seeking' = TRUE
  /\ set_feeder_idx(feeder_data_idx + 1, encoded_data)
  /\ fpc' = "top"
  /\ UNCHANGED <<FeederLeaves, codec, queue, encoded_data, feeder_waiting, not_done, asleep,
                 fatal>>

-----------------------------------------------------------------------------
CallerSteps ==
  /\ Awake("caller")
  /\ \/ InitDiscard \/ Initialize \/ Yield \/ WaitForFeeder \/ GetFrames \/ CallerNotifies
     \/ SkipFrame \/ TakeFrame \/ SegmentDiscard \/ SegmentSleep \/ NextSegment \/ CountFrame
     \/ GetFramesReturns \/ EndDiscard \/ StopFeeder \/ Join
  /\ UNCHANGED fatal

\* What the worker's pipeline asks for: an io packet, or the end.
Requests ==
  /\ Awake("caller")
  /\ Destroy \/ \E e \in EvalWorkEntries : Feed(e)
  /\ UNCHANGED fatal

FeederSteps ==
  /\ Awake("feeder")
  /\ \/ Park \/ FeederNotifies \/ AwaitRequest \/ CheckRetrieved \/ AwaitRoom \/ HasRoom
     \/ FeedSample \/ CodecRefuses \/ FeedEnd \/ ReceiveFrame \/ SampleFed \/ SegmentFed

Next == CallerSteps \/ Requests \/ FeederSteps

\* Both threads are scheduled.
Spec == Init /\ [][Next]_vars /\ WF_vars(CallerSteps) /\ WF_vars(FeederSteps)

-----------------------------------------------------------------------------
(* Properties                                                              *)

\* Every frame a get_frames call copies out (decoder_automata.cpp:153) is the
\* correctly decoded picture of the row asked for, whatever was left in the
\* queue, in the codec or in the feeder by earlier segments and io packets.
FramesRight ==
  /\ \A i \in DOMAIN buffer : buffer[i] = entry.row_ids[current_row + i]
  /\ pc = "retrieve" => Len(buffer) = frames_retrieved

\* The assertions of get_frames and feeder (decoder_automata.cpp:149, 150,
\* 190): the retriever never looks past the frames wanted of a segment, never
\* runs ahead of the one it wants, and the data ends with the request.
RetrieverInStep ==
  /\ Retrieving => /\ retriever_data_idx < Len(encoded_data)
                   /\ retriever_valid_idx < Len(encoded_data[retriever_data_idx + 1].valid_frames)
                   /\ current_frame <= wanted_frame
  /\ pc = "retrieve" /\ retriever_data_idx = Len(encoded_data)
       => frames_retrieved = frames_to_get

\* The decoded frames that wait are bounded by the feeder's threshold and
\* what the codec holds back (decoder_automata.cpp:258).  One more may come after
\* the last frame of a call, when that frame also ends a segment: it is counted
\* after the feeder was restarted, and a full feeder then feeds another sample.
QueueBounded == Len(queue) <= frames_to_wait + Delay + 2

\* Every initialize, get_frames and destructor call returns
\* (decoder_automata.cpp:69, 104, 141, 167, 49): no wake-up is lost, the two
\* threads never wait for each other, and the frames asked for are fed.
CallsReturn == []<>(pc \in {"idle", "done"} \/ fatal)
=============================================================================
