------------------------------ MODULE MCDecoder ------------------------------
(* Two items of a video column, and all ways of asking for one or two of   *)
(* their rows: within a group of pictures, across two, skipping one, and   *)
(* across the items; three rows need two work packets.  The last group of  *)
(* the first item is long enough for the feeder to fill the queue.         *)
EXTENDS Decoder

TwoItems == << [frames |-> 9, keyframes |-> <<0, 2, 4>>],
               [frames |-> 2, keyframes |-> <<0>>] >>

SomeRows ==
  {<<a>> : a \in 0..10}
    \cup {s \in (0..10) \X (0..10) : s[1] < s[2]}
    \cup {<<0, 1, 6>>, <<2, 5, 9>>}
=============================================================================
