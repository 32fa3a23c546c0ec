----------------------------- MODULE MCPlayout -----------------------------
(* Playout of three frames across the wrap of the timestamps. *)
EXTENDS Playout

MCFormatOf == [k \in Frames |-> IF k < 3 THEN "stereo" ELSE "surround"]
MCFormats == {"stereo", "surround"}
MCAnchors == {Ts(1)}
MCFlushRanges == {<<0, Ts(1)>>, <<0, TsMod - 1>>}
MCIdleSince == {1, 5}
=============================================================================
