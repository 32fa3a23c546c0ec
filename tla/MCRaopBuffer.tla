---------------------------- MODULE MCRaopBuffer ----------------------------
(* RaopBuffer with a ring of three slots in a space of twelve numbers. *)
EXTENDS RaopBuffer

MCFrameSizes == {2}
MCFlushArgs == {-1, SeqMod} \cup SeqNum
=============================================================================
