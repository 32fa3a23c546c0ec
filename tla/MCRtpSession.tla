---------------------------- MODULE MCRtpSession ----------------------------
(* RtpSession on a ring of two slots; the sequence numbers wrap at 8. *)
EXTENDS RtpSession

MCPayloads == 1 .. MaxPos
MCFrameSizes == {Capacity}
MCUndecodable == {3}
MCNone == {}
=============================================================================
