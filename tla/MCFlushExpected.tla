--------------------------- MODULE MCFlushExpected ---------------------------
(***************************************************************************)
(* RaopBuffer with a record of the number the last flush asked for, until  *)
(* a frame is taken or a packet far ahead of the window moves it on.       *)
(***************************************************************************)
EXTENDS MCRaopBuffer

VARIABLE expected

Nothing == -1

ExpInit == Init /\ expected = Nothing

ExpFlush ==
    /\ \E next_seq \in FlushArgs :
        /\ buf' = flush(buf, next_seq)
        /\ expected' = IF next_seq \in SeqNum THEN next_seq ELSE Nothing
    /\ UNCHANGED out

ExpQueue ==
    /\ \E pkt \in Packet, use_seqnum \in BOOLEAN :
        /\ buf' = queue(buf, pkt, use_seqnum)
        /\ expected' = IF IsFarAhead(buf, QueueSeq(buf, pkt, use_seqnum))
                       THEN Nothing ELSE expected
    /\ UNCHANGED out

ExpDequeue == Dequeue /\ expected' = Nothing

ExpSpec ==
    ExpInit /\ [][ExpFlush \/ ExpQueue \/ ExpDequeue]_<<vars, expected>>

\* The comment on RaopBuffer::flush: after a flush with a valid number "the
\* buffer resets to expect that sequence number next".  A buffer that was
\* empty stays so, and then starts at whatever packet arrives first.
ExpectsFlushedNumber == expected # Nothing => buf.first_seqnum = expected
=============================================================================
