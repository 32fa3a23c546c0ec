----------------------------- MODULE MCRtpFlush -----------------------------
(***************************************************************************)
(* RtpSession with a record of the packets whose audio a session was given *)
(* already, to ask what a flush request does to the packets around it.     *)
(***************************************************************************)
EXTENDS MCRtpSession

VARIABLE aired    \* positions handed to a session as audio

RecInit == Init /\ aired = {}

RecNext ==
    /\ Next
    /\ aired' = IF \E i \in Tasks : Deliver(i)
                THEN aired \cup {DequeuedFrame(buf).audio} ELSE aired

RecSpec == RecInit /\ [][RecNext]_<<vars, aired>>

\* buffer.rs promises "silence substitution for missing packets": a packet
\* whose audio was handed out already is not missing, so silence is never
\* played in its place.  A flush request is read only at the top of the
\* receive loop, after the packet that it names has been queued and played.
SilenceOnlyForMissing ==
    \A i \in Tasks :
        /\ pc[i] = "drain"
        /\ CanDequeue(buf, no_resend[i])
        /\ DequeuedFrame(buf).audio = Silence
        => \A p \in aired : SeqOf(p) # buf.first_seqnum
=============================================================================
