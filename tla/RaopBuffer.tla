----------------------------- MODULE RaopBuffer -----------------------------
(***************************************************************************)
(* The packet buffer of raop/buffer.rs as a state machine: its methods     *)
(* called in any order, on packets with any sequence number.               *)
(***************************************************************************)
EXTENDS RaopBufferOps

CONSTANT FlushArgs      \* the values flush is called with

ASSUME FlushArgsAssumption == FlushArgs \subseteq Int

VARIABLES
    buf,    \* the fields of RaopBuffer
    out     \* the frame the last successful dequeue returned

vars == <<buf, out>>

Frame == [audio : Payloads \cup {Silence}, len : 0 .. Capacity]

Init ==
    /\ \E codec \in Codecs : buf = build(codec)
    /\ out = [audio |-> Silence, len |-> 0]

Queue ==
    /\ \E pkt \in Packet, use_seqnum \in BOOLEAN :
           buf' = queue(buf, pkt, use_seqnum)
    /\ UNCHANGED out

Dequeue ==
    /\ \E no_resend \in BOOLEAN : CanDequeue(buf, no_resend)
    /\ out' = DequeuedFrame(buf)
    /\ buf' = dequeue(buf)

Flush ==
    /\ \E next_seq \in FlushArgs : buf' = flush(buf, next_seq)
    /\ UNCHANGED out

Next == Queue \/ Dequeue \/ Flush

Spec == Init /\ [][Next]_vars

-----------------------------------------------------------------------------
\* Every slot, window bound and frame stays in the range of its Rust type.
TypeOK ==
    /\ buf \in RaopBufferType
    /\ out \in Frame

\* The window first..last never spans more than the slots there are, over
\* any mix of queue, dequeue and flush and across the wrap of u16: otherwise
\* two live packets would share a slot and seqnum_cmp could change sign.
WindowFits == FitsRing(buf)

\* An available slot holds the packet whose number maps to it, and that
\* number is inside the window: dequeue can never hand out a frame left
\* over from an earlier lap of the ring or from before a flush.
SlotsInWindow == HoldsWindow(buf)

\* A window that is not exhausted ends in a buffered frame, so dequeue
\* substitutes silence only in front of audio that has already arrived and
\* never runs past the last packet.  A packet that fails to decode must not
\* break this, although it clears its slot.
WindowEndsInAudio == EndsInAudio(buf)

\* Silence is as long as some frame that was really decoded, also if the first
\* packet after a flush is the missing one: by the time dequeue can return
\* anything, queue has replaced the PCM default.
SilenceIsAFrameLong == SilenceSized(buf)

\* The comment on PCM_DEFAULT_FRAME_SAMPLES: it is "used to size silence for a
\* missing *first* packet".  The silence that dequeue returns for PCM before
\* it has returned any frame is of that length, as far as a slot can hold it.
\* Silence is returned only once a packet has been decoded, and that packet
\* has set another length.
FirstSilenceIsDefault ==
    /\ buf.codec = "pcm" /\ out.len = 0
    /\ \E no_resend \in BOOLEAN : CanDequeue(buf, no_resend)
    /\ ~NextEntry(buf).available
    => DequeuedFrame(buf).len =
           IF DefaultSilence < Capacity THEN DefaultSilence ELSE Capacity

-----------------------------------------------------------------------------
(***************************************************************************)
(* The buffer implements OrderedPlayout: the pending packets are the       *)
(* available slots, read by sequence number.                               *)
(***************************************************************************)
Pending(b) ==
    [s \in {t \in SeqNum : IsBuffered(b, t)} |-> b.entries[SlotOf(s)].audio]

Ordered == INSTANCE OrderedPlayout WITH
    pending <- Pending(buf),
    next <- buf.first_seqnum,
    audio <- out.audio

\* Between two resets (a flush, or a packet far ahead of the window) no
\* accepted packet is lost, overwritten, delivered twice or delivered out of
\* order, whatever queue and dequeue do with the slots; a reset drops all of
\* them and keeps at most the packet that caused it.
ImplementsOrderedPlayout == Ordered!Spec
=============================================================================
