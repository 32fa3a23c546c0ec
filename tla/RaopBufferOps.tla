--------------------------- MODULE RaopBufferOps ---------------------------
(***************************************************************************)
(* The AirPlay 1 packet buffer of raop/buffer.rs as a data type: a record  *)
(* for the fields of RaopBuffer and one operator for each thing queue,     *)
(* dequeue and flush do to it.  RaopBuffer.tla turns it into a state       *)
(* machine and RtpSession.tla puts it behind the receive tasks.            *)
(*                                                                         *)
(* The decoded samples of a slot are abstracted to the identity of the     *)
(* packet they come from (audio) and their number (len).  A slot that is   *)
(* not available keeps no other field: no code reads them.                 *)
(***************************************************************************)
EXTENDS Integers

CONSTANTS
    BufLen,          \* RAOP_BUFFER_LENGTH, the number of slots
    SeqMod,          \* 2^16, the number of RTP sequence numbers
    Payloads,        \* identities of the audio carried by packets
    Silence,         \* the audio substituted for a missing frame
    FrameSizes,      \* sample counts a decodable packet may have
    Capacity,        \* frame_capacity, samples a slot can hold
    DefaultSilence   \* PCM_DEFAULT_FRAME_SAMPLES * num_channels

(***************************************************************************)
(* The circular buffer needs its length to divide the sequence space (the  *)
(* comment on RAOP_BUFFER_LENGTH asks for a power of two), and the signed  *)
(* comparison needs the ring to be shorter than half of that space.        *)
(***************************************************************************)
ASSUME BufferAssumption ==
    /\ BufLen \in Nat \ {0}
    /\ SeqMod \in Nat
    /\ \E k \in 1 .. SeqMod : SeqMod = BufLen * k
    /\ 2 * BufLen < SeqMod
    /\ \E k \in 1 .. SeqMod : SeqMod = 2 * k

ASSUME FrameAssumption ==
    /\ Silence \notin Payloads
    /\ Capacity \in Nat \ {0}
    /\ FrameSizes \subseteq 1 .. Capacity
    /\ DefaultSilence \in Nat \ {0}

SeqNum == 0 .. SeqMod - 1
Slots == 0 .. BufLen - 1

\* Variant: a plain addition.
WrapAddUnwrapped(s, k) == s + k

\* u16 wrapping_add and wrapping_sub, for operands below SeqMod.
WrapAdd(s, k) == IF s + k < SeqMod THEN s + k ELSE s + k - SeqMod
WrapSub(s, k) == IF s >= k THEN s - k ELSE s - k + SeqMod

\* The difference read as a signed 16-bit number: negative if s1 is before s2.
seqnum_cmp(s1, s2) ==
    LET d == WrapSub(s1, s2)
    IN  IF 2 * d < SeqMod THEN d ELSE d - SeqMod

SlotOf(s) == s % BufLen

-----------------------------------------------------------------------------
Codecs == {"alac", "pcm"}

NoEntry == [available |-> FALSE, seqnum |-> 0, audio |-> Silence, len |-> 0]

Entry == [available : BOOLEAN, seqnum : SeqNum,
          audio : Payloads \cup {Silence}, len : 0 .. Capacity]

RaopBufferType ==
    [codec : Codecs, is_empty : BOOLEAN, first_seqnum : SeqNum,
     last_seqnum : SeqNum, entries : [Slots -> Entry], silence_samples : Nat]

\* A packet: whether its length is in 12..=RAOP_PACKET_LEN, the header's
\* sequence number, and the number of samples it decodes to (0: it does not).
Packet == [sized : BOOLEAN, seqnum : SeqNum, audio : Payloads,
           samples : FrameSizes \cup {0}]

\* RaopBuffer::build, for an SDP that parse_codec and parse_fmtp accept.
build(codec) ==
    [codec |-> codec, is_empty |-> TRUE, first_seqnum |-> 0, last_seqnum |-> 0,
     entries |-> [i \in Slots |-> NoEntry],
     silence_samples |-> IF codec = "pcm" THEN DefaultSilence ELSE Capacity]

-----------------------------------------------------------------------------
\* Variant: the slots are not cleared.
flushKeepsEntries(b, next_seq) ==
    IF next_seq \in SeqNum
    THEN [b EXCEPT !.first_seqnum = next_seq,
                   !.last_seqnum = WrapSub(next_seq, 1)]
    ELSE [b EXCEPT !.is_empty = TRUE]

\* Variant: a plain subtraction.
flushUnwrapped(b, next_seq) ==
    IF next_seq \in SeqNum
    THEN [b EXCEPT !.entries = [i \in Slots |-> NoEntry],
                   !.first_seqnum = next_seq,
                   !.last_seqnum = next_seq - 1]
    ELSE [b EXCEPT !.entries = [i \in Slots |-> NoEntry], !.is_empty = TRUE]

\* RaopBuffer::flush.  A next_seq outside 0..=0xffff empties the buffer and
\* keeps the window; a valid one moves the window and keeps is_empty.
flush(b, next_seq) ==
    IF next_seq \in SeqNum
    THEN [b EXCEPT !.entries = [i \in Slots |-> NoEntry],
                   !.first_seqnum = next_seq,
                   !.last_seqnum = WrapSub(next_seq, 1)]
    ELSE [b EXCEPT !.entries = [i \in Slots |-> NoEntry], !.is_empty = TRUE]

\* The sequence number queue works with: the header's, or in interleaved
\* mode the next one of a local count.
QueueSeq(b, pkt, use_seqnum) ==
    IF use_seqnum THEN pkt.seqnum
    ELSE IF b.is_empty THEN b.first_seqnum
    ELSE WrapAdd(b.last_seqnum, 1)

\* Variants: no check, a window one number too long, no check.
NeverStale(b, s) == FALSE
IsFurtherAhead(b, s) == seqnum_cmp(s, WrapAdd(b.first_seqnum, BufLen)) > 0
NeverBuffered(b, s) == FALSE

\* The guards of queue, in the order the code takes them.
IsStale(b, s) == ~b.is_empty /\ seqnum_cmp(s, b.first_seqnum) < 0

IsFarAhead(b, s) == seqnum_cmp(s, WrapAdd(b.first_seqnum, BufLen)) >= 0

Resynced(b, s) == IF IsFarAhead(b, s) THEN flush(b, s) ELSE b

\* The packet with number s waits in its slot: another one is a duplicate.
IsBuffered(b, s) ==
    LET e == b.entries[SlotOf(s)] IN e.available /\ e.seqnum = s

\* A failed decode leaves the slot unavailable and the window as it is.
Discarded(b, s) == [b EXCEPT !.entries[SlotOf(s)] = NoEntry]

\* Variant: the length of a PCM frame is not remembered.
StoredKeepsSilence(b, s, pkt) ==
    LET last == IF b.is_empty THEN s ELSE b.last_seqnum
    IN  [b EXCEPT
           !.entries[SlotOf(s)] = [available |-> TRUE, seqnum |-> s,
                                   audio |-> pkt.audio, len |-> pkt.samples],
           !.is_empty = FALSE,
           !.first_seqnum = IF b.is_empty THEN s ELSE @,
           !.last_seqnum = IF seqnum_cmp(s, last) > 0 THEN s ELSE last]

\* A decoded packet fills its slot and extends the window to its number.
Stored(b, s, pkt) ==
    LET last == IF b.is_empty THEN s ELSE b.last_seqnum
    IN  [b EXCEPT
           !.entries[SlotOf(s)] = [available |-> TRUE, seqnum |-> s,
                                   audio |-> pkt.audio, len |-> pkt.samples],
           !.silence_samples = IF b.codec = "pcm" THEN pkt.samples ELSE @,
           !.is_empty = FALSE,
           !.first_seqnum = IF b.is_empty THEN s ELSE @,
           !.last_seqnum = IF seqnum_cmp(s, last) > 0 THEN s ELSE last]

\* RaopBuffer::queue; a result of 1, 0 or -1 is ignored by its callers.
queue(b, pkt, use_seqnum) ==
    LET s == QueueSeq(b, pkt, use_seqnum)
        r == Resynced(b, s)
    IN  IF ~pkt.sized \/ IsStale(b, s) THEN b
        ELSE IF IsBuffered(r, s) THEN r
        ELSE IF pkt.samples = 0 THEN Discarded(r, s)
        ELSE Stored(r, s, pkt)

-----------------------------------------------------------------------------
buflen(b) == seqnum_cmp(b.last_seqnum, b.first_seqnum) + 1

NextEntry(b) == b.entries[SlotOf(b.first_seqnum)]

\* RaopBuffer::dequeue returns a frame exactly when this holds.
CanDequeue(b, no_resend) ==
    /\ ~b.is_empty
    /\ buflen(b) > 0
    /\ no_resend \/ NextEntry(b).available \/ buflen(b) >= BufLen

\* The frame dequeue hands out: the buffered one, or silence for a lost one.
DequeuedFrame(b) ==
    IF NextEntry(b).available
    THEN [audio |-> NextEntry(b).audio, len |-> NextEntry(b).len]
    ELSE [audio |-> Silence,
          len |-> IF b.silence_samples < Capacity THEN b.silence_samples
                                                  ELSE Capacity]

\* Variant: the slot is not cleared.
dequeueKeepsEntry(b) == [b EXCEPT !.first_seqnum = WrapAdd(@, 1)]

\* RaopBuffer::dequeue clears the slot and moves the window on.
dequeue(b) ==
    [b EXCEPT !.entries[SlotOf(b.first_seqnum)] = NoEntry,
              !.first_seqnum = WrapAdd(@, 1)]

-----------------------------------------------------------------------------
(* What keeps the ring sound, as predicates of a buffer.                   *)

\* The window first..last never spans more than the slots there are.
FitsRing(b) == buflen(b) \in 0 .. BufLen

\* An available slot holds a number of the window, in that number's slot.
HoldsWindow(b) ==
    \A i \in Slots :
        LET e == b.entries[i]
        IN  e.available =>
              /\ ~b.is_empty
              /\ SlotOf(e.seqnum) = i
              /\ WrapSub(e.seqnum, b.first_seqnum) < buflen(b)

\* A window that is not exhausted ends in a buffered frame.
EndsInAudio(b) ==
    ~b.is_empty /\ buflen(b) > 0 =>
        LET e == b.entries[SlotOf(b.last_seqnum)]
        IN  e.available /\ e.seqnum = b.last_seqnum

\* The length of PCM silence comes from a decoded frame.
SilenceSized(b) ==
    ~b.is_empty /\ b.codec = "pcm" => b.silence_samples \in FrameSizes

SoundBuffer(b) ==
    /\ b \in RaopBufferType
    /\ FitsRing(b)
    /\ HoldsWindow(b)
    /\ EndsInAudio(b)
    /\ SilenceSized(b)
=============================================================================
