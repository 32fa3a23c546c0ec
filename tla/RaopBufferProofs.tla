-------------------------- MODULE RaopBufferProofs --------------------------
(***************************************************************************)
(* Theorems about the packet buffer as a state machine.  SoundBuffer is    *)
(* the inductive invariant; the lemmas of RaopBufferLemmas show that each  *)
(* operation keeps it.                                                     *)
(***************************************************************************)
EXTENDS RaopBuffer, RaopBufferLemmas

Inv == SoundBuffer(buf) /\ out \in Frame

\* The frame dequeue returns fits its slot.
LEMMA FrameType ==
    ASSUME NEW b, SoundBuffer(b)
    PROVE  DequeuedFrame(b) \in Frame
<1>1. b.first_seqnum \in SeqNum /\ b.entries \in [Slots -> Entry]
      /\ b.silence_samples \in Nat
  BY DEF SoundBuffer, RaopBufferType
<1>2. NextEntry(b) \in Entry
  BY <1>1, SlotRange DEF NextEntry
<1> QED
  BY <1>1, <1>2, FrameAssumption DEF DequeuedFrame, Frame, Entry

LEMMA InitInv == Init => Inv
<1> SUFFICES ASSUME Init
             PROVE  Inv
  OBVIOUS
<1>1. SoundBuffer(buf)
  BY BuildSound DEF Init
<1>2. out \in Frame
  BY FrameAssumption DEF Init, Frame
<1> QED
  BY <1>1, <1>2 DEF Inv

LEMMA NextInv == Inv /\ [Next]_vars => Inv'
<1> SUFFICES ASSUME Inv, [Next]_vars
             PROVE  Inv'
  OBVIOUS
<1> USE DEF Inv
<1>1. CASE Queue
  <2>1. PICK pkt \in Packet, u \in BOOLEAN : buf' = queue(buf, pkt, u)
    BY <1>1 DEF Queue
  <2>2. SoundBuffer(queue(buf, pkt, u))
    BY QueueSound
  <2> QED
    BY <1>1, <2>1, <2>2 DEF Queue
<1>2. CASE Dequeue
  <2>1. PICK no_resend \in BOOLEAN : CanDequeue(buf, no_resend)
    BY <1>2 DEF Dequeue
  <2>2. SoundBuffer(dequeue(buf))
    BY <2>1, DequeueSound
  <2>3. DequeuedFrame(buf) \in Frame
    BY FrameType
  <2> QED
    BY <1>2, <2>2, <2>3 DEF Dequeue
<1>3. CASE Flush
  <2>1. PICK n \in FlushArgs : buf' = flush(buf, n)
    BY <1>3 DEF Flush
  <2>2. SoundBuffer(flush(buf, n))
    BY FlushSound, FlushArgsAssumption
  <2> QED
    BY <1>3, <2>1, <2>2 DEF Flush
<1>4. CASE UNCHANGED vars
  BY <1>4 DEF vars
<1> QED
  BY <1>1, <1>2, <1>3, <1>4 DEF Next

\* The fields of the buffer and the frames it returns keep their types.
THEOREM TypeCorrect == Spec => []TypeOK
<1>1. Inv => TypeOK
  BY DEF Inv, TypeOK, SoundBuffer
<1> QED
  BY <1>1, InitInv, NextInv, PTL DEF Spec

\* The window never outgrows the ring, however queue, dequeue and flush are
\* interleaved and wherever the sequence numbers wrap.
THEOREM WindowAlwaysFits == Spec => []WindowFits
<1>1. Inv => WindowFits
  BY DEF Inv, WindowFits, SoundBuffer
<1> QED
  BY <1>1, InitInv, NextInv, PTL DEF Spec

\* Every available slot holds a packet of the current window.
THEOREM SlotsAlwaysInWindow == Spec => []SlotsInWindow
<1>1. Inv => SlotsInWindow
  BY DEF Inv, SlotsInWindow, SoundBuffer
<1> QED
  BY <1>1, InitInv, NextInv, PTL DEF Spec

\* Silence is only ever played in front of audio that has arrived, and has
\* the length of a decoded frame.
THEOREM SilenceOnlyBeforeAudio ==
    Spec => [](WindowEndsInAudio /\ SilenceIsAFrameLong)
<1>1. Inv => WindowEndsInAudio /\ SilenceIsAFrameLong
  BY DEF Inv, WindowEndsInAudio, SilenceIsAFrameLong, SoundBuffer
<1> QED
  BY <1>1, InitInv, NextInv, PTL DEF Spec

-----------------------------------------------------------------------------
(* The buffer implements OrderedPlayout *)

Waiting(b) == {t \in SeqNum : IsBuffered(b, t)}

Added(b, s, p) ==
    [t \in Waiting(b) \cup {s} |-> IF t = s THEN p ELSE Pending(b)[t]]

\* A flushed buffer holds no packet.
LEMMA FlushPending ==
    ASSUME NEW b \in RaopBufferType, NEW n \in Int
    PROVE  Pending(flush(b, n)) = Ordered!Nothing
<1>1. flush(b, n).entries = [i \in Slots |-> NoEntry]
  BY DEF flush, RaopBufferType
<1>2. \A t \in SeqNum : ~IsBuffered(flush(b, n), t)
  BY <1>1, SlotRange DEF IsBuffered, NoEntry
<1> QED
  BY <1>2 DEF Pending, Ordered!Nothing

\* A buffer marked empty holds no packet.
LEMMA EmptyPending ==
    ASSUME NEW b, SoundBuffer(b), b.is_empty
    PROVE  Waiting(b) = {}
  BY SlotRange DEF SoundBuffer, HoldsWindow, IsBuffered, Waiting

\* Storing a packet adds it and keeps every other waiting packet.
LEMMA StoredPending ==
    ASSUME NEW b, SoundBuffer(b), NEW s \in SeqNum, NEW pkt \in Packet,
           ~IsBuffered(b, s),
           b.is_empty \/ WrapSub(s, b.first_seqnum) < BufLen
    PROVE  Pending(Stored(b, s, pkt)) = Added(b, s, pkt.audio)
<1> DEFINE r == Stored(b, s, pkt)
<1>1. b \in RaopBufferType /\ SlotOf(s) \in Slots
      /\ b.entries \in [Slots -> Entry]
  BY SlotRange DEF SoundBuffer, RaopBufferType
<1>2. ~b.entries[SlotOf(s)].available
  BY DiscardedSound
<1>3. r.entries = [b.entries EXCEPT ![SlotOf(s)] =
                       [available |-> TRUE, seqnum |-> s,
                        audio |-> pkt.audio, len |-> pkt.samples]]
  BY <1>1 DEF Stored, RaopBufferType
<1> HIDE DEF r
<1>4. \A t \in SeqNum : IsBuffered(r, t) <=> IsBuffered(b, t) \/ t = s
  BY <1>1, <1>2, <1>3, SlotRange DEF IsBuffered
<1>5. \A t \in SeqNum : IsBuffered(b, t) =>
          r.entries[SlotOf(t)] = b.entries[SlotOf(t)]
  BY <1>1, <1>2, <1>3, SlotRange DEF IsBuffered
<1>6. r.entries[SlotOf(s)].audio = pkt.audio
  BY <1>1, <1>3
<1>7. {t \in SeqNum : IsBuffered(r, t)} = Waiting(b) \cup {s}
  BY <1>4 DEF Waiting
<1>8. \A t \in Waiting(b) : Pending(b)[t] = b.entries[SlotOf(t)].audio
  BY DEF Pending, Waiting
<1>9. \A t \in Waiting(b) \cup {s} :
          r.entries[SlotOf(t)].audio = IF t = s THEN pkt.audio ELSE Pending(b)[t]
  BY <1>5, <1>6, <1>8 DEF Waiting
<1>10. Pending(r) = [t \in Waiting(b) \cup {s} |->
                        IF t = s THEN pkt.audio ELSE Pending(b)[t]]
  BY <1>7, <1>9 DEF Pending
<1> QED
  BY <1>10 DEF r, Added

\* Discarding an undecodable packet keeps every waiting packet.
LEMMA DiscardedPending ==
    ASSUME NEW b, SoundBuffer(b), NEW s \in SeqNum, ~IsBuffered(b, s),
           b.is_empty \/ WrapSub(s, b.first_seqnum) < BufLen
    PROVE  Pending(Discarded(b, s)) = Pending(b)
           /\ Discarded(b, s).first_seqnum = b.first_seqnum
<1> DEFINE r == Discarded(b, s)
<1>1. b \in RaopBufferType /\ SlotOf(s) \in Slots
      /\ b.entries \in [Slots -> Entry]
  BY SlotRange DEF SoundBuffer, RaopBufferType
<1>2. ~b.entries[SlotOf(s)].available
  BY DiscardedSound
<1>3. r.entries = [b.entries EXCEPT ![SlotOf(s)] = NoEntry]
      /\ r.first_seqnum = b.first_seqnum
  BY <1>1 DEF Discarded, RaopBufferType
<1> HIDE DEF r
<1>4. \A t \in SeqNum : IsBuffered(r, t) <=> IsBuffered(b, t)
  BY <1>1, <1>2, <1>3, SlotRange DEF IsBuffered, NoEntry
<1>5. \A t \in SeqNum : IsBuffered(b, t) =>
          r.entries[SlotOf(t)] = b.entries[SlotOf(t)]
  BY <1>1, <1>2, <1>3, SlotRange DEF IsBuffered
<1>6. Pending(r) = Pending(b)
  BY <1>4, <1>5 DEF Pending
<1> QED
  BY <1>3, <1>6 DEF r

\* Every call of queue accepts a packet, restarts playout or changes nothing.
LEMMA QueueStep ==
    ASSUME Inv, Queue
    PROVE  Ordered!Next \/ UNCHANGED Ordered!vars
<1>1. PICK pkt \in Packet, u \in BOOLEAN : buf' = queue(buf, pkt, u)
  BY DEF Queue
<1> DEFINE s == QueueSeq(buf, pkt, u)
           r == Resynced(buf, s)
<1>2. SoundBuffer(buf) /\ buf \in RaopBufferType /\ out' = out
  BY DEF Inv, SoundBuffer, Queue
<1>3. s \in SeqNum
  BY <1>2, QueueSeqType
<1>4. pkt.audio \in Payloads
  BY DEF Packet
<1> HIDE DEF s
<1>5. CASE ~pkt.sized \/ IsStale(buf, s)
  <2>1. buf' = buf
    BY <1>1, <1>5 DEF queue, s
  <2> QED
    BY <1>2, <2>1 DEF Ordered!vars
<1>6. CASE ~(~pkt.sized \/ IsStale(buf, s))
  <2>1. SoundBuffer(r) /\ (r.is_empty \/ WrapSub(s, r.first_seqnum) < BufLen)
    BY <1>2, <1>3, <1>6, ResyncedSound
  <2>2. buf' = IF IsBuffered(r, s) THEN r
               ELSE IF pkt.samples = 0 THEN Discarded(r, s)
               ELSE Stored(r, s, pkt)
    BY <1>1, <1>6 DEF queue, s
  <2>3. CASE IsFarAhead(buf, s)
    <3>1. r = flush(buf, s) /\ r.first_seqnum = s
      BY <1>2, <1>3, <2>3 DEF Resynced, flush, RaopBufferType
    <3>2. Pending(r) = Ordered!Nothing
      BY <1>2, <1>3, <3>1, FlushPending DEF SeqNum
    <3>3. Waiting(r) = {}
      BY <3>2 DEF Pending, Waiting, Ordered!Nothing
    <3> HIDE DEF r
    <3>4. ~IsBuffered(r, s)
      BY <1>3, <3>3 DEF Waiting
    <3>5. CASE pkt.samples = 0
      <4>1. Pending(buf') = Ordered!Nothing /\ buf'.first_seqnum = s
        BY <1>3, <2>1, <2>2, <3>1, <3>2, <3>4, <3>5, DiscardedPending
      <4> QED
        BY <1>2, <1>3, <4>1
        DEF Ordered!Next, Ordered!Restart, Ordered!SeqNum, SeqNum
    <3>6. CASE pkt.samples # 0
      <4>1. buf' = Stored(r, s, pkt)
        BY <2>2, <3>4, <3>6
      <4>2. buf'.first_seqnum = s
        BY <2>1, <3>1, <4>1 DEF Stored, SoundBuffer, RaopBufferType
      <4>3. Pending(buf') = [t \in {s} |-> pkt.audio]
        <5>1. Pending(buf') = Added(r, s, pkt.audio)
          BY <1>3, <2>1, <3>4, <4>1, StoredPending
        <5> QED
          BY <3>3, <5>1 DEF Added
      <4> QED
        BY <1>2, <1>3, <1>4, <4>2, <4>3
        DEF Ordered!Next, Ordered!Restart, Ordered!SeqNum, SeqNum
    <3> QED
      BY <3>5, <3>6
  <2>4. CASE ~IsFarAhead(buf, s)
    <3>1. r = buf
      BY <2>4 DEF Resynced
    <3> HIDE DEF r
    <3>2. CASE IsBuffered(r, s)
      BY <1>2, <2>2, <3>1, <3>2 DEF Ordered!vars
    <3>3. CASE ~IsBuffered(r, s) /\ pkt.samples = 0
      <4>1. Pending(buf') = Pending(buf)
            /\ buf'.first_seqnum = buf.first_seqnum
        BY <1>3, <2>1, <2>2, <3>1, <3>3, DiscardedPending
      <4> QED
        BY <1>2, <4>1 DEF Ordered!vars
    <3>4. CASE ~IsBuffered(r, s) /\ pkt.samples # 0
      <4>1. buf' = Stored(buf, s, pkt)
        BY <2>2, <3>1, <3>4
      <4>2. Pending(buf') = Added(buf, s, pkt.audio)
        BY <1>2, <1>3, <2>1, <3>1, <3>4, <4>1, StoredPending
      <4>3. buf'.first_seqnum = IF buf.is_empty THEN s ELSE buf.first_seqnum
        BY <1>2, <4>1 DEF Stored, RaopBufferType
      <4>4. CASE buf.is_empty
        <5>1. Waiting(buf) = {}
          BY <1>2, <4>4, EmptyPending
        <5>2. Pending(buf') = [t \in {s} |-> pkt.audio]
          BY <4>2, <5>1 DEF Added
        <5> QED
          BY <1>2, <1>3, <1>4, <4>3, <4>4, <5>2
          DEF Ordered!Next, Ordered!Restart, Ordered!SeqNum, SeqNum
      <4>5. CASE ~buf.is_empty
        <5>1. DOMAIN Pending(buf) = Waiting(buf) /\ s \notin Waiting(buf)
          BY <3>1, <3>4 DEF Pending, Waiting
        <5>2. Ordered!Distance(buf.first_seqnum, s) < BufLen
          BY <1>2, <1>3, <2>1, <3>1, <4>5
          DEF Ordered!Distance, WrapSub, RaopBufferType, SeqNum
        <5>3. buf'.first_seqnum = buf.first_seqnum
          BY <4>3, <4>5
        <5>4. Ordered!Accept
          BY <1>2, <1>3, <1>4, <4>2, <5>1, <5>2, <5>3
          DEF Ordered!Accept, Ordered!SeqNum, SeqNum, Added
        <5> QED
          BY <5>4 DEF Ordered!Next
      <4> QED
        BY <4>4, <4>5
    <3> QED
      BY <3>2, <3>3, <3>4
  <2> QED
    BY <2>3, <2>4
<1> QED
  BY <1>5, <1>6

\* Every successful dequeue delivers the next packet or conceals its loss.
LEMMA DequeueStep ==
    ASSUME Inv, Dequeue
    PROVE  Ordered!Next
<1> DEFINE f == buf.first_seqnum
           l == buf.last_seqnum
<1>1. PICK no_resend \in BOOLEAN : CanDequeue(buf, no_resend)
  BY DEF Dequeue
<1>2. SoundBuffer(buf) /\ buf \in RaopBufferType /\ f \in SeqNum
      /\ l \in SeqNum /\ SlotOf(f) \in Slots
      /\ buf.entries \in [Slots -> Entry]
  BY SlotRange DEF Inv, SoundBuffer, RaopBufferType
<1>3. buf'.entries = [buf.entries EXCEPT ![SlotOf(f)] = NoEntry]
      /\ buf'.first_seqnum = WrapAdd(f, 1)
      /\ out' = DequeuedFrame(buf)
  BY <1>2 DEF Dequeue, dequeue, RaopBufferType
<1>4. WrapAdd(f, 1) = (f + 1) % SeqMod
  BY <1>2, BufferAssumption DEF WrapAdd, SeqNum
<1>5. \A t \in SeqNum : IsBuffered(buf', t) <=> IsBuffered(buf, t) /\ t # f
  <2>1. SUFFICES ASSUME NEW t \in SeqNum
                 PROVE  IsBuffered(buf', t) <=> IsBuffered(buf, t) /\ t # f
    OBVIOUS
  <2>2. CASE SlotOf(t) # SlotOf(f)
    BY <1>2, <1>3, <2>2, SlotRange DEF IsBuffered
  <2>3. CASE SlotOf(t) = SlotOf(f)
    <3>1. ~IsBuffered(buf', t)
      BY <1>2, <1>3, <2>3 DEF IsBuffered, NoEntry
    <3>2. IsBuffered(buf, t) => t = f
      <4> SUFFICES ASSUME IsBuffered(buf, t)
                   PROVE  t = f
        OBVIOUS
      <4>1. WrapSub(t, f) < buflen(buf)
        BY <1>2, SlotRange DEF IsBuffered, SoundBuffer, HoldsWindow
      <4>2. WrapSub(t, f) \in SeqNum
        BY <1>2, WrapType
      <4>3. WrapSub(t, f) < BufLen /\ WrapSub(f, f) < BufLen
        BY <1>2, <4>1, <4>2, BufferAssumption
        DEF SoundBuffer, FitsRing, SeqNum, WrapSub
      <4> QED
        BY <1>2, <2>3, <4>3, SlotInjective
    <3> QED
      BY <3>1, <3>2
  <2> QED
    BY <2>2, <2>3
<1>6. \A t \in Waiting(buf') : buf'.entries[SlotOf(t)] = buf.entries[SlotOf(t)]
  <2> SUFFICES ASSUME NEW t \in SeqNum, IsBuffered(buf', t)
               PROVE  buf'.entries[SlotOf(t)] = buf.entries[SlotOf(t)]
    BY DEF Waiting
  <2>1. SlotOf(t) # SlotOf(f)
    BY <1>2, <1>3 DEF IsBuffered, NoEntry
  <2> QED
    BY <1>2, <1>3, <2>1, SlotRange
<1>7. DOMAIN Pending(buf) = Waiting(buf)
  BY DEF Pending, Waiting
<1>8. Pending(buf') = [t \in Waiting(buf) \ {f} |-> Pending(buf)[t]]
  <2>1. Waiting(buf') = Waiting(buf) \ {f}
    BY <1>5 DEF Waiting
  <2>2. \A t \in Waiting(buf') :
            buf'.entries[SlotOf(t)].audio = Pending(buf)[t]
    BY <1>6, <2>1 DEF Pending, Waiting
  <2> QED
    BY <2>1, <2>2 DEF Pending, Waiting
<1>9. CASE IsBuffered(buf, f)
  <2>1. f \in Waiting(buf) /\ Pending(buf)[f] = buf.entries[SlotOf(f)].audio
    BY <1>2, <1>9 DEF Waiting, Pending
  <2>2. out'.audio = Pending(buf)[f]
    BY <1>3, <1>9, <2>1 DEF DequeuedFrame, NextEntry, IsBuffered
  <2>3. Ordered!Deliver
    BY <1>3, <1>4, <1>7, <1>8, <2>1, <2>2 DEF Ordered!Deliver, Ordered!Restrict
  <2> QED
    BY <2>3 DEF Ordered!Next
<1>10. CASE ~IsBuffered(buf, f)
  <2>1. ~NextEntry(buf).available
    BY <1>2, <1>10, DiscardedSound, BufferAssumption
    DEF NextEntry, WrapSub, SeqNum
  <2>2. out'.audio = Silence
    BY <1>3, <2>1 DEF DequeuedFrame
  <2>3. l \in Waiting(buf)
    BY <1>1, <1>2 DEF SoundBuffer, EndsInAudio, CanDequeue, IsBuffered, Waiting
  <2>4. f \notin Waiting(buf)
    BY <1>10 DEF Waiting
  <2>5. Pending(buf') = Pending(buf)
    BY <1>8, <2>4 DEF Pending, Waiting
  <2>6. Ordered!Conceal
    BY <1>3, <1>4, <1>7, <2>2, <2>3, <2>4, <2>5 DEF Ordered!Conceal
  <2> QED
    BY <2>6 DEF Ordered!Next
<1> QED
  BY <1>9, <1>10

\* Every flush restarts playout with nothing waiting.
LEMMA FlushStep ==
    ASSUME Inv, Flush
    PROVE  Ordered!Next
<1>1. PICK n \in FlushArgs : buf' = flush(buf, n)
  BY DEF Flush
<1>2. buf \in RaopBufferType /\ n \in Int /\ out' = out
  BY FlushArgsAssumption DEF Inv, SoundBuffer, Flush
<1>3. Pending(buf') = Ordered!Nothing
  BY <1>1, <1>2, FlushPending
<1>4. buf'.first_seqnum \in SeqNum
  BY <1>1, <1>2 DEF flush, RaopBufferType
<1> QED
  BY <1>2, <1>3, <1>4
  DEF Ordered!Next, Ordered!Restart, Ordered!SeqNum, SeqNum

\* The ring of slots implements ordered playout: no accepted packet is lost,
\* overwritten, repeated or reordered by queue, dequeue and flush.
THEOREM BufferImplementsOrderedPlayout == Spec => ImplementsOrderedPlayout
<1>1. Init => Ordered!Init
  <2> SUFFICES ASSUME Init
               PROVE  Ordered!Init
    OBVIOUS
  <2>1. PICK codec \in Codecs : buf = build(codec)
    BY DEF Init
  <2>2. buf.entries = [i \in Slots |-> NoEntry] /\ buf.first_seqnum = 0
    BY <2>1 DEF build
  <2>3. \A t \in SeqNum : ~IsBuffered(buf, t)
    BY <2>2, SlotRange DEF IsBuffered, NoEntry
  <2>4. Pending(buf) = Ordered!Nothing
    BY <2>3 DEF Pending, Ordered!Nothing
  <2> QED
    BY <2>2, <2>4 DEF Init, Ordered!Init
<1>2. Inv /\ [Next]_vars => [Ordered!Next]_(Ordered!vars)
  <2> SUFFICES ASSUME Inv, [Next]_vars
               PROVE  Ordered!Next \/ UNCHANGED Ordered!vars
    OBVIOUS
  <2>1. CASE UNCHANGED vars
    BY <2>1 DEF vars, Ordered!vars
  <2> QED
    BY <2>1, QueueStep, DequeueStep, FlushStep DEF Next
<1> QED
  BY <1>1, <1>2, InitInv, NextInv, PTL
  DEF Spec, ImplementsOrderedPlayout, Ordered!Spec
=============================================================================
