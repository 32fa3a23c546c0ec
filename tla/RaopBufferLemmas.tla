-------------------------- MODULE RaopBufferLemmas --------------------------
(***************************************************************************)
(* Lemmas about the operations of the packet buffer, for every ring length *)
(* and every sequence space that BufferAssumption allows: the real 32 and  *)
(* 2^16 included.                                                          *)
(***************************************************************************)
EXTENDS RaopBufferOps, TLAPS

-----------------------------------------------------------------------------
(* Modular arithmetic *)

\* A multiple of b strictly between -b and b is zero.
LEMMA SmallMultiple ==
    ASSUME NEW b \in Nat \ {0}, NEW m \in Int, -b < b * m, b * m < b
    PROVE  m = 0
<1>1. CASE m >= 1
  <2>1. b * m >= b
    BY <1>1
  <2> QED
    BY <2>1
<1>2. CASE m <= -1
  <2>1. b * m <= -b
    BY <1>2
  <2> QED
    BY <2>1
<1> QED
  BY <1>1, <1>2

\* Slot indices are in range, and equal ones come from numbers that differ by
\* a multiple of the ring length.
LEMMA SlotRange == \A s \in SeqNum : SlotOf(s) \in Slots
  BY BufferAssumption DEF SeqNum, SlotOf, Slots

LEMMA SlotDifference ==
    ASSUME NEW s \in SeqNum, NEW t \in SeqNum, SlotOf(s) = SlotOf(t)
    PROVE  \E m \in Int : s - t = BufLen * m
<1>1. s = BufLen * (s \div BufLen) + SlotOf(s)
  BY BufferAssumption DEF SeqNum, SlotOf
<1>2. t = BufLen * (t \div BufLen) + SlotOf(t)
  BY BufferAssumption DEF SeqNum, SlotOf
<1> DEFINE m == (s \div BufLen) - (t \div BufLen)
<1>3. m \in Int
  BY BufferAssumption DEF SeqNum
<1>4. s - t = BufLen * m
  BY <1>1, <1>2, BufferAssumption DEF SeqNum, SlotOf
<1> QED
  BY <1>3, <1>4

\* Numbers of one window of BufLen numbers never share a slot.
LEMMA SlotInjective ==
    ASSUME NEW f \in SeqNum, NEW s \in SeqNum, NEW t \in SeqNum,
           WrapSub(s, f) < BufLen, WrapSub(t, f) < BufLen,
           SlotOf(s) = SlotOf(t)
    PROVE  s = t
<1>1. PICK m \in Int : s - t = BufLen * m
  BY SlotDifference
<1>2. PICK k \in Int : SeqMod = BufLen * k
  BY BufferAssumption
<1>3. CASE -BufLen < s - t /\ s - t < BufLen
  <2>1. m = 0
    BY <1>1, <1>3, SmallMultiple, BufferAssumption
  <2> QED
    BY <1>1, <2>1, BufferAssumption DEF SeqNum
<1>4. CASE s - t >= BufLen
  <2>1. -BufLen < s - t - SeqMod /\ s - t - SeqMod < BufLen
    BY <1>4, BufferAssumption DEF SeqNum, WrapSub
  <2>2. s - t - SeqMod = BufLen * (m - k)
    BY <1>1, <1>2, BufferAssumption DEF SeqNum
  <2>3. m - k = 0
    BY <2>1, <2>2, SmallMultiple, BufferAssumption
  <2>4. s - t = SeqMod
    BY <2>2, <2>3, BufferAssumption DEF SeqNum
  <2> QED
    BY <2>4, BufferAssumption DEF SeqNum
<1>5. CASE s - t <= -BufLen
  <2>1. -BufLen < s - t + SeqMod /\ s - t + SeqMod < BufLen
    BY <1>5, BufferAssumption DEF SeqNum, WrapSub
  <2>2. s - t + SeqMod = BufLen * (m + k)
    BY <1>1, <1>2, BufferAssumption DEF SeqNum
  <2>3. m + k = 0
    BY <2>1, <2>2, SmallMultiple, BufferAssumption
  <2>4. t - s = SeqMod
    BY <2>2, <2>3, BufferAssumption DEF SeqNum
  <2> QED
    BY <2>4, BufferAssumption DEF SeqNum
<1> QED
  BY <1>3, <1>4, <1>5, BufferAssumption DEF SeqNum

\* Wrapping arithmetic stays in the sequence space.
LEMMA WrapType ==
    ASSUME NEW s \in SeqNum, NEW k \in SeqNum
    PROVE  /\ WrapAdd(s, k) \in SeqNum
           /\ WrapSub(s, k) \in SeqNum
           /\ seqnum_cmp(s, k) \in Int
  BY BufferAssumption DEF SeqNum, WrapAdd, WrapSub, seqnum_cmp

LEMMA SeqNumInt == \A s \in SeqNum : s \in Int
  BY DEF SeqNum

LEMMA SmallSeqNums == 0 \in SeqNum /\ 1 \in SeqNum /\ BufLen \in SeqNum
  BY BufferAssumption DEF SeqNum

\* The window length is the wrapped distance from first to last, plus one.
LEMMA WindowLength ==
    ASSUME NEW f \in SeqNum, NEW l \in SeqNum,
           seqnum_cmp(l, f) + 1 \in 0 .. BufLen
    PROVE  \/ seqnum_cmp(l, f) + 1 = 0 /\ WrapSub(l, f) = SeqMod - 1
           \/ seqnum_cmp(l, f) + 1 > 0 /\ WrapSub(l, f) = seqnum_cmp(l, f)
  BY BufferAssumption DEF SeqNum, WrapSub, seqnum_cmp

\* A number that is neither before the window nor far ahead has a slot.
LEMMA NearNumber ==
    ASSUME NEW f \in SeqNum, NEW s \in SeqNum,
           seqnum_cmp(s, f) >= 0, ~(seqnum_cmp(s, WrapAdd(f, BufLen)) >= 0)
    PROVE  WrapSub(s, f) < BufLen
  BY BufferAssumption DEF SeqNum, WrapAdd, WrapSub, seqnum_cmp

\* Moving last to a later number of the window's slots lengthens the window
\* just enough to take the number in.
LEMMA GrowWindow ==
    ASSUME NEW f \in SeqNum, NEW l \in SeqNum, NEW s \in SeqNum,
           seqnum_cmp(l, f) + 1 \in 0 .. BufLen, WrapSub(s, f) < BufLen,
           NEW n, n = IF seqnum_cmp(s, l) > 0 THEN s ELSE l
    PROVE  /\ seqnum_cmp(n, f) + 1 \in 0 .. BufLen
           /\ seqnum_cmp(n, f) + 1 >= seqnum_cmp(l, f) + 1
           /\ seqnum_cmp(n, f) + 1 > WrapSub(s, f)
           /\ \/ n = s
              \/ n = l /\ WrapSub(l, f) < BufLen /\ seqnum_cmp(l, f) + 1 > 0
  BY BufferAssumption DEF SeqNum, WrapSub, seqnum_cmp

-----------------------------------------------------------------------------
(* Every operation keeps the buffer sound *)

\* A new buffer is sound.
LEMMA BuildSound ==
    ASSUME NEW codec \in Codecs
    PROVE  SoundBuffer(build(codec))
<1> DEFINE b == build(codec)
<1>1. NoEntry \in Entry
  BY SmallSeqNums, FrameAssumption DEF NoEntry, Entry
<1>2. b \in RaopBufferType
  BY <1>1, SmallSeqNums, FrameAssumption DEF build, RaopBufferType
<1>3. buflen(b) = 1
  BY BufferAssumption DEF build, buflen, seqnum_cmp, WrapSub
<1>4. FitsRing(b)
  BY <1>3, BufferAssumption DEF FitsRing
<1>5. HoldsWindow(b)
  BY DEF HoldsWindow, build, NoEntry
<1>6. EndsInAudio(b) /\ SilenceSized(b)
  BY DEF EndsInAudio, SilenceSized, build
<1> QED
  BY <1>2, <1>4, <1>5, <1>6 DEF SoundBuffer

\* Updates of the buffer's fields within their types.
LEMMA ReplaceEntries ==
    ASSUME NEW b \in RaopBufferType, NEW E \in [Slots -> Entry],
           NEW f \in SeqNum
    PROVE  [b EXCEPT !.entries = E, !.first_seqnum = f] \in RaopBufferType
  BY DEF RaopBufferType

LEMMA ReplaceAll ==
    ASSUME NEW b \in RaopBufferType, NEW E \in [Slots -> Entry],
           NEW f \in SeqNum, NEW l \in SeqNum
    PROVE  [b EXCEPT !.entries = E, !.first_seqnum = f, !.last_seqnum = l]
               \in RaopBufferType
  BY DEF RaopBufferType

\* flush keeps the buffer sound, for valid and invalid arguments.
LEMMA FlushSound ==
    ASSUME NEW b, SoundBuffer(b), NEW n \in Int
    PROVE  SoundBuffer(flush(b, n))
<1> DEFINE r == flush(b, n)
<1>0. b \in RaopBufferType /\ FitsRing(b) /\ SilenceSized(b)
  BY DEF SoundBuffer
<1>1. NoEntry \in Entry
  BY SmallSeqNums, FrameAssumption DEF NoEntry, Entry
<1>2. r.entries = [i \in Slots |-> NoEntry]
  BY <1>0 DEF flush, RaopBufferType
<1>3. HoldsWindow(r)
  BY <1>2 DEF HoldsWindow, NoEntry
<1>4. CASE n \in SeqNum
  <2>1. WrapSub(n, 1) \in SeqNum
    BY <1>4, SmallSeqNums, WrapType
  <2>2. r = [b EXCEPT !.entries = [i \in Slots |-> NoEntry],
                      !.first_seqnum = n, !.last_seqnum = WrapSub(n, 1)]
    BY <1>4 DEF flush
  <2>3. r \in RaopBufferType
    <3> DEFINE E == [i \in Slots |-> NoEntry]
    <3>1. E \in [Slots -> Entry]
      BY <1>1
    <3>2. r = [b EXCEPT !.entries = E, !.first_seqnum = n,
                        !.last_seqnum = WrapSub(n, 1)]
      BY <2>2
    <3> HIDE DEF E, r
    <3> QED
      BY <1>0, <1>4, <2>1, <3>1, <3>2, ReplaceAll
  <2>4. r.first_seqnum = n /\ r.last_seqnum = WrapSub(n, 1)
    BY <1>0, <2>2 DEF RaopBufferType
  <2>5. buflen(r) = 0
    BY <1>4, <2>4, BufferAssumption
    DEF buflen, seqnum_cmp, WrapSub, SeqNum
  <2>6. SilenceSized(r)
    BY <1>0, <2>2 DEF SilenceSized, RaopBufferType
  <2> QED
    BY <1>3, <2>3, <2>5, <2>6, BufferAssumption
    DEF SoundBuffer, FitsRing, EndsInAudio
<1>5. CASE n \notin SeqNum
  <2>1. r = [b EXCEPT !.entries = [i \in Slots |-> NoEntry],
                      !.is_empty = TRUE]
    BY <1>5 DEF flush
  <2>2. r \in RaopBufferType
    BY <1>0, <1>1, <2>1 DEF RaopBufferType
  <2>3. r.is_empty /\ buflen(r) = buflen(b)
    BY <1>0, <2>1 DEF buflen, RaopBufferType
  <2> QED
    BY <1>0, <1>3, <2>2, <2>3
    DEF SoundBuffer, FitsRing, EndsInAudio, SilenceSized
<1> QED
  BY <1>4, <1>5

\* A decoded packet whose number has a free place in the window is stored
\* without touching any other number of the window.
LEMMA StoredSound ==
    ASSUME NEW b, SoundBuffer(b), NEW s \in SeqNum, NEW pkt \in Packet,
           pkt.samples # 0,
           b.is_empty \/ WrapSub(s, b.first_seqnum) < BufLen
    PROVE  SoundBuffer(Stored(b, s, pkt))
<1> DEFINE r == Stored(b, s, pkt)
           e == [available |-> TRUE, seqnum |-> s,
                 audio |-> pkt.audio, len |-> pkt.samples]
           last == IF b.is_empty THEN s ELSE b.last_seqnum
<1>0. b \in RaopBufferType /\ FitsRing(b) /\ HoldsWindow(b)
      /\ EndsInAudio(b) /\ SilenceSized(b)
  BY DEF SoundBuffer
<1>1. pkt.samples \in FrameSizes /\ pkt.samples \in 1 .. Capacity
      /\ pkt.audio \in Payloads
  BY FrameAssumption DEF Packet
<1>2. e \in Entry
  BY <1>1, FrameAssumption DEF Entry
<1>3. SlotOf(s) \in Slots /\ b.entries \in [Slots -> Entry]
  BY <1>0, SlotRange DEF RaopBufferType
<1>4. r.entries = [b.entries EXCEPT ![SlotOf(s)] = e]
  BY <1>0 DEF Stored, RaopBufferType
<1>5. ~r.is_empty /\ r.codec = b.codec
      /\ r.first_seqnum = (IF b.is_empty THEN s ELSE b.first_seqnum)
      /\ r.last_seqnum = (IF seqnum_cmp(s, last) > 0 THEN s ELSE last)
      /\ r.silence_samples = (IF b.codec = "pcm" THEN pkt.samples
                                                 ELSE b.silence_samples)
  BY <1>0 DEF Stored, RaopBufferType
<1>6. r \in RaopBufferType
  <2>1. [b.entries EXCEPT ![SlotOf(s)] = e] \in [Slots -> Entry]
    BY <1>2, <1>3
  <2>2. last \in SeqNum
    BY <1>0 DEF RaopBufferType
  <2>3. r.first_seqnum \in SeqNum /\ r.last_seqnum \in SeqNum
        /\ r.silence_samples \in Nat
    BY <1>0, <1>1, <1>5, <2>2 DEF RaopBufferType
  <2>4. r.entries \in [Slots -> Entry]
    BY <1>4, <2>1
  <2>5. r = [b EXCEPT !.entries = r.entries,
                      !.silence_samples = r.silence_samples,
                      !.is_empty = FALSE,
                      !.first_seqnum = r.first_seqnum,
                      !.last_seqnum = r.last_seqnum]
    BY <1>0, <1>4, <1>5 DEF Stored, RaopBufferType
  <2> QED
    BY <1>0, <2>3, <2>4, <2>5 DEF RaopBufferType
<1>7. SilenceSized(r)
  BY <1>1, <1>5 DEF SilenceSized
<1>8. \A i \in Slots : r.entries[i] = IF i = SlotOf(s) THEN e ELSE b.entries[i]
  BY <1>3, <1>4
<1>9. CASE b.is_empty
  <2>1. r.first_seqnum = s /\ r.last_seqnum = s /\ buflen(r) = 1
    BY <1>5, <1>9, BufferAssumption
    DEF buflen, seqnum_cmp, WrapSub, SeqNum
  <2>2. \A i \in Slots : ~b.entries[i].available
    BY <1>0, <1>9 DEF HoldsWindow
  <2>3. WrapSub(s, s) = 0
    BY DEF WrapSub, SeqNum
  <2>4. HoldsWindow(r)
    BY <1>5, <1>8, <2>1, <2>2, <2>3 DEF HoldsWindow
  <2>5. EndsInAudio(r)
    BY <1>3, <1>8, <2>1 DEF EndsInAudio
  <2> QED
    BY <1>6, <1>7, <2>1, <2>4, <2>5, BufferAssumption
    DEF SoundBuffer, FitsRing
<1>10. CASE ~b.is_empty
  <2> DEFINE f == b.first_seqnum
             l == b.last_seqnum
             d == WrapSub(s, f)
  <2>1. f \in SeqNum /\ l \in SeqNum /\ d < BufLen /\ d \in SeqNum
    BY <1>0, <1>10, WrapType DEF RaopBufferType
  <2>2. r.first_seqnum = f
        /\ r.last_seqnum = (IF seqnum_cmp(s, l) > 0 THEN s ELSE l)
    BY <1>5, <1>10
  <2>3. /\ buflen(r) \in 0 .. BufLen
        /\ buflen(r) >= buflen(b)
        /\ buflen(r) > d
        /\ \/ r.last_seqnum = s
           \/ r.last_seqnum = l /\ WrapSub(l, f) < BufLen /\ buflen(b) > 0
    BY <1>0, <2>1, <2>2, GrowWindow DEF FitsRing, buflen
  <2>4. HoldsWindow(r)
    <3> SUFFICES ASSUME NEW i \in Slots, r.entries[i].available
                 PROVE  SlotOf(r.entries[i].seqnum) = i
                        /\ WrapSub(r.entries[i].seqnum, f) < buflen(r)
      BY <1>5, <2>2 DEF HoldsWindow
    <3>1. CASE i = SlotOf(s)
      BY <1>8, <2>3, <3>1
    <3>2. CASE i # SlotOf(s)
      <4>1. r.entries[i] = b.entries[i]
        BY <1>8, <3>2
      <4>2. SlotOf(b.entries[i].seqnum) = i
            /\ WrapSub(b.entries[i].seqnum, f) < buflen(b)
        BY <1>0, <4>1 DEF HoldsWindow
      <4>3. b.entries[i].seqnum \in SeqNum
        BY <1>3 DEF Entry
      <4>4. WrapSub(b.entries[i].seqnum, f) \in SeqNum
        BY <2>1, <4>3, WrapType
      <4>5. WrapSub(b.entries[i].seqnum, f) \in Int
        BY <4>4, SeqNumInt
      <4>6. buflen(b) \in Int /\ buflen(r) \in Int
        BY <1>0, <2>3 DEF FitsRing
      <4> QED
        BY <2>3, <4>1, <4>2, <4>5, <4>6
    <3> QED
      BY <3>1, <3>2
  <2>5. EndsInAudio(r)
    <3>1. CASE r.last_seqnum = s
      BY <1>3, <1>8, <3>1 DEF EndsInAudio
    <3>2. CASE r.last_seqnum # s
      <4>1. r.last_seqnum = l /\ WrapSub(l, f) < BufLen /\ buflen(b) > 0
        BY <2>3, <3>2
      <4>2. SlotOf(l) # SlotOf(s)
        BY <2>1, <3>2, <4>1, SlotInjective
      <4>3. b.entries[SlotOf(l)].available /\ b.entries[SlotOf(l)].seqnum = l
        BY <1>0, <1>10, <4>1 DEF EndsInAudio
      <4>4. SlotOf(l) \in Slots
        BY <2>1, SlotRange
      <4> QED
        BY <1>8, <4>1, <4>2, <4>3, <4>4 DEF EndsInAudio
    <3> QED
      BY <3>1, <3>2
  <2> QED
    BY <1>6, <1>7, <2>3, <2>4, <2>5 DEF SoundBuffer, FitsRing
<1> QED
  BY <1>9, <1>10

\* A packet that does not decode clears a slot no waiting packet occupies.
LEMMA DiscardedSound ==
    ASSUME NEW b, SoundBuffer(b), NEW s \in SeqNum, ~IsBuffered(b, s),
           b.is_empty \/ WrapSub(s, b.first_seqnum) < BufLen
    PROVE  /\ SoundBuffer(Discarded(b, s))
           /\ ~b.entries[SlotOf(s)].available
<1> DEFINE r == Discarded(b, s)
<1>0. b \in RaopBufferType /\ FitsRing(b) /\ HoldsWindow(b)
      /\ EndsInAudio(b) /\ SilenceSized(b)
  BY DEF SoundBuffer
<1>1. NoEntry \in Entry /\ ~NoEntry.available
  BY SmallSeqNums, FrameAssumption DEF NoEntry, Entry
<1>2. SlotOf(s) \in Slots /\ b.entries \in [Slots -> Entry]
      /\ b.first_seqnum \in SeqNum
  BY <1>0, SlotRange DEF RaopBufferType
<1>3. ~b.entries[SlotOf(s)].available
  <2> SUFFICES ASSUME b.entries[SlotOf(s)].available
               PROVE  FALSE
    OBVIOUS
  <2> DEFINE t == b.entries[SlotOf(s)].seqnum
  <2>1. ~b.is_empty /\ SlotOf(t) = SlotOf(s)
        /\ WrapSub(t, b.first_seqnum) < buflen(b)
    BY <1>0, <1>2 DEF HoldsWindow
  <2>2. t \in SeqNum /\ WrapSub(t, b.first_seqnum) \in Int
    <3>1. t \in SeqNum
      BY <1>2 DEF Entry
    <3>2. WrapSub(t, b.first_seqnum) \in SeqNum
      BY <1>2, <3>1, WrapType
    <3> QED
      BY <3>1, <3>2, BufferAssumption DEF SeqNum
  <2>3. WrapSub(t, b.first_seqnum) < BufLen
    BY <1>0, <2>1, <2>2, BufferAssumption DEF FitsRing
  <2>4. t = s
    BY <1>2, <2>1, <2>2, <2>3, SlotInjective
  <2> QED
    BY <2>4 DEF IsBuffered
<1>4. r = [b EXCEPT !.entries = [b.entries EXCEPT ![SlotOf(s)] = NoEntry]]
  BY DEF Discarded
<1>5. r \in RaopBufferType
  BY <1>0, <1>1, <1>2, <1>4 DEF RaopBufferType
<1>6. r.is_empty = b.is_empty /\ r.first_seqnum = b.first_seqnum
      /\ r.last_seqnum = b.last_seqnum /\ r.codec = b.codec
      /\ r.silence_samples = b.silence_samples
      /\ \A i \in Slots : r.entries[i] = IF i = SlotOf(s) THEN NoEntry
                                                          ELSE b.entries[i]
  BY <1>0, <1>2, <1>4 DEF RaopBufferType
<1>7. buflen(r) = buflen(b)
  BY <1>6 DEF buflen
<1>8. HoldsWindow(r)
  BY <1>0, <1>1, <1>6, <1>7 DEF HoldsWindow
<1>9. SlotOf(b.last_seqnum) \in Slots
  BY <1>0, SlotRange DEF RaopBufferType
<1>10. EndsInAudio(r)
  BY <1>0, <1>3, <1>6, <1>7, <1>9 DEF EndsInAudio
<1> QED
  BY <1>0, <1>3, <1>5, <1>6, <1>7, <1>8, <1>10
  DEF SoundBuffer, FitsRing, SilenceSized

\* After the stale check and the resynchronisation, a number has a slot.
LEMMA ResyncedSound ==
    ASSUME NEW b, SoundBuffer(b), NEW s \in SeqNum, ~IsStale(b, s)
    PROVE  /\ SoundBuffer(Resynced(b, s))
           /\ \/ Resynced(b, s).is_empty
              \/ WrapSub(s, Resynced(b, s).first_seqnum) < BufLen
<1>0. b \in RaopBufferType /\ b.first_seqnum \in SeqNum
      /\ b.is_empty \in BOOLEAN
  BY DEF SoundBuffer, RaopBufferType
<1>1. CASE IsFarAhead(b, s)
  <2>1. Resynced(b, s) = flush(b, s)
    BY <1>1 DEF Resynced
  <2>2. SoundBuffer(flush(b, s))
    BY FlushSound DEF SeqNum
  <2>3. flush(b, s).first_seqnum = s
    BY <1>0 DEF flush, RaopBufferType
  <2>4. WrapSub(s, s) < BufLen
    BY BufferAssumption DEF WrapSub, SeqNum
  <2> QED
    BY <2>1, <2>2, <2>3, <2>4
<1>2. CASE ~IsFarAhead(b, s)
  <2>1. Resynced(b, s) = b
    BY <1>2 DEF Resynced
  <2>2. CASE ~b.is_empty
    <3>1. seqnum_cmp(s, b.first_seqnum) >= 0
      BY <1>0, <2>2, WrapType DEF IsStale
    <3> QED
      BY <1>0, <1>2, <2>1, <3>1, NearNumber DEF IsFarAhead
  <2> QED
    BY <2>1, <2>2
<1> QED
  BY <1>1, <1>2

LEMMA QueueSeqType ==
    ASSUME NEW b \in RaopBufferType, NEW pkt \in Packet, NEW u \in BOOLEAN
    PROVE  QueueSeq(b, pkt, u) \in SeqNum
  BY SmallSeqNums, WrapType DEF QueueSeq, RaopBufferType, Packet

\* queue keeps the buffer sound, whatever the packet.
LEMMA QueueSound ==
    ASSUME NEW b, SoundBuffer(b), NEW pkt \in Packet, NEW u \in BOOLEAN
    PROVE  SoundBuffer(queue(b, pkt, u))
<1> DEFINE s == QueueSeq(b, pkt, u)
           r == Resynced(b, s)
<1>1. s \in SeqNum
  BY QueueSeqType DEF SoundBuffer
<1> HIDE DEF s
<1>2. CASE ~pkt.sized \/ IsStale(b, s)
  BY <1>2 DEF queue, s
<1>3. CASE ~(~pkt.sized \/ IsStale(b, s))
  <2>1. SoundBuffer(r) /\ (r.is_empty \/ WrapSub(s, r.first_seqnum) < BufLen)
    BY <1>1, <1>3, ResyncedSound
  <2> HIDE DEF r
  <2>2. queue(b, pkt, u) = IF IsBuffered(r, s) THEN r
                           ELSE IF pkt.samples = 0 THEN Discarded(r, s)
                           ELSE Stored(r, s, pkt)
    BY <1>3 DEF queue, s, r
  <2>3. CASE IsBuffered(r, s)
    BY <2>1, <2>2, <2>3
  <2>4. CASE ~IsBuffered(r, s) /\ pkt.samples = 0
    BY <1>1, <2>1, <2>2, <2>4, DiscardedSound
  <2>5. CASE ~IsBuffered(r, s) /\ pkt.samples # 0
    BY <1>1, <2>1, <2>2, <2>5, StoredSound
  <2> QED
    BY <2>3, <2>4, <2>5
<1> QED
  BY <1>2, <1>3

\* The next number is one step closer to every later number of the window.
LEMMA ShrinkWindow ==
    ASSUME NEW f \in SeqNum, NEW l \in SeqNum,
           seqnum_cmp(l, f) + 1 \in 1 .. BufLen
    PROVE  /\ WrapAdd(f, 1) \in SeqNum
           /\ seqnum_cmp(l, WrapAdd(f, 1)) = seqnum_cmp(l, f) - 1
           /\ \A t \in SeqNum : t # f =>
                  WrapSub(t, WrapAdd(f, 1)) = WrapSub(t, f) - 1
  BY BufferAssumption DEF SeqNum, WrapAdd, WrapSub, seqnum_cmp

\* dequeue keeps the buffer sound whenever it returns a frame.
LEMMA DequeueSound ==
    ASSUME NEW b, SoundBuffer(b), NEW no_resend \in BOOLEAN,
           CanDequeue(b, no_resend)
    PROVE  SoundBuffer(dequeue(b))
<1> DEFINE r == dequeue(b)
           f == b.first_seqnum
           l == b.last_seqnum
<1>0. b \in RaopBufferType /\ FitsRing(b) /\ HoldsWindow(b)
      /\ EndsInAudio(b) /\ SilenceSized(b)
      /\ ~b.is_empty /\ buflen(b) > 0
  BY DEF SoundBuffer, CanDequeue
<1>1. NoEntry \in Entry /\ ~NoEntry.available
  BY SmallSeqNums, FrameAssumption DEF NoEntry, Entry
<1>2. f \in SeqNum /\ l \in SeqNum /\ SlotOf(f) \in Slots /\ SlotOf(l) \in Slots
      /\ b.entries \in [Slots -> Entry]
  BY <1>0, SlotRange DEF RaopBufferType
<1>3. seqnum_cmp(l, f) + 1 \in 1 .. BufLen
  BY <1>0, BufferAssumption DEF FitsRing, buflen
<1>4. WrapAdd(f, 1) \in SeqNum
      /\ seqnum_cmp(l, WrapAdd(f, 1)) = seqnum_cmp(l, f) - 1
      /\ \A t \in SeqNum : t # f =>
             WrapSub(t, WrapAdd(f, 1)) = WrapSub(t, f) - 1
  BY <1>2, <1>3, ShrinkWindow
<1>5. r = [b EXCEPT !.entries = [b.entries EXCEPT ![SlotOf(f)] = NoEntry],
                    !.first_seqnum = WrapAdd(f, 1)]
  BY DEF dequeue
<1>6. r \in RaopBufferType
  <2> DEFINE E == [b.entries EXCEPT ![SlotOf(f)] = NoEntry]
  <2>1. E \in [Slots -> Entry]
    BY <1>1, <1>2
  <2>2. r = [b EXCEPT !.entries = E, !.first_seqnum = WrapAdd(f, 1)]
    BY <1>5
  <2> HIDE DEF E, r
  <2> QED
    BY <1>0, <1>4, <2>1, <2>2, ReplaceEntries
<1>7. r.is_empty = b.is_empty /\ r.first_seqnum = WrapAdd(f, 1)
      /\ r.last_seqnum = l /\ r.codec = b.codec
      /\ r.silence_samples = b.silence_samples
      /\ \A i \in Slots : r.entries[i] = IF i = SlotOf(f) THEN NoEntry
                                                          ELSE b.entries[i]
  BY <1>0, <1>2, <1>5 DEF RaopBufferType
<1>8. buflen(r) = buflen(b) - 1 /\ buflen(b) \in 1 .. BufLen
  BY <1>2, <1>3, <1>4, <1>7, WrapType DEF buflen
<1>9. FitsRing(r)
  BY <1>8, BufferAssumption DEF FitsRing
<1>10. HoldsWindow(r)
  <2> SUFFICES ASSUME NEW i \in Slots, r.entries[i].available
               PROVE  /\ SlotOf(r.entries[i].seqnum) = i
                      /\ WrapSub(r.entries[i].seqnum, WrapAdd(f, 1))
                            < buflen(r)
    BY <1>0, <1>7 DEF HoldsWindow
  <2>1. i # SlotOf(f) /\ r.entries[i] = b.entries[i]
    BY <1>1, <1>7
  <2> DEFINE t == b.entries[i].seqnum
  <2>2. t \in SeqNum /\ WrapSub(t, f) \in Int
    <3>1. t \in SeqNum
      BY <1>2 DEF Entry
    <3>2. WrapSub(t, f) \in SeqNum
      BY <1>2, <3>1, WrapType
    <3> QED
      BY <3>1, <3>2, BufferAssumption DEF SeqNum
  <2>3. SlotOf(t) = i /\ WrapSub(t, f) < buflen(b)
    BY <1>0, <2>1 DEF HoldsWindow
  <2>4. WrapSub(t, WrapAdd(f, 1)) = WrapSub(t, f) - 1
    BY <1>4, <2>1, <2>2, <2>3
  <2> QED
    BY <1>8, <2>1, <2>2, <2>3, <2>4
<1>11. EndsInAudio(r)
  <2> SUFFICES ASSUME buflen(r) > 0
               PROVE  r.entries[SlotOf(l)].available
                      /\ r.entries[SlotOf(l)].seqnum = l
    BY <1>7 DEF EndsInAudio
  <2>1. WrapSub(l, f) < BufLen /\ WrapSub(f, f) < BufLen /\ l # f
    <3>1. seqnum_cmp(l, f) + 1 > 1
      BY <1>8 DEF buflen
    <3>2. WrapSub(f, f) = 0
      BY <1>2 DEF WrapSub, SeqNum
    <3>3. WrapSub(l, f) = seqnum_cmp(l, f)
      BY <1>2, <1>3, <3>1, WindowLength, WrapType, BufferAssumption
    <3> QED
      BY <1>2, <1>3, <3>1, <3>2, <3>3, WrapType, BufferAssumption
  <2>2. SlotOf(l) # SlotOf(f)
    BY <1>2, <2>1, SlotInjective
  <2> QED
    BY <1>0, <1>2, <1>7, <2>2 DEF EndsInAudio
<1> QED
  BY <1>0, <1>6, <1>7, <1>9, <1>10, <1>11 DEF SoundBuffer, SilenceSized
=============================================================================
