-------------------------- MODULE RtpSessionProofs --------------------------
(***************************************************************************)
(* Receive tasks that share a ring, for any number of tasks, packets and   *)
(* flushes, every ring length and every sequence space.                    *)
(***************************************************************************)
EXTENDS RtpSession, RaopBufferLemmas

-----------------------------------------------------------------------------
(* What the buffer's operators do to what can be played *)

\* A task that skips gaps can play whatever one that waits can play.
LEMMA SkippingPlaysMore ==
    \A b : CanDequeue(b, FALSE) => CanDequeue(b, TRUE)
  BY DEF CanDequeue

LEMMA FlushPlaysNothing ==
    ASSUME NEW b, SoundBuffer(b), NEW n \in Int, NEW r \in BOOLEAN
    PROVE  ~CanDequeue(flush(b, n), r)
<1>0. b \in RaopBufferType
  BY DEF SoundBuffer
<1>1. CASE n \in SeqNum
  <2>1. flush(b, n).first_seqnum = n /\ flush(b, n).last_seqnum = WrapSub(n, 1)
    BY <1>0, <1>1 DEF flush, RaopBufferType
  <2>2. seqnum_cmp(WrapSub(n, 1), n) = -1
    BY <1>1, BufferAssumption DEF SeqNum, WrapSub, seqnum_cmp
  <2> QED
    BY <2>1, <2>2 DEF CanDequeue, buflen
<1>2. CASE n \notin SeqNum
  BY <1>0, <1>2 DEF flush, RaopBufferType, CanDequeue
<1> QED
  BY <1>1, <1>2

\* A sound buffer from which even a skipping task gets nothing holds nothing.
LEMMA NothingAvailable ==
    ASSUME NEW b, SoundBuffer(b), ~CanDequeue(b, TRUE), NEW s \in Slots
    PROVE  ~b.entries[s].available
<1> SUFFICES ASSUME b.entries[s].available
             PROVE  FALSE
  OBVIOUS
<1>1. ~b.is_empty /\ WrapSub(b.entries[s].seqnum, b.first_seqnum) < buflen(b)
  BY DEF SoundBuffer, HoldsWindow
<1>2. /\ b.entries[s].seqnum \in SeqNum
      /\ b.first_seqnum \in SeqNum /\ b.last_seqnum \in SeqNum
  BY DEF SoundBuffer, RaopBufferType, Entry
<1>3. /\ WrapSub(b.entries[s].seqnum, b.first_seqnum) \in SeqNum
      /\ buflen(b) \in Int
  BY <1>2, WrapType DEF buflen
<1>4. buflen(b) > 0
  BY <1>1, <1>3 DEF SeqNum
<1> QED
  BY <1>1, <1>4 DEF CanDequeue

\* queue fills no slot but its packet's, and with nothing but its audio.
LEMMA QueueFills ==
    ASSUME NEW b, SoundBuffer(b), NEW pkt \in Packet, NEW u \in BOOLEAN,
           NEW s \in Slots, queue(b, pkt, u).entries[s].available
    PROVE  \/ b.entries[s].available
           \/ /\ s = SlotOf(QueueSeq(b, pkt, u))
              /\ queue(b, pkt, u).entries[s].audio = pkt.audio
<1> DEFINE n == QueueSeq(b, pkt, u)
           r == Resynced(b, n)
           q == queue(b, pkt, u)
<1>0. b \in RaopBufferType
  BY DEF SoundBuffer
<1>1. n \in SeqNum /\ SlotOf(n) \in Slots
  BY <1>0, QueueSeqType, SlotRange
<1> HIDE DEF n
<1>2. CASE ~pkt.sized \/ IsStale(b, n)
  BY <1>2 DEF queue, n
<1>3. CASE ~(~pkt.sized \/ IsStale(b, n))
  <2>1. q = IF IsBuffered(r, n) THEN r
            ELSE IF pkt.samples = 0 THEN Discarded(r, n)
            ELSE Stored(r, n, pkt)
    BY <1>3 DEF queue, n
  <2>2. r \in RaopBufferType
    BY <1>1, <1>3, ResyncedSound DEF SoundBuffer
  <2>3. r.entries[s].available => b.entries[s].available
    BY <1>0, <1>1 DEF Resynced, flush, RaopBufferType, NoEntry
  <2> HIDE DEF r
  <2>4. q.entries[s].available /\ s # SlotOf(n) => r.entries[s].available
    BY <1>1, <2>1, <2>2 DEF Discarded, Stored, RaopBufferType
  <2>5. s = SlotOf(n) => \/ q = r
                         \/ ~q.entries[s].available
                         \/ q.entries[s].audio = pkt.audio
    <3>1. CASE IsBuffered(r, n)
      BY <2>1, <3>1
    <3>2. CASE ~IsBuffered(r, n) /\ pkt.samples = 0
      BY <1>1, <2>1, <2>2, <3>2 DEF Discarded, RaopBufferType, NoEntry
    <3>3. CASE ~IsBuffered(r, n) /\ pkt.samples # 0
      BY <1>1, <2>1, <2>2, <3>3 DEF Stored, RaopBufferType
    <3> QED
      BY <3>1, <3>2, <3>3
  <2> QED
    BY <2>3, <2>4, <2>5 DEF n
<1> QED
  BY <1>2, <1>3

\* dequeue empties the first slot and leaves the others as they are.
LEMMA DequeueEmpties ==
    ASSUME NEW b \in RaopBufferType, NEW s \in Slots,
           dequeue(b).entries[s].available
    PROVE  /\ dequeue(b).entries[s] = b.entries[s]
           /\ s # SlotOf(b.first_seqnum)
<1>1. SlotOf(b.first_seqnum) \in Slots
  BY SlotRange DEF RaopBufferType
<1> QED
  BY <1>1 DEF dequeue, RaopBufferType, NoEntry

-----------------------------------------------------------------------------
(* Types, and the soundness of the shared ring *)

TypeInv == TypeOK /\ SoundBuffer(buf)

LEMMA PacketType ==
    ASSUME NEW p \in Positions
    PROVE  PacketAt(p) \in Packet
<1>1. SeqOf(p) \in SeqNum
  BY SessionAssumption, BufferAssumption DEF SeqOf, SeqNum, Positions
<1> QED
  BY <1>1, SessionAssumption DEF PacketAt, Packet, Positions

LEMMA Sentinels == NO_FLUSH \in Int /\ -1 \in Int /\ NO_FLUSH \notin SeqNum
  BY DEF NO_FLUSH, SeqNum

LEMMA InitType == Init => TypeInv
<1> SUFFICES ASSUME Init
             PROVE  TypeInv
  OBVIOUS
<1>1. SoundBuffer(buf)
  BY BuildSound, SessionAssumption DEF Init
<1>2. flushReq \in Int /\ buf \in RaopBufferType
  BY <1>1, Sentinels DEF Init, SoundBuffer
<1>3. /\ sent \in 0 .. MaxPos /\ starts \in 0 .. MaxStarts
      /\ port \in 0 .. MaxStarts /\ asked \in 0 .. MaxFlushes
  BY SessionAssumption DEF Init
<1>4. /\ pc \in [Tasks -> Labels] /\ no_resend \in [Tasks -> BOOLEAN]
      /\ udp \in [Tasks -> BOOLEAN] /\ signalled \in [Tasks -> BOOLEAN]
      /\ stream \in [Tasks -> SUBSET Positions]
      /\ packet_buf \in [Tasks -> SUBSET Positions]
      /\ heard \in [Tasks -> SUBSET Positions]
  BY DEF Init, Labels
<1>5. open \in BOOLEAN /\ resent \in BOOLEAN
      /\ setters \subseteq (1 .. MaxFlushes) \X Int
  BY DEF Init
<1> QED
  BY <1>1, <1>2, <1>3, <1>4, <1>5 DEF TypeInv, TypeOK

\* What the RTSP side and the detached tasks do leaves the ring alone.
LEMMA RtspType ==
    ASSUME TypeInv,
           Start \/ StartFails \/ FlushRequest \/ Stop \/ Drop \/ SetFlush
    PROVE  TypeInv'
<1> USE DEF TypeInv, TypeOK, client, tasks
<1>1. CASE Start
  <2>1. PICK u \in BOOLEAN, c \in BOOLEAN :
          /\ udp' = [udp EXCEPT ![starts + 1] = u]
          /\ no_resend' = [no_resend EXCEPT ![starts + 1] = ~(u /\ c)]
          /\ pc' = [pc EXCEPT ![starts + 1] = IF u THEN "top" ELSE "accept"]
    BY <1>1 DEF Start
  <2>2. starts' \in 0 .. MaxStarts
    BY <1>1, SessionAssumption DEF Start
  <2>3. /\ udp' \in [Tasks -> BOOLEAN] /\ no_resend' \in [Tasks -> BOOLEAN]
        /\ pc' \in [Tasks -> Labels] /\ signalled' \in [Tasks -> BOOLEAN]
    BY <1>1, <2>1 DEF Start, SignalNewest, Labels
  <2> QED
    BY <1>1, <2>2, <2>3 DEF Start
<1>2. CASE StartFails
  BY <1>2 DEF StartFails, SignalNewest
<1>3. CASE FlushRequest
  <2>1. PICK n \in {SeqOf(sent + 1), SeqMod} : Request(n)
    BY <1>3 DEF FlushRequest
  <2>2. n \in Int
    BY SessionAssumption, BufferAssumption DEF SeqOf, SeqNum
  <2>3. setters' \subseteq (1 .. MaxFlushes) \X Int
        /\ asked' \in 0 .. MaxFlushes
    BY <2>1, <2>2, SessionAssumption DEF Request
  <2> QED
    BY <1>3, <2>3 DEF FlushRequest
<1>4. CASE Stop
  <2>1. PICK n \in Int : Request(n)
    BY <1>4, Sentinels DEF Stop
  <2>2. setters' \subseteq (1 .. MaxFlushes) \X Int
        /\ asked' \in 0 .. MaxFlushes
    BY <2>1, SessionAssumption DEF Request
  <2>3. /\ open' = FALSE
        /\ signalled' \in [Tasks -> BOOLEAN]
        /\ UNCHANGED <<udp, starts, no_resend, client, stream, tasks>>
    BY <1>4 DEF Stop, SignalNewest
  <2> QED
    BY <2>2, <2>3
<1>5. CASE Drop
  BY <1>5 DEF Drop, SignalNewest
<1>6. CASE SetFlush
  BY <1>6 DEF SetFlush
<1> QED
  BY <1>1, <1>2, <1>3, <1>4, <1>5, <1>6

\* Sending touches what is on its way and nothing else.
LEMMA SendType ==
    ASSUME TypeInv, Send
    PROVE  TypeInv'
<1>1. PICK i \in 1 .. starts :
        /\ port' = i
        /\ stream' = [j \in Tasks |->
              {p \in stream[j] \cup (IF j = i THEN {sent + 1} ELSE {}) :
                  udp[j] => p + Reorder > sent}]
  BY DEF Send
<1>2. sent' = sent + 1 /\ sent < MaxPos /\ UNCHANGED <<rtsp, tasks>>
  BY DEF Send
<1>3. sent' \in 0 .. MaxPos /\ sent + 1 \in Positions /\ port' \in 0 .. MaxStarts
  BY <1>1, <1>2, SessionAssumption DEF TypeInv, TypeOK, Positions
<1>4. stream' \in [Tasks -> SUBSET Positions]
  BY <1>1, <1>3 DEF TypeInv, TypeOK
<1> QED
  BY <1>2, <1>3, <1>4 DEF TypeInv, TypeOK, rtsp, tasks

\* A step of a receive task leaves the RTSP side alone.
LEMMA TaskFrame ==
    ASSUME TypeInv, NEW i \in Tasks, NEW l \in Labels,
           Goto(i, l) \/ UNCHANGED pc, UNCHANGED <<rtsp, client>>,
           SoundBuffer(buf'), flushReq' \in Int, resent' \in BOOLEAN,
           stream' \in [Tasks -> SUBSET Positions],
           packet_buf' \in [Tasks -> SUBSET Positions],
           heard' \in [Tasks -> SUBSET Positions]
    PROVE  TypeInv'
<1>1. pc' \in [Tasks -> Labels]
  BY DEF TypeInv, TypeOK, Goto
<1>2. buf' \in RaopBufferType
  BY DEF SoundBuffer
<1> QED
  BY <1>1, <1>2 DEF TypeInv, TypeOK, rtsp, client

LEMMA TaskType ==
    ASSUME TypeInv, NEW i \in Tasks,
           Work(i) \/ ReceiveFrame(i) \/ Receive(i) \/ Shutdown(i)
    PROVE  TypeInv'
<1>0. /\ SoundBuffer(buf) /\ buf \in RaopBufferType
      /\ flushReq \in Int /\ resent \in BOOLEAN /\ no_resend[i] \in BOOLEAN
      /\ stream \in [Tasks -> SUBSET Positions]
      /\ packet_buf \in [Tasks -> SUBSET Positions]
      /\ heard \in [Tasks -> SUBSET Positions]
  BY DEF TypeInv, TypeOK
<1>1. CASE ApplyFlush(i)
  <2>1. SoundBuffer(buf')
    BY <1>0, <1>1, FlushSound DEF ApplyFlush
  <2>2. HeardAfterFlush(i) \in [Tasks -> SUBSET Positions]
    BY <1>0 DEF HeardAfterFlush
  <2>3. heard' \in [Tasks -> SUBSET Positions] /\ flushReq' \in Int
    BY <1>0, <1>1, <2>2, Sentinels DEF ApplyFlush
  <2> QED
    BY <1>0, <1>1, <2>1, <2>3, TaskFrame DEF ApplyFlush, Labels
<1>2. CASE Deliver(i)
  <2>1. SoundBuffer(buf')
    BY <1>0, <1>2, DequeueSound DEF Deliver, HandOver
  <2>2. NextEntry(buf) \in Entry
    BY <1>0, SlotRange DEF NextEntry, RaopBufferType
  <2>3. DequeuedFrame(buf).audio \in Payloads \cup {Silence}
    BY <2>2 DEF DequeuedFrame, Entry
  <2>4. {DequeuedFrame(buf).audio} \ {Silence} \subseteq Positions
    BY <2>3, SessionAssumption DEF Positions
  <2>5. heard' \in [Tasks -> SUBSET Positions]
    BY <1>0, <1>2, <2>4 DEF Deliver, HandOver
  <2> QED
    BY <1>0, <1>2, <2>1, <2>5, TaskFrame DEF Deliver, HandOver, Labels
<1>3. CASE ReceiveData(i)
  <2>1. PICK p \in stream[i] : buf' = queue(buf, PacketAt(p), TRUE)
    BY <1>3 DEF ReceiveData
  <2>2. SoundBuffer(buf')
    BY <1>0, <2>1, PacketType, QueueSound
  <2> QED
    BY <1>0, <1>3, <2>2, TaskFrame DEF ReceiveData, Labels
<1>4. CASE ReceiveControl(i)
  <2>1. PICK p \in Datagrams : buf' = queue(buf, PacketAt(p), TRUE)
    BY <1>4 DEF ReceiveControl
  <2>2. p \in Positions
    BY <1>0, <2>1 DEF Datagrams
  <2>3. SoundBuffer(buf')
    BY <1>0, <2>1, <2>2, PacketType, QueueSound
  <2> QED
    BY <1>0, <1>4, <2>3, TaskFrame DEF ReceiveControl, Labels
<1>5. CASE ReceiveFrame(i)
  <2>1. PICK p \in packet_buf[i] :
          /\ buf' = queue(buf, PacketAt(p), FALSE)
          /\ packet_buf' = [packet_buf EXCEPT ![i] = @ \ {p}]
    BY <1>5 DEF ReceiveFrame
  <2>2. SoundBuffer(buf')
    BY <1>0, <2>1, PacketType, QueueSound
  <2>3. packet_buf' \in [Tasks -> SUBSET Positions]
    BY <1>0, <2>1
  <2> QED
    BY <1>0, <1>5, <2>2, <2>3, TaskFrame DEF ReceiveFrame, Labels
<1>6. CASE Drained(i)
  <2>1. PICK l \in Labels : Goto(i, l)
    BY <1>6 DEF Drained, Labels
  <2> QED
    BY <1>0, <1>6, <2>1, TaskFrame DEF Drained
<1>7. CASE Read(i)
  <2>1. /\ stream' \in [Tasks -> SUBSET Positions]
        /\ packet_buf' \in [Tasks -> SUBSET Positions]
    BY <1>0, <1>7 DEF Read
  <2> QED
    BY <1>0, <1>7, <2>1, TaskFrame DEF Read, Labels
<1>8. CASE CloseTcp(i)
  <2>1. packet_buf' \in [Tasks -> SUBSET Positions]
    BY <1>0, <1>8 DEF CloseTcp
  <2> QED
    BY <1>0, <1>8, <2>1, TaskFrame DEF CloseTcp, Labels
<1>9. CASE ReadDone(i) \/ Ignore(i) \/ Accept(i) \/ Shutdown(i)
  BY <1>0, <1>9, TaskFrame DEF ReadDone, Ignore, Accept, Shutdown, Labels
<1> QED
  BY <1>1, <1>2, <1>3, <1>4, <1>5, <1>6, <1>7, <1>8, <1>9 DEF Work, Receive

LEMMA NextType == TypeInv /\ [Next]_vars => TypeInv'
<1> SUFFICES ASSUME TypeInv, [Next]_vars
             PROVE  TypeInv'
  OBVIOUS
<1>1. CASE UNCHANGED vars
  BY <1>1 DEF vars, rtsp, client, tasks, TypeInv, TypeOK
<1> QED
  BY <1>1, RtspType, SendType, TaskType DEF Next

LEMMA AlwaysTyped == Spec => []TypeInv
  BY InitType, NextType, PTL DEF Spec

\* The state of the session keeps its type: no sequence of SETUP, FLUSH, packets
\* and shutdowns leaves the fields of the shared buffer or of a task.
THEOREM SessionTypeCorrect == Spec => []TypeOK
<1>1. TypeInv => TypeOK
  BY DEF TypeInv
<1> QED
  BY <1>1, AlwaysTyped, PTL

-----------------------------------------------------------------------------
(* Nothing playable stays in the ring between data packets *)

\* No task started so far waits for retransmits.
AllSkip == \A j \in Tasks : pc[j] # "none" => no_resend[j]

\* A sound ring with nothing in it for the tasks there are.
Drained0 == ~CanDequeue(buf, FALSE) /\ (AllSkip => ~CanDequeue(buf, TRUE))

\* One task at a time drains, and only tasks that were started run.  While
\* none drains, and no retransmit came in, the ring is drained.
HeldInv ==
    /\ \A i, j \in Tasks : pc[i] = "drain" /\ pc[j] = "drain" => i = j
    /\ \A i \in Tasks : i > starts => pc[i] = "none"
    /\ BufferUnlocked /\ ~resent => Drained0

LEMMA InitHeld == Init => HeldInv
<1> SUFFICES ASSUME Init
             PROVE  HeldInv
  OBVIOUS
<1>1. \A i \in Tasks : pc[i] = "none"
  BY DEF Init
<1>2. buf.is_empty
  BY DEF Init, build
<1> QED
  BY <1>1, <1>2 DEF HeldInv, Drained0, CanDequeue

LEMMA StartHeld ==
    ASSUME TypeInv, HeldInv, Start
    PROVE  HeldInv'
<1>1. PICK l \in {"top", "accept"}, r \in BOOLEAN :
        /\ pc' = [pc EXCEPT ![starts + 1] = l]
        /\ no_resend' = [no_resend EXCEPT ![starts + 1] = r]
  BY DEF Start
<1>2. /\ starts' = starts + 1 /\ starts \in Nat /\ starts + 1 \in Tasks
      /\ UNCHANGED <<buf, resent>>
  BY SessionAssumption DEF Start, TypeInv, TypeOK, Tasks
<1>3. pc[starts + 1] = "none"
  <2>1. starts + 1 > starts
    BY <1>2
  <2> QED
    BY <1>2, <2>1 DEF HeldInv
<1>4. pc \in [Tasks -> Labels] /\ no_resend \in [Tasks -> BOOLEAN]
  BY DEF TypeInv, TypeOK
<1>5. /\ \A i \in Tasks : pc'[i] = "drain" <=> pc[i] = "drain"
      /\ \A i \in Tasks : pc[i] # "none" =>
            pc'[i] # "none" /\ no_resend'[i] = no_resend[i]
  BY <1>1, <1>2, <1>3, <1>4
<1>6. \A i \in Tasks : i > starts' => pc'[i] = "none"
  <2> SUFFICES ASSUME NEW i \in Tasks, i > starts'
               PROVE  pc'[i] = "none"
    OBVIOUS
  <2>1. i > starts /\ i # starts + 1
    BY <1>2 DEF Tasks
  <2> QED
    BY <1>1, <1>4, <2>1 DEF HeldInv
<1>7. (BufferUnlocked' <=> BufferUnlocked) /\ (AllSkip' => AllSkip)
  BY <1>5 DEF BufferUnlocked, AllSkip
<1>8. Drained0 => Drained0'
  BY <1>2, <1>7 DEF Drained0
<1> QED
  BY <1>2, <1>5, <1>6, <1>7, <1>8 DEF HeldInv

\* Steps that touch neither the ring nor a task's place.
LEMMA QuietHeld ==
    ASSUME HeldInv, UNCHANGED <<pc, buf, starts, no_resend, resent>>
    PROVE  HeldInv'
  BY DEF HeldInv, BufferUnlocked, Drained0, AllSkip

\* A step of task i that does not take the lock: the ring is drained after it.
LEMMA UnlockedHeld ==
    ASSUME TypeInv, HeldInv, NEW i \in Tasks, pc[i] # "none",
           NEW l \in Labels \ {"none", "drain"}, Goto(i, l),
           UNCHANGED <<starts, no_resend>>,
           BufferUnlocked' /\ ~resent' => Drained0'
    PROVE  HeldInv'
<1>1. pc' = [pc EXCEPT ![i] = l] /\ pc \in [Tasks -> Labels]
  BY DEF Goto, TypeInv, TypeOK
<1>2. \A j \in Tasks : (pc'[j] = "drain" => pc[j] = "drain")
                        /\ (pc[j] = "none" => pc'[j] = "none")
  BY <1>1
<1> QED
  BY <1>2 DEF HeldInv

\* A step that leaves the ring and the other tasks alone and did not hold it.
LEMMA MoveHeld ==
    ASSUME TypeInv, HeldInv, NEW i \in Tasks, pc[i] \notin {"none", "drain"},
           NEW l \in Labels \ {"none", "drain"}, Goto(i, l),
           UNCHANGED <<starts, no_resend, buf, resent>>
    PROVE  HeldInv'
<1>1. pc' = [pc EXCEPT ![i] = l] /\ pc \in [Tasks -> Labels]
  BY DEF Goto, TypeInv, TypeOK
<1>2. \A j \in Tasks : (pc'[j] = "drain" <=> pc[j] = "drain")
                        /\ (pc[j] = "none" <=> pc'[j] = "none")
  BY <1>1
<1>3. (BufferUnlocked' <=> BufferUnlocked) /\ (AllSkip' <=> AllSkip)
  BY <1>2 DEF BufferUnlocked, AllSkip
<1>4. Drained0' <=> Drained0
  BY <1>3 DEF Drained0
<1> QED
  BY <1>3, <1>4, UnlockedHeld DEF HeldInv

\* A step that takes the free lock, or keeps the lock.
LEMMA LockedHeld ==
    ASSUME TypeInv, HeldInv, NEW i \in Tasks, UNCHANGED starts,
           \/ BufferUnlocked /\ pc[i] # "none" /\ Goto(i, "drain")
           \/ pc[i] = "drain" /\ UNCHANGED pc
    PROVE  HeldInv'
<1>0. pc \in [Tasks -> Labels]
  BY DEF TypeInv, TypeOK
<1>1. CASE BufferUnlocked /\ pc[i] # "none" /\ Goto(i, "drain")
  <2>1. pc' = [pc EXCEPT ![i] = "drain"]
    BY <1>1 DEF Goto
  <2>2. /\ pc'[i] = "drain"
        /\ \A j \in Tasks : pc'[j] = "drain" => j = i
        /\ \A j \in Tasks : pc[j] = "none" => pc'[j] = "none"
    BY <1>0, <1>1, <2>1 DEF BufferUnlocked
  <2> QED
    BY <2>2 DEF HeldInv, BufferUnlocked
<1>2. CASE pc[i] = "drain" /\ UNCHANGED pc
  BY <1>2 DEF HeldInv, BufferUnlocked
<1> QED
  BY <1>1, <1>2

LEMMA TaskHeld ==
    ASSUME TypeInv, HeldInv, NEW i \in Tasks,
           Work(i) \/ ReceiveFrame(i) \/ Receive(i) \/ Shutdown(i)
    PROVE  HeldInv'
<1> USE DEF Labels, rtsp
<1>1. CASE ApplyFlush(i)
  <2>1. CASE flushReq = NO_FLUSH
    BY <1>1, <2>1, MoveHeld DEF ApplyFlush
  <2>2. CASE flushReq # NO_FLUSH
    <3>1. buf' = flush(buf, flushReq) /\ SoundBuffer(buf) /\ flushReq \in Int
      BY <1>1, <2>2 DEF ApplyFlush, TypeInv, TypeOK
    <3>2. ~CanDequeue(buf, FALSE)' /\ ~CanDequeue(buf, TRUE)'
      BY <3>1, FlushPlaysNothing
    <3>3. Drained0'
      BY <3>2 DEF Drained0
    <3> QED
      BY <1>1, <3>3, UnlockedHeld DEF ApplyFlush
  <2> QED
    BY <2>1, <2>2
<1>2. CASE Deliver(i)
  BY <1>2, LockedHeld DEF Deliver, HandOver
<1>3. CASE ReceiveData(i) \/ ReceiveFrame(i)
  BY <1>3, LockedHeld DEF ReceiveData, ReceiveFrame
<1>4. CASE ReceiveControl(i)
  BY <1>4, UnlockedHeld DEF ReceiveControl
<1>5. CASE Drained(i)
  <2>1. PICK l \in {"top", "frames"} : Goto(i, l)
    BY <1>5 DEF Drained
  <2>2. pc' = [pc EXCEPT ![i] = l] /\ UNCHANGED <<buf, no_resend, resent, starts>>
        /\ pc \in [Tasks -> Labels] /\ no_resend[i] \in BOOLEAN
    BY <1>5, <2>1 DEF Drained, Goto, TypeInv, TypeOK
  <2>3. pc'[i] # "none" /\ ~CanDequeue(buf, no_resend[i])
    BY <1>5, <2>2 DEF Drained
  <2>4. CASE no_resend[i] = TRUE
    <3>1. ~CanDequeue(buf, TRUE)
      BY <2>3, <2>4
    <3> QED
      BY <1>5, <2>1, <2>2, <3>1, SkippingPlaysMore, UnlockedHeld
      DEF Drained, Drained0
  <2>5. CASE no_resend[i] = FALSE
    <3>1. ~CanDequeue(buf, FALSE)
      BY <2>3, <2>5
    <3>2. ~AllSkip'
      BY <2>2, <2>3, <2>5 DEF AllSkip
    <3>3. Drained0'
      BY <2>2, <3>1, <3>2 DEF Drained0
    <3> QED
      BY <1>5, <2>1, <2>2, <3>3, UnlockedHeld DEF Drained
  <2> QED
    BY <2>2, <2>4, <2>5
<1>6. CASE \/ Ignore(i) \/ Accept(i) \/ Read(i) \/ ReadDone(i)
           \/ CloseTcp(i) \/ Shutdown(i)
  BY <1>6, MoveHeld DEF Ignore, Accept, Read, ReadDone, CloseTcp, Shutdown
<1> QED
  BY <1>1, <1>2, <1>3, <1>4, <1>5, <1>6 DEF Work, Receive

LEMMA NextHeld == TypeInv /\ HeldInv /\ [Next]_vars => HeldInv'
<1> SUFFICES ASSUME TypeInv, HeldInv, [Next]_vars
             PROVE  HeldInv'
  OBVIOUS
<1>1. CASE \/ StartFails \/ FlushRequest \/ Stop \/ Drop \/ SetFlush \/ Send
           \/ UNCHANGED vars
  BY <1>1, QuietHeld DEF StartFails, FlushRequest, Stop, Drop, SetFlush, Send,
                         vars, rtsp, tasks
<1> QED
  BY <1>1, StartHeld, TaskHeld DEF Next

LEMMA AlwaysHeld == Spec => []HeldInv
  BY InitHeld, NextHeld, AlwaysTyped, PTL DEF Spec

\* Whatever tasks share the ring, audio that a task could play stays in it
\* between data packets only after a retransmit, or behind a gap that a task
\* which waits for retransmits left.
THEOREM RingIsDrained == Spec => []NothingHeldBack
<1>1. TypeInv /\ HeldInv => NothingHeldBack
  <2> SUFFICES ASSUME TypeInv, HeldInv, NEW i \in Tasks, pc[i] = "select",
                      BufferUnlocked, ~resent, CanDequeue(buf, no_resend[i])
               PROVE  \E j \in Tasks : pc[j] # "none" /\ ~no_resend[j]
                                        /\ no_resend[i]
    BY DEF NothingHeldBack
  <2>1. ~CanDequeue(buf, FALSE) /\ (AllSkip => ~CanDequeue(buf, TRUE))
    BY DEF HeldInv, Drained0
  <2>2. no_resend[i] = TRUE
    BY <2>1 DEF TypeInv, TypeOK
  <2>3. CanDequeue(buf, TRUE)
    BY <2>2
  <2> QED
    BY <2>1, <2>2, <2>3 DEF AllSkip
<1> QED
  BY <1>1, AlwaysTyped, AlwaysHeld, PTL

-----------------------------------------------------------------------------
(* Each TCP session hears its connection in order *)

\* What the session heard comes before what its task has read, which comes
\* before what is on its way, and the client has sent all of it.
InOrder(i) ==
    /\ \A p \in heard[i], q \in packet_buf[i] \cup stream[i] : p < q
    /\ \A p \in packet_buf[i], q \in stream[i] : p < q
    /\ \A p \in heard[i] \cup packet_buf[i] \cup stream[i] : p <= sent

\* Frame a belongs between what session i heard and what is to come.
Between(i, a) ==
    /\ a \in Positions /\ a <= sent
    /\ \A p \in heard[i] : p < a
    /\ \A q \in packet_buf[i] \cup stream[i] : a < q

\* A task that drains has one frame at most, the one it queued itself.
OwnFrame(i) ==
    pc[i] = "drain" =>
        /\ \A s \in Slots : buf.entries[s].available
                              => Between(i, buf.entries[s].audio)
        /\ \A s, t \in Slots :
              buf.entries[s].available /\ buf.entries[t].available => s = t

TcpInv ==
    /\ \A i \in Tasks : pc[i] # "none" /\ ~udp[i] => no_resend[i]
    /\ OnlyTcp => ~resent /\ \A i \in Tasks : InOrder(i) /\ OwnFrame(i)

LEMMA InitTcp == Init => TcpInv
<1> SUFFICES ASSUME Init
             PROVE  TcpInv
  OBVIOUS
<1>1. \A i \in Tasks : /\ pc[i] = "none" /\ heard[i] = {}
                       /\ packet_buf[i] = {} /\ stream[i] = {}
  BY DEF Init
<1>2. ~resent
  BY DEF Init
<1> QED
  BY <1>1, <1>2 DEF TcpInv, InOrder, OwnFrame

LEMMA StartTcp ==
    ASSUME TypeInv, HeldInv, TcpInv, Start
    PROVE  TcpInv'
<1>1. PICK u \in BOOLEAN, c \in BOOLEAN :
        /\ udp' = [udp EXCEPT ![starts + 1] = u]
        /\ no_resend' = [no_resend EXCEPT ![starts + 1] = ~(u /\ c)]
        /\ pc' = [pc EXCEPT ![starts + 1] = IF u THEN "top" ELSE "accept"]
  BY DEF Start
<1>2. /\ starts + 1 \in Tasks /\ starts + 1 > starts
      /\ UNCHANGED <<buf, resent, sent, stream, packet_buf, heard>>
  BY SessionAssumption DEF Start, TypeInv, TypeOK, Tasks, client
<1>3. pc[starts + 1] = "none"
  BY <1>2 DEF HeldInv
<1>4. /\ pc \in [Tasks -> Labels] /\ no_resend \in [Tasks -> BOOLEAN]
      /\ udp \in [Tasks -> BOOLEAN]
  BY DEF TypeInv, TypeOK
<1>5. \A i \in Tasks : /\ pc'[i] = "drain" => pc[i] = "drain"
                       /\ pc[i] # "none" => /\ pc'[i] # "none"
                                            /\ udp'[i] = udp[i]
  BY <1>1, <1>2, <1>3, <1>4
<1>6. \A i \in Tasks : pc'[i] # "none" /\ ~udp'[i] => no_resend'[i]
  BY <1>1, <1>2, <1>4 DEF TcpInv
<1>7. OnlyTcp' => OnlyTcp
  BY <1>5 DEF OnlyTcp
<1>8. \A i \in Tasks : (InOrder(i) => InOrder(i)') /\ (OwnFrame(i) => OwnFrame(i)')
  BY <1>2, <1>5 DEF InOrder, OwnFrame, Between
<1> QED
  BY <1>2, <1>6, <1>7, <1>8 DEF TcpInv

\* The new packet is later than all others.
LEMMA SendTcp ==
    ASSUME TypeInv, TcpInv, Send
    PROVE  TcpInv'
<1>1. PICK i \in 1 .. starts :
        stream' = [j \in Tasks |->
              {p \in stream[j] \cup (IF j = i THEN {sent + 1} ELSE {}) :
                  udp[j] => p + Reorder > sent}]
  BY DEF Send
<1>2. sent' = sent + 1 /\ UNCHANGED <<rtsp, tasks>>
  BY DEF Send
<1>3. UNCHANGED <<udp, no_resend, buf, pc, packet_buf, heard, resent>>
  BY <1>2 DEF rtsp, tasks
<1>4. /\ sent \in Nat
      /\ \A j \in Tasks : /\ stream[j] \subseteq Nat /\ heard[j] \subseteq Nat
                           /\ packet_buf[j] \subseteq Nat
  BY SessionAssumption DEF TypeInv, TypeOK, Positions
<1>5. \A j \in Tasks : \A q \in stream'[j] : q \in stream[j] \/ q = sent + 1
  BY <1>1
<1>6. ASSUME NEW j \in Tasks, InOrder(j)
      PROVE  InOrder(j)'
  <2>1. \A p \in heard[j] \cup packet_buf[j] \cup stream[j] :
            p \in Nat /\ p <= sent /\ p < sent + 1 /\ p <= sent + 1
    BY <1>4, <1>6 DEF InOrder
  <2>2. \A p \in heard'[j] \cup packet_buf'[j] \cup stream'[j] : p <= sent'
    BY <1>2, <1>3, <1>4, <1>5, <2>1
  <2>3. \A p \in heard'[j], q \in packet_buf'[j] \cup stream'[j] : p < q
    BY <1>3, <1>5, <1>6, <2>1 DEF InOrder
  <2>4. \A p \in packet_buf'[j], q \in stream'[j] : p < q
    BY <1>3, <1>5, <1>6, <2>1 DEF InOrder
  <2> QED
    BY <2>2, <2>3, <2>4 DEF InOrder
<1>7. ASSUME NEW j \in Tasks, NEW a, Between(j, a)
      PROVE  Between(j, a)'
  <2>1. a \in Nat /\ a <= sent'
    BY <1>2, <1>4, <1>7, SessionAssumption DEF Between, Positions
  <2>2. a < sent + 1
    BY <1>4, <1>7, <2>1 DEF Between
  <2>3. \A q \in packet_buf'[j] \cup stream'[j] : a < q
    BY <1>3, <1>5, <1>7, <2>2 DEF Between
  <2> QED
    BY <1>3, <1>7, <2>1, <2>3 DEF Between, Positions
<1>8. ASSUME NEW j \in Tasks, OwnFrame(j)
      PROVE  OwnFrame(j)'
  BY <1>3, <1>7, <1>8 DEF OwnFrame
<1>9. OnlyTcp' <=> OnlyTcp
  BY <1>3 DEF OnlyTcp
<1> QED
  BY <1>3, <1>6, <1>8, <1>9 DEF TcpInv

\* Steps that touch nothing the invariant speaks of.
LEMMA QuietTcp ==
    ASSUME TcpInv,
           UNCHANGED <<udp, no_resend, buf, pc, sent, stream, packet_buf,
                       heard, resent>>
    PROVE  TcpInv'
  BY DEF TcpInv, OnlyTcp, InOrder, OwnFrame, Between

\* A step of task i, with what it owes if all tasks use TCP.
LEMMA TcpFrame ==
    ASSUME TypeInv, TcpInv, NEW i \in Tasks, pc[i] # "none",
           NEW l \in Labels \ {"none"}, Goto(i, l) \/ UNCHANGED pc,
           UNCHANGED <<udp, no_resend>>,
           OnlyTcp => ~resent' /\ \A j \in Tasks : InOrder(j)' /\ OwnFrame(j)'
    PROVE  TcpInv'
<1>1. pc \in [Tasks -> Labels]
  BY DEF TypeInv, TypeOK
<1>2. \A j \in Tasks : pc'[j] # "none" <=> pc[j] # "none"
  BY <1>1 DEF Goto
<1>3. OnlyTcp' <=> OnlyTcp
  BY <1>2 DEF OnlyTcp
<1> QED
  BY <1>2, <1>3 DEF TcpInv

\* Steps of a task that leave the ring and the packets alone.
LEMMA MoveTcp ==
    ASSUME TypeInv, TcpInv, NEW i \in Tasks, pc[i] # "none",
           NEW l \in Labels \ {"none", "drain"}, Goto(i, l),
           UNCHANGED <<udp, no_resend, buf, sent, stream, packet_buf, heard,
                       resent>>
    PROVE  TcpInv'
<1>1. pc' = [pc EXCEPT ![i] = l] /\ pc \in [Tasks -> Labels]
  BY DEF Goto, TypeInv, TypeOK
<1>2. \A j \in Tasks : pc'[j] = "drain" => pc[j] = "drain"
  BY <1>1
<1>3. \A j \in Tasks : (InOrder(j) => InOrder(j)') /\ (OwnFrame(j) => OwnFrame(j)')
  BY <1>2 DEF InOrder, OwnFrame, Between
<1> QED
  BY <1>3, TcpFrame DEF TcpInv

LEMMA ApplyFlushTcp ==
    ASSUME TypeInv, TcpInv, NEW i \in Tasks, ApplyFlush(i)
    PROVE  TcpInv'
<1> USE DEF Labels
<1>1. /\ pc[i] = "top" /\ Goto(i, "select")
      /\ UNCHANGED <<udp, no_resend, sent, stream, packet_buf, resent>>
  BY DEF ApplyFlush, rtsp, client
<1>2. CASE flushReq = NO_FLUSH
  BY <1>1, <1>2, MoveTcp DEF ApplyFlush
<1>3. CASE flushReq # NO_FLUSH
  <2>1. BufferUnlocked /\ heard' = HeardAfterFlush(i)
    BY <1>3 DEF ApplyFlush
  <2>2. \A j \in Tasks : pc'[j] # "drain"
    BY <1>1, <2>1 DEF Goto, BufferUnlocked, TypeInv, TypeOK
  <2>3. OnlyTcp => heard' = heard
    BY <2>1 DEF HeardAfterFlush
  <2>4. OnlyTcp => ~resent' /\ \A j \in Tasks : InOrder(j)' /\ OwnFrame(j)'
    BY <1>1, <2>2, <2>3 DEF TcpInv, InOrder, OwnFrame
  <2> QED
    BY <1>1, <2>4, TcpFrame
<1> QED
  BY <1>2, <1>3

\* The frame handed over is the one the task queued, and the ring is then bare.
LEMMA DeliverTcp ==
    ASSUME TypeInv, HeldInv, TcpInv, NEW i \in Tasks, Deliver(i)
    PROVE  TcpInv'
<1> DEFINE a == DequeuedFrame(buf).audio
           f == SlotOf(buf.first_seqnum)
<1>1. /\ pc[i] = "drain" /\ buf' = dequeue(buf)
      /\ heard' = [heard EXCEPT ![i] = @ \cup ({a} \ {Silence})]
      /\ UNCHANGED <<udp, no_resend, sent, stream, packet_buf, resent, pc>>
  BY DEF Deliver, HandOver, rtsp, client
<1>2. /\ buf \in RaopBufferType /\ f \in Slots
      /\ heard \in [Tasks -> SUBSET Positions]
      /\ packet_buf \in [Tasks -> SUBSET Positions]
      /\ stream \in [Tasks -> SUBSET Positions]
  BY SlotRange DEF TypeInv, TypeOK, RaopBufferType
<1>3. /\ buf.entries[f].available => a = buf.entries[f].audio
      /\ ~buf.entries[f].available => a = Silence
  BY DEF DequeuedFrame, NextEntry
<1> HIDE DEF a, f
<1>4. ASSUME OnlyTcp
      PROVE  ~resent' /\ \A j \in Tasks : InOrder(j)' /\ OwnFrame(j)'
  <2>0. /\ ~resent /\ \A j \in Tasks : InOrder(j)
        /\ \A s \in Slots : buf.entries[s].available
                              => Between(i, buf.entries[s].audio)
        /\ \A s, t \in Slots :
              buf.entries[s].available /\ buf.entries[t].available => s = t
    BY <1>1, <1>4 DEF TcpInv, OwnFrame
  <2>1. a # Silence => Between(i, a)
    BY <1>2, <1>3, <2>0
  <2>2. InOrder(i)'
    <3>1. \A p \in heard'[i] : p \in heard[i] \/ (p = a /\ Between(i, a))
      BY <1>1, <1>2, <2>1
    <3> QED
      BY <1>1, <2>0, <3>1 DEF InOrder, Between
  <2>3. \A j \in Tasks : j # i => InOrder(j)'
    BY <1>1, <1>2, <2>0 DEF InOrder
  <2>4. \A s \in Slots : buf'.entries[s].available =>
            /\ buf'.entries[s] = buf.entries[s] /\ s # f
    BY <1>1, <1>2, DequeueEmpties DEF f
  <2>5. OwnFrame(i)'
    <3>1. CASE buf.entries[f].available
      BY <1>2, <2>0, <2>4, <3>1 DEF OwnFrame
    <3>2. CASE ~buf.entries[f].available
      <4>1. heard' = heard
        BY <1>1, <1>2, <1>3, <3>2
      <4> QED
        BY <1>1, <2>0, <2>4, <4>1 DEF OwnFrame, Between
    <3> QED
      BY <3>1, <3>2
  <2>6. \A j \in Tasks : j # i => OwnFrame(j)'
    BY <1>1 DEF HeldInv, OwnFrame
  <2> QED
    BY <1>1, <2>0, <2>2, <2>3, <2>5, <2>6
<1> QED
  BY <1>1, <1>4, TcpFrame DEF Labels

\* The frame queued is the next of its connection, and the ring was bare.
LEMMA ReceiveFrameTcp ==
    ASSUME TypeInv, HeldInv, TcpInv, NEW i \in Tasks, ReceiveFrame(i)
    PROVE  TcpInv'
<1>1. PICK p \in packet_buf[i] :
        /\ \A q \in packet_buf[i] : p <= q
        /\ buf' = queue(buf, PacketAt(p), FALSE)
        /\ packet_buf' = [packet_buf EXCEPT ![i] = @ \ {p}]
  BY DEF ReceiveFrame
<1>2. /\ pc[i] = "frames" /\ BufferUnlocked /\ Goto(i, "drain") /\ resent' = FALSE
      /\ UNCHANGED <<udp, no_resend, sent, stream, heard>>
  BY DEF ReceiveFrame, rtsp, client
<1>3. /\ SoundBuffer(buf) /\ pc \in [Tasks -> Labels]
      /\ heard \in [Tasks -> SUBSET Positions]
      /\ packet_buf \in [Tasks -> SUBSET Positions]
      /\ stream \in [Tasks -> SUBSET Positions]
      /\ p \in Positions /\ PacketAt(p) \in Packet
  BY <1>1, PacketType DEF TypeInv, TypeOK
<1>4. \A j \in Tasks : pc'[j] = "drain" => j = i
  BY <1>2, <1>3 DEF Goto, BufferUnlocked
<1>5. ASSUME OnlyTcp
      PROVE  ~resent' /\ \A j \in Tasks : InOrder(j)' /\ OwnFrame(j)'
  <2>0. ~resent /\ \A j \in Tasks : InOrder(j)
    BY <1>5 DEF TcpInv
  <2>1. AllSkip
    BY <1>5 DEF TcpInv, OnlyTcp, AllSkip
  <2>2. ~CanDequeue(buf, TRUE)
    BY <1>2, <2>0, <2>1 DEF HeldInv, Drained0
  <2>3. \A s \in Slots : ~buf.entries[s].available
    BY <1>3, <2>2, NothingAvailable
  <2> DEFINE n == SlotOf(QueueSeq(buf, PacketAt(p), FALSE))
  <2>4. \A s \in Slots : buf'.entries[s].available =>
            s = n /\ buf'.entries[s].audio = PacketAt(p).audio
    <3> SUFFICES ASSUME NEW s \in Slots,
                        queue(buf, PacketAt(p), FALSE).entries[s].available
                 PROVE  /\ s = n
                        /\ queue(buf, PacketAt(p), FALSE).entries[s].audio
                             = PacketAt(p).audio
      BY <1>1, Zenon
    <3>1. \/ buf.entries[s].available
          \/ /\ s = SlotOf(QueueSeq(buf, PacketAt(p), FALSE))
             /\ queue(buf, PacketAt(p), FALSE).entries[s].audio
                  = PacketAt(p).audio
      BY <1>3, QueueFills, Zenon
    <3> QED
      BY <2>3, <3>1
  <2> HIDE DEF n
  <2>5. PacketAt(p).audio = p
    BY DEF PacketAt
  <2>6. \A j \in Tasks : packet_buf'[j] \subseteq packet_buf[j]
    BY <1>1, <1>3
  <2>7. \A j \in Tasks : InOrder(j)'
    BY <1>2, <2>0, <2>6 DEF InOrder
  <2>8. \A q \in packet_buf'[i] : p < q
    BY <1>1, <1>3 DEF Positions
  <2>9. Between(i, p)'
    BY <1>1, <1>2, <1>3, <2>0, <2>8 DEF InOrder, Between, Positions
  <2>10. OwnFrame(i)'
    BY <2>4, <2>5, <2>9 DEF OwnFrame
  <2> QED
    BY <1>2, <1>4, <2>7, <2>10 DEF OwnFrame
<1> QED
  BY <1>2, <1>5, TcpFrame DEF Labels

\* A read takes the oldest frames that are on their way.
LEMMA ReadTcp ==
    ASSUME TypeInv, HeldInv, TcpInv, NEW i \in Tasks, Read(i)
    PROVE  TcpInv'
<1>1. PICK last \in {0} \cup stream[i] :
        /\ packet_buf' = [packet_buf EXCEPT ![i] = {p \in stream[i] : p <= last}]
        /\ stream' = [stream EXCEPT ![i] = {p \in @ : p > last}]
  BY DEF Read
<1>2. /\ pc[i] = "select" /\ Goto(i, "frames")
      /\ UNCHANGED <<udp, no_resend, sent, buf, heard, resent>>
  BY DEF Read, rtsp, client
<1>3. /\ pc \in [Tasks -> Labels] /\ packet_buf \in [Tasks -> SUBSET Positions]
      /\ stream \in [Tasks -> SUBSET Positions]
  BY DEF TypeInv, TypeOK
<1>4. /\ \A j \in Tasks : j # i => /\ packet_buf'[j] = packet_buf[j]
                                  /\ stream'[j] = stream[j]
      /\ packet_buf'[i] = {p \in stream[i] : p <= last}
      /\ stream'[i] = {p \in stream[i] : p > last}
  BY <1>1, <1>3
<1>5. \A p \in packet_buf'[i], q \in stream'[i] : p < q
  BY <1>1, <1>3, <1>4 DEF Positions
<1>6. InOrder(i) => InOrder(i)'
  BY <1>2, <1>4, <1>5 DEF InOrder
<1>7. \A j \in Tasks : j # i => (InOrder(j) => InOrder(j)')
  BY <1>2, <1>4 DEF InOrder
<1>8. \A j \in Tasks : pc'[j] = "drain" => pc[j] = "drain" /\ j # i
  BY <1>2, <1>3 DEF Goto
<1>9. \A j \in Tasks : OwnFrame(j) => OwnFrame(j)'
  BY <1>2, <1>4, <1>8 DEF OwnFrame, Between
<1> QED
  BY <1>2, <1>6, <1>7, <1>9, TcpFrame DEF TcpInv, Labels

LEMMA CloseTcpTcp ==
    ASSUME TypeInv, TcpInv, NEW i \in Tasks, CloseTcp(i)
    PROVE  TcpInv'
<1>1. /\ pc[i] \in {"accept", "select", "frames"} /\ Goto(i, "done")
      /\ packet_buf' = [packet_buf EXCEPT ![i] = {}]
      /\ UNCHANGED <<udp, no_resend, sent, stream, buf, heard, resent>>
  BY DEF CloseTcp, rtsp, client
<1>2. pc \in [Tasks -> Labels] /\ packet_buf \in [Tasks -> SUBSET Positions]
  BY DEF TypeInv, TypeOK
<1>3. \A j \in Tasks : /\ packet_buf'[j] \subseteq packet_buf[j]
                       /\ pc'[j] = "drain" => pc[j] = "drain"
  BY <1>1, <1>2 DEF Goto
<1>4. \A j \in Tasks : (InOrder(j) => InOrder(j)') /\ (OwnFrame(j) => OwnFrame(j)')
  BY <1>1, <1>3 DEF InOrder, OwnFrame, Between
<1> QED
  BY <1>1, <1>4, TcpFrame DEF TcpInv, Labels

\* A datagram has no reader if all tasks use TCP.
LEMMA DatagramTcp ==
    ASSUME TypeInv, TcpInv, NEW i \in Tasks,
           ReceiveData(i) \/ ReceiveControl(i)
    PROVE  TcpInv'
<1>1. PICK l \in {"drain", "top"} : Goto(i, l)
  BY DEF ReceiveData, ReceiveControl
<1>2. udp[i] /\ pc[i] = "select" /\ UNCHANGED <<udp, no_resend>>
  BY DEF ReceiveData, ReceiveControl, rtsp
<1>3. ~OnlyTcp
  BY <1>2 DEF OnlyTcp
<1> QED
  BY <1>1, <1>2, <1>3, TcpFrame DEF Labels

LEMMA NextTcp == TypeInv /\ HeldInv /\ TcpInv /\ [Next]_vars => TcpInv'
<1> SUFFICES ASSUME TypeInv, HeldInv, TcpInv, [Next]_vars
             PROVE  TcpInv'
  OBVIOUS
<1>1. CASE \/ StartFails \/ FlushRequest \/ Stop \/ Drop \/ SetFlush
           \/ UNCHANGED vars
  BY <1>1, QuietTcp DEF StartFails, FlushRequest, Stop, Drop, SetFlush,
                        vars, rtsp, client, tasks
<1>2. ASSUME NEW i \in Tasks,
             Drained(i) \/ Ignore(i) \/ Accept(i) \/ ReadDone(i) \/ Shutdown(i)
      PROVE  TcpInv'
  <2>1. PICK l \in Labels \ {"none", "drain"} : Goto(i, l)
    BY <1>2 DEF Drained, Ignore, Accept, ReadDone, Shutdown, Labels
  <2> QED
    BY <1>2, <2>1, MoveTcp
    DEF Drained, Ignore, Accept, ReadDone, Shutdown, rtsp, client
<1> QED
  BY <1>1, <1>2, StartTcp, SendTcp, ApplyFlushTcp, DeliverTcp, ReceiveFrameTcp,
     ReadTcp, CloseTcpTcp, DatagramTcp
  DEF Next, Work, Receive

\* If every SETUP asks for TCP, each session gets the frames of its connection
\* in the order the client sent them and each once, whatever the tasks that
\* share the ring do in between and whenever flushes are applied.
THEOREM TcpInOrder == Spec => []TcpPlaysForward
<1>1. TypeInv /\ TcpInv => TcpPlaysForward
  <2> SUFFICES ASSUME TypeInv, TcpInv, OnlyTcp, NEW i \in Tasks,
                      NEW a \in Upcoming(i), NEW p \in heard[i]
               PROVE  p < a
    BY DEF TcpPlaysForward
  <2>1. /\ pc[i] = "drain" /\ a # Silence /\ a = DequeuedFrame(buf).audio
    BY DEF Upcoming
  <2>2. NextEntry(buf).available /\ a = NextEntry(buf).audio
    BY <2>1 DEF DequeuedFrame
  <2>3. SlotOf(buf.first_seqnum) \in Slots
    BY SlotRange DEF TypeInv, TypeOK, RaopBufferType
  <2>4. Between(i, a)
    BY <2>1, <2>2, <2>3 DEF TcpInv, OwnFrame, NextEntry
  <2> QED
    BY <2>4 DEF Between
<1> QED
  BY <1>1, InitTcp, NextTcp, AlwaysTyped, AlwaysHeld, PTL DEF Spec
=============================================================================
