----------------------------- MODULE RtpSession -----------------------------
(***************************************************************************)
(* One AirPlay 1 audio session (RaopRtp, raop/rtp.rs): the RTSP side that  *)
(* starts, flushes, stops or drops it, the receive tasks it spawns, and    *)
(* the packet buffer and the flush request they share.                     *)
(*                                                                         *)
(* The client sends packets 1, 2, 3 ... with consecutive sequence numbers, *)
(* each to the port of a SETUP it made, and never returns to an older one; *)
(* a packet's audio is its position in that order.  Every SETUP chooses    *)
(* UDP or TCP.  A UDP socket may lose, repeat and reorder the last         *)
(* Reorder + 1 packets; a TCP connection delivers its own packets in       *)
(* order, and says nothing about those of another connection.  A lock that *)
(* is held across several steps is a task in "drain" (the buffer's); every *)
(* other critical section is one step.                                     *)
(***************************************************************************)
EXTENDS RaopBufferOps, FiniteSets

CONSTANTS
    Codec,       \* the codec of the SDP
    MaxPos,      \* bound: packets the client sends
    StartSeq,    \* sequence number before that of packet 1
    Reorder,     \* bound: how many packets back the network may deliver
    Undecodable, \* positions of packets that do not decode
    MaxStarts,   \* bound: SETUP requests
    MaxFlushes   \* bound: flush requests, stop's included

ASSUME SessionAssumption ==
    /\ Codec \in Codecs
    /\ MaxPos \in Nat /\ MaxPos < SeqMod
    /\ StartSeq \in SeqNum
    /\ Reorder \in Nat
    /\ Payloads = 1 .. MaxPos /\ Silence = 0
    /\ MaxStarts \in Nat /\ MaxFlushes \in Nat
    /\ FrameSizes = {Capacity}

Tasks == 1 .. MaxStarts
Positions == 1 .. MaxPos
NO_FLUSH == -42
Labels == {"none", "accept", "top", "select", "frames", "drain", "done"}
SeqOf(p) == (StartSeq + p) % SeqMod

VARIABLES
    open,       \* the RTSP connection still owns the RaopRtp
    starts,     \* number of receive tasks spawned
    udp,        \* the use_udp each receive task was started with
    buf,        \* the shared RaopBuffer
    flushReq,   \* RtpState::flush
    setters,    \* detached tasks that still have to write flushReq
    asked,      \* number of flush requests so far
    pc,         \* where each receive task is
    no_resend,  \* the client of each task gave no control port
    signalled,  \* the shutdown channel of each task has fired or closed
    sent,       \* number of packets the client has sent
    port,       \* the task whose port the client used last
    stream,     \* packets on their way to each task
    packet_buf, \* TCP: packets each task has read and not queued yet
    heard,      \* positions handed to each task's session
    resent      \* a retransmit was queued after the last data packet

rtsp == <<open, starts, udp, setters, asked, no_resend, signalled>>
client == <<sent, port>>
tasks == <<buf, flushReq, pc, packet_buf, heard, resent>>
vars == <<rtsp, client, stream, tasks>>

TypeOK ==
    /\ open \in BOOLEAN /\ resent \in BOOLEAN
    /\ starts \in 0 .. MaxStarts /\ port \in 0 .. MaxStarts
    /\ buf \in RaopBufferType
    /\ flushReq \in Int
    /\ setters \subseteq (1 .. MaxFlushes) \X Int
    /\ asked \in 0 .. MaxFlushes
    /\ pc \in [Tasks -> Labels]
    /\ udp \in [Tasks -> BOOLEAN]
    /\ no_resend \in [Tasks -> BOOLEAN]
    /\ signalled \in [Tasks -> BOOLEAN]
    /\ sent \in 0 .. MaxPos
    /\ stream \in [Tasks -> SUBSET Positions]
    /\ packet_buf \in [Tasks -> SUBSET Positions]
    /\ heard \in [Tasks -> SUBSET Positions]

Init ==
    /\ open = TRUE
    /\ starts = 0
    /\ udp = [i \in Tasks |-> FALSE]
    /\ buf = build(Codec)
    /\ flushReq = NO_FLUSH
    /\ setters = {}
    /\ asked = 0
    /\ pc = [i \in Tasks |-> "none"]
    /\ no_resend = [i \in Tasks |-> FALSE]
    /\ signalled = [i \in Tasks |-> FALSE]
    /\ sent = 0 /\ port = 0
    /\ stream = [i \in Tasks |-> {}]
    /\ packet_buf = [i \in Tasks |-> {}]
    /\ heard = [i \in Tasks |-> {}]
    /\ resent = FALSE

-----------------------------------------------------------------------------
(* The RTSP side *)

\* The sender of the newest shutdown channel is dropped or used.
SignalNewest ==
    signalled' = [i \in Tasks |-> signalled[i] \/ i = starts]

\* start: the new channel replaces the old one before anything can fail.  The
\* transport is the one this SETUP asks for, whatever an earlier one used.
Start ==
    /\ open
    /\ starts < MaxStarts
    /\ SignalNewest
    /\ starts' = starts + 1
    /\ \E use_udp \in BOOLEAN, control_rport \in BOOLEAN :
        /\ udp' = [udp EXCEPT ![starts + 1] = use_udp]
        /\ no_resend' = [no_resend EXCEPT ![starts + 1] = ~(use_udp /\ control_rport)]
        /\ pc' = [pc EXCEPT ![starts + 1] = IF use_udp THEN "top" ELSE "accept"]
    /\ UNCHANGED <<open, setters, asked, client, stream, buf, flushReq,
                   packet_buf, heard, resent>>

\* start, when a socket cannot be bound: the previous task is gone as well.
StartFails ==
    /\ open
    /\ SignalNewest
    /\ UNCHANGED <<open, starts, udp, setters, asked, no_resend, client, stream,
                   tasks>>

\* RaopRtp::flush spawns a task that will write the request.
Request(next_seq) ==
    /\ asked < MaxFlushes
    /\ asked' = asked + 1
    /\ setters' = setters \cup {<<asked + 1, next_seq>>}

\* RTSP FLUSH names the packet the client will send next, or a number that
\* is not a sequence number.
FlushRequest ==
    /\ open
    /\ \E next_seq \in {SeqOf(sent + 1), SeqMod} : Request(next_seq)
    /\ UNCHANGED <<open, starts, udp, no_resend, signalled, client, stream, tasks>>

\* RTSP TEARDOWN: stop, and the RaopRtp is dropped.
Stop ==
    /\ open
    /\ open' = FALSE
    /\ SignalNewest
    /\ Request(-1)
    /\ UNCHANGED <<starts, udp, no_resend, client, stream, tasks>>

\* The connection closes, or ANNOUNCE replaces the session: only a drop.
Drop ==
    /\ open
    /\ open' = FALSE
    /\ SignalNewest
    /\ UNCHANGED <<starts, udp, setters, asked, no_resend, client, stream, tasks>>

\* A detached task gets the state lock; the runtime may run them in any order.
SetFlush ==
    /\ \E req \in setters :
        /\ flushReq' = req[2]
        /\ setters' = setters \ {req}
    /\ UNCHANGED <<open, starts, udp, asked, no_resend, signalled, client, stream,
                   buf, pc, packet_buf, heard, resent>>

-----------------------------------------------------------------------------
(* The client *)

\* The next packet goes to the port used last, or to a newer one.  The network
\* forgets a datagram once Reorder later packets have been sent.
Send ==
    /\ sent < MaxPos
    /\ sent' = sent + 1
    /\ \E i \in 1 .. starts :
        /\ i >= port
        /\ port' = i
        /\ stream' = [j \in Tasks |->
              {p \in stream[j] \cup (IF j = i THEN {sent + 1} ELSE {}) :
                  udp[j] => p + Reorder > sent}]
    /\ UNCHANGED <<rtsp, tasks>>

-----------------------------------------------------------------------------
(* The receive tasks *)

Goto(i, label) == pc' = [pc EXCEPT ![i] = label]

BufferUnlocked == \A j \in Tasks : pc[j] # "drain"

OnlyUdp == \A j \in Tasks : pc[j] # "none" => udp[j]
OnlyTcp == \A j \in Tasks : pc[j] # "none" => ~udp[j]

\* What counts as heard once task i has applied the flush request.  On UDP a
\* valid number puts a running window at the packet it names: everything
\* older is over.  On TCP the frames of a connection go on as they come.
HeardAfterFlush(i) ==
    IF OnlyTcp THEN heard
    ELSE [j \in Tasks |->
            IF j = i /\ OnlyUdp /\ flushReq \in SeqNum /\ ~buf.is_empty
            THEN {p \in Positions : p < (flushReq - StartSeq) % SeqMod} ELSE {}]

\* The request is taken at the top of the loop.
ApplyFlush(i) ==
    /\ pc[i] = "top"
    /\ Goto(i, "select")
    /\ flushReq # NO_FLUSH => BufferUnlocked
    /\ IF flushReq = NO_FLUSH
       THEN UNCHANGED <<buf, flushReq, heard>>
       ELSE /\ buf' = flush(buf, flushReq)
            /\ flushReq' = NO_FLUSH
            /\ heard' = HeardAfterFlush(i)
    /\ UNCHANGED <<rtsp, client, stream, packet_buf, resent>>

PacketAt(p) ==
    [sized |-> TRUE, seqnum |-> SeqOf(p), audio |-> p,
     samples |-> IF p \in Undecodable THEN 0 ELSE Capacity]

\* The data branch of the UDP loop: queue, then drain with the lock held.  A
\* datagram may be late, come again, or never.
ReceiveData(i) ==
    /\ udp[i] /\ pc[i] = "select" /\ BufferUnlocked
    /\ \E p \in stream[i] : buf' = queue(buf, PacketAt(p), TRUE)
    /\ Goto(i, "drain")
    /\ resent' = FALSE
    /\ UNCHANGED <<rtsp, client, stream, flushReq, packet_buf, heard>>

\* What the client can repeat on a control port: what it sent as datagrams.
Datagrams == UNION {stream[j] : j \in {k \in Tasks : udp[k]}}

\* The control branch: a retransmitted packet is queued and not drained.
ReceiveControl(i) ==
    /\ udp[i] /\ pc[i] = "select" /\ BufferUnlocked
    /\ \E p \in Datagrams : buf' = queue(buf, PacketAt(p), TRUE)
    /\ resent' = TRUE
    /\ Goto(i, "top")
    /\ UNCHANGED <<rtsp, client, stream, flushReq, packet_buf, heard>>

\* A datagram of another peer, a short one or of another type is ignored.
Ignore(i) ==
    /\ udp[i] /\ pc[i] = "select"
    /\ Goto(i, "top")
    /\ UNCHANGED <<rtsp, client, stream, buf, flushReq, packet_buf, heard, resent>>

\* The session of task i is handed the next frame of the window.
HandOver(i) ==
    /\ heard' = [heard EXCEPT ![i] = @ \cup ({DequeuedFrame(buf).audio} \ {Silence})]
    /\ buf' = dequeue(buf)
    /\ UNCHANGED <<rtsp, client, stream, flushReq, packet_buf, resent>>

\* Variant: one frame per packet instead of a loop.
DeliverOne(i) ==
    /\ pc[i] = "drain"
    /\ CanDequeue(buf, no_resend[i])
    /\ HandOver(i)
    /\ Goto(i, "top")

\* One turn of the dequeue loop.
Deliver(i) ==
    /\ pc[i] = "drain"
    /\ CanDequeue(buf, no_resend[i])
    /\ HandOver(i)
    /\ UNCHANGED pc

Drained(i) ==
    /\ pc[i] = "drain"
    /\ ~CanDequeue(buf, no_resend[i])
    /\ Goto(i, IF udp[i] THEN "top" ELSE "frames")
    /\ UNCHANGED <<rtsp, client, stream, buf, flushReq, packet_buf, heard, resent>>

\* TCP: the client connects.
Accept(i) ==
    /\ pc[i] = "accept"
    /\ Goto(i, "top")
    /\ UNCHANGED <<rtsp, client, stream, buf, flushReq, packet_buf, heard, resent>>

\* TCP: a read completes any number of the connection's next frames, maybe
\* none.  Positions grow along a connection, so its next frame is the least.
Read(i) ==
    /\ ~udp[i] /\ pc[i] = "select"
    /\ \E last \in {0} \cup stream[i] :
        /\ packet_buf' = [packet_buf EXCEPT ![i] = {p \in stream[i] : p <= last}]
        /\ stream' = [stream EXCEPT ![i] = {p \in @ : p > last}]
    /\ Goto(i, "frames")
    /\ UNCHANGED <<rtsp, client, buf, flushReq, heard, resent>>

\* Variant: the frame stays in packet_buf.
ReceiveFrameAgain(i) ==
    /\ pc[i] = "frames" /\ BufferUnlocked
    /\ \E p \in packet_buf[i] :
        /\ \A q \in packet_buf[i] : p <= q
        /\ buf' = queue(buf, PacketAt(p), FALSE)
    /\ Goto(i, "drain")
    /\ resent' = FALSE
    /\ UNCHANGED <<rtsp, client, stream, packet_buf, flushReq, heard>>

\* TCP: the next complete frame is queued under a number of its own, and the
\* ring is drained; the lock is released before the frame after it.
ReceiveFrame(i) ==
    /\ pc[i] = "frames" /\ BufferUnlocked
    /\ \E p \in packet_buf[i] :
        /\ \A q \in packet_buf[i] : p <= q
        /\ buf' = queue(buf, PacketAt(p), FALSE)
        /\ packet_buf' = [packet_buf EXCEPT ![i] = @ \ {p}]
    /\ Goto(i, "drain")
    /\ resent' = FALSE
    /\ UNCHANGED <<rtsp, client, stream, flushReq, heard>>

\* No complete frame is left: back to the top of the loop.
ReadDone(i) ==
    /\ pc[i] = "frames" /\ packet_buf[i] = {}
    /\ Goto(i, "top")
    /\ UNCHANGED <<rtsp, client, stream, buf, flushReq, packet_buf, heard, resent>>

\* TCP: accept fails, the stream ends, or it breaks the framing limits.
CloseTcp(i) ==
    /\ ~udp[i] /\ pc[i] \in {"accept", "select", "frames"}
    /\ Goto(i, "done")
    /\ packet_buf' = [packet_buf EXCEPT ![i] = {}]
    /\ UNCHANGED <<rtsp, client, stream, buf, flushReq, heard, resent>>

\* Variant: accept is not raced with the shutdown channel.
ShutdownSelectOnly(i) ==
    /\ signalled[i]
    /\ pc[i] = "select"
    /\ Goto(i, "done")
    /\ UNCHANGED <<rtsp, client, stream, buf, flushReq, packet_buf, heard, resent>>

\* The shutdown branch of select!; the AudioSession is dropped.
Shutdown(i) ==
    /\ signalled[i]
    /\ pc[i] \in {"accept", "select"}
    /\ Goto(i, "done")
    /\ UNCHANGED <<rtsp, client, stream, buf, flushReq, packet_buf, heard, resent>>

Work(i) == ApplyFlush(i) \/ Deliver(i) \/ Drained(i) \/ ReadDone(i)

Receive(i) ==
    \/ ReceiveData(i) \/ ReceiveControl(i) \/ Ignore(i)
    \/ Accept(i) \/ Read(i) \/ CloseTcp(i)

Next ==
    \/ Start \/ StartFails \/ FlushRequest \/ Stop \/ Drop
    \/ SetFlush \/ Send
    \/ \E i \in Tasks : Work(i) \/ ReceiveFrame(i) \/ Receive(i) \/ Shutdown(i)

(***************************************************************************)
(* The runtime keeps polling a task that can go on.  A task that waits for *)
(* the buffer's lock with a frame gets it in its turn, however often       *)
(* another one takes it: tokio's Mutex is a queue.  select! polls its      *)
(* branches in random order, so a shutdown that stays ready is taken even  *)
(* if packets are always ready too.                                        *)
(***************************************************************************)
Fairness ==
    /\ WF_vars(SetFlush)
    /\ \A i \in Tasks : /\ WF_vars(Work(i))
                        /\ SF_vars(ReceiveFrame(i))
                        /\ SF_vars(Shutdown(i))

Spec == Init /\ [][Next]_vars /\ Fairness

-----------------------------------------------------------------------------
\* The audio task i is about to hand to its session, if any.
Upcoming(i) ==
    IF pc[i] = "drain" /\ CanDequeue(buf, no_resend[i])
    THEN {DequeuedFrame(buf).audio} \ {Silence} ELSE {}

\* As long as every SETUP asks for UDP, audio is handed out in the order the
\* client sent it, each packet once, over all tasks that share the buffer and
\* however the sockets lose, repeat and reorder; after a flush that found a
\* running stream, nothing older than the packet it named is heard.
UdpPlaysForward ==
    OnlyUdp => \A i, j \in Tasks : \A a \in Upcoming(i), p \in heard[j] : p < a

\* As long as every SETUP asks for TCP, each session gets audio in the order the
\* client sent it and each packet once, also across flushes: two tasks number
\* their frames from one shared counter and take turns with the lock, and
\* still none hands out what the other queued.
TcpPlaysForward ==
    OnlyTcp => \A i \in Tasks : \A a \in Upcoming(i), p \in heard[i] : p < a

\* Whatever transports the tasks on the buffer use, no packet is handed out a
\* second time between two flushes, to the same session or to another one,
\* although TCP frames take sequence numbers that UDP packets have as well.
PlaysOnce == \A i, j \in Tasks : Upcoming(i) \cap heard[j] = {}

\* Between data packets, audio that a task could play stays in the buffer
\* only if it got there by a retransmit, which nothing drains, or if a task
\* that waits for retransmits left it behind a gap that this one may skip.
NothingHeldBack ==
    \A i \in Tasks :
        pc[i] = "select" /\ BufferUnlocked /\ ~resent =>
            \/ ~CanDequeue(buf, no_resend[i])
            \/ \E j \in Tasks : pc[j] # "none" /\ ~no_resend[j] /\ no_resend[i]

\* Once its shutdown channel has fired or closed, by a second SETUP, a failed
\* one, TEARDOWN or the end of the connection, a receive task ends.
SignalledTaskEnds ==
    \A i \in Tasks : signalled[i] ~> pc[i] = "done"

-----------------------------------------------------------------------------
\* RaopRtp calls its buffer "Shared packet buffer (decrypt + decode on queue,
\* dequeue in order)": over all tasks that share it, audio is handed out in
\* the order the client sent it.  A TCP task that has read frames queues them
\* under numbers of its own, after what a task of a later SETUP has queued.
DequeuesInOrder ==
    \A i, j \in Tasks : \A a \in Upcoming(i), p \in heard[j] : p < a
=============================================================================
