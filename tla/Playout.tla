------------------------------ MODULE Playout ------------------------------
(***************************************************************************)
(* The AirPlay 2 buffered audio pipeline of raop/buffered_audio.rs: a      *)
(* receiver that fills a buffer ordered by RTP timestamp, a command        *)
(* handler that plays, pauses, flushes and stops, and a delivery thread    *)
(* that hands due frames to the application.  The three share a mutex and  *)
(* a condition variable; a step is one critical section, or one call into  *)
(* the application with the mutex released.                                *)
(*                                                                         *)
(* Frames are numbered in the order the client sends them; frame k has     *)
(* timestamp StartTs + k in arithmetic modulo TsMod (2^32), so one unit of *)
(* time is one frame.  Commands travel through a channel that only delays  *)
(* them, so they are modelled where the command handler applies them.      *)
(***************************************************************************)
EXTENDS Integers

CONSTANTS
    TsMod,          \* 2^32, the number of RTP timestamps
    StartTs,        \* timestamp before that of frame 1
    MaxFrames,      \* bound: frames the client sends
    MaxClock,       \* bound: time that passes
    MaxCmds,        \* bound: commands the RTSP side sends
    Lead,           \* the 100 ms between play and the first frame
    Formats,        \* stream formats, as the SSRC announces them
    DefaultFormat,  \* the format before the first packet
    FormatOf,       \* the format of each frame
    Anchors,        \* timestamps SETRATEANCHORTIME may name
    FlushRanges,    \* <<from_seq, until_seq>> of FLUSHBUFFERED
    IdleSince       \* how long ago anchor_local_ns = 0 is, in frames: the
                    \* clock is the UNIX time, so it may be any number

Frames == 1 .. MaxFrames
Timestamps == 0 .. TsMod - 1
None == "none"

ASSUME PlayoutAssumption ==
    /\ TsMod \in Nat /\ StartTs \in Nat /\ Lead \in Nat
    /\ MaxFrames \in Nat /\ MaxClock \in Nat /\ MaxCmds \in Nat
    /\ 2 * (MaxFrames + MaxClock + Lead) < TsMod
    /\ DefaultFormat \in Formats /\ None \notin Formats
    /\ FormatOf \in [Frames -> Formats]
    /\ Anchors \subseteq Timestamps
    /\ FlushRanges \subseteq Timestamps \X Timestamps
    /\ IdleSince \subseteq Nat \ {0}

Ts(k) == (StartTs + k) % TsMod

\* (a.wrapping_sub(b) as i32) >= 0 and > 0
NotBefore(a, b) == 2 * ((a - b) % TsMod) < TsMod
After(a, b) == a # b /\ NotBefore(a, b)

VARIABLES
    buffer,          \* the frames of the BTreeMap
    anchor_rtp, anchor_local, rate, format, stopped,
    format_changed, flush_pending,
    clock,           \* now_ns(), in frames
    receiver,        \* where the receiver is
    current,         \* current_ssrc, the receiver's format
    next,            \* the frame the client sends next
    commander,       \* the command handler is running
    cmds,            \* commands so far
    delivery,        \* where the delivery thread is
    session,         \* the format of the AudioSession it holds
    batch,           \* frames it has taken from the buffer
    timed,           \* it took them by an anchor that a play command set
    heard,           \* the last such frame it handed over, since audio_flush
    doomed           \* frames of batch that a flush command has hit since

shared == <<buffer, anchor_rtp, anchor_local, rate, format, stopped,
            format_changed, flush_pending>>
rx == <<receiver, current, next>>
cmd == <<commander, cmds>>
tx == <<delivery, session, batch, timed, heard, doomed>>
vars == <<shared, clock, rx, cmd, tx>>

TypeOK ==
    /\ buffer \subseteq Frames /\ batch \subseteq Frames
    /\ doomed \subseteq batch
    /\ anchor_rtp \in Timestamps /\ anchor_local \in Int
    /\ rate \in {0, 1} /\ format \in Formats /\ current \in Formats \cup {None}
    /\ stopped \in BOOLEAN /\ format_changed \in BOOLEAN
    /\ flush_pending \in BOOLEAN /\ commander \in BOOLEAN
    /\ clock \in 0 .. MaxClock /\ cmds \in 0 .. MaxCmds
    /\ receiver \in {"accept", "read", "decode", "ended"}
    /\ next \in 1 .. MaxFrames + 1
    /\ delivery \in {"lock", "waiting", "flush", "deliver", "done"}
    /\ session \in Formats \cup {None}
    /\ timed \in BOOLEAN /\ heard \in 0 .. MaxFrames

Init ==
    /\ buffer = {} /\ anchor_rtp = 0 /\ rate = 0
    /\ anchor_local \in {-t : t \in IdleSince}
    /\ format = DefaultFormat /\ stopped = FALSE
    /\ format_changed = FALSE /\ flush_pending = FALSE
    /\ clock = 0
    /\ receiver = "accept" /\ current = None /\ next = 1
    /\ commander = TRUE /\ cmds = 0
    /\ delivery = "lock" /\ session = None
    /\ batch = {} /\ timed = FALSE /\ heard = 0 /\ doomed = {}

\* cvar.notify_all(): a waiting delivery thread re-checks its condition.
Notify ==
    /\ delivery' = IF delivery = "waiting" THEN "lock" ELSE delivery
    /\ UNCHANGED <<session, batch, timed, heard>>

-----------------------------------------------------------------------------
(* The command handler *)

Command ==
    /\ commander
    /\ cmds < MaxCmds
    /\ cmds' = cmds + 1
    /\ Notify
    /\ UNCHANGED <<clock, rx>>

\* The first key of the BTreeMap: keys are ordered as plain integers.
FirstTs == CHOOSE t \in {Ts(k) : k \in buffer} :
              \A k \in buffer : t <= Ts(k)

\* Variant: a plain subtraction.
LeadAnchorUnwrapped == FirstTs - Lead

\* The anchor that makes the earliest buffered frame due after the lead time.
LeadAnchor == (FirstTs - Lead) % TsMod

\* SetRate with rate # 0 re-anchors on the earliest buffered frame.
Play ==
    /\ Command
    /\ \E a \in Anchors :
        /\ anchor_rtp' = IF buffer = {} THEN a ELSE LeadAnchor
        /\ buffer' = {k \in buffer : ~After(anchor_rtp', Ts(k))}
    /\ rate' = 1
    /\ anchor_local' = clock
    /\ UNCHANGED <<format, stopped, format_changed, flush_pending, commander,
                   doomed>>

Pause ==
    /\ Command
    /\ rate' = 0
    /\ anchor_rtp' \in Anchors
    /\ UNCHANGED <<buffer, anchor_local, format, stopped, format_changed,
                   flush_pending, commander, doomed>>

InRange(k, range) == range[1] <= Ts(k) /\ Ts(k) <= range[2]

\* Variant: the session is told only if a buffered frame matched.
FlushOnlyMatching(range) ==
    /\ Command
    /\ buffer' = {k \in buffer : ~InRange(k, range)}
    /\ doomed' = doomed \cup {k \in batch : InRange(k, range)}
    /\ flush_pending' = (flush_pending \/ buffer' # buffer)
    /\ UNCHANGED <<anchor_rtp, anchor_local, rate, format, stopped,
                   format_changed, commander>>

FlushBy(range) ==
    /\ Command
    /\ buffer' = {k \in buffer : ~InRange(k, range)}
    /\ doomed' = doomed \cup {k \in batch : InRange(k, range)}
    /\ flush_pending' = TRUE
    /\ UNCHANGED <<anchor_rtp, anchor_local, rate, format, stopped,
                   format_changed, commander>>

Flush == \E range \in FlushRanges : FlushBy(range)

Stop ==
    /\ Command
    /\ stopped' = TRUE
    /\ buffer' = {}
    /\ commander' = FALSE
    /\ UNCHANGED <<anchor_rtp, anchor_local, rate, format, format_changed,
                   flush_pending, doomed>>

\* Every sender of the channel is gone: the handler ends, playout goes on.
Disconnect ==
    /\ commander
    /\ commander' = FALSE
    /\ UNCHANGED <<shared, clock, rx, cmds, tx>>

-----------------------------------------------------------------------------
(* The receiver *)

Accept ==
    /\ receiver = "accept"
    /\ receiver' = "read"
    /\ UNCHANGED <<shared, clock, current, next, cmd, tx>>

\* accept failed: on_error, and the task returns without setting stopped.
AcceptFails ==
    /\ receiver = "accept"
    /\ receiver' = "ended"
    /\ UNCHANGED <<shared, clock, current, next, cmd, tx>>

\* A packet arrives; a new SSRC changes the format before it is decoded.
ReadPacket ==
    /\ receiver = "read"
    /\ next <= MaxFrames
    /\ receiver' = "decode"
    /\ IF FormatOf[next] = current
       THEN UNCHANGED <<current, format, format_changed, delivery>>
       ELSE /\ current' = FormatOf[next]
            /\ format' = FormatOf[next]
            /\ format_changed' = TRUE
            /\ Notify
    /\ UNCHANGED <<buffer, anchor_rtp, anchor_local, rate, stopped,
                   flush_pending, clock, next, cmd, session, batch, timed,
                   heard, doomed>>

\* Variant: no notify_all after the insertion.
InsertQuietly ==
    /\ receiver = "decode"
    /\ buffer' = buffer \cup {next}
    /\ receiver' = "read"
    /\ next' = next + 1
    /\ UNCHANGED <<anchor_rtp, anchor_local, rate, format, stopped,
                   format_changed, flush_pending, clock, current, cmd, tx>>

\* The decoded frame enters the buffer, whether playout was stopped or not.
Insert ==
    /\ receiver = "decode"
    /\ buffer' = buffer \cup {next}
    /\ Notify
    /\ receiver' = "read"
    /\ next' = next + 1
    /\ UNCHANGED <<anchor_rtp, anchor_local, rate, format, stopped,
                   format_changed, flush_pending, clock, current, cmd, doomed>>

\* A packet too short for a frame is skipped when read, one that does not
\* decrypt or decode is skipped then.
SkipPacket ==
    /\ receiver \in {"read", "decode"}
    /\ next <= MaxFrames
    /\ receiver' = "read"
    /\ next' = next + 1
    /\ UNCHANGED <<shared, clock, current, cmd, tx>>

\* Variant: no notify_all at the end of the stream.
EndOfStreamQuietly ==
    /\ receiver = "read"
    /\ receiver' = "ended"
    /\ stopped' = TRUE
    /\ buffer' = {}
    /\ UNCHANGED <<anchor_rtp, anchor_local, rate, format, format_changed,
                   flush_pending, clock, current, next, cmd, tx>>

\* The stream ends or a length prefix is invalid.
EndOfStream ==
    /\ receiver = "read"
    /\ receiver' = "ended"
    /\ stopped' = TRUE
    /\ buffer' = {}
    /\ Notify
    /\ UNCHANGED <<anchor_rtp, anchor_local, rate, format, format_changed,
                   flush_pending, clock, current, next, cmd, doomed>>

-----------------------------------------------------------------------------
(* The delivery thread *)

\* Variant: a flush alone does not wake the delivery thread.
IdleWhenFlushed == ~stopped /\ (rate = 0 \/ buffer = {})

\* The condition the delivery thread waits on.
Idle == ~stopped /\ ~flush_pending /\ (rate = 0 \/ buffer = {})

Wait ==
    /\ delivery = "lock"
    /\ Idle
    /\ delivery' = "waiting"
    /\ UNCHANGED <<shared, clock, rx, cmd, session, batch, timed, heard, doomed>>

Target == (anchor_rtp + (clock - anchor_local)) % TsMod

Due == {k \in buffer : NotBefore(Target, Ts(k))}

\* Open a session if needed, take the flush flag and the due frames, unlock.
Collect ==
    /\ delivery = "lock"
    /\ ~Idle
    /\ ~stopped
    /\ session' = IF session = None \/ format_changed
                  THEN format ELSE session
    /\ format_changed' = FALSE
    /\ flush_pending' = FALSE
    /\ batch' = Due
    /\ timed' = (anchor_local >= 0)
    /\ buffer' = buffer \ Due
    /\ delivery' = IF flush_pending THEN "flush" ELSE "deliver"
    /\ UNCHANGED <<anchor_rtp, anchor_local, rate, format, stopped, clock, rx,
                   cmd, heard, doomed>>

AudioFlush ==
    /\ delivery = "flush"
    /\ heard' = 0
    /\ delivery' = "deliver"
    /\ UNCHANGED <<shared, clock, rx, cmd, session, batch, timed, doomed>>


\* audio_process for the next frame of the batch, in BTreeMap order.
AudioProcess ==
    /\ delivery = "deliver"
    /\ \E k \in batch :
        /\ \A j \in batch : Ts(k) <= Ts(j)
        /\ batch' = batch \ {k}
        /\ doomed' = doomed \ {k}
        /\ heard' = IF timed THEN k ELSE heard
    /\ UNCHANGED <<shared, clock, rx, cmd, delivery, session, timed>>

BatchDone ==
    /\ delivery = "deliver"
    /\ batch = {}
    /\ delivery' = "lock"
    /\ UNCHANGED <<shared, clock, rx, cmd, session, batch, timed, heard, doomed>>

\* stopped: the thread ends and drops its session.
Finish ==
    /\ delivery = "lock"
    /\ stopped
    /\ delivery' = "done"
    /\ session' = None
    /\ UNCHANGED <<shared, clock, rx, cmd, batch, timed, heard, doomed>>

Tick ==
    /\ clock < MaxClock
    /\ clock' = clock + 1
    /\ UNCHANGED <<shared, rx, cmd, tx>>

Deliver == Wait \/ Collect \/ AudioFlush \/ AudioProcess \/ BatchDone \/ Finish
Control == Play \/ Pause \/ Flush \/ Stop \/ Disconnect
Receive ==
    Accept \/ AcceptFails \/ ReadPacket \/ Insert \/ SkipPacket \/ EndOfStream

Next == Deliver \/ Control \/ Receive \/ Tick

\* The delivery thread is an OS thread: it runs whenever it can.  Neither
\* the client nor the command handler has to do anything.
Spec == Init /\ [][Next]_vars /\ WF_vars(Deliver)

-----------------------------------------------------------------------------

\* A frame that a flush hit after the delivery thread had taken it is handed
\* over nevertheless, but then the session's audio_flush is still to come
\* (unless playout stops): audio the client has flushed is not kept.
FlushedFramesAreCancelled == doomed # {} => flush_pending

\* Every flush command reaches the session, even if it matched no frame and
\* playout is paused, unless playout stops first.
FlushReachesSession == flush_pending ~> delivery = "flush" \/ stopped

\* While playing, a frame whose time has come leaves the buffer, unless a
\* new anchor moves its time: no wakeup of the delivery thread is lost.
DueFramesLeave ==
    \A k \in Frames :
        rate = 1 /\ k \in Due ~> k \notin Due \/ rate = 0 \/ stopped

\* Stop, or the end of the client's stream, ends the delivery thread.
StopEndsDelivery == stopped ~> delivery = "done"

-----------------------------------------------------------------------------
(* What the documentation says and the pipeline does not do.               *)

\* "rate=0 means pause": no frame leaves the buffer for the session while
\* the rate is 0.  A flush wakes the delivery thread in that state too, and
\* it then takes every frame the running clock has made due.
PausedTakesNothing == [][rate = 0 => batch' \subseteq batch]_vars

\* audio_init is passed the format of the samples the session will receive:
\* a session is handed frames of its own format only.  The delivery thread
\* opens a session for the newest format, then plays older buffered frames.
SessionFormatFits ==
    delivery = "deliver" => \A k \in batch : FormatOf[k] = session

\* "Set anchor so the earliest buffered frame is deliverable with a small lead
\* time": after a play command the frame sent first of those buffered is still
\* buffered and due when the lead time is over.  The first key of the BTreeMap
\* is another frame once the timestamps have wrapped.
EarliestLeads ==
    [][Play /\ buffer # {} =>
         \E k \in buffer : /\ \A j \in buffer : k <= j
                           /\ k \in buffer'
                           /\ (anchor_rtp' + Lead) % TsMod = Ts(k)]_vars
=============================================================================
