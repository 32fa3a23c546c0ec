---------------------------- MODULE RtspTransport ----------------------------
(***************************************************************************)
(* One RTSP connection, from the bytes on the socket to the responses:     *)
(* process_connection (net/server.rs), the incremental request parser      *)
(* (proto/http.rs), and the switch to the encrypted channel                *)
(* (raop/connection.rs, crypto/chacha_transport.rs).                       *)
(*                                                                         *)
(* A byte is <<i, p>>, the p-th byte of the client's i-th request; its     *)
(* header block ends at byte HeaderLen, its body follows.  A sealed byte   *)
(* travels in a frame of its own, which takes two bytes of the stream:     *)
(* <<i, p, n, 1>> and <<i, p, n, 2>>, where n is the nonce counter.  The   *)
(* client pipelines freely, except that it waits for the response to the   *)
(* request that completes the pairing: what follows it is sealed.          *)
(***************************************************************************)
EXTENDS Naturals, Sequences

CONSTANTS
    Kinds,       \* the requests a client may send
    HeaderLen,   \* length of a kind's header block
    BodyLen,     \* its Content-Length
    Malformed,   \* kinds whose header block does not parse
    Probes,      \* kinds on the route with a body policy
    Pairing,     \* kinds whose handler leaves a shared secret
    Frames,      \* frames a kind's response takes when it is sealed
    Closing,     \* kinds whose response asks to disconnect
    MaxHeader,   \* MAX_HEADER_BYTES
    MaxBody,     \* MAX_BODY_BYTES
    ProbeLen,    \* the only length the body policy accepts
    ReadLen,     \* size of the read buffer
    MaxRaw,      \* MAX_ENCRYPTED_BUFFER_LEN
    LastNonce,   \* u64::MAX, the counter value that is never used
    MaxRequests  \* bound: requests the client sends

ASSUME TransportAssumption ==
    /\ HeaderLen \in [Kinds -> Nat \ {0}] /\ BodyLen \in [Kinds -> Nat]
    /\ Frames \in [Kinds -> Nat \ {0}]
    /\ Malformed \subseteq Kinds /\ Probes \subseteq Kinds
    /\ Pairing \subseteq Kinds /\ Closing \subseteq Kinds
    /\ {MaxHeader, MaxBody, ProbeLen, LastNonce, MaxRequests} \subseteq Nat
    /\ ReadLen \in Nat \ {0} /\ MaxRaw \in Nat /\ MaxRaw > ReadLen

VARIABLES
    script,      \* kinds of the requests sent so far
    clientNonce, \* the client's frame counter
    hungUp,      \* the client has closed its side
    net,         \* bytes sent and not read yet
    pc,          \* "open" or "closed"
    pending,     \* the PendingRequest
    raw_buf,     \* encrypted bytes that do not make a frame yet
    secret,      \* the connection has an ap2_shared_secret
    cipher,      \* the channel's two counters, or NoCipher
    responses    \* what was written to the socket

vars == <<script, clientNonce, hungUp, net, pc, pending, raw_buf, secret, cipher,
          responses>>

NoCipher == [on |-> FALSE, dec |-> 0, enc |-> 0]
Requests == 1 .. MaxRequests
Byte == Requests \X Nat
SealedByte == Requests \X Nat \X Nat \X {1, 2}

IsEnd(b) == Len(b) = 2 /\ b[2] = HeaderLen[script[b[1]]]

\* PendingRequest::default: an empty parser and no body deadline.
PendingRequest == [buffer |-> <<>>, headers_complete |-> FALSE, req |-> 0,
                   body |-> <<>>, complete |-> FALSE, body_deadline |-> "none"]

Init ==
    /\ script = <<>> /\ clientNonce = 0 /\ hungUp = FALSE /\ net = <<>>
    /\ pc = "open" /\ pending = PendingRequest /\ raw_buf = <<>>
    /\ secret = FALSE /\ cipher = NoCipher /\ responses = <<>>

-----------------------------------------------------------------------------
(* The parser.  Each operator returns the new parser state; "error" is the  *)
(* result Err, after which the connection never parses again.              *)

error == [PendingRequest EXCEPT !.body_deadline = "error"]

\* The body takes what it needs, the bytes behind it are left over.
\* (Variants: it takes everything; the left-over bytes are lost; a body is
\* complete only when a byte follows it.)
BodyTakesAll(p, data) ==
    LET got == p.buffer \o data
    IN  IF Len(got) < BodyLen[script[p.req]]
        THEN [p EXCEPT !.buffer = got]
        ELSE [p EXCEPT !.body = got, !.complete = TRUE, !.buffer = <<>>]

LeftoverLost(p, data) ==
    LET needed == BodyLen[script[p.req]]
        got    == p.buffer \o data
    IN  IF Len(got) < needed
        THEN [p EXCEPT !.buffer = got]
        ELSE [p EXCEPT !.body = SubSeq(got, 1, needed), !.complete = TRUE,
                       !.buffer = <<>>]

BodyWaitsForMore(p, data) ==
    LET needed == BodyLen[script[p.req]]
        got    == p.buffer \o data
    IN  IF Len(got) <= needed
        THEN [p EXCEPT !.buffer = got]
        ELSE [p EXCEPT !.body = SubSeq(got, 1, needed), !.complete = TRUE,
                       !.buffer = SubSeq(got, needed + 1, Len(got))]

buffer_body_and_leftover(p, data) ==
    LET needed == BodyLen[script[p.req]]
        got    == p.buffer \o data
    IN  IF Len(got) < needed
        THEN [p EXCEPT !.buffer = got]
        ELSE [p EXCEPT !.body = SubSeq(got, 1, needed), !.complete = TRUE,
                       !.buffer = SubSeq(got, needed + 1, Len(got))]

\* request_body_policy: the probe's route has one as long as the connection
\* is not AirPlay 2, which it becomes with the shared secret.
HasPolicy(kind, ap2) == kind \in Probes /\ ~ap2

\* The limits a header block is held to: parse_content_length's and those of
\* the body policy, which accepts one exact length.
Acceptable(kind, ap2) ==
    /\ kind \notin Malformed
    /\ BodyLen[kind] <= MaxBody
    /\ HasPolicy(kind, ap2) => BodyLen[kind] = ProbeLen

\* The header block ends with the last byte of head.  The bytes of head need
\* to be one request's, in order, or nothing httparse accepts is there.
try_parse_headers(p, head, ap2) ==
    LET i    == head[1][1]
        kind == script[i]
    IN  IF head = [k \in 1 .. HeaderLen[kind] |-> <<i, k>>] /\ Acceptable(kind, ap2)
        THEN [p EXCEPT !.headers_complete = TRUE, !.req = i, !.buffer = <<>>,
                       !.body_deadline = IF HasPolicy(kind, ap2) THEN "armed" ELSE "none"]
        ELSE error

ingest(p, data, ap2) ==
    LET ends == {k \in DOMAIN data : IsEnd(data[k])}
        e    == IF ends = {} THEN Len(data)
                ELSE CHOOSE k \in ends : \A j \in ends : k <= j
        head == p.buffer \o SubSeq(data, 1, e)
        h    == try_parse_headers(p, head, ap2)
    IN  CASE p.complete         -> [p EXCEPT !.buffer = @ \o data]
          [] p.headers_complete -> buffer_body_and_leftover(p, data)
          [] OTHER ->
                IF Len(head) > MaxHeader THEN error
                ELSE IF ends = {} THEN [p EXCEPT !.buffer = head]
                ELSE IF h = error THEN error
                ELSE buffer_body_and_leftover(h, SubSeq(data, e + 1, Len(data)))

\* PendingRequest::add_data: a complete request has no body deadline.
add_data(p, data, ap2) ==
    LET q == ingest(p, data, ap2)
    IN  IF q.complete THEN [q EXCEPT !.body_deadline = "none"] ELSE q

-----------------------------------------------------------------------------
(* The encrypted channel *)

\* CipherContext::decrypt: every whole frame at the front of raw, or an
\* error at the first one that does not open under the next counter.
\* (Variant: one frame at most.)
DecryptOneFrame(raw) ==
    LET n == IF Len(raw) >= 2 THEN 1 ELSE 0
    IN  [ok |-> n = 1 => raw[2][3] = cipher.dec /\ cipher.dec < LastNonce,
         plain |-> [k \in 1 .. n |-> <<raw[2][1], raw[2][2]>>],
         rest |-> SubSeq(raw, 2 * n + 1, Len(raw))]

decrypt(raw) ==
    LET frames == Len(raw) \div 2
        opens(k) == /\ Len(raw[2 * k]) = 4
                    /\ raw[2 * k][3] = cipher.dec + k - 1
                    /\ cipher.dec + k - 1 < LastNonce
    IN  [ok |-> \A k \in 1 .. frames : opens(k),
         plain |-> [k \in 1 .. frames |-> <<raw[2 * k][1], raw[2 * k][2]>>],
         rest |-> SubSeq(raw, 2 * frames + 1, Len(raw))]

\* encrypt_outgoing: under cipher c the frames of response r are sealed with
\* the next counters, and nothing goes out when these run out on the way.
\* (Variant: the counter is not checked.)
WireOutUnchecked(c, r) ==
    IF c.on THEN <<[r EXCEPT !.nonce = c.enc, !.sealed = TRUE]>> ELSE <<r>>

WireOut(c, r) ==
    IF ~c.on THEN <<r>>
    ELSE IF c.enc + r.frames <= LastNonce
    THEN <<[r EXCEPT !.nonce = c.enc, !.sealed = TRUE]>>
    ELSE <<>>

\* The cipher after that; a failed encryption has used up the counter.
Sealed(c, r) ==
    IF ~c.on THEN c
    ELSE [c EXCEPT !.enc = IF WireOut(c, r) = <<>> THEN LastNonce ELSE @ + r.frames]

\* The secret queued by conn_request becomes the cipher once, after the
\* response that announces it is written.
after_response(c, hasSecret) ==
    IF ~c.on /\ hasSecret THEN [NoCipher EXCEPT !.on = TRUE] ELSE c

\* A 400 response answers no request in particular.  The peer may be gone.
\* (Variant: it is written without a look at the cipher.)
BadRequest ==
    [req |-> 0, whole |-> FALSE, frames |-> 1, sealed |-> FALSE, nonce |-> 0]

bad_request_in_plain(c, written) ==
    /\ pc' = "closed" /\ cipher' = c
    /\ responses' = Append(written, BadRequest)

write_bad_request_and_close(c, written) ==
    /\ pc' = "closed" /\ cipher' = Sealed(c, BadRequest)
    /\ \/ responses' = written \o WireOut(c, BadRequest)
       \/ hungUp /\ responses' = written

-----------------------------------------------------------------------------
(* The connection task *)

\* The bytes of request i that follow its header block.
OwnBody(i) == [k \in 1 .. BodyLen[script[i]] |-> <<i, HeaderLen[script[i]] + k>>]

\* One turn of send_completed_responses: the handler runs, the response is
\* written, encryption is switched on, and the bytes behind the request start
\* the next one.
Respond ==
    /\ pc = "open" /\ pending.complete
    /\ LET kind == script[pending.req]
           has  == secret \/ kind \in Pairing
           resp == [BadRequest EXCEPT !.req = pending.req, !.frames = Frames[kind],
                                      !.whole = pending.body = OwnBody(pending.req)]
           out  == WireOut(cipher, resp)
           c    == after_response(Sealed(cipher, resp), has)
           next == add_data(PendingRequest, pending.buffer, has)
       IN  /\ secret' = has
           /\ \/ /\ out = <<>> \/ hungUp
                 /\ pc' = "closed" /\ cipher' = Sealed(cipher, resp)
                 /\ UNCHANGED <<responses, pending>>
              \/ /\ out # <<>>
                 /\ responses' = responses \o out /\ cipher' = c
                 /\ kind \in Closing
                 /\ pc' = "closed" /\ UNCHANGED pending
              \/ /\ out # <<>> /\ kind \notin Closing /\ next # error
                 /\ responses' = responses \o out /\ cipher' = c
                 /\ pending' = next /\ UNCHANGED pc
              \/ /\ out # <<>> /\ kind \notin Closing /\ next = error
                 /\ pending' = error
                 /\ write_bad_request_and_close(c, responses \o out)
    /\ UNCHANGED <<script, clientNonce, hungUp, net, raw_buf>>

\* add_request_data: what the parser refuses is answered with a 400.
add_request_data(data, c) ==
    LET next == add_data(pending, data, secret)
    IN  /\ pending' = next
        /\ \/ next # error /\ cipher' = c /\ UNCHANGED <<pc, responses>>
           \/ next = error /\ write_bad_request_and_close(c, responses)

\* What a read of n bytes leads to.
Ingest(n) ==
    /\ net' = SubSeq(net, n + 1, Len(net))
    /\ LET data == SubSeq(net, 1, n)
           d    == decrypt(raw_buf \o data)
           c    == [cipher EXCEPT !.dec = @ + Len(d.plain)]
       IN  \/ ~cipher.on /\ add_request_data(data, cipher) /\ UNCHANGED raw_buf
           \/ /\ cipher.on /\ (n > MaxRaw - Len(raw_buf) \/ ~d.ok)
              /\ pc' = "closed" /\ UNCHANGED <<pending, cipher, responses, raw_buf>>
           \/ /\ cipher.on /\ n <= MaxRaw - Len(raw_buf) /\ d.ok
              /\ raw_buf' = d.rest
              /\ \/ d.plain = <<>> /\ UNCHANGED <<pending, cipher, pc, responses>>
                 \/ d.plain # <<>> /\ add_request_data(d.plain, c)
    /\ UNCHANGED <<script, clientNonce, hungUp, secret>>

\* A read returns n bytes before the body deadline, if there is one.
\* (Variant: the bytes count even when the deadline is over.)
ReadAnyTime(n) == pc = "open" /\ ~pending.complete /\ Ingest(n)

Read(n) ==
    /\ pc = "open" /\ ~pending.complete /\ pending.body_deadline # "passed"
    /\ Ingest(n)

\* A read finds the stream ended or reset, or the body deadline is over.
ReadEnds ==
    /\ pc = "open" /\ ~pending.complete
    /\ hungUp \/ pending.body_deadline = "passed"
    /\ pc' = "closed"
    /\ UNCHANGED <<script, clientNonce, hungUp, net, pending, raw_buf, secret, cipher,
                   responses>>

\* The clock reaches the deadline of a body that is still incomplete.
DeadlinePasses ==
    /\ pc = "open" /\ pending.body_deadline = "armed"
    /\ pending' = [pending EXCEPT !.body_deadline = "passed"]
    /\ UNCHANGED <<script, clientNonce, hungUp, net, pc, raw_buf, secret, cipher, responses>>

-----------------------------------------------------------------------------
(* The client *)

\* The first request that completes the pairing, if one was sent.
PairedBy == {i \in DOMAIN script : script[i] \in Pairing
                 /\ \A j \in 1 .. i - 1 : script[j] \notin Pairing}

Send(kind) ==
    LET i     == Len(script) + 1
        len   == HeaderLen[kind] + BodyLen[kind]
        bytes == [p \in 1 .. len |-> <<i, p>>]
        frame(k) == <<i, (k + 1) \div 2, clientNonce + ((k - 1) \div 2), ((k - 1) % 2) + 1>>
    IN  /\ ~hungUp /\ i <= MaxRequests
        /\ \A j \in PairedBy : Len(responses) >= j
        /\ script' = Append(script, kind)
        /\ \/ /\ PairedBy = {}
              /\ net' = net \o bytes /\ UNCHANGED clientNonce
           \/ /\ PairedBy # {}
              /\ net' = net \o [k \in 1 .. 2 * len |-> frame(k)]
              /\ clientNonce' = clientNonce + len
        /\ UNCHANGED <<hungUp, pc, pending, raw_buf, secret, cipher, responses>>

HangUp ==
    /\ ~hungUp /\ hungUp' = TRUE
    /\ UNCHANGED <<script, clientNonce, net, pc, pending, raw_buf, secret, cipher, responses>>

-----------------------------------------------------------------------------
ReadSome == \E n \in 1 .. ReadLen : n <= Len(net) /\ Read(n)

Next ==
    \/ Respond
    \/ ReadSome
    \/ ReadEnds
    \/ DeadlinePasses
    \/ \E kind \in Kinds : Send(kind)
    \/ HangUp

TypeOK ==
    /\ script \in Seq(Kinds) /\ Len(script) <= MaxRequests
    /\ clientNonce \in Nat /\ hungUp \in BOOLEAN /\ secret \in BOOLEAN
    /\ net \in Seq(Byte \cup SealedByte) /\ raw_buf \in Seq(Byte \cup SealedByte)
    /\ pc \in {"open", "closed"}
    /\ pending \in [buffer : Seq(Byte \cup SealedByte), headers_complete : BOOLEAN,
                    req : 0 .. MaxRequests, body : Seq(Byte \cup SealedByte),
                    complete : BOOLEAN,
                    body_deadline : {"none", "armed", "passed", "error"}]
    /\ cipher \in [on : BOOLEAN, dec : 0 .. LastNonce, enc : 0 .. LastNonce]
    /\ responses \in Seq([req : 0 .. MaxRequests, whole : BOOLEAN, frames : Nat,
                          sealed : BOOLEAN, nonce : Nat])

\* The connection's task is polled as long as it has something to do.
Spec == Init /\ [][Next]_vars /\ WF_vars(Respond \/ ReadSome \/ ReadEnds)

-----------------------------------------------------------------------------
(* Properties *)

\* Whatever way the stream is cut into reads and however requests are
\* pipelined, the k-th response answers the client's k-th request, and the
\* handler was given that request's own body, all of it.  Only the last
\* response may be a 400, and it comes with the end of the connection.
AnsweredInOrder ==
    \A k \in DOMAIN responses :
        \/ responses[k].req = k /\ responses[k].whole
        \/ k = Len(responses) /\ pc = "closed" /\ responses[k].req = 0

\* The client can always read what it gets: responses up to the one that
\* completes the pairing are plain, every later one (a 400 as well) is
\* sealed, and its frames continue the counters where the response before
\* left them, so that none is skipped or used twice.
SealedOncePaired ==
    \A k \in DOMAIN responses :
        /\ responses[k].sealed <=> \E i \in PairedBy : i < k
        /\ responses[k].sealed =>
               responses[k].nonce = IF responses[k - 1].sealed
                                    THEN responses[k - 1].nonce + responses[k - 1].frames
                                    ELSE 0

\* When the connection waits for more bytes and none are on their way, every
\* request it was sent has been answered: no whole request stays behind in
\* the parser's left-over bytes or in the encrypted buffer.
NothingLeftBehind ==
    pc = "open" /\ net = <<>> /\ ~pending.complete => Len(responses) = Len(script)

\* The connection is closed for a reason the peers know of: the client hung up,
\* the request answered last asked for it, that one or the next cannot be
\* accepted, its body came too late, or a counter has run out.  In particular
\* the way the stream is cut into reads never makes a frame fail to open, and
\* never fills the encrypted buffer up to its limit, although a read may find
\* the rest of a frame in it.
ClosedForCause ==
    pc = "closed" =>
        \/ hungUp
        \/ \E i \in DOMAIN script :
              /\ i \in {Len(responses), Len(responses) + 1}
              /\ \/ script[i] \in Closing
                 \/ HeaderLen[script[i]] > MaxHeader
                 \/ ~Acceptable(script[i], FALSE)
        \/ pending.body_deadline = "passed"
        \/ clientNonce > LastNonce \/ cipher.enc = LastNonce

\* A request whose body deadline has passed is never answered, not even when
\* the rest of its body is already waiting to be read.
LateBodyUnanswered ==
    \A k \in Requests :
        [](pending.body_deadline = "passed" /\ pending.req = k => [](Len(responses) < k))

\* Every request is answered in the end, unless the connection closes.
EveryRequestAnswered ==
    \A k \in Requests : Len(script) >= k ~> Len(responses) >= k \/ pc = "closed"
=============================================================================
