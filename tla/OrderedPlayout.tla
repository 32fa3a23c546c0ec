--------------------------- MODULE OrderedPlayout ---------------------------
(***************************************************************************)
(* What the header of raop/buffer.rs promises of a packet buffer, without  *)
(* slots: accepted packets wait in pending under their sequence number and *)
(* the consumer gets exactly those, one sequence number after the other,   *)
(* with silence in place of a number that never arrived.  A pending packet *)
(* leaves by delivery or by a reset, never any other way.                  *)
(***************************************************************************)
EXTENDS Integers, Functions

CONSTANTS BufLen, SeqMod, Payloads, Silence

VARIABLES
    pending,    \* function from the accepted, undelivered numbers to payloads
    next,       \* the sequence number the consumer gets next
    audio       \* the audio handed out last

vars == <<pending, next, audio>>

SeqNum == 0 .. SeqMod - 1
Distance(from, to) == IF from <= to THEN to - from ELSE to - from + SeqMod
Nothing == [s \in {} |-> Silence]

Init ==
    /\ pending = Nothing
    /\ next = 0
    /\ audio = Silence

\* A packet is accepted in the window that starts at the next number.
Accept ==
    \E s \in SeqNum, p \in Payloads :
        /\ s \notin DOMAIN pending
        /\ Distance(next, s) < BufLen
        /\ pending' = [t \in DOMAIN pending \cup {s} |->
                           IF t = s THEN p ELSE pending[t]]
        /\ UNCHANGED <<next, audio>>

\* Playout starts over at n, with at most the packet that caused it.  Any
\* moment will do: what the buffer promises, it promises between resets.
Restart ==
    /\ \E n \in SeqNum :
        /\ next' = n
        /\ pending' \in {Nothing} \cup {[s \in {n} |-> p] : p \in Payloads}
    /\ UNCHANGED audio

Deliver ==
    /\ next \in DOMAIN pending
    /\ audio' = pending[next]
    /\ pending' = Restrict(pending, DOMAIN pending \ {next})
    /\ next' = (next + 1) % SeqMod

\* Silence stands in for a missing packet only when a later one is waiting.
Conceal ==
    /\ next \notin DOMAIN pending
    /\ DOMAIN pending # {}
    /\ audio' = Silence
    /\ next' = (next + 1) % SeqMod
    /\ UNCHANGED pending

Next == Accept \/ Restart \/ Deliver \/ Conceal

Spec == Init /\ [][Next]_vars
=============================================================================
