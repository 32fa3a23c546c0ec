--------------------------- MODULE MCRtspTransport ---------------------------
(* RtspTransport; header blocks and bodies of up to two bytes are accepted. *)
EXTENDS RtspTransport

MCKinds == {"get", "post", "pair", "bye", "bad", "long", "huge", "probe"}
MCHeaderLen == [k \in MCKinds |-> IF k = "long" THEN 3 ELSE 2]
MCBodyLen == [k \in MCKinds |-> CASE k = "post" -> 2 [] k = "probe" -> 1 [] k = "huge" -> 3 [] OTHER -> 0]
MCFrames == [k \in MCKinds |-> IF k = "get" THEN 4 ELSE 1]
MCMalformed == {"bad"}
MCProbes == {"probe"}
MCPairing == {"pair"}
MCClosing == {"bye"}
=============================================================================
