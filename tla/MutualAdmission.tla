--------------------------- MODULE MutualAdmission ---------------------------
(***************************************************************************)
(* What the hello of a connection promises its two ends: a server admits   *)
(* a client only if the two are compatible (each is the identity the other *)
(* pins, and each supports the version the other starts with), and a       *)
(* client admits a server only after that server has admitted it.  Either  *)
(* end may give up as long as it has not admitted the other.               *)
(***************************************************************************)
VARIABLES
  compatible,  \* whether the ends suit each other, fixed with the connection
  server,      \* "pending", "admitted" or "refused", as the server sees it
  client       \* the same, as the client sees it

vars == <<compatible, server, client>>

Init == compatible \in BOOLEAN /\ server = "pending" /\ client = "pending"

AdmitClient ==
  /\ server = "pending" /\ compatible
  /\ server' = "admitted"
  /\ UNCHANGED <<compatible, client>>

AdmitServer ==
  /\ client = "pending" /\ server = "admitted"
  /\ client' = "admitted"
  /\ UNCHANGED <<compatible, server>>

RefuseClient == server = "pending" /\ server' = "refused" /\ UNCHANGED <<compatible, client>>
RefuseServer == client = "pending" /\ client' = "refused" /\ UNCHANGED <<compatible, server>>

Next == AdmitClient \/ AdmitServer \/ RefuseClient \/ RefuseServer

Spec == Init /\ [][Next]_vars
=============================================================================
