--------------------------- MODULE RequestContract ---------------------------
(***************************************************************************)
(* What a request over the serial link promises its caller, as Frontend    *)
(* and the commands of MessageTerminal rely on it: each request gets one   *)
(* answer, and a request that is answered with SERIAL_OK has been carried  *)
(* out.  One that fails may or may not have been, or may still be.  The    *)
(* promise is void from a restart of the controller, or an answer that     *)
(* came after its timeout, until the port is opened again.                 *)
(***************************************************************************)
CONSTANT Requests

VARIABLES asked,      \* the request that waits for its answer, or "none"
          done,       \* the controller has carried out the last request
          outcome,    \* "ok" or "failed": how the last call ended
          sound       \* no restart and no late answer since the port was opened

vars == <<asked, done, outcome, sound>>

Init == asked = "none" /\ done = TRUE /\ outcome = "ok" /\ sound = TRUE

Ask == /\ asked = "none"
       /\ asked' \in Requests /\ done' = FALSE
       /\ UNCHANGED <<outcome, sound>>

(* Also after the caller has given up.                                     *)
CarryOut == ~ done /\ done' = TRUE /\ UNCHANGED <<asked, outcome, sound>>

Answer == /\ asked # "none" /\ asked' = "none"
          /\ outcome' = "failed" \/ (outcome' = "ok" /\ (sound' => done))
          /\ (sound' => sound) /\ UNCHANGED done

(* A call that fails before anything is sent.                              *)
Refuse == asked = "none" /\ outcome' = "failed" /\ UNCHANGED <<asked, done, sound>>

Spoil == sound' = FALSE /\ UNCHANGED <<asked, done, outcome>>

OpenAgain == asked = "none" /\ sound' = TRUE /\ UNCHANGED <<asked, done, outcome>>

Next == Ask \/ CarryOut \/ Answer \/ Refuse \/ Spoil \/ OpenAgain

Spec == Init /\ [][Next]_vars

(* No call waits for ever.                                                 *)
Answered == asked # "none" ~> asked = "none"
=============================================================================
