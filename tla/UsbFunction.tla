---------------------------- MODULE UsbFunction ----------------------------
(***************************************************************************)
(* What control requests promise: the device is a function that requests   *)
(* read and write, each at one moment.  Of a request that failed nobody    *)
(* knows whether it was carried out, so that the function is one of a set. *)
(***************************************************************************)
EXTENDS UsbRequest

CONSTANTS Request,    \* what may be asked, as in UsbHost
          New         \* the function when the device starts

VARIABLES phase,      \* "asked", "done" or "failed"
          asked,      \* the request, a name in Request
          data,       \* what was read
          functions   \* what the function may be

(* What a request reads, and what it does. *)
Answer(q, f) == reply(q, f.configured, f.wake, f.halted, f.line)

Effect(q, f) ==
  CASE Standard(q, REQ_SET_CONFIGURATION) /\ q.wValue \in {0, 1} ->
         [f EXCEPT !.configured = q.wValue]
    [] Standard(q, REQ_SET_FEATURE) /\ deviceFeature(q) /\ q.wValue = FEATURE_REMOTE_WAKEUP ->
         [f EXCEPT !.wake = TRUE]
    [] Standard(q, REQ_CLEAR_FEATURE) /\ deviceFeature(q) /\ q.wValue = FEATURE_REMOTE_WAKEUP ->
         [f EXCEPT !.wake = FALSE]
    [] setsStall(q)   -> [f EXCEPT !.halted = @ \cup {endpointOf(q)}]
    [] clearsStall(q) -> [f EXCEPT !.halted = @ \ {endpointOf(q)}]
    [] Class(q, CDC_SET_LINE_CODING) -> [f EXCEPT !.line = q.data]
    [] OTHER -> f

Effects(q, fs) == {Effect(q, f) : f \in fs}

(* A bus reset takes the configuration back and ends every halt. *)
Reset(fs) == {[f EXCEPT !.configured = 0, !.halted = {}] : f \in fs}

-----------------------------------------------------------------------------
Init == /\ phase = "failed" /\ asked \in DOMAIN Request /\ data = << >>
        /\ functions = {New}

Ask == /\ phase # "asked" /\ phase' = "asked"
       /\ asked' \in DOMAIN Request /\ data' = << >>
       /\ UNCHANGED functions

Succeed ==
  LET q == Request[asked]
  IN  /\ phase = "asked" /\ phase' = "done"
      /\ IF dirIn(q) THEN \E f \in functions : data' = Answer(q, f)
                     ELSE data' = << >>
      /\ functions' = Effects(q, functions)
      /\ UNCHANGED asked

Fail ==
  /\ phase = "asked" /\ phase' = "failed"
  /\ functions' \in {functions, functions \cup Effects(Request[asked], functions)}
  /\ UNCHANGED <<asked, data>>

ResetBus ==
  /\ phase' = "failed" /\ data' = << >>
  /\ functions' = Reset(functions \cup
       IF phase = "asked" THEN Effects(Request[asked], functions) ELSE {})
  /\ UNCHANGED asked

Next == Ask \/ Succeed \/ Fail \/ ResetBus

Spec == Init /\ [][Next]_<<phase, asked, data, functions>>
=============================================================================
