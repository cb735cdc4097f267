---------------------------- MODULE RequestReply ----------------------------
(***************************************************************************)
(* What Client::communicate promises its callers, whatever the wire does   *)
(* (spec sections 3, 4.1 and 8).  A call either fails before it waits      *)
(* (the request could not be built or written) or it waits and then        *)
(* returns exactly once: with the reply to this very call, with an ADS or  *)
(* I/O error, or with a timeout.  A waiting call always returns.           *)
(*                                                                         *)
(* A call is named <<c, n>>: the n-th call of caller c.  The result of a   *)
(* caller's last call is a record: its kind and, when it is Ok, the call   *)
(* whose reply it carries (<<c, 0>> otherwise).  AdsComm implements this   *)
(* specification under the mapping given where it instantiates it.        *)
(***************************************************************************)
EXTENDS Naturals

CONSTANTS
    Callers,    \* caller threads
    MaxCalls    \* calls per caller

VARIABLES
    phase,      \* per caller: "idle" or "wait"
    started,    \* per caller: calls started
    result      \* per caller: [kind, of] of its last call

vars == <<phase, started, result>>

Result(k, of) == [kind |-> k, of |-> of]

NoResult(c) == Result("none", <<c, 0>>)

Init ==
    /\ phase = [c \in Callers |-> "idle"]
    /\ started = [c \in Callers |-> 0]
    /\ result = [c \in Callers |-> NoResult(c)]

\* A call starts: it sends and waits, or fails at once with an I/O error
\* (the socket write) or invalid data (the payload length).
Call(c) ==
    /\ phase[c] = "idle"
    /\ started[c] < MaxCalls
    /\ started' = [started EXCEPT ![c] = @ + 1]
    /\ \/ /\ phase' = [phase EXCEPT ![c] = "wait"]
          /\ result' = [result EXCEPT ![c] = NoResult(c)]
       \/ /\ \E k \in {"io", "invalid"} :
               result' = [result EXCEPT ![c] = Result(k, <<c, 0>>)]
          /\ UNCHANGED phase

\* A waiting call returns once; when it returns Ok it carries the reply to
\* this very call.
Return(c) ==
    /\ phase[c] = "wait"
    /\ phase' = [phase EXCEPT ![c] = "idle"]
    /\ \/ result' = [result EXCEPT ![c] = Result("ok", <<c, started[c]>>)]
       \/ \E k \in {"ads", "io", "timeout"} :
            result' = [result EXCEPT ![c] = Result(k, <<c, 0>>)]
    /\ UNCHANGED started

Next == \E c \in Callers : Call(c) \/ Return(c)

\* What a caller may observe: no step but a call or a return.
SafetySpec == Init /\ [][Next]_vars

\* The whole promise: a waiting call also returns.
Spec == SafetySpec /\ \A c \in Callers : WF_vars(Return(c))

=============================================================================
