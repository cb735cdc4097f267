------------------------------ MODULE AdsComm ------------------------------
(***************************************************************************)
(* The request/reply multiplexer of src/src/client.rs: caller threads in   *)
(* ClientInner::communicate, the reply registry (reply_map), the reader    *)
(* thread (Reader::run / run_inner) and the session rotation it asks of    *)
(* the external session manager (roboplc::comm::Client).                   *)
(*                                                                         *)
(* Data is abstracted to what the properties tell apart: a request is its  *)
(* invoke id and the one-shot cell (DataCell) it waits on; a reply frame   *)
(* carries the invoke id, the cell of the request it answers (a ghost the  *)
(* code does not see) and the server's answer; every other frame is its    *)
(* kind.  A socket is the number of the session that opened it.           *)
(***************************************************************************)
EXTENDS Naturals, Sequences, FiniteSets, Functions, TLC

CONSTANTS
  Callers,      \* caller threads invoking Client::communicate
  IdBits,       \* width of the invoke-id counter (AtomicU32: 32)
  MaxCalls,     \* bound: communicate calls per caller
  MaxSessions,  \* bound: TCP sessions (the session manager stops reconnecting)
  MaxNoise,     \* bound: frames other than replies sent by the peer
  NoiseKinds,   \* the kinds of such frames the peer may send
  HasTimeout,   \* read_timeout is configured (Timeouts::read > 0)
  AnswerKinds,  \* the answers the server may give
  DataOut,      \* whether calls pass output buffers (data_out non-empty)
  NoReply       \* empty DataCell

ASSUME IdBits \in Nat \ {0} /\ MaxCalls \in Nat \ {0}
ASSUME MaxSessions \in Nat \ {0} /\ MaxNoise \in Nat
ASSUME HasTimeout \in BOOLEAN /\ DataOut \subseteq BOOLEAN /\ DataOut # {}
ASSUME AnswerKinds \subseteq {"ok", "amsError", "resultError", "short"}
ASSUME NoiseKinds \subseteq {"router", "foreign", "unknown", "notif", "badNotif",
                             "runt", "short", "runtNotif"}

IdMod    == 2^IdBits
Ids      == 0 .. IdMod - 1
Sessions == 1 .. MaxSessions
\* A DataCell is created once per call: the caller and its call number.
Cells    == Callers \X (1 .. MaxCalls)
\* What the server puts in a reply: success, a nonzero AMS error_code, a
\* nonzero result field, or fewer bytes than the first output buffer.
Answers  == AnswerKinds
Replies  == [kind : {"reply"}, id : Ids, cell : Cells, answer : Answers]
Frames   == Replies \cup [kind : NoiseKinds]
Outcomes == {"none", "ok", "io", "ads", "timeout", "invalid"}

VARIABLES
  nextId,        \* ClientInner.invoke_id
  replyMap,      \* ClientInner.reply_map: invoke id -> cell
  pc,            \* caller: "idle" or "wait" (blocked in cell.get)
  myId,          \* caller: invoke id of its current call
  calls,         \* caller: number of calls started (names its cell)
  wants,         \* caller: data_out is non-empty
  slot,          \* caller: content of its current DataCell
  outcome,       \* caller: result of its last call
  accepted,      \* ghost: cell of the request whose reply was accepted
  sent,          \* ghost: cells whose request reached the socket
  session,       \* session manager: current session id
  closed,        \* sessions whose socket is closed
  rxQueue,       \* Reader.reader_rx: reader sockets not yet taken
  inbox,         \* requests the server received and has not answered
  stream,        \* per socket, frames sent by the server not yet read
  noise,         \* number of non-reply frames sent
  rpc,           \* reader: "recv", "start", "loop", "exit", "dead"
  rsock,         \* reader: the socket of run_inner
  rseen,         \* reader: session id read when the socket was taken
  restartEvent,  \* restart beacon (single slot)
  notifs         \* notifications handed to notif_send

callerVars == <<pc, myId, calls, wants, slot, outcome, accepted, sent>>
envVars    == <<session, closed, rxQueue, inbox, stream, noise>>
readerVars == <<rpc, rsock, rseen, restartEvent, notifs>>
vars == <<nextId, replyMap, callerVars, envVars, readerVars>>

Owner(cell) == cell[1]

\* A cell is live when its caller is blocked on it.
Live(cell) == /\ pc[Owner(cell)] = "wait"
              /\ calls[Owner(cell)] = cell[2]

RemoveKey(m, k) == Restrict(m, DOMAIN m \ {k})

-----------------------------------------------------------------------------
(* Plausible faults of the code, used as mutants of the definitions below. *)

NextInvokeIdStuck(n) == n

NextInvokeIdUnwrapped(n) == n + 1

CallTimeoutKeepEntry(c) ==
  /\ HasTimeout
  /\ pc[c] = "wait"
  /\ slot[c] = NoReply
  /\ pc' = [pc EXCEPT ![c] = "idle"]
  /\ outcome' = [outcome EXCEPT ![c] = "timeout"]
  /\ UNCHANGED <<nextId, replyMap, myId, calls, wants, slot, accepted, sent,
                 envVars, readerVars>>

-----------------------------------------------------------------------------
(* Session manager (roboplc::comm::Client, outside this repository).      *)

\* reconnect(): the old socket is closed (requests on it die with it), the
\* session id grows and the new reader socket is queued on reader_rx.  At
\* the bound the connection attempt fails and nothing changes.
Reconnect ==
  IF session < MaxSessions
  THEN /\ session' = session + 1
       /\ closed' = closed \cup {session}
       /\ rxQueue' = Append(rxQueue, session + 1)
       /\ inbox' = {r \in inbox : r.s # session}
  ELSE UNCHANGED <<session, closed, rxQueue, inbox>>

-----------------------------------------------------------------------------
(* ClientInner::communicate.                                               *)

NextInvokeId(n) == (n + 1) % IdMod

\* fetch_add, header, reply_map.insert, client.write: the write succeeds on
\* an open socket; the cell stays registered until the reply or a timeout.
CallSend(c) ==
  /\ pc[c] = "idle"
  /\ calls[c] < MaxCalls
  /\ session \notin closed
  /\ \E w \in DataOut :
       LET cell == <<c, calls[c] + 1>> IN
       /\ nextId' = NextInvokeId(nextId)
       /\ replyMap' = (nextId :> cell) @@ replyMap
       /\ inbox' = inbox \cup {[s |-> session, id |-> nextId, cell |-> cell]}
       /\ pc' = [pc EXCEPT ![c] = "wait"]
       /\ myId' = [myId EXCEPT ![c] = nextId]
       /\ calls' = [calls EXCEPT ![c] = @ + 1]
       /\ wants' = [wants EXCEPT ![c] = w]
       /\ slot' = [slot EXCEPT ![c] = NoReply]
       /\ sent' = sent \cup {cell}
       /\ outcome' = [outcome EXCEPT ![c] = "none"]
  /\ UNCHANGED <<accepted, session, closed, rxQueue, stream, noise,
                 readerVars>>

\* The same steps on a closed socket: client.write(&request)? returns the
\* I/O error straight away and the inserted cell is never removed.
CallWriteFail(c) ==
  /\ pc[c] = "idle"
  /\ calls[c] < MaxCalls
  /\ session \in closed
  /\ nextId' = NextInvokeId(nextId)
  /\ replyMap' = (nextId :> <<c, calls[c] + 1>>) @@ replyMap
  /\ myId' = [myId EXCEPT ![c] = nextId]
  /\ calls' = [calls EXCEPT ![c] = @ + 1]
  /\ slot' = [slot EXCEPT ![c] = NoReply]
  /\ outcome' = [outcome EXCEPT ![c] = "io"]
  /\ UNCHANGED <<pc, wants, accepted, sent, envVars, readerVars>>

\* data_in longer than u32: the invoke id is already taken, nothing is sent.
CallInvalidData(c) ==
  /\ pc[c] = "idle"
  /\ calls[c] < MaxCalls
  /\ nextId' = NextInvokeId(nextId)
  /\ calls' = [calls EXCEPT ![c] = @ + 1]
  /\ outcome' = [outcome EXCEPT ![c] = "invalid"]
  /\ UNCHANGED <<replyMap, pc, myId, wants, slot, accepted, sent, envVars,
                 readerVars>>

\* cell.get_timeout elapsed with the cell empty: map_ch_err! removes the
\* entry of this invoke id and returns the timeout.
CallTimeout(c) ==
  /\ HasTimeout
  /\ pc[c] = "wait"
  /\ slot[c] = NoReply
  /\ replyMap' = RemoveKey(replyMap, myId[c])
  /\ pc' = [pc EXCEPT ![c] = "idle"]
  /\ outcome' = [outcome EXCEPT ![c] = "timeout"]
  /\ UNCHANGED <<nextId, myId, calls, wants, slot, accepted, sent, envVars,
                 readerVars>>

\* The reply checks of communicate, in the code's order.  Source address,
\* command and state flags are those of a conformant peer and always pass.
Validate(f, id, w) ==
  CASE f.id # id                              -> "io"
    [] f.answer \in {"amsError", "resultError"} -> "ads"
    [] ~w                                     -> "ok"
    [] f.answer = "short"                     -> "io"
    [] OTHER                                  -> "ok"

\* The cell was set by the reader: validate, copy out, recycle the buffer.
CallReply(c) ==
  /\ pc[c] = "wait"
  /\ slot[c] # NoReply
  /\ LET res == Validate(slot[c], myId[c], wants[c]) IN
     /\ outcome' = [outcome EXCEPT ![c] = res]
     /\ accepted' = [accepted EXCEPT ![c] =
                       IF res = "ok" THEN slot[c].cell ELSE @]
  /\ pc' = [pc EXCEPT ![c] = "idle"]
  /\ slot' = [slot EXCEPT ![c] = NoReply]
  /\ UNCHANGED <<nextId, replyMap, myId, calls, wants, sent, envVars,
                 readerVars>>

-----------------------------------------------------------------------------
(* Reader::run and Reader::run_inner.                                      *)

\* reader_rx.recv(): the next fresh reader socket.
ReaderRecv ==
  /\ rpc = "recv"
  /\ rxQueue # <<>>
  /\ rsock' = Head(rxQueue)
  /\ rxQueue' = Tail(rxQueue)
  /\ rpc' = "start"
  /\ UNCHANGED <<nextId, replyMap, callerVars, session, closed, inbox, stream,
                 noise, rseen, restartEvent, notifs>>

\* session_id is read now, after the socket was taken; a restart event is
\* posted; run_inner begins.
ReaderStart ==
  /\ rpc = "start"
  /\ rseen' = session
  /\ restartEvent' = TRUE
  /\ rpc' = "loop"
  /\ UNCHANGED <<nextId, replyMap, callerVars, envVars, rsock, notifs>>

\* read_exact fails on a closed socket: run_inner returns.
ReaderSocketError ==
  /\ rpc = "loop"
  /\ rsock \in closed
  /\ rpc' = "exit"
  /\ UNCHANGED <<nextId, replyMap, callerVars, envVars, rsock, rseen,
                 restartEvent, notifs>>

\* One frame of the socket is read and taken off the stream.
ReadFrame(kinds) ==
  /\ rpc = "loop"
  /\ stream[rsock] # <<>>
  /\ Head(stream[rsock]).kind \in kinds
  /\ stream' = [stream EXCEPT ![rsock] = Tail(@)]

\* Router messages, frames not addressed to our source and notifications of
\* at least 42 bytes failing the flag/length checks or the parser are
\* skipped.
ReaderSkip ==
  /\ ReadFrame({"router", "foreign", "badNotif"})
  /\ UNCHANGED <<nextId, replyMap, callerVars, session, closed, rxQueue,
                 inbox, noise, readerVars>>

\* An unknown AMS command or inconsistent length fields end run_inner.  A
\* "short" frame (command 0, packet_length 24..31) gets here in builds
\* without overflow checks: packet_length + 6 - 38 wraps and cannot match.
ReaderAbort ==
  /\ ReadFrame({"unknown", "short"})
  /\ rpc' = "exit"
  /\ UNCHANGED <<nextId, replyMap, callerVars, session, closed, rxQueue,
                 inbox, noise, rsock, rseen, restartEvent, notifs>>

\* A frame shorter than 30 bytes with AMS command 0: buf[26..30] panics.  A
\* "short" frame (packet_length 24..31) gets here in builds with overflow
\* checks: packet_length + 6 - 38 underflows.
HeaderPanics == {"runt", "short"}

\* A notification with packet_length 32..35 (rest_length 0..3, consistent)
\* passes the length check and panics on buf[38..42].
NotifLengthPanics == {"runtNotif"}

\* The reader thread is gone.
ReaderPanic ==
  /\ ReadFrame(HeaderPanics \cup NotifLengthPanics)
  /\ rpc' = "dead"
  /\ UNCHANGED <<nextId, replyMap, callerVars, session, closed, rxQueue,
                 inbox, noise, rsock, rseen, restartEvent, notifs>>

\* A valid notification is parsed and sent to the notification channel.
ReaderNotify ==
  /\ ReadFrame({"notif"})
  /\ notifs' = notifs + 1
  /\ UNCHANGED <<nextId, replyMap, callerVars, session, closed, rxQueue,
                 inbox, noise, rpc, rsock, rseen, restartEvent>>

\* A reply: the entry of its invoke id is removed and its cell is set; a
\* reply with no entry (late, after a timeout) is dropped.  Setting a cell
\* nobody waits on any more changes nothing visible.
ReaderDeliver ==
  /\ ReadFrame({"reply"})
  /\ LET f == Head(stream[rsock]) IN
     IF f.id \in DOMAIN replyMap
     THEN LET cell == replyMap[f.id] IN
          /\ replyMap' = RemoveKey(replyMap, f.id)
          /\ slot' = IF Live(cell)
                     THEN [slot EXCEPT ![Owner(cell)] = f]
                     ELSE slot
     ELSE UNCHANGED <<replyMap, slot>>
  /\ UNCHANGED <<nextId, pc, myId, calls, wants, outcome, accepted, sent,
                 session, closed, rxQueue, inbox, noise, readerVars>>

\* After run_inner: reconnect unless the session id differs from the one
\* read in ReaderStart; then wait for the next socket.
ReaderExit ==
  /\ rpc = "exit"
  /\ rpc' = "recv"
  /\ IF rseen = session
     THEN Reconnect
     ELSE UNCHANGED <<session, closed, rxQueue, inbox>>
  /\ UNCHANGED <<nextId, replyMap, callerVars, stream, noise, rsock, rseen,
                 restartEvent, notifs>>

\* A subscriber of get_restart_event_receiver takes the pending event.
TakeRestartEvent ==
  /\ restartEvent
  /\ restartEvent' = FALSE
  /\ UNCHANGED <<nextId, replyMap, callerVars, envVars, rpc, rsock, rseen,
                 notifs>>

-----------------------------------------------------------------------------
(* The peer and the network.                                              *)

\* The server answers any pending request of a live socket, in any order.
ServerReply ==
  \E r \in inbox, a \in Answers :
    /\ r.s \notin closed
    /\ inbox' = inbox \ {r}
    /\ stream' = [stream EXCEPT ![r.s] =
                   Append(@, [kind |-> "reply", id |-> r.id,
                              cell |-> r.cell, answer |-> a])]
    /\ UNCHANGED <<nextId, replyMap, callerVars, session, closed, rxQueue,
                   noise, readerVars>>

\* The peer sends some other frame on the live socket.
ServerNoise ==
  /\ noise < MaxNoise
  /\ session \notin closed
  /\ \E k \in NoiseKinds :
       stream' = [stream EXCEPT ![session] = Append(@, [kind |-> k])]
  /\ noise' = noise + 1
  /\ UNCHANGED <<nextId, replyMap, callerVars, session, closed, rxQueue,
                 inbox, readerVars>>

\* The peer closes the connection; unanswered requests on it are lost.
PeerClose ==
  /\ session \notin closed
  /\ closed' = closed \cup {session}
  /\ inbox' = {r \in inbox : r.s # session}
  /\ UNCHANGED <<nextId, replyMap, callerVars, session, rxQueue, stream,
                 noise, readerVars>>

\* The session manager reconnects after a failed write.
ClientReconnect ==
  /\ session \in closed
  /\ session < MaxSessions
  /\ Reconnect
  /\ UNCHANGED <<nextId, replyMap, callerVars, stream, noise, readerVars>>

-----------------------------------------------------------------------------

\* ClientInner::new: connected (session 1), its reader socket queued, the
\* counter at 0, registry empty, no restart event yet.
Init ==
  /\ nextId = 0
  /\ replyMap = [i \in {} |-> NoReply]
  /\ pc = [c \in Callers |-> "idle"]
  /\ myId = [c \in Callers |-> 0]
  /\ calls = [c \in Callers |-> 0]
  /\ wants = [c \in Callers |-> FALSE]
  /\ slot = [c \in Callers |-> NoReply]
  /\ outcome = [c \in Callers |-> "none"]
  /\ accepted = [c \in Callers |-> <<c, 0>>]
  /\ sent = {}
  /\ session = 1
  /\ closed = {}
  /\ rxQueue = <<1>>
  /\ inbox = {}
  /\ stream = [s \in Sessions |-> <<>>]
  /\ noise = 0
  /\ rpc = "recv"
  /\ rsock = 1
  /\ rseen = 0
  /\ restartEvent = FALSE
  /\ notifs = 0

\* Every caller has made its calls and returned: the bounded run is over.
Finished ==
  /\ \A c \in Callers : pc[c] = "idle" /\ calls[c] = MaxCalls
  /\ UNCHANGED vars

CallerNext(c) ==
  \/ CallSend(c) \/ CallWriteFail(c) \/ CallInvalidData(c)
  \/ CallTimeout(c) \/ CallReply(c)

ReaderNext ==
  \/ ReaderRecv \/ ReaderStart \/ ReaderSocketError \/ ReaderSkip
  \/ ReaderAbort \/ ReaderPanic \/ ReaderNotify \/ ReaderDeliver \/ ReaderExit

EnvNext ==
  \/ ServerReply \/ ServerNoise \/ PeerClose \/ ClientReconnect
  \/ TakeRestartEvent

Next ==
  \/ \E c \in Callers : CallerNext(c)
  \/ ReaderNext
  \/ EnvNext
  \/ Finished

\* The reader is a dedicated thread, a waiting caller is woken by its cell
\* or its timeout, a conformant server answers what reached it on a live
\* connection, and the session manager reconnects after a failure.
Fairness ==
  /\ \A c \in Callers : WF_vars(CallReply(c)) /\ WF_vars(CallTimeout(c))
  /\ WF_vars(ReaderNext)
  /\ WF_vars(ServerReply)
  /\ WF_vars(ClientReconnect)

Spec == Init /\ [][Next]_vars /\ Fairness

-----------------------------------------------------------------------------
(* Properties.                                                             *)

TypeOK ==
  /\ nextId \in Ids
  /\ DOMAIN replyMap \subseteq Ids /\ \A i \in DOMAIN replyMap : replyMap[i] \in Cells
  /\ pc \in [Callers -> {"idle", "wait"}]
  /\ myId \in [Callers -> Ids]
  /\ calls \in [Callers -> 0 .. MaxCalls]
  /\ wants \in [Callers -> BOOLEAN]
  /\ slot \in [Callers -> Replies \cup {NoReply}]
  /\ outcome \in [Callers -> Outcomes]
  /\ accepted \in [Callers -> Callers \X (0 .. MaxCalls)]
  /\ sent \subseteq Cells
  /\ session \in Sessions /\ closed \subseteq Sessions
  /\ rxQueue \in Seq(Sessions)
  /\ inbox \subseteq [s : Sessions, id : Ids, cell : Cells]
  /\ stream \in [Sessions -> Seq(Frames)]
  /\ noise \in 0 .. MaxNoise
  /\ rpc \in {"recv", "start", "loop", "exit", "dead"}
  /\ rsock \in Sessions /\ rseen \in 0 .. MaxSessions
  /\ restartEvent \in BOOLEAN
  /\ notifs \in Nat

\* Every registry entry of a request that reached the socket belongs to a
\* caller still blocked on that very call and invoke id: the reader's
\* remove-on-delivery and the timeout path's remove leave no entry behind
\* that a late reply could reach.
RegistryHoldsLiveCells ==
  \A i \in DOMAIN replyMap :
    replyMap[i] \in sent =>
      /\ Live(replyMap[i])
      /\ myId[Owner(replyMap[i])] = i

\* The registry holds entries only for blocked callers: every exit path of
\* communicate removes its entry (spec sections 3 and 4.1, step 6).
RegistryNoLeak ==
  \A i \in DOMAIN replyMap : Live(replyMap[i])

\* communicate keeps the safety part of the promise of RequestReply to
\* every caller (spec sections 4.1 and 8, no cross-talk): a call that waits
\* returns exactly once, and Ok only with the reply to this very call,
\* although a caller's late reply (after its timeout) can still arrive while
\* its next call waits, replies come in any order and the connection is
\* replaced in between.  That a waiting call returns follows from the read
\* timeout alone (CallTimeout is enabled while the cell is empty) and is not
\* checked.  The refinement mapping: a caller blocked in cell.get is waiting, and the
\* result of its last call is its outcome with, when Ok, the call whose
\* reply communicate validated and copied out.
AbstractResult(c) ==
  [kind |-> outcome[c], of |-> IF outcome[c] = "ok" THEN accepted[c] ELSE <<c, 0>>]

Abstract == INSTANCE RequestReply
              WITH phase   <- pc,
                   started <- calls,
                   result  <- [c \in Callers |-> AbstractResult(c)]

ImplementsRequestReply == Abstract!SafetySpec

\* The reader asks for a reconnect only of the session whose socket it was
\* reading (spec section 4.2, step 3: not when the session has already been
\* rotated by someone else).
ReaderRotatesOwnSession ==
  [][rpc = "exit" /\ rpc' = "recv" /\ session' # session => rsock = session]_vars

\* The reader thread lives as long as the client (spec section 3): no frame
\* the peer sends ends it; a bad frame ends only the per-socket loop.
ReaderAlive == rpc # "dead"

=============================================================================
