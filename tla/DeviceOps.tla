----------------------------- MODULE DeviceOps -----------------------------
(***************************************************************************)
(* The Device facade (client.rs): get_info, wait_running, read, read_exact, write_read, *)
(* write_read_exact, write, write_control, get_state and the sum-up calls  *)
(* read_multi, write_multi and write_read_multi, each going through the    *)
(* reply checks and the copy loop at the end of ClientInner::communicate   *)
(* (client.rs 417-458) and then through its own post-processing.           *)
(*                                                                         *)
(* A call lays out its output buffers (r_buffers) and sends its request;   *)
(* the server answers once; communicate and the rest of the call handle    *)
(* the answer.  The reply header checks (source, command, state flags,     *)
(* invoke id) are modelled in AdsComm; here the AMS error code and result  *)
(* field are one reply code.                                               *)
(*                                                                         *)
(* Every fixed-width field (read_len u32, a ResultLength, a u32 result, a  *)
(* ReadState) is one element and every data byte is one element.  A data  *)
(* byte the server sends is a positive number giving its position in the  *)
(* reply's data, 0 is what the caller left in a buffer and -1 is padding. *)
(* With Conformant the server keeps to the protocol: a length it reports   *)
(* is at most what was asked and equals the bytes it sends.  A sum-up     *)
(* sub-request's reported length may exceed its buffer by up to MaxOverrun *)
(* (a server off the protocol); the code then panics, which is modelled as *)
(* the call or the accessor returning Panicked.                            *)
(***************************************************************************)
EXTENDS Integers, Sequences, SequencesExt, Fixup

CONSTANTS
    MaxReqs,        \* sub-requests of a sum-up call
    MaxLen,         \* capacity of a read buffer
    StateCodes,     \* ads_state values the server may report
    Conformant,     \* the server keeps to the protocol
    MaxOverrun,     \* how far a sub-request's reported length may exceed its buffer
    MaxWait         \* longest wait_running timeout, in 100 ms ticks

VARIABLES
    call,       \* [kind, lens, exact]: the call and its read buffer sizes
    bufs,       \* the r_buffers handed to communicate
    reply,      \* [code, payload, want]: the server's answer after the result
                \* field, and per sub-request the [code, data] it meant for it
    ret,        \* what the call returned
    phase,      \* "idle", "sent", "returned"
    clock,      \* Instant::now(), in 100 ms ticks
    deadline    \* wait_running's deadline

vars == <<call, bufs, reply, ret, phase, clock, deadline>>

ReadKinds  == {"read", "write_read"}
MultiKinds == {"read_multi", "write_multi", "write_read_multi"}
NoCall     == [kind |-> "none", lens |-> <<>>, exact |-> FALSE]
RL(r, l)   == [result |-> r, length |-> l]
\* What a call or an accessor amounts to when the code panics.
Panicked   == [ok |-> FALSE, panic |-> TRUE]
\* get_state's call and its output buffer, ReadState::new_zeroed().
GetStateCall == [kind |-> "get_state", lens |-> <<>>, exact |-> FALSE]
ZeroState    == <<<<[ads |-> 0, dev |-> 0]>>>>

\* AdsState, in the order of its discriminants 0..19.
AdsStates == <<"Invalid", "Idle", "Reset", "Init", "Start", "Run", "Stop",
               "SaveCfg", "LoadCfg", "PowerFail", "PowerGood", "Error",
               "Shutdown", "Suspend", "Resume", "Config", "Reconfig",
               "Stopping", "Incompatible", "Exception">>

\* n data bytes starting after position `from` of the reply's data.
Bytes(from, n) == [k \in 1..n |-> from + k]

-----------------------------------------------------------------------------
(* Mutants: plausible wrong versions of the mapped definitions below.      *)

\* Device::read returning communicate's data length instead of read_len.
ReadLenOfData(b, n) == n

\* wait_running giving up once the deadline is reached rather than passed.
PastDeadlineReached(now, dl) == now >= dl

\* get_info keeping every nonzero byte of the name field (filter instead of
\* take_while).
NameOfNonzero(b) == SelectSeq(b, LAMBDA ch : ch > 0)

-----------------------------------------------------------------------------
(* Layout of the output buffers.                                           *)

\* Sizes of r_buffers: read_len, then one result per sub-request, then the
\* read buffers (read_multi 756-760, write_multi 817-822, write_read_multi
\* 893-897); read / write_read pass [read_len, data]; get_state one
\* ReadState; get_info one DeviceInfoRaw (major, minor, version, then the
\* 16 bytes of the name); write and write_control none.
NameLen == 16
Layout(c) ==
    CASE c.kind \in ReadKinds         -> <<1, c.lens[1]>>
      [] c.kind \in {"get_state", "wait_running"} -> <<1>>
      [] c.kind = "get_info"          -> <<3 + NameLen>>
      [] c.kind \in {"write", "write_control"} -> <<>>
      [] c.kind = "write_multi"       -> <<1>> \o [i \in DOMAIN c.lens |-> 1]
      [] OTHER                        -> <<1>> \o [i \in DOMAIN c.lens |-> 1] \o c.lens

\* The caller's read buffers, as it left them.
Zeros(lens) == [i \in DOMAIN lens |-> [k \in 1..lens[i] |-> 0]]

-----------------------------------------------------------------------------
(* ClientInner::communicate after the reply arrived, and the accessors.    *)

\* `if error_code != 0` / `if result != 0`; `if data_out.is_empty()`;
\* `if (data_len as usize) < data_out[0].len() + 4`; then the copy loop.
Communicate(b, r) ==
    CASE r.code # 0                  -> [ok |-> FALSE, b |-> b]
      [] b = <<>>                    -> [ok |-> TRUE, b |-> b, n |-> 0]
      [] Len(r.payload) < Len(b[1])  -> [ok |-> FALSE, b |-> b]
      [] OTHER -> [ok |-> TRUE, n |-> Len(r.payload),
                   b |-> Distribute([i \in DOMAIN b |-> Len(b[i])], r.payload, b)]

\* `Ok(read_len.get() as usize)`
ReadLenOf(b, n) == b[1][1]

\* ReadRequest::data and WriteReadRequest::data for sub-request i of n.
DataOf(b, n, i) ==
    LET res == b[1 + i][1] IN
    CASE res.result # 0                 -> [ok |-> FALSE, code |-> res.result]
      [] res.length > Len(b[1 + n + i]) -> Panicked    \* rbuf[..length]
      [] OTHER -> [ok |-> TRUE, d |-> SubSeq(b[1 + n + i], 1, res.length)]

\* WriteRequest::ensure for sub-request i.
EnsureOf(b, i) == IF b[1 + i][1] = 0 THEN [ok |-> TRUE, d |-> <<>>] ELSE [ok |-> FALSE, code |-> b[1 + i][1]]

\* AdsState::try_from
TryFromState(v) ==
    IF v + 1 \in DOMAIN AdsStates THEN [ok |-> TRUE, s |-> AdsStates[v + 1]]
                                  ELSE [ok |-> FALSE]

\* get_info's name: `take_while(|&&ch| ch > 0)` over the name field.
NameOf(b) ==
    LET k == SelectInSeq(b, LAMBDA ch : ch <= 0)
    IN  IF k = 0 THEN b ELSE SubSeq(b, 1, k - 1)

\* What the rest of the call does with communicate's outcome.
Finish(c, cr) ==
    LET n == Len(c.lens) IN
    CASE ~cr.ok -> [ok |-> FALSE]
      [] c.kind \in ReadKinds ->
           LET len == ReadLenOf(cr.b, cr.n) IN
           IF c.exact /\ len # c.lens[1] THEN [ok |-> FALSE]   \* read_exact
                                         ELSE [ok |-> TRUE, n |-> len]
      [] c.kind = "get_state" ->
           LET st == TryFromState(cr.b[1][1].ads) IN
           IF st.ok THEN [ok |-> TRUE, s |-> st.s] ELSE [ok |-> FALSE]
      [] c.kind = "get_info" ->
           [ok |-> TRUE, name |-> NameOf(SubSeq(cr.b[1], 4, 3 + NameLen))]
      [] OTHER -> [ok |-> TRUE]

\* write_read_multi runs the fix-up on its read buffers after communicate,
\* with each sub-request's res.length as copied from the reply; the fix-up
\* panics in its scan when a length exceeds its buffer.
AfterCommunicate(c, cr) ==
    IF c.kind = "write_read_multi" /\ cr.ok
      THEN LET n    == Len(c.lens)
               acts == [i \in 1..n |-> cr.b[1 + i][1].length]
               rbuf == SubSeq(cr.b, 2 + n, 1 + 2 * n)
           IN  IF ScanChecked(c.lens, acts)
                 THEN [panic |-> FALSE,
                       b |-> SubSeq(cr.b, 1, 1 + n)
                               \o FixupWriteReadReturnBuffers(rbuf, c.lens, acts)]
                 ELSE [panic |-> TRUE, b |-> cr.b]
      ELSE [panic |-> FALSE, b |-> cr.b]

-----------------------------------------------------------------------------
(* The server.                                                             *)

Answer(p, w) == [code |-> 0, payload |-> p, want |-> w]
Failure      == [code |-> 1, payload |-> <<>>, want |-> <<>>]

\* Sub-request results: a failed one carries no data; a length is at most
\* what was asked, or up to MaxOverrun beyond it.
Results(lens) ==
    {rl \in [DOMAIN lens -> [result : {0, 1}, length : 0..MaxLen + MaxOverrun]] :
        \A i \in DOMAIN lens : /\ rl[i].length <= lens[i] + MaxOverrun
                               /\ rl[i].result # 0 => rl[i].length = 0}

Before(s, i) == SumOf(SubSeq(s, 1, i - 1))

\* The answers to a call.  read / write_read: read_len and that many bytes
\* (any length field and any number of bytes unless Conformant).
\* SUMUP_READ_EX: every read buffer's slot at full size, short data padded.
\* SUMUP_WRITE: the results.  SUMUP_READWRITE: only the bytes produced.
Replies(c) ==
    LET n == Len(c.lens) IN
    {Failure} \cup
    CASE c.kind \in ReadKinds ->
           IF Conformant
             THEN {Answer(<<m>> \o Bytes(0, m), <<[code |-> 0, data |-> Bytes(0, m)]>>) :
                   m \in 0..c.lens[1]}
             ELSE {Answer(<<m>> \o Bytes(0, k), <<[code |-> 0, data |-> Bytes(0, k)]>>) :
                   m \in 0..MaxLen + 1, k \in 0..MaxLen + 1}
      [] c.kind = "get_state" ->
           {Answer(<<[ads |-> s, dev |-> 0]>>, <<>>) : s \in StateCodes}
      [] c.kind = "get_info" ->
           \* major, minor, version, a name of k bytes, then a NUL and
           \* whatever the rest of the field holds
           {LET name == IF k = NameLen THEN Bytes(3, k)
                        ELSE Bytes(3, k) \o <<0>> \o Bytes(4 + k, NameLen - k - 1)
            IN  Answer(Bytes(0, 3) \o name, <<[code |-> 0, data |-> Bytes(3, k)]>>) :
            k \in 0..NameLen}
      [] c.kind \in {"write", "write_control"} -> {Answer(<<>>, <<>>)}
      [] c.kind = "write_multi" ->
           {Answer(<<n>> \o [i \in 1..n |-> rl[i].result],
                   [i \in 1..n |-> [code |-> rl[i].result, data |-> <<>>]]) :
            rl \in Results([i \in 1..n |-> 0])}
      [] c.kind = "read_multi" ->
           {LET slot(i) == [k \in 1..c.lens[i] |->
                              IF k <= rl[i].length THEN Before(c.lens, i) + k ELSE -1]
            IN  Answer(<<n>> \o rl \o FlattenSeq([i \in 1..n |-> slot(i)]),
                       [i \in 1..n |-> [code |-> rl[i].result,
                                        data |-> Bytes(Before(c.lens, i), rl[i].length)]]) :
            rl \in Results(c.lens)}
      [] OTHER ->
           {LET act == [i \in 1..n |-> rl[i].length]
            IN  Answer(<<n>> \o rl \o Packed(act),
                       [i \in 1..n |-> [code |-> rl[i].result,
                                        data |-> Bytes(Before(act, i), act[i])]]) :
            rl \in Results(c.lens)}

-----------------------------------------------------------------------------
(* The calls.                                                              *)

Init ==
    /\ call = NoCall
    /\ bufs = <<>>
    /\ reply = Failure
    /\ ret = [ok |-> FALSE]
    /\ phase = "idle"
    /\ clock = 0
    /\ deadline = 0

\* A call builds its request and its output buffers and communicate sends
\* it; the buffers are read_len (U32::new(0)), ReadState::new_zeroed(), the
\* zeroed ResultLength or U32 result of every sub-request, and the read
\* buffers.  exact: read_exact / write_read_exact, which call read /
\* write_read.
Start(c, b) ==
    /\ phase = "idle"
    /\ call' = c
    /\ bufs' = b
    /\ phase' = "sent"
    /\ UNCHANGED <<reply, ret, clock, deadline>>

Read(len, exact) ==
    Start([kind |-> "read", lens |-> <<len>>, exact |-> exact], <<<<0>>>> \o Zeros(<<len>>))

WriteRead(len, exact) ==
    Start([kind |-> "write_read", lens |-> <<len>>, exact |-> exact], <<<<0>>>> \o Zeros(<<len>>))

GetState ==
    Start(GetStateCall, ZeroState)

\* wait_running(timeout): `deadline = Instant::now() + timeout`; every poll
\* is a get_state with a fresh ReadState.

WaitRunning ==
    /\ phase = "idle"
    /\ call' = [GetStateCall EXCEPT !.kind = "wait_running"]
    /\ bufs' = ZeroState
    /\ phase' = "sent"
    /\ \E t \in 0..MaxWait : deadline' = clock + t
    /\ UNCHANGED <<reply, ret, clock>>

\* `if Instant::now() > deadline`
PastDeadline(now, dl) == now > dl

\* One turn of wait_running's loop: get_state, which takes up to a tick;
\* true if it reported Run (an error counts as not running); false if the
\* deadline has passed; otherwise thread::sleep of one tick and again.
Poll ==
    /\ phase = "sent"
    /\ call.kind = "wait_running"
    /\ \E r \in Replies(GetStateCall), d \in 0..1 :
         LET st      == Finish(GetStateCall, Communicate(ZeroState, r))
             now     == clock + d
             running == st.ok /\ st.s = "Run"
         IN  /\ reply' = r
             /\ IF running \/ PastDeadline(now, deadline)
                  THEN /\ ret' = [ok |-> TRUE, running |-> running]
                       /\ phase' = "returned"
                       /\ clock' = now
                  ELSE /\ clock' = now + 1
                       /\ UNCHANGED <<ret, phase>>
    /\ UNCHANGED <<call, bufs, deadline>>

\* DeviceInfoRaw::new_zeroed() as the only output buffer.
GetInfo ==
    Start([kind |-> "get_info", lens |-> <<>>, exact |-> FALSE], <<[k \in 1..3 + NameLen |-> 0]>>)

\* write and write_value: no output buffer.
Write ==
    Start([kind |-> "write", lens |-> <<>>, exact |-> FALSE], <<>>)

\* write_control: the WriteControl header out, no output buffer.
WriteControl ==
    Start([kind |-> "write_control", lens |-> <<>>, exact |-> FALSE], <<>>)

ReadMulti(lens) ==
    Start([kind |-> "read_multi", lens |-> lens, exact |-> FALSE],
          <<<<0>>>> \o [i \in DOMAIN lens |-> <<RL(0, 0)>>] \o Zeros(lens))

WriteMulti(lens) ==
    Start([kind |-> "write_multi", lens |-> lens, exact |-> FALSE],
          <<<<0>>>> \o [i \in DOMAIN lens |-> <<0>>])

WriteReadMulti(lens) ==
    Start([kind |-> "write_read_multi", lens |-> lens, exact |-> FALSE],
          <<<<0>>>> \o [i \in DOMAIN lens |-> <<RL(0, 0)>>] \o Zeros(lens))

\* The reply arrives; communicate checks and copies it, and the call
\* finishes: read_len, the read_exact check, AdsState::try_from, the fix-up.
Reply ==
    /\ phase = "sent"
    /\ call.kind # "wait_running"
    /\ \E r \in Replies(call) :
         LET cr    == Communicate(bufs, r)
             after == AfterCommunicate(call, cr)
         IN  /\ reply' = r
             /\ bufs' = after.b
             /\ ret' = IF after.panic THEN Panicked ELSE Finish(call, cr)
    /\ phase' = "returned"
    /\ UNCHANGED <<call, clock, deadline>>

Returned ==
    /\ phase = "returned"
    /\ UNCHANGED vars

ReqLens == UNION {[1..n -> 0..MaxLen] : n \in 0..MaxReqs}

Next ==
    \/ \E len \in 0..MaxLen, exact \in BOOLEAN : Read(len, exact) \/ WriteRead(len, exact)
    \/ GetState
    \/ GetInfo
    \/ WaitRunning
    \/ Poll
    \/ Write
    \/ WriteControl
    \/ \E lens \in ReqLens : ReadMulti(lens) \/ WriteReadMulti(lens)
    \/ \E n \in 0..MaxReqs : WriteMulti([i \in 1..n |-> 0])
    \/ Reply
    \/ Returned

Spec == Init /\ [][Next]_vars

-----------------------------------------------------------------------------
(* Properties.                                                             *)

TypeOK ==
    /\ phase \in {"idle", "sent", "returned"}
    /\ phase # "idle" => [i \in DOMAIN bufs |-> Len(bufs[i])] = Layout(call)
    /\ ret.ok /\ call.kind = "get_state" => ret.s \in Range(AdsStates)

\* Spec 8: every read / write_read (and so read_exact, write_read_exact,
\* read_value) returning Ok(n) has n <= buf.len, and the first n bytes of
\* buf are the bytes the peer returned.  The call returns read_len, the
\* length field of the reply, and communicate copies the bytes that came.
ReadReturnsCopied ==
    phase = "returned" /\ call.kind \in ReadKinds /\ ret.ok =>
        /\ ret.n <= call.lens[1]
        /\ ret.n <= Len(reply.payload) - 1
        /\ SubSeq(bufs[2], 1, ret.n) = SubSeq(reply.payload, 2, ret.n + 1)

\* Spec 4.6 (get_info): the name is the null-terminated 16-byte field
\* decoded as ASCII: exactly the bytes the device put before the first NUL,
\* all 16 when there is none, and nothing of what follows the NUL.
InfoNameIsDevices ==
    phase = "returned" /\ call.kind = "get_info" /\ ret.ok =>
        ret.name = reply.want[1].data

\* The sub-requests whose reported length exceeds their buffer.
Overlong == {i \in DOMAIN call.lens : Len(reply.want[i].data) > call.lens[i]}

Expected(w) ==
    IF w.code = 0 THEN [ok |-> TRUE, d |-> w.data] ELSE [ok |-> FALSE, code |-> w.code]

\* Spec 4.6, 4.7 and 7: once a sum-up call returned Ok, every sub-request's
\* accessor (ReadRequest::data, WriteRequest::ensure, WriteReadRequest::data)
\* reports its own result code, and a successful read its own bytes, for any
\* mix of failed, short, empty and full sub-requests: per-element failures do
\* not poison peers and no byte lands in a neighbour.
SumUpPerRequest ==
    phase = "returned" /\ call.kind \in MultiKinds /\ ret.ok =>
        \A i \in DOMAIN call.lens \ Overlong :
            IF call.kind = "write_multi"
              THEN EnsureOf(bufs, i) = Expected(reply.want[i])
              ELSE DataOf(bufs, Len(call.lens), i) = Expected(reply.want[i])

\* A server reporting a sub-request length beyond its buffer (client.rs
\* 1496, the fix-up's assert, and the slices of ReadRequest::data and
\* WriteReadRequest::data): write_read_multi panics exactly when some
\* sub-request is overlong and otherwise returns; read_multi returns and
\* exactly the overlong sub-requests' accessors panic, the others report
\* their own results.
OverlongResultPanics ==
    phase = "returned" /\ reply.code = 0 =>
        /\ call.kind = "write_read_multi" =>
              (ret = Panicked <=> Overlong # {})
        /\ call.kind = "read_multi" =>
              /\ ret.ok
              /\ \A i \in DOMAIN call.lens :
                    DataOf(bufs, Len(call.lens), i) = Panicked <=> i \in Overlong

\* wait_running returns true exactly when the get_state of its last turn
\* reported Run, and false only once the clock has passed the deadline:
\* never early, for any timeout including zero, whatever states and
\* errors the device reported on the way.
WaitRunningHonest ==
    phase = "returned" /\ call.kind = "wait_running" =>
        /\ ret.running <=> (reply.code = 0 /\ reply.payload[1].ads = 5)
        /\ ~ret.running => clock > deadline

=============================================================================
