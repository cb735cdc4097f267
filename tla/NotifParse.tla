----------------------------- MODULE NotifParse -----------------------------
(***************************************************************************)
(* notif.rs: Notification::new validates the body of an ADS notification  *)
(* frame and SampleIter (Notification::samples) walks it again, relying on *)
(* that validation: its reads end in expect("size").                       *)
(*                                                                         *)
(* The body after the 38-byte AMS header and the 4-byte length field is a  *)
(* sequence of elements.  Every fixed-width field (u32 count, u64 stamp,   *)
(* u32 handle, u32 length) is one element and every data byte is one       *)
(* element; a read of a field fails when no element is left.  Element      *)
(* values are 0..MaxVal, so counts and lengths range over them too.        *)
(* Init takes every body of up to MaxFrame elements; the parse and each    *)
(* next() call are actions.                                                *)
(***************************************************************************)
EXTENDS Naturals, Sequences, SequencesExt

CONSTANTS
    MaxFrame,   \* elements in a notification body
    MaxVal      \* largest element value

Vals == 0..MaxVal

VARIABLES
    frame,      \* the body, from byte 42 (nstamps) on
    parsed,     \* "pending", "ok" or "err": the result of Notification::new
    it,         \* the SampleIter: rest of data, stamp, stamps/samples left
    out,        \* samples yielded so far
    iter        \* "idle", "running", "done" (None returned) or "panic"

vars == <<frame, parsed, it, out, iter>>

-----------------------------------------------------------------------------
(* Reference: the well-formed bodies, built from the layout of spec 4.5,   *)
(* each with the samples it carries.                                       *)

DataSeqs(b) == UNION {[1..n -> Vals] : n \in 0..(IF b < MaxVal THEN b ELSE MaxVal)}

\* n samples of one stamp, encoded in at most b elements.
RECURSIVE SampleGroups(_, _, _)
SampleGroups(n, ts, b) ==
    IF n = 0 THEN {[enc |-> <<>>, out |-> <<>>]}
    ELSE IF b < 2 THEN {}
    ELSE UNION {{[enc |-> <<h, Len(d)>> \o d \o r.enc,
                  out |-> <<[handle |-> h, stamp |-> ts, data |-> d]>> \o r.out] :
                  r \in SampleGroups(n - 1, ts, b - 2 - Len(d))} :
                h \in Vals, d \in DataSeqs(b - 2)}

\* n stamps, encoded in at most b elements.
RECURSIVE StampGroups(_, _)
StampGroups(n, b) ==
    IF n = 0 THEN {[enc |-> <<>>, out |-> <<>>]}
    ELSE IF b < 2 THEN {}
    ELSE UNION {{[enc |-> <<ts, k>> \o g.enc \o r.enc, out |-> g.out \o r.out] :
                  g \in SampleGroups(k, ts, b - 2),
                  r \in StampGroups(n - 1, b - 2)} :
                ts \in Vals, k \in Vals}

WellFormed ==
    UNION {{[enc |-> <<n>> \o s.enc, out |-> s.out] : s \in StampGroups(n, MaxFrame - 1)} :
           n \in Vals}

WellFormedBodies == {w.enc : w \in WellFormed}
SamplesOf(f) == (CHOOSE w \in WellFormed : w.enc = f).out

-----------------------------------------------------------------------------
(* Mutants: plausible wrong versions of the mapped definitions below.      *)

\* `if ptr.len() > length`: a sample whose data ends the frame is refused.
FitsStrict(p, len) == Len(p) > len

\* The stamp branch of next() returning None instead of going on.
NextStampStops(st) == [res |-> "none", st |-> st]

-----------------------------------------------------------------------------
(* Notification::new                                                        *)

\* `if ptr.len() >= length { ptr = &ptr[length..] }`
Fits(p, len) == Len(p) >= len

\* A read that fails (`?` on UnexpectedEof), or the rest of the body.
Failed == [ok |-> FALSE, rest |-> <<>>]
Rest(p) == [ok |-> TRUE, rest |-> p]

\* The sample loop of one stamp.
RECURSIVE CheckSamples(_, _)
CheckSamples(p, n) ==
    IF n = 0 THEN Rest(p)
    ELSE IF Len(p) < 2 THEN Failed                  \* read_u32 handle, length
    ELSE IF ~Fits(Tail(Tail(p)), p[2]) THEN Failed
    ELSE CheckSamples(SubSeq(Tail(Tail(p)), p[2] + 1, Len(p) - 2), n - 1)

\* The stamp loop.
RECURSIVE CheckStamps(_, _)
CheckStamps(p, n) ==
    IF n = 0 THEN Rest(p)
    ELSE IF Len(p) < 2 THEN Failed                  \* read_u64, read_u32
    ELSE LET q == CheckSamples(Tail(Tail(p)), p[2])
         IN  IF ~q.ok THEN Failed ELSE CheckStamps(q.rest, n - 1)

\* `data.len() < AMS_HEADER_SIZE + 8` refuses a body without nstamps;
\* the rest must be consumed exactly (`ptr.is_empty()`).
New(f) ==
    IF Len(f) < 1 THEN "err"
    ELSE LET r == CheckStamps(Tail(f), f[1])
         IN  IF r.ok /\ r.rest = <<>> THEN "ok" ELSE "err"

-----------------------------------------------------------------------------
(* SampleIter::next, one call; res is "sample", "none" or "panic".         *)

Expect(p, k) == Len(p) >= k

\* `else if self.stamps_left > 0`: read stamp and sample count, recurse.
NextStamp(st) ==
    [res |-> "again",
     st  |-> [st EXCEPT !.data = Tail(Tail(@)), !.ts = st.data[1],
                        !.samplesLeft = st.data[2], !.stampsLeft = @ - 1]]

RECURSIVE SampleNext(_)
SampleNext(st) ==
    IF st.samplesLeft > 0 THEN
        IF ~Expect(st.data, 2) THEN [res |-> "panic", st |-> st]
        ELSE LET len == st.data[2]
                 d   == Tail(Tail(st.data))
             IN  IF Len(d) < len THEN [res |-> "panic", st |-> st]   \* split_at
                 ELSE [res |-> "sample",
                       smp |-> [handle |-> st.data[1], stamp |-> st.ts,
                                data |-> SubSeq(d, 1, len)],
                       st  |-> [st EXCEPT !.data = SubSeq(d, len + 1, Len(d)),
                                          !.samplesLeft = @ - 1]]
    ELSE IF st.stampsLeft > 0 THEN
        IF ~Expect(st.data, 2) THEN [res |-> "panic", st |-> st]
        ELSE LET r == NextStamp(st)
             IN  IF r.res = "again" THEN SampleNext(r.st) ELSE r
    ELSE [res |-> "none", st |-> st]

-----------------------------------------------------------------------------

Init ==
    /\ frame \in UNION {[1..n -> Vals] : n \in 0..MaxFrame}
    /\ parsed = "pending"
    /\ it = [data |-> <<>>, ts |-> 0, stampsLeft |-> 0, samplesLeft |-> 0]
    /\ out = <<>>
    /\ iter = "idle"

\* The reader hands the frame to Notification::new.
Parse ==
    /\ parsed = "pending"
    /\ parsed' = New(frame)
    /\ UNCHANGED <<frame, it, out, iter>>

\* Notification::samples: the iterator starts after nstamps.
Samples ==
    /\ parsed = "ok"
    /\ iter = "idle"
    /\ it' = [data |-> Tail(frame), ts |-> 0, stampsLeft |-> frame[1],
              samplesLeft |-> 0]
    /\ iter' = "running"
    /\ UNCHANGED <<frame, parsed, out>>

IterNext ==
    /\ iter = "running"
    /\ LET r == SampleNext(it)
       IN  /\ it' = r.st
           /\ iter' = CASE r.res = "sample" -> "running"
                        [] r.res = "none"   -> "done"
                        [] OTHER            -> "panic"
           /\ out' = IF r.res = "sample" THEN Append(out, r.smp) ELSE out
    /\ UNCHANGED <<frame, parsed>>

\* A refused frame is dropped; an iterated one is finished.
Dropped ==
    /\ parsed = "err" \/ iter \in {"done", "panic"}
    /\ UNCHANGED vars

Next == Parse \/ Samples \/ IterNext \/ Dropped

Spec == Init /\ [][Next]_vars

-----------------------------------------------------------------------------
(* Properties.                                                             *)

\* Notification::new accepts exactly the bodies laid out as in spec 4.5:
\* nothing truncated and nothing left over.
AcceptsWellFormed ==
    parsed # "pending" => (parsed = "ok" <=> frame \in WellFormedBodies)

\* For every notification Notification::new accepted, iterating samples()
\* never reaches an expect("size") panic and yields exactly the samples of
\* the body, in order, with their handle, data and stamp (spec 8).
IterYieldsFrameSamples ==
    parsed = "ok" =>
        /\ iter # "panic"
        /\ iter = "done" => out = SamplesOf(frame)

=============================================================================
