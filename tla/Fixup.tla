------------------------------- MODULE Fixup -------------------------------
(***************************************************************************)
(* The return path of Device::write_read_multi (client.rs): the server     *)
(* answers a SUMUP_READWRITE request with the bytes each sub-request       *)
(* really produced, packed one after the other.  communicate copies that   *)
(* packed data into the caller's read buffers in order, filling each       *)
(* buffer completely before the next (client.rs 440-452), and then         *)
(* fixup_write_read_return_buffers moves every sub-request's bytes to the  *)
(* start of its own buffer.                                                *)
(*                                                                         *)
(* Buffers are sequences of elements; the operators here are pure and are  *)
(* used by DeviceOps, whose write_read_multi call runs them on the reply.  *)
(***************************************************************************)
EXTENDS Naturals, Sequences, SequencesExt

SumOf(s) == FoldLeft(LAMBDA a, b : a + b, 0, s)

\* The bytes the server sends after the result structures.
Packed(act) == [k \in 1..SumOf(act) |-> k]

\* The copy loop of communicate without `.min(rest_len)` on the first
\* buffer length: a buffer takes all remaining bytes.
DistributeUnclamped(len, data, old) ==
    [i \in DOMAIN len |->
        LET off == SumOf(SubSeq(len, 1, i - 1))
            n   == IF Len(data) - off > len[i] THEN Len(data) - off ELSE len[i]
        IN  [k \in 1..n |-> IF off + k <= Len(data) THEN data[off + k]
                                                  ELSE old[i][k]]]

\* The copy loop of communicate: each output buffer takes the next
\* min(buf.len(), rest_len) bytes; the rest of a buffer keeps its contents.
Distribute(len, data, old) ==
    [i \in DOMAIN len |->
        LET off == SumOf(SubSeq(len, 1, i - 1))
        IN  [k \in 1..len[i] |-> IF off + k <= Len(data) THEN data[off + k]
                                                       ELSE old[i][k]]]

\* The scan of fixup_write_read_return_buffers: for each request the
\* cumulative buffer size and cumulative result length before it, and its
\* own buffer size and result length.
Offsets(len, act) ==
    [i \in DOMAIN len |-> <<SumOf(SubSeq(len, 1, i - 1)),
                            SumOf(SubSeq(act, 1, i - 1)),
                            len[i], act[i]>>]

\* Overwrite positions at+1 .. at+Len(chunk) of buffer b with chunk.
Put(b, at, chunk) == ReplaceSubSeqAt(at + 1, chunk, chunk, b)

\* Bytes jEnd-n .. jEnd-1 (0-based) of buffer b.
Take(b, jEnd, n) == SubSeq(b, jEnd - n + 1, jEnd)

-----------------------------------------------------------------------------
(* Mutants: plausible wrong versions of the mapped definitions below.      *)

\* Stopping as soon as a request's own result fills its buffer, instead of
\* when no short result lies before it.
SettledWhenFull(off, i) == off[i][4] = off[i][3]

\* The scan's assertion with a strict comparison.
ScanCheckedStrict(len, act) == \A i \in DOMAIN len : len[i] > act[i]

-----------------------------------------------------------------------------
(* fixup_write_read_return_buffers                                          *)

\* `assert!(init >= act)` in the scan, for every request: a result length
\* beyond the request's buffer panics before anything is moved.
ScanChecked(len, act) == \A i \in DOMAIN len : len[i] >= act[i]

\* `j_end = offsets[j].2`: the earlier buffer is full up to its size.
PrevEnd(off, j) == off[j][3]

\* `if my_initial == my_actual { break; }`: no short result lies before
\* request i, so it and all earlier requests are already in place.
Settled(off, i) == off[i][1] = off[i][2]

\* `offsets[..=i].iter().rposition(|r| r.0 < my_actual + size)`
HoldsLast(off, i, last) ==
    SelectLastInSubSeq(off, 1, i, LAMBDA r : r[1] < last)

\* The inner loop: copy n = min(j_end, size) bytes ending at j_end of
\* buffer j to the end of the still unfilled part of buffer i, then go on
\* with buffer j - 1 until size bytes are copied.  Within buffer i this is
\* copy_within, which moves overlapping ranges correctly.
RECURSIVE CopyChunks(_, _, _, _, _, _)
CopyChunks(b, off, i, j, jEnd, size) ==
    LET n     == IF jEnd < size THEN jEnd ELSE size
        rest  == size - n
        b2    == [b EXCEPT ![i] = Put(@, rest, Take(b[j], jEnd, n))]
    IN  IF rest = 0 THEN b2
        ELSE CopyChunks(b2, off, i, j - 1, PrevEnd(off, j - 1), rest)

\* The outer loop over the requests in reverse order.
RECURSIVE FixFrom(_, _, _)
FixFrom(b, off, i) ==
    IF i = 0 THEN b
    ELSE LET myActual  == off[i][2]
             size      == off[i][4]
             j         == HoldsLast(off, i, myActual + size)
         IN  IF size = 0 THEN FixFrom(b, off, i - 1)
             ELSE IF Settled(off, i) THEN b
             ELSE FixFrom(CopyChunks(b, off, i, j, myActual + size - off[j][1], size),
                          off, i - 1)

FixupWriteReadReturnBuffers(b, len, act) ==
    FixFrom(b, Offsets(len, act), Len(len))

=============================================================================
