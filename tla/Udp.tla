-------------------------------- MODULE Udp --------------------------------
(***************************************************************************)
(* The Beckhoff UDP side protocol of udp.rs: the Message builder and       *)
(* parser, send_receive, and the three helpers add_route, get_netid and    *)
(* get_info, against a router that answers, stays silent or sends a        *)
(* malformed datagram.                                                     *)
(*                                                                         *)
(* A datagram is its 24-byte header, kept as a record (or None when       *)
(* fewer bytes arrived), and the bytes after it as a sequence.  Item       *)
(* ranges are byte offsets into the whole datagram, as in the code, so     *)
(* the offset 28 of the parser and the data[20..] of the builder keep      *)
(* their values.                                                           *)
(***************************************************************************)
EXTENDS Integers, Sequences, SequencesExt

CONSTANTS
    NetIds,       \* NetIDs a caller may name: 6-byte sequences
    Strs,         \* strings a caller or the router may use: bytes, no NUL
    StatusCodes,  \* Status values the router may put in an AddRoute reply
    Defects,      \* the malformations the router's datagrams may have
    MaxCalls,     \* helper calls in one behaviour
    None,         \* an absent Option, and the header of a datagram too short
    NoStr,        \* an Option<&str> argument that is None
    Panic         \* the thread panicked

ASSUME Defects \subseteq {"magic", "invoke", "service", "short", "odd", "torn",
                          "truncated", "empty"}

\* ServiceId, Tag and the strings the helpers fall back to.
Identify == 1
AddRouteSvc == 6
Status == 1
Password == 2
TCVersion == 3
OSVersion == 4
ComputerName == 5
NetID == 7
Options == 9
RouteName == 12
UserName == 13
Fingerprint == 18
Administrator == <<65, 100, 109, 105, 110, 105, 115, 116, 114, 97, 116, 111, 114>>
One == <<49>>
Unknown == <<117, 110, 107, 110, 111, 119, 110>>
ZeroNetId == <<0, 0, 0, 0, 0, 0>>

-----------------------------------------------------------------------------
(* Plausible faults of the code, used as mutants of the definitions below. *)

\* The low byte of a u32 written without truncation to 8 bits.
U32BytesUnmasked(n) == <<n, n \div 256, n \div 65536, n \div 16777216>>

-----------------------------------------------------------------------------
\* Little-endian conversions, modelled by what they do.
U16Bytes(n) == <<n % 256, n \div 256>>
U32Bytes(n) == <<n % 256, (n \div 256) % 256, (n \div 65536) % 256, n \div 16777216>>
U16At(b, k) == b[k] + 256 * b[k + 1]
U32At(b, k) == U16At(b, k) + 65536 * U16At(b, k + 2)

\* Message::new: the UdpHeader with num_items 0 and no items.
New(service, netid, port) ==
    [hdr |-> [magic |-> "beckhoff", invoke |-> 0,
              service |-> [id |-> service, reply |-> FALSE],
              src |-> [netid |-> netid, port |-> port], nitems |-> 0],
     body |-> <<>>, items |-> <<>>]

\* add_bytes: tag, length and data are appended; the item's range starts at
\* the length field, before the data; num_items is rewritten.
AddBytes(m, tag, data) ==
    LET start == 24 + Len(m.body) + 2
        body  == m.body \o U16Bytes(tag) \o U16Bytes(Len(data)) \o data
        items == Append(m.items, <<tag, start, 24 + Len(body)>>)
    IN  [hdr |-> [m.hdr EXCEPT !.nitems = Len(items)], body |-> body, items |-> items]

\* add_str without the NUL terminator (a mutant).
AddStrNoNul(m, tag, s) == AddBytes(m, tag, s)

\* add_str: the string with a NUL terminator added.
AddStr(m, tag, s) == AddBytes(m, tag, s \o <<0>>)

\* add_u32: four little-endian bytes.
AddU32(m, tag, v) == AddBytes(m, tag, U32Bytes(v))

\* The items loop taking an item that ends exactly at the end of the data
\* for one running past it (a mutant).
RECURSIVE ItemsTight(_, _, _)
ItemsTight(rest, pos, acc) ==
    IF Len(rest) < 2 THEN [status |-> "ok", items |-> acc]
    ELSE IF Len(rest) < 4 THEN [status |-> "io", items |-> acc]
    ELSE LET len  == U16At(rest, 3)
             tail == SubSeq(rest, 5, Len(rest))
         IN  IF len >= Len(tail) THEN [status |-> "panic", items |-> acc]
             ELSE ItemsTight(SubSeq(tail, len + 1, Len(tail)), pos + len + 4,
                             Append(acc, <<U16At(rest, 1), pos, pos + len>>))

\* The items loop of parse_internal: a tag that cannot be read ends it, a
\* length that cannot be read is an error, and a length past the end of the
\* data panics at &data_ptr[len..].
RECURSIVE Items(_, _, _)
Items(rest, pos, acc) ==
    IF Len(rest) < 2 THEN [status |-> "ok", items |-> acc]
    ELSE IF Len(rest) < 4 THEN [status |-> "io", items |-> acc]
    ELSE LET len  == U16At(rest, 3)
             tail == SubSeq(rest, 5, Len(rest))
         IN  IF len > Len(tail) THEN [status |-> "panic", items |-> acc]
             ELSE Items(SubSeq(tail, len + 1, Len(tail)), pos + len + 4,
                        Append(acc, <<U16At(rest, 1), pos, pos + len>>))

\* parse_internal without the check of the reply's service id (a mutant).
ParseAnyService(d, exp) ==
    IF d.hdr = None \/ d.hdr.magic # "beckhoff" \/ d.hdr.invoke # 0
    THEN [status |-> "io", msg |-> None]
    ELSE LET r == Items(d.body, 28, <<>>)
         IN  [status |-> r.status, msg |-> [hdr |-> d.hdr, body |-> d.body, items |-> r.items]]

\* parse_internal: the header checks, then the items from offset 28.
ParseInternal(d, exp) ==
    IF \/ d.hdr = None
       \/ d.hdr.magic # "beckhoff"
       \/ d.hdr.invoke # 0
       \/ d.hdr.service # exp
    THEN [status |-> "io", msg |-> None]
    ELSE LET r == Items(d.body, 28, <<>>)
         IN  [status |-> r.status, msg |-> [hdr |-> d.hdr, body |-> d.body, items |-> r.items]]

\* map_tag: the bytes data[i..j] of the first item with the tag, if any.
MapTag(m, tag) ==
    LET k == SelectInSeq(m.items, LAMBDA it : it[1] = tag)
    IN  IF k = 0 THEN None ELSE SubSeq(m.body, m.items[k][2] - 23, m.items[k][3] - 24)

\* get_bytes, get_str (drops the NUL: b[..b.len() - 1], which panics on an
\* empty item; bytes of 128 and above are not UTF-8 alone) and get_u32.
GetBytes(m, tag) == MapTag(m, tag)
GetStr(m, tag) ==
    LET b == MapTag(m, tag)
    IN  CASE b = None                          -> None
          [] b = <<>>                          -> Panic
          [] \E k \in 1..Len(b) - 1 : b[k] > 127 -> None
          [] OTHER                             -> Front(b)
GetU32(m, tag) ==
    LET b == MapTag(m, tag)
    IN  IF b = None \/ Len(b) < 4 THEN None ELSE U32At(b, 1)

\* get_source: the src field of the header.
GetSource(m) == m.hdr.src


\* A caller's add_* call: tag, kind and argument.
Add(m, c) ==
    CASE c.kind = "bytes" -> AddBytes(m, c.tag, c.arg)
      [] c.kind = "str"   -> AddStr(m, c.tag, c.arg)
      [] c.kind = "u32"   -> AddU32(m, c.tag, c.arg)
Built(m, cs) == FoldLeft(Add, m, cs)
Call(tag, kind, arg) == [tag |-> tag, kind |-> kind, arg |-> arg]
OrElse(o, d) == IF o = NoStr THEN d ELSE o

\* The items add_route puts in its packet, in order.
RouteCalls(netid, host, routename, username, password, temporary) ==
    << Call(NetID, "bytes", netid), Call(ComputerName, "str", host),
       Call(UserName, "str", OrElse(username, Administrator)),
       Call(Password, "str", OrElse(password, One)),
       Call(RouteName, "str", OrElse(routename, host)) >>
    \o (IF temporary THEN << Call(Options, "u32", 1) >> ELSE <<>>)

-----------------------------------------------------------------------------
(* The router.  It answers with a datagram laid out as the spec says (a    *)
(* reply to the request's service, invoke id 0), made from items it        *)
(* chooses, possibly with one defect.                                      *)

TcVer == <<3, 1, 4024 % 256, 4024 \div 256>>
OsInfo(p) == U32Bytes(24) \o U32Bytes(10) \o U32Bytes(0) \o U32Bytes(17763)
             \o U32Bytes(p) \o (IF p = 1 THEN <<65, 0>> ELSE <<65, 0, 0, 0>>)
RouterItems(svc) ==
    IF svc = AddRouteSvc
    THEN {<<>>} \cup {<< Call(Status, "u32", c) >> : c \in StatusCodes}
    ELSE {<<>>} \cup
         {<< Call(ComputerName, "str", h), Call(TCVersion, "bytes", TcVer),
             Call(OSVersion, "bytes", os), Call(Fingerprint, "str", f) >> :
              h \in Strs, os \in {<<1, 0>>, OsInfo(1), OsInfo(2)}, f \in Strs}
Answers(svc) == [netid : NetIds, items : RouterItems(svc), defect : {"none"} \cup Defects]

\* The datagram of an answer.
Datagram(svc, a) ==
    LET m == Built([New(svc, a.netid, 10000) EXCEPT !.hdr.service.reply = TRUE], a.items)
        d == [hdr |-> m.hdr, body |-> m.body]
    IN  CASE a.defect = "none"      -> d
          [] a.defect = "magic"     -> [d EXCEPT !.hdr.magic = "other"]
          [] a.defect = "invoke"    -> [d EXCEPT !.hdr.invoke = 1]
          [] a.defect = "service"   -> [d EXCEPT !.hdr.service.id = Identify + AddRouteSvc - @]
          [] a.defect = "short"     -> [hdr |-> None, body |-> <<>>]
          [] a.defect = "odd"       -> [d EXCEPT !.body = @ \o <<0>>]
          [] a.defect = "torn"      -> [d EXCEPT !.body = @ \o U16Bytes(Status)]
          [] a.defect = "truncated" -> [d EXCEPT !.body = @ \o U16Bytes(Status) \o U16Bytes(4) \o <<0>>]
          [] a.defect = "empty"     -> [d EXCEPT !.body = U16Bytes(ComputerName) \o U16Bytes(0) \o @]

-----------------------------------------------------------------------------
(* The helpers' handling of a parsed reply.                                *)

UpToNul(b) == LET k == SelectInSeq(b, LAMBDA x : x = 0)
              IN  IF k = 0 THEN b ELSE SubSeq(b, 1, k - 1)
Platform(p) == CASE p = 1 -> "TC/RTOS" [] p = 2 -> "Windows NT"
                 [] p = 3 -> "Windows CE" [] OTHER -> "Unknown platform"

\* get_info's decoding of the TCVersion and OSVersion items.
TwinCatVersion(b) ==
    IF b # None /\ Len(b) >= 4 THEN <<b[1], b[2], U16At(b, 3)>> ELSE <<0, 0, 0>>
OsVersion(b) ==
    LET rest  == SubSeq(b, 21, Len(b))
        units == [k \in 1..(Len(rest) \div 2) |-> U16At(rest, 2 * k - 1)]
        text  == IF U32At(b, 17) = 1 THEN UpToNul(rest)
                 ELSE SelectSeq(UpToNul(units), LAMBDA c : c < 55296 \/ c > 57343)
    IN  CASE b = None     -> <<"No OS info", 0, 0, 0, <<>>>>
          [] Len(b) < 22  -> <<"Unknown OS info format", 0, 0, 0, <<>>>>
          [] OTHER        -> <<Platform(U32At(b, 17)), U32At(b, 5), U32At(b, 9),
                               U32At(b, 13), text>>

\* What each helper returns for the parse result p of the reply.
Handle(op, p) ==
    LET m == p.msg
        st == GetU32(m, Status)
        host == GetStr(m, ComputerName)
        fp == GetStr(m, Fingerprint)
    IN  CASE p.status # "ok" -> [status |-> p.status, value |-> None]
          [] op = "add_route" ->
               [status |-> CASE st = None -> "io" [] st = 0 -> "ok" [] OTHER -> "ads",
                value |-> st]
          [] op = "get_netid" -> [status |-> "ok", value |-> GetSource(m).netid]
          [] Panic \in {host, fp} -> [status |-> "panic", value |-> None]
          [] OTHER ->
               [status |-> "ok",
                value |-> [netid |-> GetSource(m).netid,
                           hostname |-> OrElse(IF host = None THEN NoStr ELSE host, Unknown),
                           twincat |-> TwinCatVersion(GetBytes(m, TCVersion)),
                           os |-> OsVersion(GetBytes(m, OSVersion)),
                           fingerprint |-> IF fp = None THEN <<>> ELSE fp]]

-----------------------------------------------------------------------------
VARIABLES
    op,       \* the helper waiting in recv_from, or "idle"
    req,      \* the request Message it sent (None before the first call)
    added,    \* the add_* calls that built req
    answer,   \* what the router chose to answer with (None: nothing yet)
    result,   \* the last helper's result
    calls     \* helper calls made

vars == <<op, req, added, answer, result, calls>>

Init ==
    /\ op = "idle"
    /\ req = None
    /\ added = <<>>
    /\ answer = None
    /\ result = [helper |-> "none", status |-> "none", value |-> None]
    /\ calls = 0

\* A helper builds its packet and sends it; bind or send_to may fail.
Issue(o, m, cs) ==
    /\ op = "idle"
    /\ calls < MaxCalls
    /\ calls' = calls + 1
    /\ req' = Built(m, cs)
    /\ added' = cs
    /\ answer' = None
    /\ \/ /\ op' = o
          /\ result' = [helper |-> o, status |-> "pending", value |-> None]
       \/ /\ op' = "idle"
          /\ result' = [helper |-> o, status |-> "io", value |-> None]

AddRoute ==
    \E netid \in NetIds, host \in Strs, temporary \in BOOLEAN,
       routename, username, password \in Strs \cup {NoStr} :
        Issue("add_route", New(AddRouteSvc, netid, 0),
              RouteCalls(netid, host, routename, username, password, temporary))

GetNetid == Issue("get_netid", New(Identify, ZeroNetId, 0), <<>>)

GetInfo == Issue("get_info", New(Identify, ZeroNetId, 0), <<>>)

\* recv_from times out after 3 s: the helper returns the I/O error.
Timeout ==
    /\ op # "idle"
    /\ op' = "idle"
    /\ result' = [result EXCEPT !.status = "io"]
    /\ UNCHANGED <<req, added, answer, calls>>

\* A datagram arrives; it is parsed as a reply to the request's service and
\* the helper returns.
Receive ==
    /\ op # "idle"
    /\ \E a \in Answers(req.hdr.service.id) :
         /\ answer' = a
         /\ result' = [helper |-> op] @@ Handle(op, ParseInternal(Datagram(req.hdr.service.id, a),
                                               [id |-> req.hdr.service.id, reply |-> TRUE]))
    /\ op' = "idle"
    /\ UNCHANGED <<req, added, calls>>

Done == op = "idle" /\ calls = MaxCalls /\ UNCHANGED vars

Next == AddRoute \/ GetNetid \/ GetInfo \/ Timeout \/ Receive \/ Done

Spec == Init /\ [][Next]_vars


-----------------------------------------------------------------------------
Bytes == 0..255
Datagrams == [hdr : {None} \cup [magic : {"beckhoff", "other"}, invoke : {0, 1},
                                  service : [id : {Identify, AddRouteSvc}, reply : BOOLEAN],
                                  src : [netid : NetIds \cup {ZeroNetId}, port : {0, 10000}],
                                  nitems : Nat],
              body : Seq(Bytes)]

\* Every field has its type, and every byte of a request or of a reply is
\* a byte (the u16/u32 conversions keep their width).
TypeOK ==
    /\ op \in {"idle", "add_route", "get_netid", "get_info"}
    /\ req = None \/ /\ [hdr |-> req.hdr, body |-> req.body] \in Datagrams
                     /\ req.hdr.nitems = Len(req.items)
    /\ answer = None \/ Datagram(req.hdr.service.id, answer) \in Datagrams
    /\ result.helper \in {"none", "add_route", "get_netid", "get_info"}
    /\ result.status \in {"none", "pending", "ok", "io", "ads", "panic"}
    /\ calls \in 0..MaxCalls

\* Spec section 8, UDP Message round trip: the packet a helper built, parsed
\* back (parse with the request's service), gives every tag's value back
\* through the getter of its kind: get_bytes, get_str without the NUL that
\* add_str appended, get_u32.
RoundTrip ==
    req # None =>
      LET p == ParseInternal(req, req.hdr.service)
      IN  /\ p.status = "ok"
          /\ \A k \in 1..Len(added) :
               LET c == added[k]
                   first == SelectInSeq(added, LAMBDA x : x.tag = c.tag) = k
                   got == CASE c.kind = "bytes" -> GetBytes(p.msg, c.tag)
                            [] c.kind = "str"   -> GetStr(p.msg, c.tag)
                            [] c.kind = "u32"   -> GetU32(p.msg, c.tag)
               IN  first => got = c.arg

\* What a helper returns is what the router sent in answer to this request:
\* add_route is Ok exactly when an intact reply to AddRoute carries Status 0
\* and an ADS error when it carries another status; get_netid returns the
\* reply's source NetID; get_info returns the ComputerName and Fingerprint
\* strings the router put in (or "unknown" and ""), and a reply that fails
\* the header checks or is torn never yields a value.  A trailing byte and an
\* extra empty ComputerName item leave a reply intact: the parser ignores
\* the one and add_route never reads the other (get_info panics on it).
Intact(a) == a.defect \in {"none", "odd", "empty"}
FirstArg(a, tag) ==
    LET k == SelectInSeq(a.items, LAMBDA x : x.tag = tag)
    IN  IF k = 0 THEN None ELSE a.items[k].arg
HelpersReturnRouterData ==
    /\ result.status \in {"ok", "ads"} => answer # None /\ Intact(answer)
    /\ op = "idle" /\ answer # None /\ req.hdr.service.id = AddRouteSvc =>
         /\ result.status = "ok" <=> Intact(answer) /\ FirstArg(answer, Status) = 0
         /\ result.status = "ads" <=> Intact(answer) /\ FirstArg(answer, Status) \notin {0, None}
    /\ result.status = "ok" /\ result.helper = "get_netid" => result.value = answer.netid
    /\ result.status = "ok" /\ result.helper = "get_info" =>
         /\ result.value.netid = answer.netid
         /\ result.value.hostname = OrElse(IF FirstArg(answer, ComputerName) = None
                                           THEN NoStr ELSE FirstArg(answer, ComputerName),
                                           Unknown)
         /\ result.value.fingerprint = IF FirstArg(answer, Fingerprint) = None
                                       THEN <<>> ELSE FirstArg(answer, Fingerprint)

\* A helper panics (parse_internal at &data_ptr[len..], get_str at
\* b.len() - 1) only on a reply with an item longer than the bytes after it
\* or an empty string item: a reply laid out as the spec says, intact or
\* with a bad header, a trailing byte or a torn item header, never panics.
PanicsOnlyOnMalformedItems ==
    result.status = "panic" => answer.defect \in {"truncated", "empty"}

=============================================================================
