------------------------------ MODULE Mapping ------------------------------
(***************************************************************************)
(* mapping.rs: AdsMapping caches a symbol handle together with the        *)
(* session id it was resolved in (get_handle), and reads or writes the     *)
(* symbol's value by that handle (IoMapping::read / write).                *)
(*                                                                         *)
(* Several mappings, each of its own symbol and used by its own thread,    *)
(* share one Client.  The session manager may reconnect at any time; a     *)
(* new session starts with an empty handle table on the server, so handle *)
(* numbers are handed out again.  Handle::new (symbol.rs, a module of     *)
(* this crate whose source is not under src/) is one GET_SYMHANDLE_BYNAME  *)
(* request whose reply is lost if the connection it was sent on goes away. *)
(***************************************************************************)
EXTENDS Naturals, TLC

CONSTANTS
    Mappings,       \* AdsMapping objects, each of its own symbol
    HandleNums,     \* handle numbers the server hands out
    MaxSessions,    \* sessions of the client (reconnects + 1)
    MaxOps,         \* read/write calls per mapping
    None

Sym(m) == m

VARIABLES
    session,    \* client.session_id()
    table,      \* server: handle number -> symbol, in the current session
    mpc,        \* per mapping: where its current call is
    kind,       \* per mapping: "read" or "write"
    sidRead,    \* per mapping: the session id get_handle read
    reqSession, \* per mapping: session the handle request went out on
    reqHandle,  \* per mapping: handle number the server answered with
    cachedSid,  \* self.session_id
    handle,     \* self.handle
    ops,
    written,    \* pairs <<symbol written on the server, mapping that wrote>>
    readBack    \* per mapping: symbol whose value its last read returned

vars == <<session, table, mpc, kind, sidRead, reqSession, reqHandle,
          cachedSid, handle, ops, written, readBack>>

Free == {h \in HandleNums : table[h] = None}

-----------------------------------------------------------------------------
(* Mutants: plausible wrong versions of the mapped definitions below.      *)

\* get_handle testing only `self.handle.is_none()`.
NeedsHandleNoSession(m, sid) == handle[m] = None

-----------------------------------------------------------------------------

\* `if self.handle.is_none() || self.session_id != session_id`
NeedsHandle(m, sid) == handle[m] = None \/ cachedSid[m] # sid

\* `self.session_id = session_id`: the id read before Handle::new.
CachedSession(m) == sidRead[m]

\* IoMapping::read / write call get_handle first: it reads session_id.
Begin(m) ==
    /\ mpc[m] = "idle"
    /\ ops[m] < MaxOps
    /\ \E k \in {"read", "write"} : kind' = [kind EXCEPT ![m] = k]
    /\ sidRead' = [sidRead EXCEPT ![m] = session]
    /\ mpc' = [mpc EXCEPT ![m] = IF NeedsHandle(m, session) THEN "resolve"
                                                            ELSE "use"]
    /\ ops' = [ops EXCEPT ![m] = @ + 1]
    /\ UNCHANGED <<session, table, reqSession, reqHandle, cachedSid, handle,
                   written, readBack>>

\* Handle::new sends GET_SYMHANDLE_BYNAME on the current connection; the
\* server allocates a handle, or has none left and answers an error.
ResolveSend(m) ==
    /\ mpc[m] = "resolve"
    /\ \/ \E h \in Free :
            /\ table' = [table EXCEPT ![h] = Sym(m)]
            /\ reqHandle' = [reqHandle EXCEPT ![m] = h]
            /\ reqSession' = [reqSession EXCEPT ![m] = session]
            /\ mpc' = [mpc EXCEPT ![m] = "resolving"]
       \/ /\ Free = {}
          /\ mpc' = [mpc EXCEPT ![m] = "idle"]
          /\ UNCHANGED <<table, reqHandle, reqSession>>
    /\ UNCHANGED <<session, kind, sidRead, cachedSid, handle, ops, written,
                   readBack>>

\* The reply arrives if the connection is still the one the request went
\* out on; then `self.handle = Some(..); self.session_id = session_id`.
\* Otherwise Handle::new fails and `?` leaves the cache as it was.
ResolveReply(m) ==
    /\ mpc[m] = "resolving"
    /\ IF reqSession[m] = session
         THEN /\ handle' = [handle EXCEPT ![m] = reqHandle[m]]
              /\ cachedSid' = [cachedSid EXCEPT ![m] = CachedSession(m)]
              /\ mpc' = [mpc EXCEPT ![m] = "use"]
         ELSE /\ mpc' = [mpc EXCEPT ![m] = "idle"]
              /\ UNCHANGED <<handle, cachedSid>>
    /\ UNCHANGED <<session, table, kind, sidRead, reqSession, reqHandle, ops,
                   written, readBack>>

\* device.read / device.write on (RW_SYMVAL_BYHANDLE, handle) over the
\* current connection: the server serves whatever symbol the number names
\* there, or answers an error for an unknown handle.
Use(m) ==
    /\ mpc[m] = "use"
    /\ LET x == table[handle[m]] IN
       IF x = None
         THEN UNCHANGED <<written, readBack>>
         ELSE IF kind[m] = "write"
           THEN /\ written' = written \cup {<<x, m>>}
                /\ UNCHANGED readBack
           ELSE /\ readBack' = [readBack EXCEPT ![m] = x]
                /\ UNCHANGED written
    /\ mpc' = [mpc EXCEPT ![m] = "idle"]
    /\ UNCHANGED <<session, table, kind, sidRead, reqSession, reqHandle,
                   cachedSid, handle, ops>>

\* The session manager reconnects; the new session has no handles.
Reconnect ==
    /\ session < MaxSessions
    /\ session' = session + 1
    /\ table' = [h \in HandleNums |-> None]
    /\ UNCHANGED <<mpc, kind, sidRead, reqSession, reqHandle, cachedSid,
                   handle, ops, written, readBack>>

\* AdsMapping::new: no handle, session id 0.
Init ==
    /\ session = 1
    /\ table = [h \in HandleNums |-> None]
    /\ mpc = [m \in Mappings |-> "idle"]
    /\ kind = [m \in Mappings |-> "read"]
    /\ sidRead = [m \in Mappings |-> 0]
    /\ reqSession = [m \in Mappings |-> 0]
    /\ reqHandle = [m \in Mappings |-> None]
    /\ cachedSid = [m \in Mappings |-> 0]
    /\ handle = [m \in Mappings |-> None]
    /\ ops = [m \in Mappings |-> 0]
    /\ written = {}
    /\ readBack = [m \in Mappings |-> None]

Done ==
    /\ \A m \in Mappings : mpc[m] = "idle" /\ ops[m] = MaxOps
    /\ UNCHANGED vars

Next ==
    \/ \E m \in Mappings : Begin(m) \/ ResolveSend(m) \/ ResolveReply(m) \/ Use(m)
    \/ Reconnect
    \/ Done

Spec == Init /\ [][Next]_vars

-----------------------------------------------------------------------------
(* Properties.                                                             *)

\* The cache check of get_handle (spec 3: a cached handle is valid only
\* while session_id is unchanged): a mapping that passed get_handle holds a
\* handle naming its own symbol on the server for as long as the session
\* it read in get_handle is still the current one, whether it reused the
\* cached handle or resolved a new one across a reconnect.
HandleValidWhileSessionHolds ==
    \A m \in Mappings :
        mpc[m] = "use" /\ sidRead[m] = session => table[handle[m]] = Sym(m)

\* A mapping only ever writes its own symbol on the PLC (spec 4.8: write by
\* the mapping's handle).  The session can change between get_handle and
\* device.write, and the stale number may name another symbol by then.
NoForeignWrite == \A w \in written : w[1] = Sym(w[2])

=============================================================================
