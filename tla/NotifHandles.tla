---------------------------- MODULE NotifHandles ----------------------------
(***************************************************************************)
(* The client-wide notification-handle set of client.rs (ClientInner field *)
(* notif_handles, a Mutex<BTreeSet<(AmsAddr, Handle)>>) and the Device     *)
(* operations that change it: add_notification, add_notification_multi,    *)
(* delete_notification, delete_notification_multi, Client::purge and       *)
(* Client::shutdown.                                                       *)
(*                                                                         *)
(* Each operation is one call of communicate followed by one locked update *)
(* of the set.  communicate is abstracted to its observable outcome: the   *)
(* server applies the request or not, and the caller gets the reply or an  *)
(* error (timeout, I/O) whether or not the server applied it.  The server  *)
(* keeps the active subscriptions per device and allocates handle numbers, *)
(* reusing freed ones when ReuseHandles holds.                             *)
(***************************************************************************)
EXTENDS Naturals, FiniteSets, TLC

CONSTANTS
    Users,          \* threads sharing one Client
    Addrs,          \* device addresses (AmsAddr)
    HandleIds,      \* handle numbers the server may hand out
    MaxOps,         \* operations each thread performs
    MaxRestarts,    \* server restarts (subscriptions lost)
    ReuseHandles    \* the server may hand out a freed handle number again

Pairs == Addrs \X HandleIds

\* Outcome of one communicate call: the request as a whole succeeded or
\* not, and the entries (per item of a sum-up request) that succeeded.
Replies == [whole : {"ok", "err"}, done : SUBSET Pairs]
Pending == [whole |-> "pending", done |-> {}]

Ops == {"idle", "add", "addMulti", "del", "delMulti", "shutdown", "shutDel"}

VARIABLES
    handles,    \* notif_handles
    subs,       \* server: active subscriptions per device
    used,       \* server: handle numbers ever allocated
    op,         \* per thread: the operation in progress
    dev,        \* per thread: device of an add
    arg,        \* per thread: pairs of a delete
    reply,      \* per thread: what communicate will return
    served,     \* per thread: the server has processed the request
    pending,    \* per thread: handles left for shutdown to delete
    owned,      \* per thread: handles its adds returned
    ops,        \* per thread: operations started
    restarts,
    confirmed   \* subscriptions an add reported to its caller, until the server
                \* deletes them, the client purges, or a shutdown has sent
                \* their delete

vars == <<handles, subs, used, op, dev, arg, reply, served, pending, owned, ops,
          restarts, confirmed>>
serverVars == <<subs, used, restarts>>

Active == {p \in Pairs : p[2] \in subs[p[1]]}

\* Handle numbers the server can allocate on device a.
FreeIds(a) ==
    IF ReuseHandles THEN HandleIds \ subs[a]
                    ELSE {h \in HandleIds : <<a, h>> \notin used}

Idle(u) == op[u] = "idle" /\ ops[u] < MaxOps

\* Set one thread's communicate call going.
Start(u, o, a, x) ==
    /\ op' = [op EXCEPT ![u] = o]
    /\ dev' = [dev EXCEPT ![u] = a]
    /\ arg' = [arg EXCEPT ![u] = x]
    /\ reply' = [reply EXCEPT ![u] = Pending]
    /\ served' = [served EXCEPT ![u] = FALSE]

-----------------------------------------------------------------------------
(* Mutants: plausible wrong versions of the mapped definitions below.      *)

\* delete_notification(_multi) removing the requested pairs whatever
\* communicate and the per-item results said.
RemovedRequested(r, P) == P

\* add_notification ignoring the error of communicate and inserting the
\* zero-initialised handle buffer.
InsertedOnError(r, a) == IF r.whole = "ok" THEN r.done ELSE {<<a, 0>>}

\* shutdown propagating the error of a delete_notification with ? : the
\* loop stops and the pairs it had taken and not yet deleted are dropped.
LeftAfterDeleteStops(r, P) == IF r.whole = "ok" THEN P ELSE {}

-----------------------------------------------------------------------------
(* The result checks of the callers.                                       *)

\* add_notification inserts the handle communicate returned;
\* add_notification_multi inserts the handle of every item whose
\* AddNotifRequest::handle() is Ok.  Both only after communicate is Ok.
Inserted(r, a) == IF r.whole = "ok" THEN r.done ELSE {}

\* delete_notification removes its pair; delete_notification_multi the pairs
\* whose DelNotifRequest::ensure() is Ok.  Both only after communicate is Ok.
Removed(r, P) == IF r.whole = "ok" THEN r.done ELSE {}

\* shutdown binds the result of each delete_notification to _r and goes on
\* with the pairs it has taken, whatever the result was.
LeftAfterDelete(r, P) == P

-----------------------------------------------------------------------------
(* Thread operations.                                                      *)

AddNotification(u) ==
    /\ Idle(u)
    /\ \E a \in Addrs : Start(u, "add", a, {})
    /\ ops' = [ops EXCEPT ![u] = @ + 1]
    /\ UNCHANGED <<handles, serverVars, pending, owned, confirmed>>

AddNotificationMulti(u) ==
    /\ Idle(u)
    /\ \E a \in Addrs : Start(u, "addMulti", a, {})
    /\ ops' = [ops EXCEPT ![u] = @ + 1]
    /\ UNCHANGED <<handles, serverVars, pending, owned, confirmed>>

DeleteNotification(u) ==
    /\ Idle(u)
    /\ \E p \in owned[u] : Start(u, "del", p[1], {p})
    /\ ops' = [ops EXCEPT ![u] = @ + 1]
    /\ UNCHANGED <<handles, serverVars, pending, owned, confirmed>>

DeleteNotificationMulti(u) ==
    /\ Idle(u)
    /\ \E a \in Addrs, S \in SUBSET owned[u] :
         /\ Cardinality(S) >= 2
         /\ \A p \in S : p[1] = a
         /\ Start(u, "delMulti", a, S)
    /\ ops' = [ops EXCEPT ![u] = @ + 1]
    /\ UNCHANGED <<handles, serverVars, pending, owned, confirmed>>

\* Client::purge: mem::take of the set, nothing is sent.
Purge(u) ==
    /\ Idle(u)
    /\ handles' = {}
    /\ confirmed' = {}
    /\ ops' = [ops EXCEPT ![u] = @ + 1]
    /\ UNCHANGED <<serverVars, op, dev, arg, reply, served, pending, owned>>

\* Client::shutdown: mem::take of the set, then delete_notification for each
\* taken pair, ignoring its result.
Shutdown(u) ==
    /\ Idle(u)
    /\ pending' = [pending EXCEPT ![u] = handles]
    /\ handles' = {}
    /\ op' = [op EXCEPT ![u] = "shutdown"]
    /\ ops' = [ops EXCEPT ![u] = @ + 1]
    /\ UNCHANGED <<serverVars, dev, arg, reply, served, owned, confirmed>>

ShutdownNext(u) ==
    /\ op[u] = "shutdown"
    /\ pending[u] # {}
    /\ \E p \in pending[u] :
         /\ Start(u, "shutDel", p[1], {p})
         /\ pending' = [pending EXCEPT ![u] = @ \ {p}]
    /\ UNCHANGED <<handles, serverVars, owned, ops, confirmed>>

ShutdownDone(u) ==
    /\ op[u] = "shutdown"
    /\ pending[u] = {}
    /\ op' = [op EXCEPT ![u] = "idle"]
    /\ UNCHANGED <<handles, serverVars, dev, arg, reply, served, pending, owned,
                   ops, confirmed>>

\* communicate returns (reply or error) and the thread updates the set under
\* its lock.  An error (timeout, I/O) can come whether or not the server
\* applied the request.
Complete(u, r) ==
    /\ op[u] \in {"add", "addMulti", "del", "delMulti", "shutDel"}
    /\ IF op[u] \in {"add", "addMulti"}
         THEN /\ handles' = handles \cup Inserted(r, dev[u])
              /\ confirmed' = confirmed \cup Inserted(r, dev[u])
              /\ owned' = [owned EXCEPT ![u] = @ \cup Inserted(r, dev[u])]
         ELSE /\ handles' = handles \ Removed(r, arg[u])
              /\ confirmed' = IF op[u] = "shutDel" THEN confirmed \ arg[u]
                                                  ELSE confirmed
              /\ UNCHANGED owned
    /\ op' = [op EXCEPT ![u] = IF @ = "shutDel" THEN "shutdown" ELSE "idle"]
    /\ pending' = [pending EXCEPT ![u] =
                      IF op[u] = "shutDel" THEN LeftAfterDelete(r, @) ELSE @]
    /\ UNCHANGED <<serverVars, dev, arg, reply, served, ops>>

Return(u) ==
    /\ reply[u].whole # "pending"
    /\ Complete(u, reply[u])

Fail(u) ==
    /\ Complete(u, [whole |-> "err", done |-> {}])

-----------------------------------------------------------------------------
(* The server.                                                             *)

Answer(u, r) ==
    /\ reply' = [reply EXCEPT ![u] = r]
    /\ served' = [served EXCEPT ![u] = TRUE]

\* AddNotification or the SUMUP_ADDDEVNOTE request of n items: each item
\* gets a fresh subscription or an error; the whole sum-up may be refused.
ServeAdd(u, a, n) ==
    \/ /\ \E H \in SUBSET FreeIds(a) :
            /\ Cardinality(H) <= n
            /\ subs' = [subs EXCEPT ![a] = @ \cup H]
            /\ used' = used \cup ({a} \X H)
            /\ Answer(u, [whole |-> IF n = 1 /\ H = {} THEN "err" ELSE "ok",
                          done |-> {a} \X H])
    \/ /\ n > 1
       /\ Answer(u, [whole |-> "err", done |-> {}])
       /\ UNCHANGED <<subs, used>>

\* DeleteNotification or SUMUP_DELDEVNOTE: each item whose subscription is
\* active is deleted; the others report an error.
ServeDelete(u, P, multi) ==
    LET gone == P \cap Active
    IN  /\ subs' = [a \in Addrs |-> subs[a] \ {p[2] : p \in {q \in gone : q[1] = a}}]
        /\ Answer(u, [whole |-> IF ~multi /\ gone = {} THEN "err" ELSE "ok",
                      done |-> gone])
        /\ confirmed' = confirmed \ gone
        /\ UNCHANGED used

Serve(u) ==
    /\ ~served[u]
    /\ reply[u].whole = "pending"
    /\ op[u] \in {"add", "addMulti", "del", "delMulti", "shutDel"}
    /\ \/ op[u] = "add"      /\ ServeAdd(u, dev[u], 1) /\ UNCHANGED confirmed
       \/ op[u] = "addMulti" /\ ServeAdd(u, dev[u], 2) /\ UNCHANGED confirmed
       \/ op[u] \in {"del", "shutDel"} /\ ServeDelete(u, arg[u], FALSE)
       \/ op[u] = "delMulti" /\ ServeDelete(u, arg[u], TRUE)
    /\ UNCHANGED <<handles, op, dev, arg, pending, owned, ops, restarts>>

\* The PLC restarts: every subscription is gone.
ServerRestart ==
    /\ restarts < MaxRestarts
    /\ subs' = [a \in Addrs |-> {}]
    /\ restarts' = restarts + 1
    /\ confirmed' = {}
    /\ UNCHANGED <<handles, used, op, dev, arg, reply, served, pending, owned, ops>>

-----------------------------------------------------------------------------

Init ==
    /\ handles = {}
    /\ subs = [a \in Addrs |-> {}]
    /\ used = {}
    /\ op = [u \in Users |-> "idle"]
    /\ dev = [u \in Users |-> CHOOSE a \in Addrs : TRUE]
    /\ arg = [u \in Users |-> {}]
    /\ reply = [u \in Users |-> Pending]
    /\ served = [u \in Users |-> TRUE]
    /\ pending = [u \in Users |-> {}]
    /\ owned = [u \in Users |-> {}]
    /\ ops = [u \in Users |-> 0]
    /\ restarts = 0
    /\ confirmed = {}

Done ==
    /\ \A u \in Users : op[u] = "idle" /\ ops[u] = MaxOps
    /\ UNCHANGED vars

Next ==
    \/ \E u \in Users :
         \/ AddNotification(u) \/ AddNotificationMulti(u)
         \/ DeleteNotification(u) \/ DeleteNotificationMulti(u)
         \/ Purge(u) \/ Shutdown(u) \/ ShutdownNext(u) \/ ShutdownDone(u)
         \/ Return(u) \/ Fail(u) \/ Serve(u)
    \/ ServerRestart
    \/ Done

Spec == Init /\ [][Next]_vars

-----------------------------------------------------------------------------
(* Properties.                                                             *)

TypeOK ==
    /\ handles \subseteq Pairs
    /\ subs \in [Addrs -> SUBSET HandleIds]
    /\ op \in [Users -> Ops]
    /\ reply \in [Users -> Replies \cup {Pending}]
    /\ pending \in [Users -> SUBSET Pairs]
    /\ owned \in [Users -> SUBSET Pairs]
    /\ ops \in [Users -> 0..MaxOps]
    /\ confirmed \subseteq Pairs

\* The pairs a shutdown in progress has taken and not yet sent a delete for,
\* and the ones whose delete is on the wire.
Closing == UNION {pending[u] \cup (IF op[u] = "shutDel" THEN arg[u] ELSE {}) :
                  u \in Users}

\* The handle set is the record of what shutdown must close (spec section 3,
\* "entries are added only on confirmed server success; removed on confirmed
\* delete or on explicit purge"; section 8, shutdown issues a delete for
\* each): every subscription the server still holds and that an
\* add_notification(_multi) reported to its caller since the last purge is
\* in notif_handles or taken by a shutdown that has not yet sent its delete.
\* It relies on deletes removing a pair only after communicate succeeded
\* (per item of a sum-up), on shutdown going on after a failed delete, and
\* on an add that returns while a shutdown runs (client.rs:987, the insert
\* after communicate) putting its pair back into the set for a later one.
ConfirmedTracked == confirmed \cap Active \subseteq handles \cup Closing

=============================================================================
