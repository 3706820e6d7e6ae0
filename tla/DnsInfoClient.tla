--------------------------- MODULE DnsInfoClient ---------------------------
(***************************************************************************)
(* Client side of the DNS configuration service (src/dnsinfo/             *)
(* dnsinfo_copy.c): the process-wide connection reference count           *)
(* dnsinfo_active and shared connection dnsinfo_client, used concurrently  *)
(* by the threads of one process through dns_configuration_copy(),        *)
(* dns_configuration_free() and _dns_configuration_ack().                 *)
(*                                                                         *)
(* Every block the code runs with dispatch_sync() on                      *)
(* __dns_configuration_queue() is one atomic action.  Every read of the   *)
(* global dnsinfo_client made OUTSIDE that queue (the two of line 139,    *)
(* 159, the two of 253, 272) is a step of its own, so other threads may   *)
(* run in between.                                                        *)
(*                                                                         *)
(* The connection object (libSC_info_client_t, in                         *)
(* libSystemConfiguration_client.c, not part of src/) is modelled from    *)
(* the spec: created active, made inactive when XPC reports the service   *)
(* invalid, released when the last reference is dropped.                 *)
(*                                                                         *)
(* Every configuration carries the generation the daemon had published    *)
(* when it was copied; an acknowledgement carries it back over the        *)
(* connection, whose messages XPC delivers in the order they were sent.   *)
(* The daemon's side (publishing generations, handling acknowledgements)  *)
(* is not in src/ and is modelled from the spec.                          *)
(***************************************************************************)
EXTENDS Naturals, FiniteSets, Functions, Sequences, Bags, BagsExt

CONSTANTS
  Threads,        \* threads of the client process calling the library
  NULL,           \* the NULL pointer
  MaxCopies,      \* bound on dns_configuration_copy() calls in a behaviour
  MaxAcks,        \* bound on _dns_configuration_ack() calls in a behaviour
  CreateMayFail,  \* whether libSC_info_client_create() may return NULL
  MaxGen          \* bound on the generations the daemon publishes

ASSUME MaxCopies \in Nat \ {0}
ASSUME MaxAcks \in Nat
ASSUME CreateMayFail \in BOOLEAN
ASSUME MaxGen \in Nat \ {0}

Gens == 1 .. MaxGen

\* Each copy creates at most one connection object, so MaxCopies ids suffice.
Clients == 1 .. MaxCopies

VARIABLES
  available,      \* libSC_info_available(): FALSE between fork() and exec()
  dnsinfo_active, \* the connection reference count (line 60)
  dnsinfo_client, \* the shared connection object, or NULL (line 61)
  clientState,    \* lifecycle of every connection object
  pc,             \* where each thread is in the library
  ref,            \* the running copy of a thread took a reference
  cl,             \* connection a thread's blocking request was sent on
  held,           \* configurations each thread owns: a bag of generations
  copies,         \* copy calls made so far (bounded by MaxCopies)
  acks,           \* ack calls made so far (bounded by MaxAcks)
  pins,           \* references taken by acknowledgements (line 259)
  ackGen,         \* generation of the configuration a thread acknowledges
  generation,     \* the generation the daemon currently serves
  inbox,          \* acknowledgements sent and not yet handled, in order
  acked           \* newest generation the daemon has seen acknowledged

vars == << available, dnsinfo_active, dnsinfo_client, clientState, pc, ref,
           cl, held, copies, acks, pins, ackGen, generation, inbox, acked >>

\* The variables only the acknowledgement path and the daemon change.
ackVars == << ackGen, generation, inbox, acked >>

ClientStates == {"unused", "active", "inactive", "released"}
PCs == {"idle", "c_queue", "c_check", "c_active", "c_send", "c_wait",
        "a_check", "a_active", "a_queue", "a_send", "fault"}

\* State of the object a pointer designates ("null" for NULL).
Status(c) == IF c = NULL THEN "null" ELSE clientState[c]

\* The thread moves to pc "to" from pc "from".
Goto(t, from, to) ==
  /\ pc[t] = from
  /\ pc' = [pc EXCEPT ![t] = to]

\* The thread dereferences connection c and moves on to pc "to"; a NULL or
\* freed connection is undefined behaviour, recorded as the fault state
\* that stops the thread.
Deref(t, c, to) ==
  pc' = [pc EXCEPT ![t] = IF Status(c) \in {"null", "released"} THEN "fault"
                                                              ELSE to]

-----------------------------------------------------------------------------
(* dns_configuration_copy(), lines 94-221                                  *)

\* Line 104: called between fork() and exec(), the copy returns NULL at once.
CopyForked(t) ==
  /\ pc[t] = "idle"
  /\ copies < MaxCopies
  /\ ~available
  /\ copies' = copies + 1
  /\ UNCHANGED << available, dnsinfo_active, dnsinfo_client, clientState,
                  pc, ref, cl, held, acks, pins, ackVars >>

CopyBegin(t) ==
  /\ copies < MaxCopies
  /\ available
  /\ Goto(t, "idle", "c_queue")
  /\ copies' = copies + 1
  /\ UNCHANGED << available, dnsinfo_active, dnsinfo_client, clientState,
                  ref, cl, held, acks, pins, ackVars >>

\* The object libSC_info_client_create() returns when it succeeds.
NewClient == CHOOSE c \in Clients : clientState[c] = "unused"

\* Whether libSC_info_client_create() succeeds.
CreateResults == IF CreateMayFail THEN BOOLEAN ELSE {TRUE}

\* Mutant of CopyQueue: the reference is taken only when the connection
\* is created, not when an existing one is reused.
CopyQueueNoRefOnReuse(t) ==
  LET mustCreate == dnsinfo_active = 0 \/ dnsinfo_client = NULL IN
  /\ Goto(t, "c_queue", "c_check")
  /\ \/ /\ ~mustCreate
        /\ ref' = [ref EXCEPT ![t] = TRUE]
        /\ UNCHANGED << dnsinfo_active, dnsinfo_client, clientState >>
     \/ /\ mustCreate
        /\ dnsinfo_active' = dnsinfo_active + 1
        /\ dnsinfo_client' = NewClient
        /\ clientState' = [clientState EXCEPT ![NewClient] = "active"]
        /\ ref' = [ref EXCEPT ![t] = TRUE]
  /\ UNCHANGED << available, cl, held, copies, acks, pins, ackVars >>

\* Lines 109-137, one dispatch_sync() block: take a reference and, if it is
\* the first one or there is no connection, create the connection; when the
\* creation fails, give the reference back.  The result of the creation
\* overwrites dnsinfo_client whatever it held.
CopyQueue(t) ==
  LET mustCreate == dnsinfo_active = 0 \/ dnsinfo_client = NULL IN
  /\ Goto(t, "c_queue", "c_check")
  /\ \/ /\ ~mustCreate
        /\ dnsinfo_active' = dnsinfo_active + 1
        /\ ref' = [ref EXCEPT ![t] = TRUE]
        /\ UNCHANGED << dnsinfo_client, clientState >>
     \/ /\ mustCreate
        /\ \E ok \in CreateResults :
             /\ dnsinfo_active' = IF ok THEN dnsinfo_active + 1 ELSE dnsinfo_active
             /\ dnsinfo_client' = IF ok THEN NewClient ELSE NULL
             /\ clientState' = IF ok THEN [clientState EXCEPT ![NewClient] = "active"]
                                     ELSE clientState
             /\ ref' = [ref EXCEPT ![t] = ok]
  /\ UNCHANGED << available, cl, held, copies, acks, pins, ackVars >>

\* The copy returns NULL: the reference it may have taken is not given back.
CopyReturnsNull(t) ==
  /\ pc' = [pc EXCEPT ![t] = "idle"]
  /\ ref' = [ref EXCEPT ![t] = FALSE]
  /\ cl' = [cl EXCEPT ![t] = NULL]

\* Line 139, first read, outside the queue: no connection, return NULL.
CopyCheck(t) ==
  /\ pc[t] = "c_check"
  /\ \/ /\ dnsinfo_client = NULL
        /\ CopyReturnsNull(t)
     \/ /\ dnsinfo_client # NULL
        /\ pc' = [pc EXCEPT ![t] = "c_active"]
        /\ UNCHANGED << ref, cl >>
  /\ UNCHANGED << available, dnsinfo_active, dnsinfo_client, clientState,
                  held, copies, acks, pins, ackVars >>

\* Lines 139-142, second read: dnsinfo_client->active, through the global
\* read again; an inactive connection returns NULL.
CopyActive(t) ==
  /\ pc[t] = "c_active"
  /\ \/ /\ Status(dnsinfo_client) = "inactive"
        /\ CopyReturnsNull(t)
     \/ /\ Status(dnsinfo_client) # "inactive"
        /\ Deref(t, dnsinfo_client, "c_send")
        /\ UNCHANGED << ref, cl >>
  /\ UNCHANGED << available, dnsinfo_active, dnsinfo_client, clientState,
                  held, copies, acks, pins, ackVars >>

\* Lines 144-160: build the request and send it on dnsinfo_client, read
\* once more from the global, then block for the reply.
CopySend(t) ==
  /\ pc[t] = "c_send"
  /\ Deref(t, dnsinfo_client, "c_wait")
  /\ cl' = [cl EXCEPT ![t] = dnsinfo_client]
  /\ UNCHANGED << available, dnsinfo_active, dnsinfo_client, clientState,
                  ref, held, copies, acks, pins, ackVars >>

\* Lines 162-220: the reply, delivered through the connection object.  An
\* invalidated connection yields no reply; an answer from the server either
\* carries a configuration that passes the size checks and expands (see
\* DnsConfigBuffer), or yields none (no data yet, sizes out of range,
\* expansion failure).  Either way the copy returns without giving back
\* the reference taken at line 110.
CopyReply(t) ==
  /\ pc[t] = "c_wait"
  /\ \E gotConfig \in IF Status(cl[t]) = "active" THEN BOOLEAN ELSE {FALSE} :
       /\ Deref(t, cl[t], "idle")
       /\ ref' = [ref EXCEPT ![t] = FALSE]
       /\ cl' = [cl EXCEPT ![t] = NULL]
       /\ held' = [held EXCEPT ![t] = IF gotConfig THEN BagAdd(@, generation) ELSE @]
  /\ UNCHANGED << available, dnsinfo_active, dnsinfo_client, clientState,
                  copies, acks, pins, ackVars >>

-----------------------------------------------------------------------------
(* dns_configuration_free(), lines 224-241                                 *)

\* Lines 234-235: libSC_info_client_release(dnsinfo_client), which
\* dereferences its argument, and dnsinfo_client = NULL.
ReleaseClient(t) ==
  /\ Deref(t, dnsinfo_client, "idle")
  /\ dnsinfo_client' = NULL
  /\ clientState' = IF dnsinfo_client = NULL THEN clientState
                    ELSE [clientState EXCEPT ![dnsinfo_client] = "released"]

\* Mutant of Free: the NULL check of line 227 is left out, so a free
\* without a configuration still drops a reference.
FreeWithoutConfig(t) ==
  /\ pc[t] = "idle"
  /\ \E g \in Gens :
       held' = [held EXCEPT ![t] = BagRemove(@, g)]
  /\ dnsinfo_active' = dnsinfo_active - 1
  /\ IF dnsinfo_active - 1 = 0
       THEN /\ ReleaseClient(t)
       ELSE UNCHANGED << dnsinfo_client, clientState, pc >>
  /\ UNCHANGED << available, ref, cl, copies, acks, pins, ackVars >>

\* Mutant of Free: off by one, the connection is released when the count
\* drops to one.
FreeReleaseAtOne(t) ==
  /\ pc[t] = "idle"
  /\ \E g \in BagToSet(held[t]) :
       held' = [held EXCEPT ![t] = BagRemove(@, g)]
  /\ dnsinfo_active' = dnsinfo_active - 1
  /\ IF dnsinfo_active - 1 <= 1
       THEN /\ ReleaseClient(t)
       ELSE UNCHANGED << dnsinfo_client, clientState, pc >>
  /\ UNCHANGED << available, ref, cl, copies, acks, pins, ackVars >>

\* Lines 227-239: free one configuration the thread owns; in one
\* dispatch_sync() block, drop a reference, and the last one releases the
\* connection and clears dnsinfo_client.
Free(t) ==
  /\ pc[t] = "idle"
  /\ \E g \in BagToSet(held[t]) :
       held' = [held EXCEPT ![t] = BagRemove(@, g)]
  /\ dnsinfo_active' = dnsinfo_active - 1
  /\ IF dnsinfo_active - 1 = 0
       THEN /\ ReleaseClient(t)
       ELSE UNCHANGED << dnsinfo_client, clientState, pc >>
  /\ UNCHANGED << available, ref, cl, copies, acks, pins, ackVars >>

-----------------------------------------------------------------------------
(* _dns_configuration_ack(), lines 244-276                                 *)

\* Line 253, first read, outside the queue: an ack of a configuration the
\* thread owns returns at once when there is no connection.
AckCheck(t) ==
  /\ pc[t] = "idle"
  /\ acks < MaxAcks
  /\ acks' = acks + 1
  /\ \E g \in BagToSet(held[t]) : ackGen' = [ackGen EXCEPT ![t] = g]
  /\ pc' = [pc EXCEPT ![t] = IF dnsinfo_client = NULL THEN "idle" ELSE "a_active"]
  /\ UNCHANGED << available, dnsinfo_active, dnsinfo_client, clientState,
                  ref, cl, held, copies, pins, generation, inbox, acked >>

\* Lines 253-256, second read: dnsinfo_client->active through the global
\* read again; an inactive connection ends the ack.
AckActive(t) ==
  /\ pc[t] = "a_active"
  /\ Deref(t, dnsinfo_client,
           IF Status(dnsinfo_client) = "inactive" THEN "idle" ELSE "a_queue")
  /\ UNCHANGED << available, dnsinfo_active, dnsinfo_client, clientState,
                  ref, cl, held, copies, acks, pins, ackVars >>

\* Lines 258-260: pin the connection open for the life of the process.
AckQueue(t) ==
  /\ Goto(t, "a_queue", "a_send")
  /\ dnsinfo_active' = dnsinfo_active + 1
  /\ pins' = pins + 1
  /\ UNCHANGED << available, dnsinfo_client, clientState, ref, cl, held,
                  copies, acks, ackVars >>

\* Lines 262-275: send the acknowledgement of config->generation (line
\* 269), fire and forget, on dnsinfo_client->connection, read from the
\* global once more; XPC drops a message sent on an invalid connection.
AckSend(t) ==
  /\ pc[t] = "a_send"
  /\ Deref(t, dnsinfo_client, "idle")
  /\ inbox' = IF Status(dnsinfo_client) = "active"
                THEN Append(inbox, ackGen[t]) ELSE inbox
  /\ UNCHANGED << available, dnsinfo_active, dnsinfo_client, clientState,
                  ref, cl, held, copies, acks, pins, ackGen, generation, acked >>

-----------------------------------------------------------------------------
(* The XPC connection's event handler (libSystemConfiguration_client.c):  *)
(* XPC_ERROR_CONNECTION_INVALID marks the connection inactive for good.    *)
Invalidate(c) ==
  /\ clientState[c] = "active"
  /\ clientState' = [clientState EXCEPT ![c] = "inactive"]
  /\ UNCHANGED << available, dnsinfo_active, dnsinfo_client, pc, ref, cl,
                  held, copies, acks, pins, ackVars >>

(* The daemon (not in src/): on a change of the network state it          *)
(* publishes a snapshot with a new, larger generation (spec 3).            *)
Publish ==
  /\ generation < MaxGen
  /\ generation' = generation + 1
  /\ UNCHANGED << available, dnsinfo_active, dnsinfo_client, clientState,
                  pc, ref, cl, held, copies, acks, pins, ackGen, inbox, acked >>

(* The daemon handles the next acknowledgement; one of a generation older *)
(* than one already acknowledged is a no-op (spec 4.5).                    *)
ServerAck ==
  /\ inbox # << >>
  /\ acked' = IF Head(inbox) > acked THEN Head(inbox) ELSE acked
  /\ inbox' = Tail(inbox)
  /\ UNCHANGED << available, dnsinfo_active, dnsinfo_client, clientState,
                  pc, ref, cl, held, copies, acks, pins, ackGen, generation >>

-----------------------------------------------------------------------------
Init ==
  /\ available \in BOOLEAN
  /\ dnsinfo_active = 0
  /\ dnsinfo_client = NULL
  /\ clientState = [c \in Clients |-> "unused"]
  /\ pc = [t \in Threads |-> "idle"]
  /\ ref = [t \in Threads |-> FALSE]
  /\ cl = [t \in Threads |-> NULL]
  /\ held = [t \in Threads |-> EmptyBag]
  /\ copies = 0
  /\ acks = 0
  /\ pins = 0
  /\ ackGen = [t \in Threads |-> 1]
  /\ generation = 1
  /\ inbox = << >>
  /\ acked = 0

Next ==
  \/ \E t \in Threads :
       \/ CopyForked(t) \/ CopyBegin(t) \/ CopyQueue(t) \/ CopyCheck(t)
       \/ CopyActive(t) \/ CopySend(t) \/ CopyReply(t) \/ Free(t)
       \/ AckCheck(t) \/ AckActive(t) \/ AckQueue(t) \/ AckSend(t)
  \/ \E c \in Clients : Invalidate(c)
  \/ Publish \/ ServerAck

\* A thread inside the library keeps running: the queue runs every block
\* submitted to it, and XPC answers or fails every request.  Whether a
\* thread calls the library at all is up to the caller, so the calls are
\* not fair.
Fairness ==
  \A t \in Threads :
    /\ WF_vars(CopyQueue(t)) /\ WF_vars(CopyCheck(t)) /\ WF_vars(CopyActive(t))
    /\ WF_vars(CopySend(t)) /\ WF_vars(CopyReply(t)) /\ WF_vars(AckActive(t))
    /\ WF_vars(AckQueue(t)) /\ WF_vars(AckSend(t))

Spec == Init /\ [][Next]_vars /\ Fairness

-----------------------------------------------------------------------------
TypeOK ==
  /\ available \in BOOLEAN
  /\ dnsinfo_active \in Nat
  /\ dnsinfo_client \in Clients \cup {NULL}
  /\ clientState \in [Clients -> ClientStates]
  /\ pc \in [Threads -> PCs]
  /\ ref \in [Threads -> BOOLEAN]
  /\ cl \in [Threads -> Clients \cup {NULL}]
  /\ \A t \in Threads : IsABag(held[t]) /\ BagToSet(held[t]) \subseteq Gens
  /\ copies \in 0 .. MaxCopies
  /\ acks \in 0 .. MaxAcks
  /\ pins \in Nat
  /\ ackGen \in [Threads -> Gens]
  /\ generation \in Gens
  /\ inbox \in Seq(Gens)
  /\ acked \in 0 .. MaxGen

\* The references the code owes to its callers: one per configuration a
\* thread owns, one per copy in flight that took one, one per ack pin.
InFlight == {t \in Threads : pc[t] \in {"c_check", "c_active", "c_send", "c_wait"} /\ ref[t]}
Owed == SumFunction([t \in Threads |-> BagCardinality(held[t])])
          + Cardinality(InFlight) + pins

\* No thread ever dereferences a NULL or released connection: neither the
\* copy's reads of dnsinfo_client outside the queue (lines 139, 159), nor
\* the reply delivered on it, nor the ack's reads (lines 253, 272), nor the
\* release of the last reference (line 234).
NoFault == \A t \in Threads : pc[t] # "fault"

\* dnsinfo_active never falls below the references callers still hold, so
\* dns_configuration_free() cannot release the connection under a thread
\* that still uses it.
RefcountCoversOwed == dnsinfo_active >= Owed

\* dnsinfo_active counts exactly the references callers hold, so that
\* freeing every configuration returned (spec 8: acquire N times, release
\* N times) brings it back to zero and closes the connection.
RefcountExact == dnsinfo_active = Owed

\* The refinement mapping to the connection handle of spec 4.3: the handle
\* is open while dnsinfo_client holds a connection object, and its count of
\* holders is dnsinfo_active.
Handle == INSTANCE ConnectionHandle
            WITH handle <- IF dnsinfo_client = NULL THEN "closed" ELSE "open",
                 refs <- dnsinfo_active

\* The copy's and the ack's dispatch_sync() blocks (lines 109-137, 258-260)
\* and the free's (lines 231-237) behave as acquire and release of one
\* handle: every change of dnsinfo_active moves it by one, the connection
\* exists exactly while the count is positive, and it is dropped only by
\* the release that brings the count to zero.
HandleRefined == Handle!Spec

=============================================================================
