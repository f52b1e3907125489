------------------------------ MODULE Sessions ------------------------------
(***************************************************************************)
(* The HTTP sessions of the MCP server (warm-mcp/session.rs) and the order *)
(* in which serve() ends them (warm-mcp/http.rs).                          *)
(*                                                                         *)
(* A session's Entry owns one permit of the session semaphore and is       *)
(* shared: by the entries map, by the SessionTransport that the session's  *)
(* service task runs on, by every lease (Use) and by the cleanup task that *)
(* retire() spawns.  The permit is free when the last of them is gone.     *)
(* The library's own session table (inner) is external: create_session     *)
(* adds to it, the cleanup task removes.                                   *)
(***************************************************************************)
EXTENDS Integers, FiniteSets

CONSTANTS
    Ids,           \* session ids, each used once
    MaxSessions,   \* limits.sessions
    MaxRequests    \* limits.requests: leases a session hands out in its life

ASSUME SessionsAssumption ==
    IsFiniteSet(Ids) /\ MaxSessions \in Nat /\ MaxRequests \in Nat \ {0}

VARIABLES
    creating,     \* ids with a permit taken and no Entry yet
    entries,      \* keys of the entries map
    handles,      \* keys of the library's session table
    transports,   \* sessions whose SessionTransport is alive
    cleaning,     \* sessions with a cleanup task under way
    leases,       \* Activity.active: the leases outstanding
    requests,     \* Activity.requests: the leases handed out
    starting,     \* sessions with an initialize_session under way
    initialized,  \* Activity.initialized
    cancelled,    \* sessions whose token is cancelled
    marked,       \* ids the reaper or the shutdown has collected to retire
    used,         \* ids used up
    server        \* "serving", "draining", "closing", "stopped"

sessionVars == <<creating, entries, handles, transports, cleaning, leases, requests,
                 starting, initialized, cancelled, marked, used, server>>

SessionsInit ==
    /\ creating = {} /\ entries = {} /\ handles = {} /\ transports = {}
    /\ cleaning = {} /\ starting = {} /\ initialized = {} /\ cancelled = {}
    /\ marked = {} /\ used = {}
    /\ leases = [s \in Ids |-> 0]
    /\ requests = [s \in Ids |-> 0]
    /\ server = "serving"

\* The sessions that hold a permit.
Permits == creating \cup entries \cup transports \cup cleaning
           \cup {s \in Ids : leases[s] > 0}

\* Shared::retire for the sessions in S: those still listed leave the map,
\* their token is cancelled and a cleanup task is spawned for each.
Retire(S) ==
    /\ entries' = entries \ S
    /\ cancelled' = cancelled \cup (S \cap entries)
    /\ cleaning' = cleaning \cup (S \cap entries)

-----------------------------------------------------------------------------
(* Requests.  Their tasks can be dropped at any await: the client leaves,  *)
(* the deadline passes, the shutdown aborts the connection.                *)

\* create_session: a permit, or a refusal.
TakePermit(s) ==
    /\ server = "serving"
    /\ s \notin used
    /\ Cardinality(Permits) < MaxSessions
    /\ used' = used \cup {s}
    /\ creating' = creating \cup {s}
    /\ UNCHANGED <<entries, handles, transports, cleaning, leases, requests, starting,
                   initialized, cancelled, marked, server>>

\* The library's create_session failed, or the task was dropped in its await.
CreateFails(s) ==
    /\ s \in creating
    /\ creating' = creating \ {s}
    /\ UNCHANGED <<entries, handles, transports, cleaning, leases, requests, starting,
                   initialized, cancelled, marked, used, server>>

\* It succeeded: the Entry is listed and the transport returned.
Enter(s) ==
    /\ s \in creating
    /\ creating' = creating \ {s}
    /\ handles' = handles \cup {s}
    /\ entries' = entries \cup {s}
    /\ transports' = transports \cup {s}
    /\ UNCHANGED <<cleaning, leases, requests, starting, initialized, cancelled, marked,
                   used, server>>

\* Shared::acquire, under the map's lock.
Acquire(s) ==
    /\ s \in entries /\ s \notin cancelled
    /\ requests[s] < MaxRequests
    /\ requests' = [requests EXCEPT ![s] = @ + 1]
    /\ leases' = [leases EXCEPT ![s] = @ + 1]

\* initialize_session takes a lease and an Initialization guard.
StartInitialize(s) ==
    /\ server = "serving"
    /\ s \notin initialized /\ s \notin starting
    /\ Acquire(s)
    /\ starting' = starting \cup {s}
    /\ UNCHANGED <<creating, entries, handles, transports, cleaning, initialized,
                   cancelled, marked, used, server>>

Initialize(s) ==
    /\ s \in starting
    /\ starting' = starting \ {s}
    /\ initialized' = initialized \cup {s}
    /\ leases' = [leases EXCEPT ![s] = @ - 1]
    /\ UNCHANGED <<creating, entries, handles, transports, cleaning, requests, cancelled,
                   marked, used, server>>

\* The guard's drop: an initialization that failed or was given up retires
\* the session.
InitializeFails(s) ==
    /\ s \in starting
    /\ starting' = starting \ {s}
    /\ leases' = [leases EXCEPT ![s] = @ - 1]
    /\ Retire({s})
    /\ UNCHANGED <<creating, handles, transports, requests, initialized, marked, used,
                   server>>

\* create_stream, accept_message, create_standalone_stream and resume.
Lease(s) ==
    /\ server = "serving"
    /\ s \in initialized
    /\ Acquire(s)
    /\ UNCHANGED <<creating, entries, handles, transports, cleaning, starting, initialized,
                   cancelled, marked, used, server>>

\* Defect: the lease's end is not counted.
BugEndLease(s) ==
    /\ leases[s] > (IF s \in starting THEN 1 ELSE 0)
    /\ UNCHANGED sessionVars

\* Use::drop: the message is accepted, the stream ended, was cancelled or
\* its request was dropped.
EndLease(s) ==
    /\ leases[s] > (IF s \in starting THEN 1 ELSE 0)
    /\ leases' = [leases EXCEPT ![s] = @ - 1]
    /\ UNCHANGED <<creating, entries, handles, transports, cleaning, requests, starting,
                   initialized, cancelled, marked, used, server>>

\* close_session (DELETE), and a send() over a byte budget.
CloseSession(s) ==
    /\ s \in entries /\ server = "serving"
    /\ Retire({s})
    /\ UNCHANGED <<creating, handles, transports, leases, requests, starting, initialized,
                   marked, used, server>>

\* The service task ends: receive() returns None once the token is
\* cancelled, or the peer is done.  close() and the drop retire the session.
EndTransport(s) ==
    /\ s \in transports
    /\ transports' = transports \ {s}
    /\ Retire({s})
    /\ UNCHANGED <<creating, handles, leases, requests, starting, initialized, marked, used,
                   server>>

\* Defect: the entry is dropped, and the library keeps the session.
BugCleanup(s) ==
    /\ s \in cleaning
    /\ cleaning' = cleaning \ {s}
    /\ UNCHANGED <<creating, entries, handles, transports, leases, requests, starting,
                   initialized, cancelled, marked, used, server>>

\* The cleanup task: the library forgets the session, the entry is dropped.
Cleanup(s) ==
    /\ s \in cleaning
    /\ cleaning' = cleaning \ {s}
    /\ handles' = handles \ {s}
    /\ UNCHANGED <<creating, entries, transports, leases, requests, starting, initialized,
                   cancelled, marked, used, server>>

-----------------------------------------------------------------------------
(* The reaper and the shutdown.                                            *)

\* What reap_expired may select: a session not initialized within its time,
\* one idle long enough, one that has used up its requests, one cancelled.
Reapable(s) ==
    /\ s \in entries
    /\ s \notin initialized \/ leases[s] = 0 \/ s \in cancelled

\* reap_expired collects ids under the lock ...
ReapSelect ==
    /\ server = "serving" /\ marked = {}
    /\ \E S \in SUBSET {s \in Ids : Reapable(s)} : S # {} /\ marked' = S
    /\ UNCHANGED <<creating, entries, handles, transports, cleaning, leases, requests,
                   starting, initialized, cancelled, used, server>>

\* ... and retires them one by one, without looking again; shutdown() does
\* the same with every id.  That it awaits each cleanup only delays it.
RetireMarked ==
    /\ \E s \in marked : marked' = marked \ {s} /\ Retire({s})
    /\ UNCHANGED <<creating, handles, transports, leases, requests, starting, initialized,
                   used, server>>

\* serve_bound: the signal cancels the token: no new request, no reaper.
ServerSignal ==
    /\ server = "serving"
    /\ server' = "draining"
    /\ UNCHANGED <<creating, entries, handles, transports, cleaning, leases, requests,
                   starting, initialized, cancelled, marked, used>>

\* Every connection task is joined before sessions.shutdown() collects the
\* ids, so that no session is created behind its back.
ShutdownSelect ==
    /\ server = "draining"
    /\ creating = {} /\ starting = {} /\ \A s \in Ids : leases[s] = 0
    /\ server' = "closing"
    /\ marked' = marked \cup entries
    /\ UNCHANGED <<creating, entries, handles, transports, cleaning, leases, requests,
                   starting, initialized, cancelled, used>>

\* shutdown() has awaited every cleanup it spawned, and the reaper is joined.
ServerStopped ==
    /\ server = "closing" /\ marked = {} /\ cleaning = {}
    /\ server' = "stopped"
    /\ UNCHANGED <<creating, entries, handles, transports, cleaning, leases, requests,
                   starting, initialized, cancelled, marked, used>>

-----------------------------------------------------------------------------
\* What goes on by itself: deadlines end every request and stream, a
\* cancelled token ends the service task, tasks run, the reaper ticks.
SessionsProgress ==
    \/ \E s \in Ids : \/ CreateFails(s) \/ Enter(s) \/ Initialize(s) \/ InitializeFails(s)
                      \/ EndLease(s) \/ Cleanup(s)
                      \/ (s \in cancelled /\ EndTransport(s))
    \/ ReapSelect \/ RetireMarked \/ ShutdownSelect \/ ServerStopped
\* What clients and operators do when they like.
SessionsArrivals ==
    \/ \E s \in Ids : \/ TakePermit(s) \/ StartInitialize(s) \/ Lease(s)
                      \/ CloseSession(s) \/ (s \notin cancelled /\ EndTransport(s))
    \/ ServerSignal
SessionsNext == SessionsProgress \/ SessionsArrivals
SessionsFairness == WF_sessionVars(SessionsProgress)

SessionsSpec == SessionsInit /\ [][SessionsNext]_sessionVars
SessionsFairSpec == SessionsSpec /\ SessionsFairness

-----------------------------------------------------------------------------
\* The two session tables agree: every session the library keeps (with its
\* channels and its event cache) is either listed or being cleaned up, so at
\* most max_http_sessions of them exist, whatever mixture of closing,
\* failing, expiring and dropped requests retires them; and a stopped server
\* has none left.
TablesAgree ==
    /\ handles = entries \cup cleaning
    /\ Cardinality(handles) <= MaxSessions
    /\ server = "stopped" => handles = {}

\* Every permit comes back: a session ends by its own end, by its client's
\* or by the reaper, and then nothing keeps its Entry alive.
EveryPermitReturns == []<>(Permits = {})
=============================================================================
