---------------------------- MODULE LintSession -----------------------------
(***************************************************************************)
(* The admission coordinator of one root lint command and the clients that *)
(* ask it for leases: packages/oxlint-config/src/lint-session.ts.          *)
(*                                                                         *)
(* The coordinator is one event loop: every action is one callback of it,  *)
(* run to the end, or one step of a client process or of the operating     *)
(* system.  A client is one call of acquireLintLease, that is one socket   *)
(* connection.  Time passes in units of the coordinator's timer period;    *)
(* the pressure observed by admit() may be anything in the sets Usages,    *)
(* Headrooms and 1 .. Parallelism, anew at each call.                      *)
(***************************************************************************)
EXTENDS Integers, Sequences, FiniteSets, Reservations

CONSTANTS
    Clients,        \* the connections made during the session
    Rude,           \* those whose peer may send a second frame
    MaxMiB,         \* budget.maxMiB
    Parallelism,    \* budget.snapshot.parallelism
    BaseUsage,      \* options.usage() when the session starts
    Memories,       \* the reservations that clients ask for, in MiB
    ThreadCounts,   \* the threads that clients ask for
    Usages,         \* what options.usage() may return later
    Headrooms,      \* what the memory probe may leave, in MiB
    Timeout,        \* timer periods in the admission timeout
    Extends         \* TRUE iff options.timeoutMs is undefined

ASSUME ClientsAssumption == IsFiniteSet(Clients) /\ Rude \subseteq Clients
ASSUME BudgetAssumption ==
    MaxMiB \in Nat /\ Parallelism \in Nat /\ BaseUsage \in Nat
ASSUME DemandAssumption == Memories \subseteq Nat /\ ThreadCounts \subseteq Nat
ASSUME PressureAssumption == Usages \subseteq Nat /\ Headrooms \subseteq Nat
ASSUME TimeAssumption == Timeout \in Nat \ {0} /\ Extends \in BOOLEAN

VARIABLES
    request,    \* what each client asks for, and whether its token is right
    client,     \* where each client's call of acquireLintLease stands
    link,       \* the coordinator's end of each socket
    unread,     \* clients with a frame the coordinator has not read
    received,   \* the handlers' received flags
    outbound,   \* the reply on its way to each client
    queue,      \* the requests that wait, in order of arrival
    wait,       \* timer periods left before each queued deadline
    active,     \* the sockets that hold a lease
    acquired, released,     \* the counters in metrics()
    closing                 \* set by close()

clientVars == <<client, request>>
serverVars == <<link, outbound, queue, wait, active, acquired>>
vars == <<request, client, link, unread, received, outbound, queue, wait,
          active, acquired, released, closing>>

Replies == {"granted", "timeout", "unobservable", "oversize", "credential"}
ClientStates == {"idle", "waiting", "holding",
                 "failed", "released", "disconnected", "crashed"}

Queued == {queue[i] : i \in 1 .. Len(queue)}
memory == [c \in Clients |-> request[c].memory]
threads == [c \in Clients |-> request[c].threads]

\* The client's end of the socket is closed.
Gone(c) == client[c] \in {"failed", "released", "disconnected", "crashed"}

\* The members of the coordinator's socket set.
Connected(c) == link[c] \in {"open", "ended", "destroyed"}

-----------------------------------------------------------------------------
Init ==
    /\ request \in [Clients -> [memory : Memories, threads : ThreadCounts,
                                valid : BOOLEAN]]
    /\ client = [c \in Clients |-> "idle"]
    /\ link = [c \in Clients |-> "none"]
    /\ unread = {}
    /\ received = {}
    /\ outbound = [c \in Clients |-> "none"]
    /\ queue = <<>>
    /\ wait = [c \in Clients |-> 0]
    /\ active = {}
    /\ acquired = 0
    /\ released = 0
    /\ closing = FALSE

-----------------------------------------------------------------------------
(* What admit() writes to sockets.  A destroyed socket drops the data. *)

Sent(l, out, c, m) == IF l[c] = "open" THEN [out EXCEPT ![c] = m] ELSE out
Ended(l, c) == IF l[c] = "open" THEN [l EXCEPT ![c] = "ended"] ELSE l

\* The queue without its i-th request: queue.splice(i, 1).
Splice(q, i) == SubSeq(q, 1, i - 1) \o SubSeq(q, i + 1, Len(q))

\* The queue after the socket of c has closed.
Without(q, c) ==
    IF \E i \in 1 .. Len(q) : q[i] = c
    THEN Splice(q, CHOOSE i \in 1 .. Len(q) : q[i] = c)
    ELSE q

\* A request that the budget could ever grant.
Admissible(r) ==
    /\ r.memory >= 1 /\ r.threads >= 1
    /\ r.memory + BaseUsage <= MaxMiB
    /\ r.threads <= Parallelism

\* Faulty variant: trusts the observed usage, without what leases have yet to use.
FaultyFits(c, a, usage, headroom, cpus) ==
    /\ usage + memory[c] <= MaxMiB
    /\ memory[c] <= headroom
    /\ Total(threads, a) + threads[c] <= Smaller(cpus, Parallelism)

\* The lease for c fits beside the leases in a, under the observed pressure.
Fits(c, a, usage, headroom, cpus) ==
    LET held == Total(memory, a)
        unrealized == Larger(0, held - Larger(0, usage - BaseUsage))
    IN  /\ Larger(usage, BaseUsage + held) + memory[c] <= MaxMiB
        /\ memory[c] + unrealized <= headroom
        /\ Total(threads, a) + threads[c] <= Smaller(cpus, Parallelism)

\* Faulty variant: the deadline never moves.
FaultyExtended(q, a, left) == left

\* The head's deadline moves while leases are active.
Extended(q, a, left) ==
    IF a # {} /\ Extends THEN [left EXCEPT ![Head(q)] = Timeout] ELSE left

(***************************************************************************)
(* admit(), called at the end of a handler that leaves the queue q, the    *)
(* leases a, the deadlines left, the sockets l and the replies out.        *)
(***************************************************************************)
AdmitNothing(q, a, left, l, out) ==
    /\ closing \/ q = <<>>
    /\ queue' = q /\ active' = a /\ wait' = left
    /\ link' = l /\ outbound' = out
    /\ UNCHANGED acquired

\* Faulty variant: a failed probe resets the leases together with the queue.
FaultyAdmitUnobservable(q, a, left, l, out) ==
    /\ ~closing /\ q # <<>>
    /\ queue' = <<>> /\ active' = {}
    /\ wait' = [c \in Clients |-> 0]
    /\ link' = l /\ outbound' = out
    /\ UNCHANGED acquired

AdmitUnobservable(q, a, left, l, out) ==
    LET dropped == {q[i] : i \in 1 .. Len(q)}
    IN  /\ ~closing /\ q # <<>>
        /\ queue' = <<>> /\ active' = a
        /\ wait' = [c \in Clients |-> IF c \in dropped THEN 0 ELSE left[c]]
        /\ link' = [c \in Clients |-> IF c \in dropped THEN Ended(l, c)[c]
                                                       ELSE l[c]]
        /\ outbound' = [c \in Clients |-> IF c \in dropped
                           THEN Sent(l, out, c, "unobservable")[c] ELSE out[c]]
        /\ UNCHANGED acquired

AdmitExpired(q, a, left, l, out) ==
    /\ ~closing /\ q # <<>>
    /\ Extended(q, a, left)[Head(q)] = 0
    /\ queue' = Tail(q) /\ active' = a /\ wait' = left
    /\ link' = Ended(l, Head(q))
    /\ outbound' = Sent(l, out, Head(q), "timeout")
    /\ UNCHANGED acquired

GrantsHead(q, a, left, l, out) ==
    /\ q # <<>> /\ Extended(q, a, left)[Head(q)] > 0
    /\ \E usage \in Usages, headroom \in Headrooms, cpus \in 1 .. Parallelism :
           Fits(Head(q), a, usage, headroom, cpus)
    /\ queue' = Tail(q) /\ active' = a \cup {Head(q)}
    /\ wait' = [left EXCEPT ![Head(q)] = 0]
    /\ link' = l
    /\ outbound' = Sent(l, out, Head(q), "granted")
    /\ acquired' = acquired + 1

\* Faulty variants: admit() goes on after close(), or looks past the head.
LateAdmitGranted(q, a, left, l, out) == GrantsHead(q, a, left, l, out)
OvertakingAdmitGranted(q, a, left, l, out) ==
    \E i \in 1 .. Len(q) :
        ~closing /\ GrantsHead(<<q[i]>> \o Splice(q, i), a, left, l, out)

AdmitGranted(q, a, left, l, out) == ~closing /\ GrantsHead(q, a, left, l, out)

AdmitHeld(q, a, left, l, out) ==
    /\ ~closing /\ q # <<>>
    /\ Extended(q, a, left)[Head(q)] > 0
    /\ \E usage \in Usages, headroom \in Headrooms, cpus \in 1 .. Parallelism :
           ~Fits(Head(q), a, usage, headroom, cpus)
    /\ queue' = q /\ active' = a /\ wait' = Extended(q, a, left)
    /\ link' = l /\ outbound' = out
    /\ UNCHANGED acquired

Admit(q, a, left, l, out) ==
    \/ AdmitNothing(q, a, left, l, out)
    \/ AdmitUnobservable(q, a, left, l, out)
    \/ AdmitExpired(q, a, left, l, out)
    \/ AdmitGranted(q, a, left, l, out)
    \/ AdmitHeld(q, a, left, l, out)

-----------------------------------------------------------------------------
(* The callbacks of the coordinator. *)

\* The first frame of c: refused, or queued and then considered.
ReceiveRefused(c, m) ==
    /\ link[c] = "open" /\ c \in unread /\ c \notin received
    /\ unread' = unread \ {c} /\ received' = received \cup {c}
    /\ link' = Ended(link, c) /\ outbound' = Sent(link, outbound, c, m)
    /\ UNCHANGED <<clientVars, queue, wait, active, acquired, released, closing>>

ReceiveBadCredential(c) ==
    ~request[c].valid /\ ReceiveRefused(c, "credential")

ReceiveOversize(c) ==
    /\ request[c].valid /\ ~Admissible(request[c])
    /\ ReceiveRefused(c, "oversize")

ReceiveRequest(c) ==
    /\ link[c] = "open" /\ c \in unread /\ c \notin received
    /\ request[c].valid /\ Admissible(request[c])
    /\ unread' = unread \ {c} /\ received' = received \cup {c}
    /\ Admit(Append(queue, c), active, [wait EXCEPT ![c] = Timeout], link, outbound)
    /\ UNCHANGED <<clientVars, released, closing>>

\* A second frame: the socket, of which l is left, stops being read.
Repeats(c, l) ==
    /\ link[c] \in {"open", "ended"} /\ c \in unread /\ c \in received
    /\ unread' = unread \ {c}
    /\ link' = [link EXCEPT ![c] = l]
    /\ UNCHANGED <<clientVars, received, outbound, queue, wait, active,
                   acquired, released, closing>>

\* Faulty variant: the socket is forgotten at once, with what it holds.
ForgetfulReceiveRepeated(c) == Repeats(c, "closed")

\* The coordinator destroys it; its close event is to come.
ReceiveRepeated(c) == Repeats(c, "destroyed")

\* The close event of a socket: n leases are counted as released, a stay out.
Closes(c, a, n) ==
    /\ link[c] = "destroyed" \/ (Connected(c) /\ Gone(c))
    /\ unread' = unread \ {c}
    /\ released' = released + n
    /\ Admit(Without(queue, c), a, [wait EXCEPT ![c] = 0],
             [link EXCEPT ![c] = "closed"], outbound)
    /\ UNCHANGED <<clientVars, received, closing>>

\* Faulty variants: every close counts as a release, or none returns its lease.
MiscountingSocketClosed(c) == Closes(c, active \ {c}, 1)
LeakingSocketClosed(c) == Closes(c, active, 0)

\* Its lease or its place in the queue is freed.
SocketClosed(c) == Closes(c, active \ {c}, IF c \in active THEN 1 ELSE 0)

Elapses(left) ==
    /\ ~closing
    /\ Admit(queue, active, left, link, outbound)
    /\ UNCHANGED <<clientVars, unread, received, released, closing>>

\* Faulty variant: only leases are watched.
LazyTimer == active # {} /\ Elapses([c \in Clients |-> Larger(0, wait[c] - 1)])

\* The interval timer, one period after its last firing.
Timer == Elapses([c \in Clients |-> Larger(0, wait[c] - 1)])

Closing(l) ==
    /\ ~closing /\ closing' = TRUE /\ link' = l
    /\ UNCHANGED <<clientVars, unread, received, outbound, queue, wait, active,
                   acquired, released>>

\* Faulty variant: close() leaves the sockets to the clients.
PatientClose == Closing(link)

\* close(): the root command is over.
Close ==
    Closing([c \in Clients |-> IF Connected(c) THEN "destroyed" ELSE link[c]])

-----------------------------------------------------------------------------
(* The callers of acquireLintLease. *)

\* The socket connects and the request frame is written.
Connect(c) ==
    /\ client[c] = "idle" /\ ~closing
    /\ client' = [client EXCEPT ![c] = "waiting"]
    /\ link' = [link EXCEPT ![c] = "open"]
    /\ unread' = unread \cup {c}
    /\ UNCHANGED <<request, received, outbound, queue, wait, active, acquired,
                   released, closing>>

\* No connection: the signal was aborted before the call, or nobody listens.
ConnectFails(c) ==
    /\ client[c] = "idle"
    /\ client' = [client EXCEPT ![c] = "failed"]
    /\ UNCHANGED <<request, serverVars, unread, received, released, closing>>

\* The client reads a reply or sees its socket closed.
ClientBecomes(c, s) ==
    /\ client' = [client EXCEPT ![c] = s]
    /\ outbound' = [outbound EXCEPT ![c] = "none"]
    /\ UNCHANGED <<request, link, unread, received, queue, wait, active,
                   acquired, released, closing>>

ClientGranted(c) ==
    client[c] = "waiting" /\ outbound[c] = "granted" /\ ClientBecomes(c, "holding")

ClientRefused(c) ==
    /\ client[c] = "waiting" /\ outbound[c] \in Replies \ {"granted"}
    /\ ClientBecomes(c, "failed")

\* The client's close event: the coordinator destroyed its end.
ClientLosesCoordinator(c) ==
    /\ link[c] \in {"destroyed", "closed"}
    /\ \/ client[c] = "waiting" /\ ClientBecomes(c, "failed")
       \/ client[c] = "holding" /\ ClientBecomes(c, "disconnected")

\* The caller's signal aborts a request that has not seen its grant.
ClientAborts(c) == client[c] = "waiting" /\ ClientBecomes(c, "failed")

\* The client's process dies with the socket open.
ClientCrashes(c) ==
    client[c] \in {"waiting", "holding"} /\ ClientBecomes(c, "crashed")

ClientReleases(c) ==
    /\ client[c] = "holding"
    /\ client' = [client EXCEPT ![c] = "released"]
    /\ UNCHANGED <<request, serverVars, unread, received, released, closing>>

\* A peer other than acquireLintLease writes a second frame.
Resend(c) ==
    /\ c \in Rude /\ c \notin unread /\ c \in received
    /\ client[c] \in {"waiting", "holding"} /\ link[c] \in {"open", "ended"}
    /\ unread' = unread \cup {c}
    /\ UNCHANGED <<clientVars, serverVars, received, released, closing>>

-----------------------------------------------------------------------------
\* The session is closed and nobody is left to hear of it.
Terminated ==
    /\ closing
    /\ \A c \in Clients : ~Connected(c) /\ Gone(c)
    /\ UNCHANGED vars

Receive(c) ==
    \/ ReceiveBadCredential(c) \/ ReceiveOversize(c)
    \/ ReceiveRequest(c) \/ ReceiveRepeated(c)

Coordinator == Timer \/ Close \/ \E c \in Clients : Receive(c) \/ SocketClosed(c)

Caller(c) ==
    \/ Connect(c) \/ ConnectFails(c)
    \/ ClientGranted(c) \/ ClientRefused(c) \/ ClientLosesCoordinator(c)
    \/ ClientAborts(c) \/ ClientReleases(c) \/ ClientCrashes(c) \/ Resend(c)

Next == Coordinator \/ (\E c \in Clients : Caller(c)) \/ Terminated

Spec == Init /\ [][Next]_vars

(***************************************************************************)
(* Events that are pending are delivered, the interval timer keeps firing, *)
(* and a command that holds a lease ends.  A firing beside active leases   *)
(* may find everything as it left it, so it is no source of progress; one  *)
(* without them moves a deadline at least.  Nothing forces a client to     *)
(* connect, to abort or to crash, or the root command to close.            *)
(***************************************************************************)
Fairness ==
    /\ WF_vars(active = {} /\ Timer)
    /\ \A c \in Clients :
        /\ WF_vars(Receive(c))
        /\ WF_vars(SocketClosed(c))
        /\ WF_vars(ClientGranted(c))
        /\ WF_vars(ClientRefused(c))
        /\ WF_vars(ClientLosesCoordinator(c))
        /\ WF_vars(ClientReleases(c))

FairSpec == Spec /\ Fairness

-----------------------------------------------------------------------------
(* What the coordinator promises. *)

TypeOK ==
    /\ request \in [Clients -> [memory : Memories, threads : ThreadCounts,
                                valid : BOOLEAN]]
    /\ client \in [Clients -> ClientStates]
    /\ link \in [Clients -> {"none", "open", "ended", "destroyed", "closed"}]
    /\ unread \subseteq Clients /\ received \subseteq Clients
    /\ outbound \in [Clients -> Replies \cup {"none"}]
    /\ queue \in Seq(Clients)
    /\ wait \in [Clients -> 0 .. Timeout]
    /\ active \subseteq Clients
    /\ acquired \in Nat /\ released \in Nat
    /\ closing \in BOOLEAN

\* Safety (admit, lines 94-99): the leases given out together never exceed
\* the root command's memory beside what was in use when the session began,
\* nor its threads, whatever usage and headroom admit() observed each time.
BudgetRespected ==
    active # {} => /\ BaseUsage + Total(memory, active) <= MaxMiB
                   /\ Total(threads, active) <= Parallelism

\* Safety (lines 97-100, 116, 236-251): a command that believes it holds a
\* lease is counted by the coordinator until the session closes, so the
\* budget covers all commands that run.  Only a peer that breaks the protocol
\* by a second frame may lose its lease while it still runs.
HoldersCovered ==
    ~closing => \A c \in Clients \ Rude : client[c] = "holding" => c \in active

\* Safety (lines 114-124): a lease and a place in the queue belong to a socket
\* whose close event is still to come, to no socket twice and never both to
\* one, so that everything the coordinator holds is given back in the end.
HeldBySockets ==
    /\ \A c \in active \cup Queued : Connected(c) /\ c \in received
    /\ active \cap Queued = {}
    /\ \A i, j \in 1 .. Len(queue) : queue[i] = queue[j] => i = j

\* Safety (metrics, lines 62-63 and 99, 116): the profile's counters differ
\* by exactly the leases that are out.
CountersAgree == acquired - released = Cardinality(active)

\* Action property (line 69): after close() no lease is given, although
\* requests are still queued and close events keep calling admit().
NoGrantAfterClose == [][closing => active' \subseteq active]_vars

\* c has just been told that its wait is over.
TimedOut(c) == outbound[c] # "timeout" /\ outbound'[c] = "timeout"

\* Action property (lines 81-88; docs/lint-execution.md:79): with the default
\* timeout no request is timed out while a lease is active.
NoTimeoutBehindWork ==
    [][Extends => \A c \in Clients : TimedOut(c) => active' = {}]_vars

\* Liveness (lines 68-107, 175): every request is answered, be it with a
\* lease or an error: the queue is not an endless one.
Answered == \A c \in Clients : client[c] = "waiting" ~> client[c] # "waiting"

\* Liveness (lines 114-118): the lease of a client that crashed, aborted or
\* released is given back without its cooperation, in an order of grant, close
\* and crash events nobody chose.
Reclaimed ==
    \A c \in Clients : c \in active /\ Gone(c) ~> c \notin active

\* Liveness (lines 183-191): after close() every socket is closed and every
\* lease given back, so the promise close() returns is resolved.
CloseCompletes ==
    closing ~> (active = {} /\ queue = <<>> /\ \A c \in Clients : ~Connected(c))

\* Refinement: without its sockets, replies and clocks the coordinator is an
\* AdmissionQueue: no request overtakes another one (queue[0], line 77), a
\* handler that frees a lease admits at most from the head, and the leases
\* that are out always fit the budget when one is added to them.
Admission == INSTANCE AdmissionQueue WITH
    Workers <- Clients, waiting <- queue, holders <- active

AdmitsInOrder == Admission!Spec
=============================================================================
