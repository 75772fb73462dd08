------------------------- MODULE LintSessionProofs --------------------------
(***************************************************************************)
(* The admission coordinator, for every number of clients, every budget    *)
(* and every timeout: first its types and its budget, then what it holds,  *)
(* and for whom.                                                           *)
(*                                                                         *)
(* SocketInv relates the coordinator's books to its sockets and to what    *)
(* the clients believe.  AdmitSteps says once what a call of admit() may   *)
(* do to them, whatever handler makes it.                                  *)
(***************************************************************************)
EXTENDS LintSession, ReservationTheorems

\* The types of what admit() reads and writes, of the values it starts from.
AdmitTypes(q, a, left, l, out) ==
    /\ q \in Seq(Clients) /\ a \subseteq Clients
    /\ left \in [Clients -> 0 .. Timeout]
    /\ l \in [Clients -> {"none", "open", "ended", "destroyed", "closed"}]
    /\ out \in [Clients -> Replies \cup {"none"}]

\* The queue after a close event: the closed socket's request is gone, the
\* others keep their order.
LEMMA WithoutMembers ==
    ASSUME NEW q \in Seq(Clients), NEW c
    PROVE  Without(q, c) \in Seq(Clients)
<1>1. CASE \E i \in 1 .. Len(q) : q[i] = c
  <2>1. PICK i \in 1 .. Len(q) : Without(q, c) = Omitting(q, i)
    BY <1>1 DEF Without, Splice, Omitting
  <2> QED
    BY <2>1, OmittingMembers
<1>2. CASE ~ \E i \in 1 .. Len(q) : q[i] = c
  BY <1>2 DEF Without
<1> QED
  BY <1>1, <1>2

\* admit() keeps the types, whatever handler calls it.
LEMMA AdmitKeepsTypes ==
    ASSUME NEW q, NEW a, NEW left, NEW l, NEW out,
           AdmitTypes(q, a, left, l, out), acquired \in Nat,
           Admit(q, a, left, l, out)
    PROVE  AdmitTypes(queue', active', wait', link', outbound') /\ acquired' \in Nat
<1> USE DEF AdmitTypes
<1>0. Timeout \in Nat /\ 0 \in 0 .. Timeout /\ Timeout \in 0 .. Timeout
  BY TimeAssumption
<1>1. CASE AdmitNothing(q, a, left, l, out)
  BY <1>1 DEF AdmitNothing
<1>2. CASE AdmitUnobservable(q, a, left, l, out)
  BY <1>0, <1>2 DEF AdmitUnobservable, Ended, Sent, Replies
<1>3. CASE AdmitExpired(q, a, left, l, out)
  BY <1>3, TailMembers DEF AdmitExpired, Ended, Sent, Replies
<1>4. CASE AdmitGranted(q, a, left, l, out)
  BY <1>0, <1>4, TailMembers DEF AdmitGranted, GrantsHead, Sent, Replies
<1>5. CASE AdmitHeld(q, a, left, l, out)
  BY <1>0, <1>5, TailMembers DEF AdmitHeld, Extended
<1> QED
  BY <1>1, <1>2, <1>3, <1>4, <1>5 DEF Admit

-----------------------------------------------------------------------------
\* Every handler keeps the types: those that call admit() by AdmitKeepsTypes,
\* the others by their assignments.
LEMMA NextKeepsTypes == TypeOK /\ [Next]_vars => TypeOK'
<1> SUFFICES ASSUME TypeOK, [Next]_vars PROVE TypeOK'
  OBVIOUS
<1>0. /\ Timeout \in Nat /\ 0 \in 0 .. Timeout /\ Timeout \in 0 .. Timeout
      /\ AdmitTypes(queue, active, wait, link, outbound)
  BY TimeAssumption DEF TypeOK, AdmitTypes
<1>1. ASSUME NEW c \in Clients, Receive(c) PROVE TypeOK'
  <2>1. CASE ReceiveBadCredential(c)
    BY <2>1 DEF TypeOK, ReceiveBadCredential, ReceiveRefused, Ended, Sent,
                Replies, clientVars
  <2>2. CASE ReceiveOversize(c)
    BY <2>2 DEF TypeOK, ReceiveOversize, ReceiveRefused, Ended, Sent,
                Replies, clientVars
  <2>3. CASE ReceiveRequest(c)
    <3>1. AdmitTypes(Append(queue, c), active, [wait EXCEPT ![c] = Timeout],
                     link, outbound)
      BY <1>0 DEF AdmitTypes
    <3>2. acquired \in Nat /\ Admit(Append(queue, c), active,
                     [wait EXCEPT ![c] = Timeout], link, outbound)
      BY <2>3 DEF ReceiveRequest, TypeOK
    <3>3. AdmitTypes(queue', active', wait', link', outbound') /\ acquired' \in Nat
      BY <3>1, <3>2, AdmitKeepsTypes
    <3> QED
      BY <2>3, <3>3 DEF ReceiveRequest, TypeOK, AdmitTypes, clientVars
  <2>4. CASE ReceiveRepeated(c)
    BY <2>4 DEF TypeOK, ReceiveRepeated, Repeats, clientVars
  <2> QED
    BY <1>1, <2>1, <2>2, <2>3, <2>4 DEF Receive
<1>2. ASSUME NEW c \in Clients, SocketClosed(c) PROVE TypeOK'
  <2> DEFINE q == Without(queue, c)
             a == active \ {c}
             left == [wait EXCEPT ![c] = 0]
             l == [link EXCEPT ![c] = "closed"]
  <2>1. AdmitTypes(q, a, left, l, outbound)
    <3>1. q \in Seq(Clients)
      BY WithoutMembers DEF TypeOK
    <3> QED
      BY <1>0, <3>1 DEF AdmitTypes
  <2>2. Admit(q, a, left, l, outbound) /\ acquired \in Nat
    BY <1>2 DEF SocketClosed, Closes, TypeOK
  <2> HIDE DEF q, a, left, l
  <2>3. AdmitTypes(queue', active', wait', link', outbound') /\ acquired' \in Nat
    BY <2>1, <2>2, AdmitKeepsTypes
  <2> QED
    BY <1>2, <2>3 DEF SocketClosed, Closes, TypeOK, AdmitTypes, clientVars
<1>3. CASE Timer
  <2> DEFINE left == [c \in Clients |-> Larger(0, wait[c] - 1)]
  <2>1. AdmitTypes(queue, active, left, link, outbound)
    BY <1>0 DEF AdmitTypes, Larger
  <2>2. Admit(queue, active, left, link, outbound) /\ acquired \in Nat
    BY <1>3 DEF Timer, Elapses, TypeOK
  <2> HIDE DEF left
  <2>3. AdmitTypes(queue', active', wait', link', outbound') /\ acquired' \in Nat
    BY <2>1, <2>2, AdmitKeepsTypes
  <2> QED
    BY <1>3, <2>3 DEF Timer, Elapses, TypeOK, AdmitTypes, clientVars
<1>4. CASE Close
  BY <1>4 DEF Close, Closing, TypeOK, clientVars
<1>5. ASSUME NEW c \in Clients, Caller(c) PROVE TypeOK'
  <2> USE DEF TypeOK, clientVars, serverVars, ClientStates
  <2>1. CASE Connect(c)
    BY <2>1 DEF Connect
  <2>2. CASE ConnectFails(c)
    BY <2>2 DEF ConnectFails
  <2>3. CASE ClientGranted(c)
    BY <2>3 DEF ClientGranted, ClientBecomes
  <2>4. CASE ClientRefused(c)
    BY <2>4 DEF ClientRefused, ClientBecomes
  <2>5. CASE ClientLosesCoordinator(c)
    BY <2>5 DEF ClientLosesCoordinator, ClientBecomes
  <2>6. CASE ClientAborts(c)
    BY <2>6 DEF ClientAborts, ClientBecomes
  <2>7. CASE ClientReleases(c)
    BY <2>7 DEF ClientReleases
  <2>8. CASE ClientCrashes(c)
    BY <2>8 DEF ClientCrashes, ClientBecomes
  <2>9. CASE Resend(c)
    BY <2>9 DEF Resend
  <2> QED
    BY <1>5, <2>1, <2>2, <2>3, <2>4, <2>5, <2>6, <2>7, <2>8, <2>9 DEF Caller
<1>6. CASE Terminated \/ UNCHANGED vars
  BY <1>6 DEF Terminated, vars, TypeOK
<1> QED
  BY <1>1, <1>2, <1>3, <1>4, <1>5, <1>6 DEF Next, Coordinator

\* The coordinator starts without clients and requests.
LEMMA TypeAtStart == Init => TypeOK
<1> SUFFICES ASSUME Init PROVE TypeOK
  OBVIOUS
<1>1. wait \in [Clients -> 0 .. Timeout]
  BY TimeAssumption DEF Init
<1>2. queue \in Seq(Clients) /\ outbound \in [Clients -> Replies \cup {"none"}]
  BY DEF Init
<1> QED
  BY <1>1, <1>2 DEF Init, TypeOK, ClientStates

\* Type correctness of the coordinator and its clients.
THEOREM TypeCorrect == Spec => []TypeOK
BY TypeAtStart, NextKeepsTypes, PTL DEF Spec

-----------------------------------------------------------------------------
(***************************************************************************)
(* The budget.  With the types it is inductive: leases are only added by   *)
(* AdmitGranted, whose Fits adds up everything that is out, and the sum    *)
(* never grows when leases are given back.                                 *)
(***************************************************************************)
WithinBudget(a) ==
    a # {} => /\ BaseUsage + Total(memory, a) <= MaxMiB
              /\ Total(threads, a) <= Parallelism

BudgetInv == TypeOK /\ WithinBudget(active)

\* Leases are finitely many and reserve numbers, which is what the facts about
\* Total ask for.
LEMMA LeasesFinite ==
    ASSUME TypeOK, NEW a, a \subseteq Clients
    PROVE  /\ IsFiniteSet(a)
           /\ \A c \in Clients : memory[c] \in Nat /\ threads[c] \in Nat
           /\ Total(memory, a) \in Nat /\ Total(threads, a) \in Nat
<1>1. IsFiniteSet(a)
  BY ClientsAssumption, FS_Subset
<1>2. ASSUME NEW c \in Clients
      PROVE  memory[c] \in Nat /\ threads[c] \in Nat
  <2>1. request[c] \in [memory : Memories, threads : ThreadCounts, valid : BOOLEAN]
    BY DEF TypeOK
  <2> QED
    BY <2>1, DemandAssumption DEF memory, threads
<1> HIDE DEF memory, threads
<1>3. Total(memory, a) \in Nat /\ Total(threads, a) \in Nat
  BY <1>1, <1>2, TotalType
<1> QED
  BY <1>1, <1>2, <1>3

\* A lease that fits may be added to the leases that are out.
LEMMA FitsKeepsBudget ==
    ASSUME TypeOK, NEW a, a \subseteq Clients, WithinBudget(a), NEW h \in Clients,
           NEW usage \in Usages, NEW headroom \in Headrooms,
           NEW cpus \in 1 .. Parallelism, Fits(h, a, usage, headroom, cpus)
    PROVE  WithinBudget(a \cup {h})
<1>1. CASE h \in a
  <2>1. a \cup {h} = a
    BY <1>1
  <2> QED
    BY <2>1
<1>2. CASE h \notin a
  <2>1. /\ IsFiniteSet(a) /\ Total(memory, a) \in Nat /\ Total(threads, a) \in Nat
        /\ \A c \in a \cup {h} : memory[c] \in Nat
        /\ \A c \in a \cup {h} : threads[c] \in Nat
    BY LeasesFinite
  <2>2. Total(memory, a \cup {h}) = Total(memory, a) + memory[h]
    BY <1>2, <2>1, TotalAdd
  <2>3. Total(threads, a \cup {h}) = Total(threads, a) + threads[h]
    BY <1>2, <2>1, TotalAdd
  <2>4. /\ Larger(usage, BaseUsage + Total(memory, a)) + memory[h] <= MaxMiB
        /\ Total(threads, a) + threads[h] <= Smaller(cpus, Parallelism)
    BY DEF Fits
  <2>5. usage \in Nat /\ cpus \in Nat /\ memory[h] \in Nat /\ threads[h] \in Nat
    BY <2>1, PressureAssumption, BudgetAssumption
  <2>6. BaseUsage + (Total(memory, a) + memory[h]) <= MaxMiB
    BY <2>1, <2>4, <2>5, BudgetAssumption DEF Larger
  <2>7. Total(threads, a) + threads[h] <= Parallelism
    BY <2>1, <2>4, <2>5, BudgetAssumption DEF Smaller
  <2> QED
    BY <2>2, <2>3, <2>6, <2>7 DEF WithinBudget
<1> QED
  BY <1>1, <1>2

\* Leases that are given back leave the others within the budget.
LEMMA FewerKeepBudget ==
    ASSUME TypeOK, NEW a, a \subseteq Clients, WithinBudget(a), NEW b, b \subseteq a
    PROVE  WithinBudget(b)
<1>1. /\ IsFiniteSet(a)
      /\ \A c \in a : memory[c] \in Nat /\ threads[c] \in Nat
      /\ Total(memory, a) \in Nat /\ Total(threads, a) \in Nat
      /\ Total(memory, b) \in Nat /\ Total(threads, b) \in Nat
  BY LeasesFinite
<1>2. Total(memory, b) <= Total(memory, a) /\ Total(threads, b) <= Total(threads, a)
  BY <1>1, TotalSubset
<1> QED
  BY <1>1, <1>2, BudgetAssumption DEF WithinBudget

\* A handler that calls admit() with leases within the budget leaves leases
\* within the budget, whatever pressure admit() observes.
LEMMA AdmitKeepsBudget ==
    ASSUME TypeOK, NEW q, NEW a, NEW left, NEW l, NEW out,
           AdmitTypes(q, a, left, l, out), WithinBudget(a),
           Admit(q, a, left, l, out), request' = request
    PROVE  WithinBudget(active)'
<1>1. memory' = memory /\ threads' = threads
  BY DEF memory, threads
<1>2. a \subseteq Clients /\ q \in Seq(Clients)
  BY DEF AdmitTypes
<1>3. CASE active' = a
  BY <1>1, <1>3 DEF WithinBudget
<1>4. CASE AdmitGranted(q, a, left, l, out)
  <2>1. q # <<>> /\ active' = a \cup {Head(q)}
    BY <1>4 DEF AdmitGranted, GrantsHead
  <2>2. PICK usage \in Usages, headroom \in Headrooms, cpus \in 1 .. Parallelism :
             Fits(Head(q), a, usage, headroom, cpus)
    BY <1>4 DEF AdmitGranted, GrantsHead
  <2>3. Head(q) \in Clients
    BY <1>2, <2>1, TailMembers
  <2>4. WithinBudget(a \cup {Head(q)})
    BY <1>2, <2>2, <2>3, FitsKeepsBudget
  <2> QED
    BY <1>1, <2>1, <2>4 DEF WithinBudget
<1>5. active' = a \/ AdmitGranted(q, a, left, l, out)
  BY DEF Admit, AdmitNothing, AdmitUnobservable, AdmitExpired, AdmitHeld
<1> QED
  BY <1>3, <1>4, <1>5

\* A handler that leaves the leases alone leaves the budget alone.
LEMMA QuietKeepsBudget ==
    ASSUME WithinBudget(active), UNCHANGED <<request, active>>
    PROVE  WithinBudget(active)'
BY DEF WithinBudget, memory, threads

\* Every step keeps the budget: those of admit() by AdmitKeepsBudget, the others
\* because they touch no lease.
LEMMA NextKeepsBudget == BudgetInv /\ [Next]_vars => WithinBudget(active)'
<1> SUFFICES ASSUME BudgetInv, [Next]_vars PROVE WithinBudget(active)'
  OBVIOUS
<1> USE DEF BudgetInv
<1>0. AdmitTypes(queue, active, wait, link, outbound) /\ Timeout \in 0 .. Timeout
  BY TimeAssumption DEF TypeOK, AdmitTypes
<1>1. ASSUME NEW c \in Clients, Receive(c) PROVE WithinBudget(active)'
  <2>1. CASE ReceiveRequest(c)
    <3> DEFINE q == Append(queue, c)
               left == [wait EXCEPT ![c] = Timeout]
    <3>1. AdmitTypes(q, active, left, link, outbound)
      BY <1>0 DEF AdmitTypes
    <3>2. Admit(q, active, left, link, outbound) /\ request' = request
      BY <2>1 DEF ReceiveRequest, clientVars
    <3> HIDE DEF q, left
    <3> QED
      BY <3>1, <3>2, AdmitKeepsBudget
  <2>2. CASE ReceiveBadCredential(c) \/ ReceiveOversize(c) \/ ReceiveRepeated(c)
    BY <2>2, QuietKeepsBudget DEF ReceiveBadCredential, ReceiveOversize,
       ReceiveRefused, ReceiveRepeated, Repeats, clientVars
  <2> QED
    BY <1>1, <2>1, <2>2 DEF Receive
<1>2. ASSUME NEW c \in Clients, SocketClosed(c) PROVE WithinBudget(active)'
  <2> DEFINE q == Without(queue, c)
             a == active \ {c}
             left == [wait EXCEPT ![c] = 0]
             l == [link EXCEPT ![c] = "closed"]
  <2>1. q \in Seq(Clients)
    BY WithoutMembers DEF TypeOK
  <2>2. AdmitTypes(q, a, left, l, outbound)
    BY <1>0, <2>1 DEF AdmitTypes
  <2>3. WithinBudget(a)
    BY FewerKeepBudget DEF TypeOK
  <2>4. Admit(q, a, left, l, outbound) /\ request' = request
    BY <1>2 DEF SocketClosed, Closes, clientVars
  <2> HIDE DEF q, a, left, l
  <2> QED
    BY <2>2, <2>3, <2>4, AdmitKeepsBudget
<1>3. CASE Timer
  <2> DEFINE left == [c \in Clients |-> Larger(0, wait[c] - 1)]
  <2>1. AdmitTypes(queue, active, left, link, outbound)
    BY <1>0, TimeAssumption DEF AdmitTypes, Larger
  <2>2. Admit(queue, active, left, link, outbound) /\ request' = request
    BY <1>3 DEF Timer, Elapses, clientVars
  <2> HIDE DEF left
  <2> QED
    BY <2>1, <2>2, AdmitKeepsBudget
<1>4. CASE Close
  BY <1>4, QuietKeepsBudget DEF Close, Closing, clientVars
<1>5. ASSUME NEW c \in Clients, Caller(c) PROVE WithinBudget(active)'
  <2>1. UNCHANGED <<request, active>>
    BY <1>5 DEF Caller, Connect, ConnectFails, ClientGranted, ClientRefused,
       ClientLosesCoordinator, ClientAborts, ClientReleases, ClientCrashes,
       ClientBecomes, Resend, clientVars, serverVars
  <2> QED
    BY <2>1, QuietKeepsBudget
<1>6. CASE Terminated \/ UNCHANGED vars
  BY <1>6, QuietKeepsBudget DEF Terminated, vars
<1> QED
  BY <1>1, <1>2, <1>3, <1>4, <1>5, <1>6 DEF Next, Coordinator

\* The leases that are out never exceed the root command's memory and threads,
\* for every number of clients, every budget and every sequence of pressure
\* observations (lint-session.ts:68-107).
THEOREM BudgetSafe == Spec => []BudgetRespected
<1>1. Init => WithinBudget(active)
  BY DEF Init, WithinBudget
<1>2. BudgetInv => BudgetRespected
  BY DEF BudgetInv, WithinBudget, BudgetRespected
<1>3. BudgetInv /\ [Next]_vars => WithinBudget(active)'
  BY NextKeepsBudget
<1>4. TypeOK /\ WithinBudget(active) <=> BudgetInv
  BY DEF BudgetInv
<1> QED
  BY <1>1, <1>2, <1>3, <1>4, TypeCorrect, PTL DEF Spec

-----------------------------------------------------------------------------
(* What is held, and for whom. *)

\* The line q and the leases a are those of different sockets.
Apart(q, a) == Distinct(q) /\ a \cap Members(q) = {}

\* What is held or queued belongs to a socket whose close event is still to come.
HeldOpen == \A c \in active \cup Members(queue) : Connected(c) /\ c \in received
\* Nobody has heard of a client that has not connected, and only a rude one can have
\* a second frame on the wire.
Fresh == \A c \in Clients :
    /\ client[c] = "idle" =>
           link[c] = "none" /\ outbound[c] = "none" /\ c \notin received /\ c \notin unread
    /\ c \in unread \cap received => c \in Rude
\* The client c has its grant, or will read it.
Believes(c) == client[c] = "holding" \/ (client[c] = "waiting" /\ outbound[c] = "granted")
Covered == ~closing =>
    \A c \in Clients \ Rude : link[c] # "destroyed" /\ (Believes(c) => c \in active)

SocketInv ==
    TypeOK /\ Apart(queue, active) /\ HeldOpen /\ CountersAgree /\ Fresh /\ Covered

-----------------------------------------------------------------------------
\* The line that a closed socket has left.
LEMMA WithoutApart ==
    ASSUME NEW q \in Seq(Clients), Distinct(q), NEW c
    PROVE  Distinct(Without(q, c)) /\ Members(Without(q, c)) = Members(q) \ {c}
<1>1. CASE \E i \in 1 .. Len(q) : q[i] = c
  <2>1. PICK i \in 1 .. Len(q) : q[i] = c /\ Without(q, c) = Omitting(q, i)
    BY <1>1 DEF Without, Splice, Omitting
  <2> QED
    BY <2>1, OmittingApart
<1>2. CASE ~ \E i \in 1 .. Len(q) : q[i] = c
  BY <1>2 DEF Without, Members
<1> QED
  BY <1>1, <1>2

\* What admit() does to the books, the sockets and the replies, whatever
\* handler calls it.
AdmitEffect(q, a, l, out) ==
    /\ Apart(queue', active') /\ Members(queue') \subseteq Members(q)
    /\ \/ active' = a /\ acquired' = acquired
       \/ \E h \in Members(q) \ a :
              ~closing /\ active' = a \cup {h} /\ acquired' = acquired + 1
    /\ \A c \in Clients :
        /\ link'[c] = l[c] \/ (l[c] = "open" /\ link'[c] = "ended")
        /\ outbound'[c] = out[c] \/ l[c] = "open"
        /\ outbound'[c] = "granted" => out[c] = "granted" \/ c \in active'
        /\ outbound'[c] = "timeout" => out[c] = "timeout" \/ (Extends => active' = {})

LEMMA AdmitSteps ==
    ASSUME NEW q, NEW a, NEW left, NEW l, NEW out,
           AdmitTypes(q, a, left, l, out), Apart(q, a),
           Admit(q, a, left, l, out)
    PROVE  AdmitEffect(q, a, l, out)
<1> USE DEF AdmitTypes, AdmitEffect
<1>1. CASE AdmitNothing(q, a, left, l, out)
  BY <1>1 DEF AdmitNothing
<1>2. CASE AdmitUnobservable(q, a, left, l, out)
  <2>1. Members(<<>>) = {} /\ Distinct(<<>>)
    BY DEF Members, Distinct
  <2> QED
    BY <1>2, <2>1 DEF AdmitUnobservable, Ended, Sent, Apart
<1>3. CASE AdmitExpired(q, a, left, l, out)
  <2>1. /\ q # <<>> /\ queue' = Tail(q) /\ active' = a /\ acquired' = acquired
        /\ link' = Ended(l, Head(q)) /\ outbound' = Sent(l, out, Head(q), "timeout")
        /\ Extended(q, a, left)[Head(q)] = 0
    BY <1>3 DEF AdmitExpired
  <2>2. Head(q) \in Clients
    BY <2>1, TailMembers
  <2>3. Extends => a = {}
    BY <2>1, <2>2, TimeAssumption DEF Extended
  <2>4. Apart(queue', active') /\ Members(queue') \subseteq Members(q)
    BY <2>1, TailApart DEF Apart
  <2> QED
    BY <2>1, <2>2, <2>3, <2>4 DEF Ended, Sent
<1>4. CASE AdmitGranted(q, a, left, l, out)
  <2>1. /\ ~closing /\ q # <<>> /\ queue' = Tail(q) /\ active' = a \cup {Head(q)}
        /\ acquired' = acquired + 1 /\ link' = l
        /\ outbound' = Sent(l, out, Head(q), "granted")
    BY <1>4 DEF AdmitGranted, GrantsHead
  <2>2. Head(q) \in Members(q) \ a /\ Head(q) \in Clients
    BY <2>1, TailApart, TailMembers DEF Apart
  <2>3. Apart(queue', active') /\ Members(queue') \subseteq Members(q)
    BY <2>1, TailApart DEF Apart
  <2> QED
    BY <2>1, <2>2, <2>3 DEF Sent
<1>5. CASE AdmitHeld(q, a, left, l, out)
  BY <1>5 DEF AdmitHeld
<1> QED
  BY <1>1, <1>2, <1>3, <1>4, <1>5 DEF Admit

\* A handler that leaves the books q and a in order, with n leases given out
\* since and given back before, keeps them in order by its call of admit().
LEMMA AdmitKeepsBooks ==
    ASSUME TypeOK, NEW q, NEW a, NEW left, NEW l, NEW out,
           AdmitTypes(q, a, left, l, out), Apart(q, a),
           \A c \in a \cup Members(q) : l[c] \in {"open", "ended", "destroyed"} /\ c \in received',
           acquired - released' = Cardinality(a), released' \in Nat,
           Admit(q, a, left, l, out)
    PROVE  Apart(queue', active') /\ HeldOpen' /\ CountersAgree'
<1>1. AdmitEffect(q, a, l, out)
  BY AdmitSteps
<1>2. active' \subseteq a \cup Members(q) /\ Members(queue)' \subseteq Members(q)
  BY <1>1 DEF AdmitEffect, Members
<1>3. a \cup Members(q) \subseteq Clients
  BY DEF AdmitTypes, Members
<1>4. HeldOpen'
  BY <1>1, <1>2, <1>3 DEF AdmitEffect, HeldOpen, Connected
<1>5. CountersAgree'
  <2>1. CASE active' = a /\ acquired' = acquired
    BY <2>1 DEF CountersAgree
  <2>2. CASE \E h \in Members(q) \ a : active' = a \cup {h} /\ acquired' = acquired + 1
    <3>1. PICK h \in Members(q) \ a : active' = a \cup {h} /\ acquired' = acquired + 1
      BY <2>2
    <3>2. IsFiniteSet(a)
      BY ClientsAssumption, FS_Subset, <1>3
    <3>3. Cardinality(a \cup {h}) = Cardinality(a) + 1
      BY <3>1, <3>2, FS_AddElement
    <3>4. acquired \in Nat /\ Cardinality(a) \in Nat
      BY <3>2, FS_CardinalityType DEF TypeOK
    <3> QED
      BY <3>1, <3>3, <3>4 DEF CountersAgree
  <2> QED
    BY <1>1, <2>1, <2>2 DEF AdmitEffect
<1> QED
  BY <1>1, <1>4, <1>5 DEF AdmitEffect

\* Handlers that touch neither the line nor the leases and close no socket keep
\* the books in order.
LEMMA QuietKeepsBooks ==
    ASSUME SocketInv, UNCHANGED <<queue, active, acquired, released>>, received \subseteq received',
           \A c \in Clients : Connected(c) => Connected(c)'
    PROVE  Apart(queue', active') /\ HeldOpen' /\ CountersAgree'
<1>1. active \cup Members(queue) \subseteq Clients
  BY DEF SocketInv, TypeOK, Members
<1> QED
  BY <1>1 DEF SocketInv, HeldOpen, Apart, CountersAgree, Members

\* Every step keeps the coordinator's books in order.
LEMMA NextKeepsBooks ==
    SocketInv /\ [Next]_vars => Apart(queue', active') /\ HeldOpen' /\ CountersAgree'
<1> SUFFICES ASSUME SocketInv, [Next]_vars
             PROVE  Apart(queue', active') /\ HeldOpen' /\ CountersAgree'
  OBVIOUS
<1>0. /\ TypeOK /\ Timeout \in 0 .. Timeout /\ 0 \in 0 .. Timeout
      /\ AdmitTypes(queue, active, wait, link, outbound)
  BY TimeAssumption DEF SocketInv, TypeOK, AdmitTypes
<1>1. ASSUME NEW c \in Clients, Receive(c)
      PROVE  Apart(queue', active') /\ HeldOpen' /\ CountersAgree'
  <2>1. CASE ReceiveRequest(c)
    <3> DEFINE q == Append(queue, c)
               left == [wait EXCEPT ![c] = Timeout]
    <3>1. AdmitTypes(q, active, left, link, outbound)
      BY <1>0 DEF AdmitTypes
    <3>2. /\ Admit(q, active, left, link, outbound) /\ link[c] = "open"
          /\ received' = received \cup {c} /\ c \notin received /\ released' = released
      BY <2>1 DEF ReceiveRequest
    <3>3. c \notin active \cup Members(queue)
      BY <3>2 DEF SocketInv, HeldOpen
    <3>4. Apart(q, active) /\ Members(q) = Members(queue) \cup {c}
      BY <1>0, <3>3, AppendApart DEF SocketInv, Apart, TypeOK
    <3> HIDE DEF q, left
    <3>5. \A d \in active \cup Members(q) :
              link[d] \in {"open", "ended", "destroyed"} /\ d \in received'
      BY <3>2, <3>4 DEF SocketInv, HeldOpen, Connected
    <3>6. acquired - released' = Cardinality(active) /\ released' \in Nat
      BY <3>2, <1>0 DEF SocketInv, CountersAgree, TypeOK
    <3> QED
      BY <1>0, <3>1, <3>2, <3>4, <3>5, <3>6, AdmitKeepsBooks
  <2>2. CASE ReceiveBadCredential(c) \/ ReceiveOversize(c) \/ ReceiveRepeated(c)
    <3>1. /\ UNCHANGED <<queue, active, acquired, released>> /\ received \subseteq received'
          /\ \A d \in Clients : Connected(d) => Connected(d)'
      BY <1>0, <2>2 DEF ReceiveBadCredential, ReceiveOversize, ReceiveRefused, ReceiveRepeated,
                   Repeats, Connected, Ended, TypeOK
    <3> QED
      BY <3>1, QuietKeepsBooks
  <2> QED
    BY <1>1, <2>1, <2>2 DEF Receive
<1>2. ASSUME NEW c \in Clients, SocketClosed(c)
      PROVE  Apart(queue', active') /\ HeldOpen' /\ CountersAgree'
  <2> DEFINE q == Without(queue, c)
             a == active \ {c}
             left == [wait EXCEPT ![c] = 0]
             l == [link EXCEPT ![c] = "closed"]
  <2>1. q \in Seq(Clients) /\ Distinct(q) /\ Members(q) = Members(queue) \ {c}
    BY <1>0, WithoutMembers, WithoutApart DEF SocketInv, Apart, TypeOK
  <2>2. Admit(q, a, left, l, outbound) /\ received' = received
    BY <1>2 DEF SocketClosed, Closes
  <2>3. AdmitTypes(q, a, left, l, outbound)
    BY <1>0, <2>1 DEF AdmitTypes
  <2>4. Apart(q, a)
    BY <2>1 DEF SocketInv, Apart
  <2>5. \A d \in a \cup Members(q) : l[d] \in {"open", "ended", "destroyed"} /\ d \in received'
    <3> SUFFICES ASSUME NEW d \in a \cup Members(q)
                 PROVE  l[d] \in {"open", "ended", "destroyed"} /\ d \in received'
      OBVIOUS
    <3>1. d \in active \cup Members(queue) /\ d # c
      BY <2>1
    <3>2. d \in Clients
      BY <1>0, <3>1 DEF TypeOK, Members
    <3> QED
      BY <1>0, <2>2, <3>1, <3>2 DEF SocketInv, HeldOpen, Connected, TypeOK
  <2>6. acquired - released' = Cardinality(a) /\ released' \in Nat
    <3>0. /\ IsFiniteSet(active) /\ acquired \in Nat /\ released \in Nat
          /\ acquired - released = Cardinality(active)
      BY <1>0, ClientsAssumption, FS_Subset DEF TypeOK, SocketInv, CountersAgree
    <3>1. Cardinality(active) \in Nat
      BY <3>0, FS_CardinalityType
    <3>2. CASE c \in active
      <4>1. Cardinality(a) = Cardinality(active) - 1 /\ released' = released + 1
        BY <1>2, <3>0, <3>2, FS_RemoveElement DEF SocketClosed, Closes
      <4> QED
        BY <3>0, <3>1, <4>1
    <3>3. CASE c \notin active
      <4>1. a = active /\ released' = released + 0
        BY <1>2, <3>3 DEF SocketClosed, Closes
      <4> QED
        BY <3>0, <4>1
    <3> QED
      BY <3>2, <3>3
  <2> HIDE DEF q, a, left, l
  <2> QED
    BY <1>0, <2>2, <2>3, <2>4, <2>5, <2>6, AdmitKeepsBooks
<1>3. CASE Timer
  <2> DEFINE left == [c \in Clients |-> Larger(0, wait[c] - 1)]
  <2>1. AdmitTypes(queue, active, left, link, outbound)
    BY <1>0, TimeAssumption DEF AdmitTypes, Larger
  <2>2. /\ Admit(queue, active, left, link, outbound)
        /\ released' = released /\ received' = received
    BY <1>3 DEF Timer, Elapses
  <2> HIDE DEF left
  <2>3. \A d \in active \cup Members(queue) :
            link[d] \in {"open", "ended", "destroyed"} /\ d \in received'
    BY <2>2 DEF SocketInv, HeldOpen, Connected
  <2>4. Apart(queue, active) /\ acquired - released' = Cardinality(active) /\ released' \in Nat
    BY <1>0, <2>2 DEF SocketInv, CountersAgree, TypeOK
  <2> QED
    BY <1>0, <2>1, <2>2, <2>3, <2>4, AdmitKeepsBooks
<1>4. CASE Close
  <2>1. /\ UNCHANGED <<queue, active, acquired, released, received>>
        /\ \A d \in Clients : Connected(d) => Connected(d)'
    BY <1>4 DEF Close, Closing, Connected
  <2> QED
    BY <2>1, QuietKeepsBooks
<1>5. ASSUME NEW c \in Clients, Caller(c)
      PROVE  Apart(queue', active') /\ HeldOpen' /\ CountersAgree'
  <2>1. UNCHANGED <<queue, active, acquired, released, received>>
    BY <1>5 DEF Caller, Connect, ConnectFails, ClientGranted, ClientRefused,
       ClientLosesCoordinator, ClientAborts, ClientReleases, ClientCrashes,
       ClientBecomes, Resend, clientVars, serverVars
  <2>2. link' = link \/ link' = [link EXCEPT ![c] = "open"]
    BY <1>5 DEF Caller, Connect, ConnectFails, ClientGranted, ClientRefused,
       ClientLosesCoordinator, ClientAborts, ClientReleases, ClientCrashes,
       ClientBecomes, Resend, clientVars, serverVars
  <2>3. \A d \in Clients : Connected(d) => Connected(d)'
    BY <1>0, <2>2 DEF Connected, TypeOK
  <2> QED
    BY <2>1, <2>3, QuietKeepsBooks
<1>6. CASE Terminated \/ UNCHANGED vars
  <2>1. UNCHANGED vars
    BY <1>6 DEF Terminated
  <2> QED
    BY <2>1, QuietKeepsBooks DEF vars, Connected
<1> QED
  BY <1>1, <1>2, <1>3, <1>4, <1>5, <1>6 DEF Next, Coordinator

-----------------------------------------------------------------------------
\* A socket is read once it is connected, and twice only if its peer is rude.
LEMMA NextKeepsFresh == SocketInv /\ [Next]_vars => Fresh'
<1> SUFFICES ASSUME SocketInv, [Next]_vars PROVE Fresh'
  OBVIOUS
<1>0. /\ TypeOK /\ Fresh /\ Apart(queue, active)
      /\ Timeout \in 0 .. Timeout /\ 0 \in 0 .. Timeout
      /\ AdmitTypes(queue, active, wait, link, outbound)
  BY TimeAssumption DEF SocketInv, TypeOK, AdmitTypes
<1>1. ASSUME NEW c \in Clients, Receive(c) PROVE Fresh'
  <2>1. CASE ReceiveRequest(c)
    <3>1. /\ unread' = unread \ {c} /\ received' = received \cup {c} /\ client' = client
          /\ link[c] = "open" /\ c \notin received
          /\ Admit(Append(queue, c), active, [wait EXCEPT ![c] = Timeout], link, outbound)
      BY <2>1 DEF ReceiveRequest, clientVars
    <3>2. AdmitTypes(Append(queue, c), active, [wait EXCEPT ![c] = Timeout], link, outbound)
      BY <1>0 DEF AdmitTypes
    <3>3. c \notin active \cup Members(queue)
      BY <3>1 DEF SocketInv, HeldOpen
    <3>4. Apart(Append(queue, c), active)
      BY <1>0, <3>3, AppendApart DEF SocketInv, Apart, TypeOK
    <3>5. \A d \in Clients : (link'[d] = link[d] /\ outbound'[d] = outbound[d]) \/ link[d] = "open"
      BY <3>1, <3>2, <3>4, AdmitSteps DEF AdmitEffect
    <3> QED
      BY <1>0, <3>1, <3>5 DEF Fresh
  <2>2. CASE ReceiveBadCredential(c) \/ ReceiveOversize(c)
    BY <1>0, <2>2 DEF Fresh, TypeOK, ReceiveBadCredential, ReceiveOversize, ReceiveRefused,
                 Ended, Sent, clientVars
  <2>3. CASE ReceiveRepeated(c)
    BY <1>0, <2>3 DEF Fresh, TypeOK, ReceiveRepeated, Repeats, clientVars
  <2> QED
    BY <1>1, <2>1, <2>2, <2>3 DEF Receive
<1>2. ASSUME NEW c \in Clients, SocketClosed(c) PROVE Fresh'
  <2> DEFINE q == Without(queue, c)
             a == active \ {c}
             left == [wait EXCEPT ![c] = 0]
             l == [link EXCEPT ![c] = "closed"]
  <2>1. q \in Seq(Clients) /\ Distinct(q) /\ Members(q) = Members(queue) \ {c}
    BY <1>0, WithoutMembers, WithoutApart DEF Apart, TypeOK
  <2>2. /\ Admit(q, a, left, l, outbound) /\ received' = received
        /\ client' = client /\ unread' = unread \ {c} /\ client[c] # "idle"
    BY <1>0, <1>2 DEF SocketClosed, Closes, clientVars, Gone, Connected, Fresh
  <2>3. AdmitTypes(q, a, left, l, outbound) /\ Apart(q, a)
    BY <1>0, <2>1 DEF AdmitTypes, Apart
  <2>4. \A d \in Clients : (link'[d] = l[d] /\ outbound'[d] = outbound[d]) \/ l[d] = "open"
    <3> HIDE DEF q, a, left, l
    <3> QED
      BY <2>2, <2>3, AdmitSteps DEF AdmitEffect
  <2> QED
    BY <1>0, <2>2, <2>4 DEF Fresh, TypeOK
<1>3. CASE Timer
  <2> DEFINE left == [c \in Clients |-> Larger(0, wait[c] - 1)]
  <2>1. AdmitTypes(queue, active, left, link, outbound)
    BY <1>0, TimeAssumption DEF AdmitTypes, Larger
  <2>2. /\ Admit(queue, active, left, link, outbound)
        /\ client' = client /\ received' = received /\ unread' = unread
    BY <1>3 DEF Timer, Elapses, clientVars
  <2> HIDE DEF left
  <2>3. \A d \in Clients : (link'[d] = link[d] /\ outbound'[d] = outbound[d]) \/ link[d] = "open"
    BY <1>0, <2>1, <2>2, AdmitSteps DEF AdmitEffect
  <2> QED
    BY <1>0, <2>2, <2>3 DEF Fresh
<1>4. CASE Close
  BY <1>0, <1>4 DEF Close, Closing, Connected, Fresh, clientVars
<1>5. ASSUME NEW c \in Clients, Caller(c) PROVE Fresh'
  <2> USE DEF Fresh, TypeOK, clientVars, serverVars
  <2>1. CASE Connect(c)
    BY <1>0, <2>1 DEF Connect
  <2>2. CASE ConnectFails(c)
    BY <1>0, <2>2 DEF ConnectFails
  <2>3. CASE ClientGranted(c) \/ ClientRefused(c) \/ ClientAborts(c) \/ ClientCrashes(c)
    BY <1>0, <2>3 DEF ClientGranted, ClientRefused, ClientAborts, ClientCrashes, ClientBecomes
  <2>4. CASE ClientLosesCoordinator(c)
    BY <1>0, <2>4 DEF ClientLosesCoordinator, ClientBecomes
  <2>5. CASE ClientReleases(c)
    BY <1>0, <2>5 DEF ClientReleases
  <2>6. CASE Resend(c)
    BY <1>0, <2>6 DEF Resend
  <2> QED
    BY <1>5, <2>1, <2>2, <2>3, <2>4, <2>5, <2>6 DEF Caller
<1>6. CASE Terminated \/ UNCHANGED vars
  BY <1>0, <1>6 DEF Terminated, vars, Fresh
<1> QED
  BY <1>1, <1>2, <1>3, <1>4, <1>5, <1>6 DEF Next, Coordinator

\* Until the session closes, a polite client that has its grant, or will read it, has
\* its lease: its socket is not destroyed, and closes only after it has gone.
LEMMA NextKeepsCovered == SocketInv /\ [Next]_vars => Covered'
<1> SUFFICES ASSUME SocketInv, [Next]_vars, ~closing', NEW p \in Clients \ Rude
             PROVE  link'[p] # "destroyed" /\ (Believes(p)' => p \in active')
  BY DEF Covered
<1> DEFINE Good == link'[p] # "destroyed" /\ (Believes(p)' => p \in active')
<1>0. /\ TypeOK /\ Fresh /\ Apart(queue, active)
      /\ Timeout \in 0 .. Timeout /\ 0 \in 0 .. Timeout
      /\ AdmitTypes(queue, active, wait, link, outbound)
  BY TimeAssumption DEF SocketInv, TypeOK, AdmitTypes
<1>c. ~closing => link[p] # "destroyed" /\ (Believes(p) => p \in active)
  BY DEF SocketInv, Covered
\* What admit() does for p, when what it starts from is in order.
<1>a. ASSUME NEW q, NEW a, NEW left, NEW l, AdmitTypes(q, a, left, l, outbound), Apart(q, a),
             Admit(q, a, left, l, outbound), client' = client,
             l[p] # "destroyed", Believes(p) => p \in a
      PROVE  Good
  <2>1. AdmitEffect(q, a, l, outbound)
    BY <1>a, AdmitSteps
  <2>2. a \subseteq active'
    BY <2>1 DEF AdmitEffect
  <2> QED
    BY <1>a, <2>1, <2>2 DEF AdmitEffect, Believes
<1>1. ASSUME NEW c \in Clients, Receive(c) PROVE Good
  <2>0. ~closing
    BY <1>1 DEF Receive, ReceiveBadCredential, ReceiveOversize, ReceiveRefused,
       ReceiveRequest, ReceiveRepeated, Repeats
  <2>1. CASE ReceiveRequest(c)
    <3>1. /\ client' = client /\ link[c] = "open" /\ c \notin received
          /\ Admit(Append(queue, c), active, [wait EXCEPT ![c] = Timeout], link, outbound)
      BY <2>1 DEF ReceiveRequest, clientVars
    <3>2. AdmitTypes(Append(queue, c), active, [wait EXCEPT ![c] = Timeout], link, outbound)
      BY <1>0 DEF AdmitTypes
    <3>3. c \notin active \cup Members(queue)
      BY <3>1 DEF SocketInv, HeldOpen
    <3>4. Apart(Append(queue, c), active)
      BY <1>0, <3>3, AppendApart DEF Apart, TypeOK
    <3> HIDE DEF Good
    <3> QED
      BY <1>a, <1>c, <2>0, <3>1, <3>2, <3>4
  <2>2. CASE ReceiveBadCredential(c) \/ ReceiveOversize(c)
    BY <1>0, <1>c, <2>0, <2>2 DEF Believes, TypeOK, ReceiveBadCredential, ReceiveOversize,
       ReceiveRefused, Ended, Sent, clientVars
  <2>3. CASE ReceiveRepeated(c)
    <3>1. c # p
      BY <1>0, <2>3 DEF ReceiveRepeated, Repeats, Fresh
    <3> QED
      BY <1>0, <1>c, <2>0, <2>3, <3>1 DEF Believes, TypeOK, ReceiveRepeated, Repeats, clientVars
  <2> QED
    BY <1>1, <2>1, <2>2, <2>3 DEF Receive
<1>2. ASSUME NEW c \in Clients, SocketClosed(c) PROVE Good
  <2> DEFINE q == Without(queue, c)
             a == active \ {c}
             left == [wait EXCEPT ![c] = 0]
             l == [link EXCEPT ![c] = "closed"]
  <2>0. ~closing
    BY <1>2 DEF SocketClosed, Closes
  <2>1. q \in Seq(Clients) /\ Distinct(q) /\ Members(q) = Members(queue) \ {c}
    BY <1>0, WithoutMembers, WithoutApart DEF Apart, TypeOK
  <2>2. Admit(q, a, left, l, outbound) /\ client' = client
    BY <1>2 DEF SocketClosed, Closes, clientVars
  <2>3. AdmitTypes(q, a, left, l, outbound) /\ Apart(q, a)
    BY <1>0, <2>1 DEF AdmitTypes, Apart
  <2>4. p = c => ~Believes(p)
    BY <1>2, <1>c, <2>0 DEF SocketClosed, Closes, Gone, Believes
  <2>5. l[p] # "destroyed" /\ (Believes(p) => p \in a)
    BY <1>0, <1>c, <2>0, <2>4 DEF TypeOK
  <2> HIDE DEF q, a, left, l, Good
  <2> QED
    BY <1>a, <2>2, <2>3, <2>5
<1>3. ASSUME Timer PROVE Good
  <2> DEFINE left == [c \in Clients |-> Larger(0, wait[c] - 1)]
  <2>1. AdmitTypes(queue, active, left, link, outbound)
    BY <1>0, TimeAssumption DEF AdmitTypes, Larger
  <2>2. Admit(queue, active, left, link, outbound) /\ client' = client /\ ~closing
    BY <1>3 DEF Timer, Elapses, clientVars
  <2> HIDE DEF left, Good
  <2> QED
    BY <1>0, <1>a, <1>c, <2>1, <2>2
<1>4. CASE Close
  BY <1>4 DEF Close, Closing
<1>5. ASSUME NEW c \in Clients, Caller(c) PROVE Good
  <2>0. ~closing
    BY <1>5 DEF Caller, Connect, ConnectFails, ClientGranted, ClientRefused,
       ClientLosesCoordinator, ClientAborts, ClientReleases, ClientCrashes,
       ClientBecomes, Resend, clientVars, serverVars
  <2> USE DEF Believes, TypeOK, clientVars, serverVars
  <2>1. CASE Connect(c)
    BY <1>0, <1>c, <2>0, <2>1 DEF Connect, Fresh
  <2>2. CASE ConnectFails(c)
    BY <1>0, <1>c, <2>0, <2>2 DEF ConnectFails
  <2>3. CASE ClientGranted(c) \/ ClientRefused(c) \/ ClientAborts(c) \/ ClientCrashes(c)
    BY <1>0, <1>c, <2>0, <2>3 DEF ClientGranted, ClientRefused, ClientAborts, ClientCrashes,
       ClientBecomes
  <2>4. CASE ClientLosesCoordinator(c)
    BY <1>0, <1>c, <2>0, <2>4 DEF ClientLosesCoordinator, ClientBecomes
  <2>5. CASE ClientReleases(c)
    BY <1>0, <1>c, <2>0, <2>5 DEF ClientReleases
  <2>6. CASE Resend(c)
    BY <1>0, <1>c, <2>0, <2>6 DEF Resend
  <2> QED
    BY <1>5, <2>1, <2>2, <2>3, <2>4, <2>5, <2>6 DEF Caller
<1>6. CASE Terminated \/ UNCHANGED vars
  BY <1>c, <1>6 DEF Terminated, vars, Believes
<1> QED
  BY <1>1, <1>2, <1>3, <1>4, <1>5, <1>6 DEF Next, Coordinator

\* SocketInv holds at the start and is kept by every step.
LEMMA SocketsInvariant == Spec => []SocketInv
<1>1. Init => SocketInv
  <2> SUFFICES ASSUME Init, TypeOK PROVE SocketInv
    BY TypeAtStart
  <2>1. Members(<<>>) = {} /\ Distinct(<<>>) /\ Cardinality({}) = 0
    BY FS_EmptySet DEF Members, Distinct
  <2> QED
    BY <2>1 DEF Init, SocketInv, Apart, HeldOpen, CountersAgree, Fresh, Covered, Believes
<1>2. SocketInv /\ [Next]_vars => SocketInv'
  BY NextKeepsTypes, NextKeepsBooks, NextKeepsFresh, NextKeepsCovered
     DEF SocketInv, Apart, HeldOpen, Members, Distinct
<1> QED
  BY <1>1, <1>2, PTL DEF Spec

-----------------------------------------------------------------------------
\* A lease and a place in the queue belong to a socket whose close event is still to
\* come, and never both to one (lint-session.ts:114-124).
THEOREM SocketsHold == Spec => []HeldBySockets
<1>1. SocketInv => HeldBySockets
  BY DEF SocketInv, Apart, HeldOpen, HeldBySockets, Members, Distinct, Queued
<1> QED
  BY <1>1, SocketsInvariant, PTL

\* The counters of metrics() differ by the leases that are out, for every number of
\* clients (lint-session.ts:62-63).
THEOREM CountersSafe == Spec => []CountersAgree
<1>1. SocketInv => CountersAgree
  BY DEF SocketInv
<1> QED
  BY <1>1, SocketsInvariant, PTL

\* A command that believes it holds a lease is counted until the session closes
\* (lint-session.ts:97-100, 116, 236-251).
THEOREM HoldersSafe == Spec => []HoldersCovered
<1>1. SocketInv => HoldersCovered
  BY DEF SocketInv, Covered, Believes, HoldersCovered
<1> QED
  BY <1>1, SocketsInvariant, PTL

-----------------------------------------------------------------------------
\* admit() is called with the line q, the leases a, the deadlines left and the
\* sockets l.
Calls(q, a, left, l) ==
    /\ AdmitTypes(q, a, left, l, outbound) /\ Apart(q, a)
    /\ Admit(q, a, left, l, outbound)

\* What a step does to the line and the leases: a request arrives, a socket is gone,
\* time passes, or nothing.
LEMMA HandlerCases ==
    ASSUME SocketInv, [Next]_vars
    PROVE  /\ request' = request
           /\ \/ \E c \in Clients \ (active \cup Members(queue)) : \E left :
                     Calls(Append(queue, c), active, left, link)
              \/ \E c \in Clients : \E left, l : Calls(Without(queue, c), active \ {c}, left, l)
              \/ \E left : Calls(queue, active, left, link)
              \/ UNCHANGED <<queue, active>> /\ \A c \in Clients : ~TimedOut(c)
<1> DEFINE Quiet == UNCHANGED <<queue, active, request>> /\ \A c \in Clients : ~TimedOut(c)
           Arrives == \E c \in Clients \ (active \cup Members(queue)) : \E left :
                          Calls(Append(queue, c), active, left, link)
           Departs == \E c \in Clients : \E left, l : Calls(Without(queue, c), active \ {c}, left, l)
           Ticks == \E left : Calls(queue, active, left, link)
<1>0. /\ TypeOK /\ Apart(queue, active)
      /\ Timeout \in 0 .. Timeout /\ 0 \in 0 .. Timeout
      /\ AdmitTypes(queue, active, wait, link, outbound)
  BY TimeAssumption DEF SocketInv, TypeOK, AdmitTypes
<1>1. ASSUME NEW c \in Clients, Receive(c) PROVE (request' = request /\ Arrives) \/ Quiet
  <2>1. CASE ReceiveRequest(c)
    <3>1. /\ request' = request /\ c \notin received
          /\ Admit(Append(queue, c), active, [wait EXCEPT ![c] = Timeout], link, outbound)
      BY <2>1 DEF ReceiveRequest, clientVars
    <3>2. AdmitTypes(Append(queue, c), active, [wait EXCEPT ![c] = Timeout], link, outbound)
      BY <1>0 DEF AdmitTypes
    <3>3. c \in Clients \ (active \cup Members(queue))
      BY <3>1 DEF SocketInv, HeldOpen
    <3>4. Apart(Append(queue, c), active)
      BY <1>0, <3>3, AppendApart DEF Apart, TypeOK
    <3>5. Calls(Append(queue, c), active, [wait EXCEPT ![c] = Timeout], link)
      BY <3>1, <3>2, <3>4 DEF Calls
    <3> HIDE DEF Quiet
    <3> QED
      BY <3>1, <3>3, <3>5
  <2>2. CASE ReceiveBadCredential(c) \/ ReceiveOversize(c)
    BY <1>0, <2>2 DEF TypeOK, ReceiveBadCredential, ReceiveOversize, ReceiveRefused, Sent,
                 TimedOut, clientVars
  <2>3. CASE ReceiveRepeated(c)
    BY <2>3 DEF ReceiveRepeated, Repeats, TimedOut, clientVars
  <2> QED
    BY <1>1, <2>1, <2>2, <2>3 DEF Receive
<1>2. ASSUME NEW c \in Clients, SocketClosed(c) PROVE request' = request /\ Departs
  <2> DEFINE q == Without(queue, c)
             a == active \ {c}
             left == [wait EXCEPT ![c] = 0]
             l == [link EXCEPT ![c] = "closed"]
  <2>1. q \in Seq(Clients) /\ Distinct(q) /\ Members(q) = Members(queue) \ {c}
    BY <1>0, WithoutMembers, WithoutApart DEF Apart, TypeOK
  <2>2. Admit(q, a, left, l, outbound) /\ request' = request
    BY <1>2 DEF SocketClosed, Closes, clientVars
  <2>3. AdmitTypes(q, a, left, l, outbound) /\ Apart(q, a)
    BY <1>0, <2>1 DEF AdmitTypes, Apart
  <2>4. Calls(q, a, left, l)
    BY <2>2, <2>3 DEF Calls
  <2> QED
    BY <2>2, <2>4
<1>3. ASSUME Timer PROVE request' = request /\ Ticks
  <2> DEFINE left == [c \in Clients |-> Larger(0, wait[c] - 1)]
  <2>1. AdmitTypes(queue, active, left, link, outbound)
    BY <1>0, TimeAssumption DEF AdmitTypes, Larger
  <2>2. Admit(queue, active, left, link, outbound) /\ request' = request
    BY <1>3 DEF Timer, Elapses, clientVars
  <2>3. Calls(queue, active, left, link)
    BY <1>0, <2>1, <2>2 DEF Calls
  <2> QED
    BY <2>2, <2>3
<1>4. ASSUME Close PROVE Quiet
  BY <1>4 DEF Close, Closing, TimedOut, clientVars
<1>5. ASSUME NEW c \in Clients, Caller(c) PROVE Quiet
  BY <1>0, <1>5 DEF Caller, Connect, ConnectFails, ClientGranted, ClientRefused,
     ClientLosesCoordinator, ClientAborts, ClientReleases, ClientCrashes,
     ClientBecomes, Resend, clientVars, serverVars, TimedOut, TypeOK
<1>6. ASSUME Terminated \/ UNCHANGED vars PROVE Quiet
  BY <1>6 DEF Terminated, vars, TimedOut
<1> QED
  BY <1>1, <1>2, <1>3, <1>4, <1>5, <1>6 DEF Next, Coordinator

\* What admit() leaves of leases and gives in timeouts.
LEMMA CallEffects ==
    ASSUME NEW q, NEW a, NEW left, NEW l, Calls(q, a, left, l)
    PROVE  /\ closing => active' = a
           /\ \A c \in Clients : Extends /\ TimedOut(c) => active' = {}
<1>1. AdmitEffect(q, a, l, outbound)
  BY AdmitSteps DEF Calls
<1> QED
  BY <1>1 DEF AdmitEffect, TimedOut

\* After close() no lease is given, although requests are still queued and close
\* events keep calling admit() (lint-session.ts:69).
THEOREM ClosedForGood == Spec => NoGrantAfterClose
<1>1. ASSUME SocketInv, [Next]_vars, closing PROVE active' \subseteq active
  <2>1. CASE \E c \in Clients : \E left, l : Calls(Without(queue, c), active \ {c}, left, l)
    <3>1. PICK c \in Clients : \E left, l : Calls(Without(queue, c), active \ {c}, left, l)
      BY <2>1
    <3> QED
      BY <1>1, <3>1, CallEffects
  <2>2. CASE ~ \E c \in Clients : \E left, l : Calls(Without(queue, c), active \ {c}, left, l)
    BY <1>1, <2>2, HandlerCases, CallEffects
  <2> QED
    BY <2>1, <2>2
<1>2. SocketInv /\ [Next]_vars => [closing => active' \subseteq active]_vars
  BY <1>1
<1> QED
  BY <1>2, SocketsInvariant, PTL DEF Spec, NoGrantAfterClose

\* With the default timeout no request is timed out while a lease is active
\* (lint-session.ts:81-88).
THEOREM PatientBehindWork == Spec => NoTimeoutBehindWork
<1>1. ASSUME SocketInv, [Next]_vars, Extends, NEW c \in Clients, TimedOut(c) PROVE active' = {}
  BY <1>1, HandlerCases, CallEffects
<1>2. SocketInv /\ [Next]_vars =>
          [Extends => \A c \in Clients : TimedOut(c) => active' = {}]_vars
  BY <1>1
<1> QED
  BY <1>2, SocketsInvariant, PTL DEF Spec, NoTimeoutBehindWork

-----------------------------------------------------------------------------
(* Without its sockets, replies and clocks the coordinator is an AdmissionQueue. *)

\* The sums of AdmissionQueue are those of this module.
LEMMA SameTotal == \A amount, S : Admission!Total(amount, S) = Total(amount, S)
BY DEF Admission!Total, Admission!Units, Admission!Cardinality, Total, Units, Cardinality

\* A lease that is granted fits beside those that are out.
LEMMA GrantFits ==
    ASSUME TypeOK, NEW a, a \subseteq Clients, NEW h \in Clients, h \notin a,
           NEW usage \in Usages, NEW headroom \in Headrooms,
           NEW cpus \in 1 .. Parallelism, Fits(h, a, usage, headroom, cpus)
    PROVE  Admission!WithinBudget(a \cup {h})
<1>1. /\ IsFiniteSet(a) /\ Total(memory, a) \in Nat /\ Total(threads, a) \in Nat
      /\ \A c \in a \cup {h} : memory[c] \in Nat
      /\ \A c \in a \cup {h} : threads[c] \in Nat
  BY LeasesFinite
<1>2. /\ Total(memory, a \cup {h}) = Total(memory, a) + memory[h]
      /\ Total(threads, a \cup {h}) = Total(threads, a) + threads[h]
  BY <1>1, TotalAdd
<1>3. /\ Larger(usage, BaseUsage + Total(memory, a)) + memory[h] <= MaxMiB
      /\ Total(threads, a) + threads[h] <= Smaller(cpus, Parallelism)
  BY DEF Fits
<1>4. usage \in Nat /\ cpus \in Nat /\ memory[h] \in Nat /\ threads[h] \in Nat
  BY <1>1, PressureAssumption, BudgetAssumption
<1>5. BaseUsage + (Total(memory, a) + memory[h]) <= MaxMiB
  BY <1>1, <1>3, <1>4, BudgetAssumption DEF Larger
<1>6. Total(threads, a) + threads[h] <= Parallelism
  BY <1>1, <1>3, <1>4, BudgetAssumption DEF Smaller
<1> QED
  BY <1>2, <1>5, <1>6, SameTotal DEF Admission!WithinBudget

\* A call of admit() serves the line from its head.
LEMMA AdmitServes ==
    ASSUME TypeOK, NEW q, NEW a, NEW left, NEW l, Calls(q, a, left, l),
           memory' = memory, threads' = threads
    PROVE  Admission!Serves(q, a)
<1>0. q \in Seq(Clients) /\ a \subseteq Clients /\ a \cap Members(q) = {} /\ Distinct(q)
  BY DEF Calls, AdmitTypes, Apart
<1>1. ASSUME queue' = q, active' = a PROVE Admission!Serves(q, a)
  <2>1. Admission!Rest(q, 0 + 0) = q /\ Admission!Front(q, 0) = {}
    BY <1>0 DEF Admission!Rest, Admission!Front
  <2>2. 0 \in 0 .. Len(q) /\ 0 \in 0 .. Len(q) - 0 /\ ~(0 > 0)
    BY <1>0
  <2> QED
    BY <1>1, <2>1, <2>2 DEF Admission!Serves
<1>2. CASE AdmitUnobservable(q, a, left, l, outbound)
  <2>1. queue' = <<>> /\ active' = a
    BY <1>2 DEF AdmitUnobservable
  <2>2. Admission!Rest(q, 0 + Len(q)) = <<>> /\ Admission!Front(q, 0) = {}
    BY <1>0 DEF Admission!Rest, Admission!Front
  <2>3. Len(q) \in 0 .. Len(q) - 0 /\ 0 \in 0 .. Len(q) /\ ~(0 > 0)
    BY <1>0
  <2> QED
    BY <2>1, <2>2, <2>3 DEF Admission!Serves
<1>3. CASE AdmitExpired(q, a, left, l, outbound)
  <2>1. q # <<>> /\ queue' = Tail(q) /\ active' = a
    BY <1>3 DEF AdmitExpired
  <2>2. Admission!Rest(q, 0 + 1) = Tail(q) /\ Admission!Front(q, 0) = {}
    BY <1>0, <2>1 DEF Admission!Rest, Admission!Front
  <2>3. 1 \in 0 .. Len(q) - 0 /\ 0 \in 0 .. Len(q) /\ ~(0 > 0)
    BY <1>0, <2>1
  <2> QED
    BY <2>1, <2>2, <2>3 DEF Admission!Serves
<1>4. CASE AdmitGranted(q, a, left, l, outbound)
  <2>1. q # <<>> /\ queue' = Tail(q) /\ active' = a \cup {Head(q)}
    BY <1>4 DEF AdmitGranted, GrantsHead
  <2>2. PICK usage \in Usages, headroom \in Headrooms, cpus \in 1 .. Parallelism :
             Fits(Head(q), a, usage, headroom, cpus)
    BY <1>4 DEF AdmitGranted, GrantsHead
  <2>3. Head(q) \in Clients /\ Head(q) \notin a /\ Head(q) = q[1]
    BY <1>0, <2>1, TailMembers, TailApart
  <2>4. Admission!WithinBudget(a \cup {Head(q)})
    BY <1>0, <2>2, <2>3, GrantFits
  <2>5. Admission!WithinBudget(active')
    BY <2>1, <2>4
  <2>6. Admission!Rest(q, 1 + 0) = Tail(q)
    BY <1>0, <2>1 DEF Admission!Rest
  <2>7. Admission!Front(q, 1) = {Head(q)}
    BY <2>3 DEF Admission!Front
  <2>8. 0 \in 0 .. Len(q) - 1 /\ 1 \in 0 .. Len(q)
    BY <1>0, <2>1
  <2> QED
    BY <2>1, <2>5, <2>6, <2>7, <2>8 DEF Admission!Serves
<1> QED
  BY <1>1, <1>2, <1>3, <1>4
     DEF Calls, Admit, AdmitNothing, AdmitHeld

\* The coordinator implements AdmissionQueue: no request overtakes another one, a
\* handler that frees a lease admits at most from the head, and leases are only added
\* if all that are out fit the budget (lint-session.ts:68-107).
THEOREM AdmitsLikeAQueue == Spec => AdmitsInOrder
<1>1. Init => Admission!Init
  <2> SUFFICES ASSUME Init, TypeOK PROVE Admission!Init
    BY TypeAtStart
  <2>1. memory \in [Clients -> Nat] /\ threads \in [Clients -> Nat]
    BY DemandAssumption DEF TypeOK, memory, threads
  <2> QED
    BY <2>1 DEF Init, Admission!Init
<1>2. ASSUME SocketInv, [Next]_vars PROVE [Admission!Next]_(Admission!vars)
  <2>0. TypeOK /\ Apart(queue, active) /\ memory' = memory /\ threads' = threads
    BY <1>2, HandlerCases DEF SocketInv, memory, threads
  <2>1. ASSUME NEW c \in Clients \ (active \cup Members(queue)), NEW left,
               Calls(Append(queue, c), active, left, link)
        PROVE  Admission!Next
    <3>1. Admission!Serves(Append(queue, c), active)
      BY <2>0, <2>1, AdmitServes
    <3>2. Admission!Arrive(c)
      BY <2>1, <3>1 DEF Admission!Arrive, Members
    <3> QED
      BY <2>0, <3>2 DEF Admission!Next
  <2>2. ASSUME NEW c \in Clients, NEW left, NEW l,
               Calls(Without(queue, c), active \ {c}, left, l)
        PROVE  Admission!Next
    <3>1. Admission!Serves(Without(queue, c), active \ {c})
      BY <2>0, <2>2, AdmitServes
    <3>2. CASE c \in active
      <4>1. Without(queue, c) = queue
        BY <2>0, <3>2 DEF Apart, Members, Without
      <4> QED
        BY <2>0, <3>1, <3>2, <4>1 DEF Admission!Next, Admission!Return
    <3>3. CASE c \notin active /\ c \in Members(queue)
      <4> DEFINE i == CHOOSE k \in 1 .. Len(queue) : queue[k] = c
      <4>1. i \in 1 .. Len(queue) /\ queue[i] = c /\ Without(queue, c) = Splice(queue, i)
        BY <3>3 DEF Without, Members
      <4> HIDE DEF i
      <4>2. Admission!Serves(SubSeq(queue, 1, i - 1) \o SubSeq(queue, i + 1, Len(queue)), active)
        BY <3>1, <3>3, <4>1 DEF Splice
      <4>3. Admission!Leave(c)
        BY <4>1, <4>2 DEF Admission!Leave, Admission!Rest
      <4> QED
        BY <2>0, <4>3 DEF Admission!Next
    <3>4. CASE c \notin active /\ c \notin Members(queue)
      <4>1. Without(queue, c) = queue /\ active \ {c} = active
        BY <3>4 DEF Members, Without
      <4> QED
        BY <2>0, <3>1, <4>1 DEF Admission!Next
    <3> QED
      BY <3>2, <3>3, <3>4
  <2>3. ASSUME NEW left, Calls(queue, active, left, link) PROVE Admission!Next
    <3>1. Admission!Serves(queue, active)
      BY <2>0, <2>3, AdmitServes
    <3> QED
      BY <2>0, <3>1 DEF Admission!Next
  <2>4. ASSUME UNCHANGED <<queue, active>> PROVE UNCHANGED Admission!vars
    BY <2>0, <2>4 DEF Admission!vars
  <2> QED
    BY <1>2, <2>1, <2>2, <2>3, <2>4, HandlerCases
<1>3. SocketInv /\ [Next]_vars => [Admission!Next]_(Admission!vars)
  BY <1>2
<1> QED
  BY <1>1, <1>3, SocketsInvariant, PTL DEF Spec, AdmitsInOrder, Admission!Spec
=============================================================================
