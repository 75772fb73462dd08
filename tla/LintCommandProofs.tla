------------------------- MODULE LintCommandProofs --------------------------
(***************************************************************************)
(* Leases and their ends, for every number of packages and nested          *)
(* commands, every reservation and every budget.                           *)
(*                                                                         *)
(* CommandInv says who stands in the line and who has a lease: only        *)
(* packages that wait, run or close, none of them twice; and when there is *)
(* a session at all.  ServesEffect says once what the coordinator may do   *)
(* to the line and the leases.                                             *)
(***************************************************************************)
EXTENDS LintCommand, ReservationTheorems

Phases == {"off", "starting", "equipping", "waiting", "running", "closing", "removing"} \cup Ended

TypeOK ==
    /\ phase \in [Commands -> Phases]
    /\ scripted \in BOOLEAN /\ output \in BOOLEAN
    /\ session \in {"none", "open", "closed"}
    /\ queue \in Seq(Packages) /\ leases \subseteq Packages

\* Nobody stands in the line twice, or both in it and among the leases.
Orderly(q, h) == Distinct(q) /\ h \cap Members(q) = {}

\* The leases fit in the budget.
Budgeted == leases # {} => Coordinator!WithinBudget(leases)

\* Only packages on their way have a lease or wait for one.
Engaged == \A p \in leases \cup Members(queue) : phase[p] \in {"waiting", "running", "closing"}

\* The session: it is opened once, before there is any other command, and without
\* it there is no line.
SessionStages ==
    /\ phase[Root] \in {"off", "starting"} =>
           session = "none" /\ \A c \in Commands \ {Root} : phase[c] = "off"
    /\ session # "open" => leases = {} /\ queue = <<>>
    /\ phase[Root] \in {"removing", "done"} => session = "closed"
    /\ phase[Root] = "done" => ~output

\* Who runs has a lease, or fits in that of its package.
Permitted ==
    /\ session = "open" => \A p \in Packages : phase[p] = "running" => p \in leases
    /\ \A n \in Nested : phase[n] = "running" => reservation[n] <= reservation[PackageOf[n]]

CommandInv ==
    /\ TypeOK /\ Orderly(queue, leases) /\ Budgeted /\ Engaged /\ SessionStages /\ Permitted

-----------------------------------------------------------------------------
\* The sums of AdmissionQueue are those of Reservations.
LEMMA SameTotal == \A amount, S : Coordinator!Total(amount, S) = Total(amount, S)
BY DEF Coordinator!Total, Coordinator!Units, Coordinator!Cardinality, Total, Units, Cardinality

\* Leases that are given back leave the others within the budget.
LEMMA FewerKeepBudget ==
    ASSUME NEW h, h \subseteq Packages, Coordinator!WithinBudget(h), NEW g, g \subseteq h
    PROVE  Coordinator!WithinBudget(g)
<1> DEFINE threads == [c \in Commands \ {Root} |-> 1]
<1>1. IsFiniteSet(h) /\ h \subseteq Commands \ {Root}
  BY CommandsAssumption, FS_Subset DEF Commands
<1>2. \A c \in h : reservation[c] \in Nat /\ threads[c] \in Nat
  BY <1>1, CommandsAssumption
<1>3. /\ BaseUsage + Total(reservation, h) <= MaxMiB
      /\ Total(threads, h) <= Cardinality(Commands)
  BY SameTotal DEF Coordinator!WithinBudget
<1>4. IsFiniteSet(Commands) /\ Cardinality(Commands) \in Nat
  <2>1. IsFiniteSet(Commands)
    BY CommandsAssumption, FS_Singleton, FS_Union DEF Commands
  <2> QED
    BY <2>1, FS_CardinalityType
<1> HIDE DEF threads
<1>5. /\ IsFiniteSet(g)
      /\ Total(reservation, g) <= Total(reservation, h)
      /\ Total(threads, g) <= Total(threads, h)
  BY <1>1, <1>2, TotalSubset
<1>6. /\ Total(reservation, h) \in Nat /\ Total(reservation, g) \in Nat
      /\ Total(threads, h) \in Nat /\ Total(threads, g) \in Nat
  BY <1>1, <1>2, <1>5, TotalType
<1>7. /\ BaseUsage + Total(reservation, g) <= MaxMiB
      /\ Total(threads, g) <= Cardinality(Commands)
  BY <1>3, <1>4, <1>5, <1>6, CommandsAssumption
<1> QED
  BY <1>7, SameTotal DEF Coordinator!WithinBudget, threads

\* What becomes of the line q and the leases h when the coordinator serves them.
Served(q, h) ==
    /\ queue' \in Seq(Packages) /\ leases' \subseteq Packages /\ Orderly(queue', leases')
    /\ h \subseteq leases' /\ leases' \cup Members(queue') \subseteq h \cup Members(q)
    /\ leases' # {} => Coordinator!WithinBudget(leases')

LEMMA ServesEffect ==
    ASSUME NEW q \in Seq(Packages), NEW h, h \subseteq Packages, Orderly(q, h),
           h # {} => Coordinator!WithinBudget(h),
           Coordinator!Serves(q, h)
    PROVE  Served(q, h)
<1>0. PICK n \in 0 .. Len(q) : \E k \in 0 .. Len(q) - n :
          /\ queue' = Coordinator!Rest(q, n + k) /\ leases' = h \cup Coordinator!Front(q, n)
          /\ n > 0 => Coordinator!WithinBudget(leases')
  BY DEF Coordinator!Serves
<1>1. PICK k \in 0 .. Len(q) - n :
          /\ queue' = SubSeq(q, n + k + 1, Len(q))
          /\ leases' = h \cup {q[i] : i \in 1 .. n}
          /\ n > 0 => Coordinator!WithinBudget(leases')
  BY <1>0 DEF Coordinator!Rest, Coordinator!Front
<1>2. n + k \in 0 .. Len(q) /\ \A i \in 1 .. n : i \in 1 .. n + k /\ i \in 1 .. Len(q)
  OBVIOUS
<1>3. /\ queue' \in Seq(Packages) /\ Distinct(queue') /\ Members(queue') \subseteq Members(q)
      /\ \A i \in 1 .. n + k : q[i] \notin Members(queue')
  BY <1>1, <1>2, RestApart DEF Orderly
<1>4. \A i \in 1 .. n : q[i] \in Members(q) /\ q[i] \in Packages
  BY <1>2 DEF Members
<1>5. leases' # {} => Coordinator!WithinBudget(leases')
  <2>1. CASE n = 0
    <3>1. 1 .. n = {}
      BY <2>1
    <3>2. leases' = h
      BY <1>1, <3>1
    <3> QED
      BY <3>2
  <2>2. CASE n # 0
    BY <1>1, <2>2
  <2> QED
    BY <2>1, <2>2
<1>6. leases' \subseteq Packages /\ leases' \subseteq h \cup Members(q) /\ h \subseteq leases'
  BY <1>1, <1>4
<1>7. leases' \cap Members(queue') = {}
  BY <1>1, <1>2, <1>3 DEF Orderly
<1> QED
  BY <1>3, <1>5, <1>6, <1>7 DEF Served, Orderly

\* The package p stands at the end of the line, which is served.
LEMMA ArriveEffect ==
    ASSUME TypeOK, Orderly(queue, leases), Budgeted, NEW p \in Packages, Coordinator!Arrive(p)
    PROVE  /\ Served(Append(queue, p), leases)
           /\ Members(Append(queue, p)) = Members(queue) \cup {p}
<1>0. queue \in Seq(Packages) /\ leases \subseteq Packages
  BY DEF TypeOK
<1>1. /\ p \notin leases /\ p \notin Members(queue)
      /\ Coordinator!Serves(Append(queue, p), leases)
  BY DEF Coordinator!Arrive, Members
<1>2. /\ Distinct(Append(queue, p)) /\ Append(queue, p) \in Seq(Packages)
      /\ Members(Append(queue, p)) = Members(queue) \cup {p}
  BY <1>0, <1>1, AppendApart DEF Orderly
<1>3. Orderly(Append(queue, p), leases)
  BY <1>1, <1>2 DEF Orderly
<1> QED
  BY <1>0, <1>1, <1>2, <1>3, ServesEffect DEF Budgeted

\* The place of p is free, and the others are served.
LEMMA FreesEffect ==
    ASSUME TypeOK, Orderly(queue, leases), Budgeted, NEW p, Frees(p)
    PROVE  /\ Served(queue, leases \ {p})
           /\ p \notin leases' /\ p \notin Members(queue')
<1>0. queue \in Seq(Packages) /\ leases \subseteq Packages
  BY DEF TypeOK
<1>1. CASE Coordinator!Return(p)
  <2>1. p \in leases /\ Coordinator!Serves(queue, leases \ {p})
    BY <1>1 DEF Coordinator!Return
  <2>2. Orderly(queue, leases \ {p}) /\ p \notin Members(queue)
    BY <2>1 DEF Orderly
  <2>3. Coordinator!WithinBudget(leases \ {p})
    BY <1>0, <2>1, FewerKeepBudget DEF Budgeted
  <2>4. Served(queue, leases \ {p})
    BY <1>0, <2>1, <2>2, <2>3, ServesEffect
  <2> QED
    BY <2>2, <2>4 DEF Served
<1>2. CASE Coordinator!Leave(p)
  <2>1. PICK i \in 1 .. Len(queue) :
            queue[i] = p /\ Coordinator!Serves(Omitting(queue, i), leases)
    BY <1>2 DEF Coordinator!Leave, Coordinator!Rest, Omitting
  <2>2. /\ Omitting(queue, i) \in Seq(Packages) /\ Distinct(Omitting(queue, i))
        /\ Members(Omitting(queue, i)) = Members(queue) \ {p}
    BY <1>0, <2>1, OmittingApart DEF Orderly
  <2>3. p \notin leases /\ Orderly(Omitting(queue, i), leases)
    BY <2>1, <2>2 DEF Orderly, Members
  <2>4. Served(Omitting(queue, i), leases)
    BY <1>0, <2>1, <2>2, <2>3, ServesEffect DEF Budgeted
  <2> QED
    BY <2>2, <2>3, <2>4 DEF Served
<1>3. CASE p \notin leases /\ ~Queued(p) /\ UNCHANGED <<queue, leases>>
  <2>1. leases \ {p} = leases /\ p \notin Members(queue)
    BY <1>3 DEF Queued, Members
  <2> QED
    BY <1>0, <1>3, <2>1 DEF Served, Orderly, Budgeted, Members
<1> QED
  BY <1>1, <1>2, <1>3 DEF Frees

-----------------------------------------------------------------------------
\* The line and the leases stay in order.
Books == queue \in Seq(Packages) /\ leases \subseteq Packages /\ Orderly(queue, leases) /\ Budgeted

\* What a step may do to the line and the leases: ask, serve, free a place, close
\* the session, or nothing.
LEMMA BookSteps ==
    ASSUME CommandInv, [Next]_vars
    PROVE  \/ \E p \in Packages : Asks(p) /\ session = "open" /\ Coordinator!Arrive(p)
           \/ Serve
           \/ \E c \in Commands \ {Root} :
                  /\ Frees(c) /\ UNCHANGED <<scripted, session, output>>
                  /\ \E s \in {"failed", "done", "killed"} :
                         phase[c] \notin Ended /\ phase' = [phase EXCEPT ![c] = s]
           \/ CloseSession
           \/ Kill(Root)
           \/ UNCHANGED <<queue, leases>>
<1>1. ASSUME NEW c \in Commands \ {Root}, Cancel(c) \/ Release(c) \/ Kill(c)
      PROVE  /\ Frees(c) /\ UNCHANGED <<scripted, session, output>>
             /\ \E s \in {"failed", "done", "killed"} :
                    phase[c] \notin Ended /\ phase' = [phase EXCEPT ![c] = s]
  BY <1>1 DEF Cancel, Release, Kill, Moves, Ended
<1>2. ASSUME NEW p \in Packages, Request(p)
      PROVE  (Asks(p) /\ session = "open" /\ Coordinator!Arrive(p)) \/ UNCHANGED <<queue, leases>>
  BY <1>2 DEF Request, Asks
<1>3. ASSUME NEW c \in Commands, Begin(c) \/ Reject(c) \/ Complete(c) \/ Stop(c)
      PROVE  UNCHANGED <<queue, leases>>
  BY <1>3 DEF Begin, Reject, Complete, Stop
<1>4. ASSUME NEW c \in Commands, Granted(c) \/ Denied(c) \/ Disconnect(c) \/ Enter(c)
      PROVE  UNCHANGED <<queue, leases>>
  BY <1>4 DEF Granted, Denied, Disconnect, Enter, Stop
<1>5. ASSUME OpenSession \/ Equip \/ EquipFails \/ Remove \/ AllEnded \/ UNCHANGED vars
      PROVE  UNCHANGED <<queue, leases>>
  BY <1>5 DEF OpenSession, Equip, EquipFails, Remove, AllEnded, vars
<1>6. Packages \subseteq Commands /\ Nested \subseteq Commands
  BY DEF Commands
<1> QED
  BY <1>1, <1>2, <1>3, <1>4, <1>5, <1>6 DEF Next

\* Every step keeps the line and the leases in order and within the budget.
LEMMA NextKeepsBooks == ASSUME CommandInv, [Next]_vars PROVE Books'
<1>0. /\ queue \in Seq(Packages) /\ leases \subseteq Packages /\ TypeOK
      /\ Orderly(queue, leases) /\ Budgeted
  BY DEF CommandInv, TypeOK
<1>1. ASSUME NEW q, NEW h, Served(q, h) PROVE Books'
  BY <1>1 DEF Served, Books, Orderly, Budgeted, Members, Distinct, Coordinator!WithinBudget
<1>2. ASSUME NEW p \in Packages, Coordinator!Arrive(p) PROVE Books'
  BY <1>0, <1>1, <1>2, ArriveEffect
<1>3. ASSUME Serve PROVE Books'
  <2>1. Served(queue, leases)
    BY <1>0, <1>3, ServesEffect DEF Serve, Budgeted
  <2> QED
    BY <1>1, <2>1
<1>4. ASSUME NEW c \in Commands, Frees(c) PROVE Books'
  BY <1>0, <1>1, <1>4, FreesEffect
<1>5. ASSUME queue' = <<>>, leases' = {} PROVE Books'
  BY <1>5 DEF Books, Orderly, Distinct, Members, Budgeted
<1>6. ASSUME UNCHANGED <<queue, leases>> PROVE Books'
  BY <1>0, <1>6 DEF Books, Orderly, Distinct, Members, Budgeted, Coordinator!WithinBudget
<1> QED
  BY <1>2, <1>3, <1>4, <1>5, <1>6, BookSteps DEF CloseSession, Kill

-----------------------------------------------------------------------------
\* What an inductive step has to show besides Books.
Phased ==
    /\ phase \in [Commands -> Phases] /\ scripted \in BOOLEAN /\ output \in BOOLEAN
    /\ session \in {"none", "open", "closed"}
    /\ Engaged /\ SessionStages /\ Permitted

\* Every step of a command leaves it where its leases say that it is.
LEMMA NextKeepsPhases == ASSUME CommandInv, [Next]_vars PROVE Phased'
<1> USE DEF Phases, Ended, Commands
<1>0. /\ phase \in [Commands -> Phases] /\ scripted \in BOOLEAN /\ output \in BOOLEAN
      /\ session \in {"none", "open", "closed"} /\ queue \in Seq(Packages)
      /\ leases \subseteq Packages /\ Members(queue) \subseteq Packages
      /\ Engaged /\ SessionStages /\ Permitted
      /\ TypeOK /\ Orderly(queue, leases) /\ Budgeted
      /\ Root \notin Packages /\ Root \notin Nested /\ Packages \cap Nested = {}
      /\ PackageOf \in [Nested -> Packages]
  BY CommandsAssumption DEF CommandInv, TypeOK, Members
<1>q. Members(<<>>) = {}
  BY DEF Members
\* A step of c that leaves the line and the leases alone.
<1>1. ASSUME NEW c \in Commands, Begin(c) \/ Reject(c) PROVE Phased'
  BY <1>0, <1>1 DEF Begin, Reject, Moves, Started, ParentOf, Phased, Engaged, SessionStages,
     Permitted, Members
<1>2. ASSUME NEW c \in Commands, Complete(c) \/ Stop(c) PROVE Phased'
  BY <1>0, <1>2 DEF Complete, Stop, Moves, Phased, Engaged, SessionStages, Permitted, Members
<1>3. ASSUME NEW c \in Commands \ {Root}, Granted(c) PROVE Phased'
  BY <1>0, <1>3 DEF Granted, Moves, Phased, Engaged, SessionStages, Permitted, Members
<1>4. ASSUME NEW c \in Commands \ {Root}, Denied(c) PROVE Phased'
  <2>1. c \notin leases /\ c \notin Members(queue)
    BY <1>4 DEF Denied, Queued, Members
  <2> QED
    BY <1>0, <1>4, <2>1 DEF Denied, Moves, Phased, Engaged, SessionStages, Permitted, Members
<1>5. ASSUME NEW n \in Nested, Enter(n) PROVE Phased'
  BY <1>0, <1>5 DEF Enter, Moves, Phased, Engaged, SessionStages, Permitted, Members
<1>6. ASSUME OpenSession \/ Equip \/ EquipFails \/ Remove PROVE Phased'
  <2> USE DEF Moves, Phased, Engaged, SessionStages, Permitted, Members
  <2>1. CASE OpenSession
    BY <1>0, <2>1 DEF OpenSession
  <2>2. CASE Equip
    <3>1. scripted' \in BOOLEAN /\ output' \in BOOLEAN
      BY <1>0, <2>2, Zenon DEF Equip
    <3> QED
      BY <1>0, <2>2, <3>1 DEF Equip
  <2>3. CASE EquipFails
    BY <1>0, <2>3 DEF EquipFails
  <2>4. CASE Remove
    <3>1. scripted' \in BOOLEAN /\ output' \in BOOLEAN
      BY <1>0, <2>4, Zenon DEF Remove
    <3> QED
      BY <1>0, <2>4, <3>1 DEF Remove
  <2> QED
    BY <1>6, <2>1, <2>2, <2>3, <2>4
<1>7. ASSUME CloseSession \/ Kill(Root) PROVE Phased'
  BY <1>0, <1>7, <1>q DEF CloseSession, Kill, Moves, Phased, Engaged, SessionStages, Permitted
<1>8. ASSUME NEW c \in Commands \ {Root}, Frees(c), UNCHANGED <<scripted, session, output>>,
             NEW s \in {"failed", "done", "killed"}, phase[c] \notin {"off", "failed", "done", "killed"},
             phase' = [phase EXCEPT ![c] = s]
      PROVE  Phased'
  <2>1. /\ leases \ {c} \subseteq leases'
        /\ leases' \cup Members(queue') \subseteq (leases \cup Members(queue)) \ {c}
    BY <1>0, <1>8, FreesEffect DEF Served
  <2>2. Members(queue') = {} => queue' = <<>>
    <3>1. queue' \in Seq(Packages)
      BY <1>0, <1>8, FreesEffect DEF Served
    <3>2. queue' # <<>> => 1 \in 1 .. Len(queue')
      BY <3>1, TailMembers
    <3> QED
      BY <3>2 DEF Members
  <2>3. Engaged'
    BY <1>0, <1>8, <2>1 DEF Engaged, Members
  <2>4. SessionStages'
    BY <1>0, <1>8, <2>1, <2>2, <1>q DEF SessionStages
  <2>5. Permitted'
    BY <1>0, <1>8, <2>1 DEF Permitted
  <2> QED
    BY <1>0, <1>8, <2>3, <2>4, <2>5 DEF Phased
<1>9. ASSUME Serve PROVE Phased'
  <2>1. /\ leases \subseteq leases' /\ leases' \cup Members(queue') \subseteq leases \cup Members(queue)
        /\ session = "open" /\ UNCHANGED <<phase, scripted, session, output>>
    BY <1>0, <1>9, ServesEffect DEF Serve, Served, Budgeted
  <2>2. Engaged'
    BY <1>0, <2>1 DEF Engaged, Members
  <2> QED
    BY <1>0, <2>1, <2>2 DEF Phased, SessionStages, Permitted
<1>10. ASSUME NEW p \in Packages, Asks(p) PROVE Phased'
  <2>1. CASE UNCHANGED <<queue, leases>>
    BY <1>0, <1>10, <2>1 DEF Asks, Moves, Phased, Engaged, SessionStages, Permitted, Members
  <2>2. CASE session = "open" /\ Coordinator!Arrive(p)
    <3>1. Served(Append(queue, p), leases) /\ Members(Append(queue, p)) = Members(queue) \cup {p}
      BY <1>0, <2>2, ArriveEffect
    <3>2. leases \subseteq leases' /\ leases' \cup Members(queue') \subseteq leases \cup Members(queue) \cup {p}
      BY <3>1 DEF Served
    <3>3. Engaged'
      BY <1>0, <1>10, <3>2 DEF Asks, Moves, Engaged, Members
    <3> QED
      BY <1>0, <1>10, <2>2, <3>2, <3>3 DEF Asks, Moves, Phased, SessionStages, Permitted
  <2> QED
    BY <1>10, <2>1, <2>2 DEF Asks
<1>11. ASSUME AllEnded \/ UNCHANGED vars PROVE Phased'
  BY <1>0, <1>11 DEF AllEnded, vars, Phased, Engaged, SessionStages, Permitted, Members
<1>12. ASSUME NEW c \in Commands \ {Root}, Cancel(c) \/ Release(c) \/ Kill(c) PROVE Phased'
  BY <1>8, <1>12 DEF Cancel, Release, Kill, Moves
<1>13. ASSUME NEW p \in Packages, Request(p) \/ Disconnect(p) PROVE Phased'
  BY <1>2, <1>10, <1>13 DEF Request, Disconnect
<1> QED
  BY <1>1, <1>2, <1>3, <1>4, <1>5, <1>6, <1>7, <1>9, <1>11, <1>12, <1>13 DEF Next

\* CommandInv holds at the start and is kept by every step.
LEMMA CommandInvariant == Spec => []CommandInv
<1>1. Init => CommandInv
  <2> SUFFICES ASSUME Init PROVE CommandInv
    OBVIOUS
  <2>1. Members(queue) = {} /\ Distinct(queue)
    BY DEF Init, Members, Distinct
  <2>2. TypeOK
    <3>1. scripted \in BOOLEAN /\ output \in BOOLEAN
      BY Zenon DEF Init
    <3> QED
      BY <3>1 DEF Init, TypeOK, Phases
  <2>3. SessionStages /\ Permitted
    BY CommandsAssumption DEF Init, SessionStages, Permitted, Commands
  <2> QED
    BY <2>1, <2>2, <2>3 DEF Init, CommandInv, Orderly, Budgeted, Engaged
<1>2. CommandInv /\ [Next]_vars => CommandInv'
  <2> SUFFICES ASSUME CommandInv, [Next]_vars PROVE CommandInv'
    OBVIOUS
  <2>1. Books' /\ Phased'
    BY NextKeepsBooks, NextKeepsPhases
  <2> QED
    BY <2>1 DEF Books, Phased, CommandInv, TypeOK
<1> QED
  BY <1>1, <1>2, PTL DEF Spec

\* Type correctness of commands, session, line and leases.
THEOREM TypeCorrect == Spec => []TypeOK
<1>1. CommandInv => TypeOK
  BY DEF CommandInv
<1> QED
  BY <1>1, CommandInvariant, PTL

\* While the session lasts the leases fit in the budget, and they cover the packages
\* whose tasks run and each nested command under them (lint-cli.ts:206-211, 245-259).
THEOREM WorkIsCovered == Spec => []LeasesCoverWork
<1>1. ASSUME CommandInv PROVE LeasesCoverWork
  <2>1. ASSUME NEW c \in Commands \ {Root}, session = "open", phase[c] = "running",
               phase[PermitOf(c)] = "running"
        PROVE  PermitOf(c) \in leases /\ reservation[c] <= reservation[PermitOf(c)]
    <3>1. CASE c \in Nested
      BY <1>1, <2>1, <3>1, CommandsAssumption DEF CommandInv, Permitted, PermitOf
    <3>2. CASE c \in Packages
      BY <1>1, <2>1, <3>2, CommandsAssumption DEF CommandInv, Permitted, PermitOf
    <3> QED
      BY <3>1, <3>2 DEF Commands
  <2> QED
    BY <1>1, <2>1 DEF CommandInv, Budgeted, LeasesCoverWork
<1> QED
  BY <1>1, CommandInvariant, PTL

\* A command that has ended, in whatever way, is neither in the line nor among the
\* leases, and a root that ends well leaves nothing (lint-cli.ts:294-300).
THEOREM NothingHeldAfterEnd == Spec => []EndedHoldNothing
<1>1. ASSUME CommandInv PROVE EndedHoldNothing
  BY <1>1 DEF CommandInv, Engaged, SessionStages, EndedHoldNothing, Ended, Queued, Members
<1> QED
  BY <1>1, CommandInvariant, PTL
=============================================================================
