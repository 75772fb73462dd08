------------------------ MODULE LintInvocationProofs ------------------------
(***************************************************************************)
(* That a lint command reserves no more than what every control group      *)
(* above it leaves, that its arguments reach whom they are for, that its   *)
(* shards are balanced, that every file is in exactly one of its batches   *)
(* and that the merged report is that of one process, for any command line *)
(* and any number of files, threads, mounts and control groups.            *)
(***************************************************************************)
EXTENDS LintInvocation, ReservationTheorems

\* A product with a whole quotient is no more than what was divided.
LEMMA Division ==
    ASSUME NEW a \in Int, NEW b \in Nat \ {0}
    PROVE  a \div b \in Int /\ (a \div b) * b <= a /\ (a >= 0 => a \div b >= 0)
  OBVIOUS

LEMMA Multiple ==
    ASSUME NEW a \in Int, NEW b \in Int, NEW c \in Nat
    PROVE  a <= b => a * c <= b * c
  OBVIOUS

LEMMA Quotient ==
    ASSUME NEW a \in Int, NEW b \in Nat \ {0}, NEW q \in Int
    PROVE  q * b <= a => q <= a \div b
  OBVIOUS

-----------------------------------------------------------------------------
(* The probe of the memory. *)

\* What memoryBytes makes of a content is a number or Unknown again.
LEMMA Decoded ==
    /\ \A v \in Readings : memoryBytes(v) \in Readings
    /\ \A S : S \subseteq Readings => Known(S) \subseteq Nat
    /\ Unknown \notin Nat
<1>1. \A v \in Readings : memoryBytes(v) \in Readings
  BY DEF memoryBytes, Readings
<1> QED
  BY <1>1, MibAssumption DEF Known, Readings

\* The loop over the directories of a mount (memory-budget.ts:178-202) has an end: they are
\* a sequence.
LEMMA WalkEnds ==
    ASSUME SystemOK(system), NEW m \in DOMAIN system.mounts
    PROVE  \E n \in Nat : Walk(system.mounts[m]) = [k \in 1 .. n |-> Walk(system.mounts[m])[k]]
<1> DEFINE mount == system.mounts[m]
           Suffix(path) == IF path = <<>> THEN <<>>
                           ELSE SubSeq(path, Len(mount.root) + 1, Len(path))
           Chain(path) == [k \in 1 .. Len(Suffix(path)) + 1 |->
               [kind |-> mount.kind, at |-> mount.at,
                below |-> SubSeq(Suffix(path), 1, Len(Suffix(path)) + 1 - k)]]
<1>1. Membership(mount) \subseteq Seq(STRING)
  <2> DEFINE fitting == {k \in DOMAIN system.memberships :
                             Belongs(system.memberships[k], mount)}
  <2>1. fitting \subseteq Nat
    BY DEF SystemOK
  <2>2. ASSUME fitting # {} PROVE system.memberships[Least(fitting)].path \in Seq(STRING)
    <3>1. Least(fitting) \in fitting
      <4> HIDE DEF fitting
      <4> QED
        BY <2>1, <2>2, LeastNat
    <3> QED
      BY <3>1 DEF SystemOK
  <2> QED
    BY <2>2 DEF Membership
<1>2. \A path \in Membership(mount) : Len(Suffix(path)) \in Nat
  <2> SUFFICES ASSUME NEW path \in Membership(mount) PROVE Len(Suffix(path)) \in Nat
    OBVIOUS
  <2>1. path \in Seq(STRING) /\ mount.root \in Seq(STRING)
    BY <1>1 DEF SystemOK
  <2>2. SubSeq(path, Len(mount.root) + 1, Len(path)) \in Seq(STRING)
    <3>1. Len(path) \in Nat /\ Len(mount.root) + 1 \in Nat /\ Len(mount.root) + 1 >= 1
      BY <2>1
    <3> QED
      BY <2>1, <3>1
  <2>3. Suffix(path) \in Seq(STRING)
    <3>1. CASE path = <<>>
      <4>1. Suffix(path) = <<>> /\ <<>> \in Seq(STRING)
        BY <3>1
      <4> QED
        BY <4>1
    <3>2. CASE path # <<>>
      BY <2>2, <3>2
    <3> QED
      BY <3>1, <3>2
  <2> HIDE DEF Suffix
  <2> QED
    BY <2>3
<1>3. \/ Walk(mount) = <<>>
      \/ \E path \in Membership(mount) : Walk(mount) = Chain(path)
  BY DEF Walk
<1>4. CASE Walk(mount) = <<>>
  <2>1. Walk(mount) = [k \in 1 .. 0 |-> Walk(mount)[k]]
    BY <1>4
  <2> QED
    BY <2>1
<1>5. ASSUME NEW path \in Membership(mount), Walk(mount) = Chain(path)
      PROVE  \E n \in Nat : Walk(mount) = [k \in 1 .. n |-> Walk(mount)[k]]
  <2>1. Len(Suffix(path)) + 1 \in Nat
    BY <1>2
  <2> HIDE DEF Suffix
  <2>2. Chain(path) = [k \in 1 .. Len(Suffix(path)) + 1 |-> Chain(path)[k]]
    OBVIOUS
  <2> HIDE DEF Chain
  <2> QED
    BY <1>5, <2>1, <2>2
<1> QED
  BY <1>3, <1>4, <1>5

\* The fields of the probe.
Shape(p) ==
    p = [todo |-> p.todo, total |-> p.total, available |-> p.available,
         parallelism |-> p.parallelism, constraints |-> p.constraints,
         rlimits |-> p.rlimits, read |-> p.read, failed |-> p.failed]

Numeric(c) == c.limit \in Nat /\ c.used \in Nat

\* What a loop of probeMemory has read so far is part of the snapshot, and what it has not
\* read yet is still to come.
Snapshot ==
    /\ Shape(probe)
    /\ probe.total \in Nat /\ probe.available \in Nat /\ probe.parallelism \in Nat \ {0}
    /\ probe.rlimits \subseteq Nat
    /\ system.linux => \A r \in system.rlimits : \A v \in Known(r) :
                           \E l \in probe.rlimits : l <= v
    /\ \A c \in probe.constraints : Numeric(c)
    /\ \A r \in probe.read :
           r.usage \in Readings /\ Constraints(r.source, r.usage) \subseteq probe.constraints
    /\ \A m \in DOMAIN probe.todo : probe.todo[m] \in Seq(Groups)
Covered ==
    system.linux =>
        \A d \in Groups :
            \/ \E r \in probe.read : r.source = d
            \/ \E m \in DOMAIN probe.todo : \E k \in 1 .. Len(probe.todo[m]) : probe.todo[m][k] = d

StartupInv ==
    /\ stage \in {"begun", "rejected", "help", "probing", "planning", "ready", "split"}
    /\ stage \in {"begun", "probing", "planning", "ready"} =>
           command \in Commands /\ system = command.system
    /\ stage \in {"probing", "planning", "ready"} => Snapshot /\ Covered
    /\ stage \in {"planning", "ready", "split"} => outcome.threads \in Nat
    /\ ReservationFits

\* What the mounts have is what there is to be read.
LEMMA WalksAreGroups ==
    ASSUME SystemOK(system), NEW m \in DOMAIN system.mounts
    PROVE  Walk(system.mounts[m]) \in Seq(Groups)
<1> DEFINE w == Walk(system.mounts[m])
<1>1. PICK n \in Nat : w = [k \in 1 .. n |-> w[k]]
  BY WalkEnds
<1>2. \A k \in 1 .. n : w[k] \in Groups
  <2>1. DOMAIN w = 1 .. n
    BY <1>1
  <2> QED
    BY <2>1 DEF Groups
<1> HIDE DEF w
<1>3. w \in [1 .. n -> Groups]
  BY <1>1, <1>2
<1>4. w \in Seq(Groups)
  BY <1>3
<1> QED
  BY <1>4 DEF w

\* What /proc tells (memory-budget.ts:158-184) is a snapshot in which everything is to come.
LEMMA ReadProcShows ==
    ASSUME SystemOK(system), ReadProc, UNCHANGED system
    PROVE  Snapshot' /\ Covered'
<1> DEFINE walks == [m \in DOMAIN system.mounts |-> Walk(system.mounts[m])]
           limits == {Least(Known(r)) : r \in {s \in system.rlimits : Known(s) # {}}}
<1>1. /\ probe' = [todo |-> probe'.todo, total |-> probe'.total,
                   available |-> probe'.available, parallelism |-> probe'.parallelism,
                   constraints |-> probe'.constraints, rlimits |-> probe'.rlimits,
                   read |-> probe'.read, failed |-> probe'.failed]
      /\ probe'.constraints = {} /\ probe'.read = {}
      /\ probe'.parallelism = AtLeastOne(system.parallelism)
      /\ probe'.rlimits = IF system.linux THEN limits ELSE {}
      /\ probe'.todo = IF system.linux THEN walks ELSE <<>>
  BY DEF ReadProc, Unprobed
<1>2. probe'.total \in Nat /\ probe'.available \in Nat
  <2>1. Known(system.memTotal) \subseteq Nat /\ Known(system.memAvailable) \subseteq Nat
    BY Decoded DEF SystemOK
  <2> QED
    BY <2>1 DEF ReadProc, Unprobed, SystemOK
<1>3. probe'.parallelism \in Nat \ {0}
  BY <1>1 DEF AtLeastOne, SystemOK
<1>4. limits \subseteq Nat /\ \A r \in system.rlimits : \A v \in Known(r) : \E l \in limits : l <= v
  <2>1. \A r \in system.rlimits : Known(r) \subseteq Nat
    BY Decoded DEF SystemOK
  <2>2. \A r \in system.rlimits : Known(r) # {} =>
            Least(Known(r)) \in Nat /\ \A v \in Known(r) : Least(Known(r)) <= v
    <3> SUFFICES ASSUME NEW r \in system.rlimits, Known(r) # {}
                 PROVE  Least(Known(r)) \in Known(r) /\ \A v \in Known(r) : Least(Known(r)) <= v
      BY <2>1
    <3> QED
      BY <2>1, LeastNat
  <2> QED
    BY <2>2
<1>5. \A m \in DOMAIN system.mounts : walks[m] \in Seq(Groups)
  BY WalksAreGroups
<1>6. system.linux => \A d \in Groups : \E m \in DOMAIN walks : \E k \in 1 .. Len(walks[m]) : walks[m][k] = d
  <2> SUFFICES ASSUME NEW d \in Groups
               PROVE  \E m \in DOMAIN walks : \E k \in 1 .. Len(walks[m]) : walks[m][k] = d
    OBVIOUS
  <2>1. PICK m \in DOMAIN system.mounts : \E k \in DOMAIN Walk(system.mounts[m]) : Walk(system.mounts[m])[k] = d
    BY DEF Groups
  <2>2. walks[m] = Walk(system.mounts[m]) /\ walks[m] \in Seq(Groups)
    BY <1>5
  <2>3. DOMAIN walks[m] = 1 .. Len(walks[m])
    BY <2>2
  <2> HIDE DEF walks
  <2> QED
    BY <2>1, <2>2, <2>3 DEF walks
<1>7. Groups' = Groups
  BY DEF Groups, Walk, Membership, Belongs
<1> HIDE DEF walks, limits
<1>8. \A m \in DOMAIN probe'.todo : probe'.todo[m] \in Seq(Groups)
  <2>1. CASE system.linux
    BY <1>1, <1>5, <2>1 DEF walks
  <2>2. CASE ~system.linux
    BY <1>1, <2>2
  <2> QED
    BY <2>1, <2>2
<1>9. Snapshot'
  BY <1>1, <1>2, <1>3, <1>4, <1>7, <1>8 DEF Snapshot, Shape
<1>10. Covered'
  BY <1>1, <1>6, <1>7 DEF Covered
<1> QED
  BY <1>9, <1>10

\* The contents of a directory are numbers or Unknown.
LEMMA FilesRead ==
    ASSUME SystemOK(system), NEW d, NEW name \in {"max", "high", "quota", "period"}
    PROVE  File(d, name) \in Readings
  BY MibAssumption DEF File, SystemOK, Readings

\* The constraints of a directory are pairs of numbers.
LEMMA ConstraintsNumeric ==
    ASSUME SystemOK(system), NEW d, NEW usage \in Readings
    PROVE  \A c \in Constraints(d, usage) : Numeric(c)
<1>1. memoryBytes(File(d, "max")) \in Readings /\ memoryBytes(File(d, "high")) \in Readings
  BY FilesRead, Decoded
<1> QED
  BY <1>1 DEF Constraints, Numeric, Readings

\* One directory is read (memory-budget.ts:203-245): its constraints join the snapshot.
LEMMA VisitShows ==
    ASSUME SystemOK(system), Snapshot, Covered, Visit, UNCHANGED system
    PROVE  Snapshot' /\ Covered'
<1>1. PICK m \in DOMAIN probe.todo : \E usage \in {memoryBytes(u) : u \in Usages} :
          /\ probe.todo[m] # <<>>
          /\ probe' = [probe EXCEPT
                 !.todo[m] = Tail(@),
                 !.constraints = @ \cup Constraints(Head(probe.todo[m]), usage),
                 !.parallelism = Quota(Head(probe.todo[m]), @),
                 !.read = @ \cup {[source |-> Head(probe.todo[m]), usage |-> usage]}]
  BY DEF Visit
<1>2. PICK usage \in {memoryBytes(u) : u \in Usages} :
          /\ probe.todo[m] # <<>>
          /\ probe' = [probe EXCEPT
                 !.todo[m] = Tail(@),
                 !.constraints = @ \cup Constraints(Head(probe.todo[m]), usage),
                 !.parallelism = Quota(Head(probe.todo[m]), @),
                 !.read = @ \cup {[source |-> Head(probe.todo[m]), usage |-> usage]}]
  BY <1>1
<1> DEFINE d == Head(probe.todo[m])
           walk == probe.todo[m]
<1>3. /\ probe' = [todo |-> probe'.todo, total |-> probe'.total,
                   available |-> probe'.available, parallelism |-> probe'.parallelism,
                   constraints |-> probe'.constraints, rlimits |-> probe'.rlimits,
                   read |-> probe'.read, failed |-> probe'.failed]
      /\ probe'.todo = [probe.todo EXCEPT ![m] = Tail(walk)]
      /\ probe'.constraints = probe.constraints \cup Constraints(d, usage)
      /\ probe'.parallelism = Quota(d, probe.parallelism)
      /\ probe'.read = probe.read \cup {[source |-> d, usage |-> usage]}
      /\ probe'.rlimits = probe.rlimits /\ probe'.total = probe.total
      /\ probe'.available = probe.available
  BY <1>2 DEF Snapshot, Shape
<1>4. usage \in Readings
  BY Decoded, MibAssumption DEF Readings
<1>5. \A c \in probe'.constraints : Numeric(c)
  BY <1>3, <1>4, ConstraintsNumeric DEF Snapshot
<1>6. probe'.parallelism \in Nat \ {0}
  <2>1. probe.parallelism \in Nat \ {0}
    BY DEF Snapshot
  <2>2. File(d, "quota") \in Int /\ File(d, "period") \in Int
    BY FilesRead, MibAssumption DEF Readings
  <2>3. Quota(d, probe.parallelism) \in Nat \ {0}
    BY <2>1, <2>2 DEF Quota, AtLeastOne, Smaller
  <2> QED
    BY <1>3, <2>3
<1>7. Groups' = Groups
  BY DEF Groups, Walk, Membership, Belongs
<1>8. \A x, u : Constraints(x, u)' = Constraints(x, u)
  BY DEF Constraints, File
<1>9. walk \in Seq(Groups) /\ walk # <<>>
  BY <1>2 DEF Snapshot
<1>10. /\ Tail(walk) \in Seq(Groups) /\ d = walk[1] /\ Len(Tail(walk)) = Len(walk) - 1
       /\ \A i \in 1 .. Len(Tail(walk)) : i + 1 \in 1 .. Len(walk) /\ Tail(walk)[i] = walk[i + 1]
  <2> HIDE DEF walk
  <2> QED
    BY <1>9, TailMembers DEF walk
<1> DEFINE left == Tail(walk)
<1>11. /\ DOMAIN probe'.todo = DOMAIN probe.todo /\ probe'.todo[m] = left
       /\ \A n \in DOMAIN probe.todo : n # m => probe'.todo[n] = probe.todo[n]
  BY <1>3
<1>12. \A n \in DOMAIN probe'.todo : probe'.todo[n] \in Seq(Groups)
  BY <1>10, <1>11 DEF Snapshot
<1>13. \A r \in probe'.read :
           r.usage \in Readings /\ Constraints(r.source, r.usage)' \subseteq probe'.constraints
  BY <1>3, <1>4, <1>8 DEF Snapshot
<1>14. Snapshot'
  <2> HIDE DEF d, walk, left
  <2> QED
    BY <1>3, <1>5, <1>6, <1>7, <1>12, <1>13 DEF Snapshot, Shape, Known
<1>15. Covered'
  <2> SUFFICES ASSUME system.linux, NEW g \in Groups
               PROVE  \/ \E r \in probe'.read : r.source = g
                      \/ \E n \in DOMAIN probe'.todo : \E k \in 1 .. Len(probe'.todo[n]) :
                             probe'.todo[n][k] = g
    BY <1>7 DEF Covered
  <2>1. CASE \E r \in probe.read : r.source = g
    BY <1>3, <2>1
  <2>2. ASSUME NEW n \in DOMAIN probe.todo, NEW k \in 1 .. Len(probe.todo[n]), probe.todo[n][k] = g
        PROVE  \/ \E r \in probe'.read : r.source = g
               \/ \E x \in DOMAIN probe'.todo : \E i \in 1 .. Len(probe'.todo[x]) :
                      probe'.todo[x][i] = g
    <3>1. CASE n # m
      BY <1>11, <2>2, <3>1
    <3>2. CASE n = m /\ k = 1
      <4>1. d = g
        BY <1>10, <2>2, <3>2
      <4>2. [source |-> d, usage |-> usage] \in probe'.read
        BY <1>3
      <4>3. [source |-> d, usage |-> usage].source = g
        BY <4>1
      <4> QED
        BY <4>2, <4>3
    <3>3. CASE n = m /\ k # 1
      <4>1. Len(walk) \in Nat
        BY <1>9
      <4>2. k - 1 \in 1 .. Len(left) /\ (k - 1) + 1 = k
        BY <1>10, <3>3, <4>1
      <4>3. left[k - 1] = g
        BY <1>10, <2>2, <3>3, <4>2
      <4> QED
        BY <1>11, <4>2, <4>3
    <3> QED
      BY <3>1, <3>2, <3>3
  <2> QED
    BY <2>1, <2>2 DEF Covered
<1> QED
  BY <1>14, <1>15

-----------------------------------------------------------------------------
(* The decision. *)

\* What node and the host tell is checked and added (memory-budget.ts:250-276).
LEMMA ProvisionShows ==
    ASSUME SystemOK(system), Snapshot, ~Provision.failed
    PROVE  /\ Provision.total = probe.total /\ Provision.available = probe.available
           /\ Provision.parallelism = probe.parallelism /\ Provision.rlimits = probe.rlimits
           /\ probe.constraints \subseteq Provision.constraints
           /\ \A c \in Provision.constraints : Numeric(c)
           /\ \A h \in system.hostLimit :
                  /\ h \in Nat
                  /\ \E free \in {a * Mib : a \in system.hostAvailable} \cup {0} :
                         /\ free \in Nat
                         /\ free = 0 \/ \E a \in system.hostAvailable : free = a * Mib
                         /\ \E c \in Provision.constraints :
                                /\ c.limit = h * Mib /\ c.used = Positive(h * Mib - free)
                                /\ ~c.soft
<1> DEFINE own == {[source |-> "node", limit |-> c, used |-> Positive(c - system.available),
                    soft |-> FALSE] : c \in {x \in system.constrained : 0 < x /\ x < probe.total}}
           free == IF system.hostAvailable = {} THEN {0} ELSE {a * Mib : a \in system.hostAvailable}
           host == {[source |-> "host", limit |-> h * Mib, used |-> Positive(h * Mib - a),
                     soft |-> FALSE] : h \in system.hostLimit, a \in free}
           invalid == \/ \E n \in system.hostLimit \cup system.hostAvailable : n < 1
                      \/ system.hostLimit = {} /\ system.hostAvailable # {}
<1>1. Provision = [probe EXCEPT !.constraints = @ \cup own \cup host, !.failed = invalid]
  BY DEF Provision
<1>2. ~invalid
  <2> HIDE DEF invalid, own, host
  <2> QED
    BY <1>1 DEF Snapshot, Shape
<1>3. /\ Provision.total = probe.total /\ Provision.available = probe.available
      /\ Provision.parallelism = probe.parallelism /\ Provision.rlimits = probe.rlimits
      /\ Provision.constraints = probe.constraints \cup own \cup host
  <2> HIDE DEF invalid, own, host
  <2> QED
    BY <1>1 DEF Snapshot, Shape
<1>4. system.hostLimit \subseteq Nat /\ system.hostAvailable \subseteq Nat
  BY <1>2 DEF SystemOK
<1>5. \A a \in Nat : a * Mib \in Nat
  BY MibAssumption
<1>6. free \subseteq Nat /\ free # {}
  <2>1. CASE system.hostAvailable = {}
    BY <2>1
  <2>2. CASE system.hostAvailable # {}
    <3>1. free = {a * Mib : a \in system.hostAvailable}
      BY <2>2
    <3> QED
      BY <1>4, <1>5, <2>2, <3>1
  <2> QED
    BY <2>1, <2>2
<1>7. \A n \in Int : Positive(n) \in Nat
  BY DEF Positive
<1>8. \A c \in own : Numeric(c)
  <2> SUFFICES ASSUME NEW x \in system.constrained, 0 < x
               PROVE  x \in Nat /\ Positive(x - system.available) \in Nat
    BY DEF Numeric
  <2>1. x \in Nat /\ system.available \in Nat
    BY DEF SystemOK
  <2> QED
    BY <1>7, <2>1
<1>9. \A h \in system.hostLimit : \A a \in free :
          h * Mib \in Nat /\ Positive(h * Mib - a) \in Nat
  <2> SUFFICES ASSUME NEW h \in system.hostLimit, NEW a \in free
               PROVE  h * Mib \in Nat /\ Positive(h * Mib - a) \in Nat
    OBVIOUS
  <2>1. h * Mib \in Nat /\ a \in Nat
    BY <1>4, <1>5, <1>6
  <2> QED
    BY <1>7, <2>1
<1>10. \A c \in host : Numeric(c)
  BY <1>9 DEF Numeric
<1>11. \A c \in Provision.constraints : Numeric(c)
  BY <1>3, <1>8, <1>10 DEF Snapshot
<1>12. ASSUME NEW h \in system.hostLimit
       PROVE  \E f \in {a * Mib : a \in system.hostAvailable} \cup {0} :
                  /\ f \in Nat
                  /\ f = 0 \/ \E a \in system.hostAvailable : f = a * Mib
                  /\ \E c \in Provision.constraints :
                         /\ c.limit = h * Mib /\ c.used = Positive(h * Mib - f)
                         /\ ~c.soft
  <2>1. PICK f \in free : f \in Nat
    BY <1>6
  <2>2. f \in {a * Mib : a \in system.hostAvailable} \cup {0}
    OBVIOUS
  <2>3. f = 0 \/ \E a \in system.hostAvailable : f = a * Mib
    BY <2>2
  <2> DEFINE c == [source |-> "host", limit |-> h * Mib, used |-> Positive(h * Mib - f),
                   soft |-> FALSE]
  <2>4. c \in Provision.constraints
    <3>1. c \in host
      <4> HIDE DEF free
      <4> DEFINE Host(x, a) == [source |-> "host", limit |-> x * Mib,
                                used |-> Positive(x * Mib - a), soft |-> FALSE]
      <4>1. host = {Host(x, a) : x \in system.hostLimit, a \in free} /\ c = Host(h, f)
        OBVIOUS
      <4> HIDE DEF Host, host, c
      <4> QED
        BY <4>1
    <3> HIDE DEF c, host, own, free
    <3> QED
      BY <1>3, <3>1
  <2>5. c.limit = h * Mib /\ c.used = Positive(h * Mib - f) /\ ~c.soft
    OBVIOUS
  <2> HIDE DEF c, free
  <2> QED
    BY <2>1, <2>2, <2>3, <2>4, <2>5
<1> QED
  BY <1>3, <1>4, <1>11, <1>12

\* The hard limit is within every hard limit, and what is available within what each
\* constraint leaves (memory-budget.ts:95-106).
LEMMA AvailableFits ==
    ASSUME NEW s, s.total \in Nat, s.available \in Nat, \A c \in s.constraints : Numeric(c)
    PROVE  /\ HardBytes(s) \in Nat /\ AvailableBytes(s) \in Nat
           /\ \A c \in s.constraints : ~c.soft => HardBytes(s) <= c.limit
           /\ AvailableBytes(s) <= s.available
           /\ \A c \in s.constraints : AvailableBytes(s) <= Positive(c.limit - c.used)
<1> DEFINE hard == {s.total} \cup {c.limit : c \in {x \in s.constraints : ~x.soft}}
           left == {s.available, HardBytes(s)} \cup {Positive(c.limit - c.used) : c \in s.constraints}
<1>1. hard \subseteq Nat /\ hard # {} /\ HardBytes(s) = Least(hard)
  BY DEF HardBytes, Numeric
<1>2. HardBytes(s) \in Nat /\ \A c \in s.constraints : ~c.soft => HardBytes(s) <= c.limit
  <2>1. Least(hard) \in hard /\ \A m \in hard : Least(hard) <= m
    <3> HIDE DEF hard
    <3> QED
      BY <1>1, LeastNat
  <2> QED
    BY <1>1, <2>1
<1>3. \A c \in s.constraints : Positive(c.limit - c.used) \in Nat
  BY DEF Positive, Numeric
<1>4. left \subseteq Nat /\ left # {} /\ AvailableBytes(s) = Positive(Least(left))
  BY <1>2, <1>3 DEF AvailableBytes
<1>5. Least(left) \in Nat /\ \A m \in left : Least(left) <= m
  <2> HIDE DEF left
  <2> QED
    BY <1>4, LeastNat
<1>6. AvailableBytes(s) = Least(left)
  BY <1>4, <1>5 DEF Positive
<1> QED
  BY <1>2, <1>3, <1>5, <1>6

\* A budget that is not refused is within the hard limit and that of the command above.
LEMMA BudgetFits ==
    ASSUME command \in Commands, NEW s, HardBytes(s) \in Nat, AvailableBytes(s) \in Nat,
           ~Budget(s).refused
    PROVE  /\ Budget(s).max \in Nat /\ Budget(s).max * Mib <= HardBytes(s)
           /\ Budget(s).available \in Nat /\ Budget(s).available * Mib <= AvailableBytes(s)
           /\ \A m \in InheritedMiB : Budget(s).max <= m
<1> DEFINE requested == IF AskedMiB # {} THEN AskedMiB ELSE InheritedMiB
           automatic == (AvailableBytes(s) * 4) \div (5 * Mib)
           max == IF requested = {} THEN automatic ELSE CHOOSE r \in requested : TRUE
<1>1. /\ Budget(s) = resolveMemoryBudget(s, requested)
      /\ \A a \in AskedMiB, i \in InheritedMiB : ~(a > i)
  BY DEF Budget, Refused
<1>2. /\ ~(max < 1) /\ ~(max > HardBytes(s) \div Mib)
      /\ Budget(s) = [refused |-> FALSE, max |-> max, available |-> AvailableBytes(s) \div Mib]
  BY <1>1 DEF resolveMemoryBudget, Refused
<1>3. Mib \in Nat \ {0} /\ 5 * Mib \in Nat \ {0} /\ AvailableBytes(s) * 4 \in Nat
  BY MibAssumption
<1>4. AskedMiB \subseteq Nat
  BY NumbersAssumption DEF AskedMiB
<1>5. InheritedMiB \subseteq Nat /\ \A i, j \in InheritedMiB : i = j
  BY CommandsAssumption DEF InheritedMiB
<1>6. automatic \in Nat
  BY <1>3, Division
<1>7. requested # {} => max \in requested
  OBVIOUS
<1>8. max \in Nat
  BY <1>4, <1>5, <1>6, <1>7
<1>9. ASSUME NEW m \in InheritedMiB PROVE max <= m
  <2> HIDE DEF max
  <2>1. CASE AskedMiB # {}
    <3>1. max \in AskedMiB
      BY <1>7, <2>1
    <3> QED
      BY <1>1, <1>4, <1>5, <3>1
  <2>2. CASE AskedMiB = {}
    <3>1. max \in InheritedMiB
      BY <1>7, <2>2
    <3> QED
      BY <1>5, <3>1
  <2> QED
    BY <2>1, <2>2
<1> HIDE DEF max, requested, automatic
<1>10. /\ HardBytes(s) \div Mib \in Int /\ (HardBytes(s) \div Mib) * Mib <= HardBytes(s)
       /\ AvailableBytes(s) \div Mib \in Nat
       /\ (AvailableBytes(s) \div Mib) * Mib <= AvailableBytes(s)
  BY <1>3, Division
<1>11. max * Mib <= (HardBytes(s) \div Mib) * Mib
  <2>1. max <= HardBytes(s) \div Mib
    BY <1>2, <1>8, <1>10
  <2> QED
    BY <1>3, <1>8, <1>10, <2>1, Multiple
<1>12. max * Mib \in Int /\ (HardBytes(s) \div Mib) * Mib \in Int
  BY <1>3, <1>8, <1>10
<1>13. max * Mib <= HardBytes(s)
  BY <1>10, <1>11, <1>12
<1> QED
  BY <1>2, <1>8, <1>9, <1>10, <1>13

\* What the command may count on is left by its limits and by what it uses already
\* (lint-cli.ts:146-148), and what it reserves is part of it (lint-cli.ts:206-207).
LEMMA HeadroomFits ==
    ASSUME NEW s, s.rlimits \subseteq Nat, NEW budget, budget.max \in Nat,
           budget.available \in Nat, command.own \in Nat
    PROVE  /\ Headroom(s, budget) \in Int
           /\ Headroom(s, budget) + command.own * Mib <= budget.available * Mib
           /\ \A l \in s.rlimits : Headroom(s, budget) + command.own * Mib <= l
<1> DEFINE limits == {budget.max * Mib, budget.available * Mib} \cup s.rlimits
<1>1. limits \subseteq Nat /\ limits # {}
  <2>1. budget.max * Mib \in Nat /\ budget.available * Mib \in Nat
    BY MibAssumption
  <2> QED
    BY <2>1
<1>2. Least(limits) \in Nat /\ \A m \in limits : Least(limits) <= m
  <2> HIDE DEF limits
  <2> QED
    BY <1>1, LeastNat
<1>3. command.own * Mib \in Nat
  BY MibAssumption
<1>4. Headroom(s, budget) = Least(limits) - command.own * Mib
  BY DEF Headroom
<1>5. Headroom(s, budget) \in Int /\ Headroom(s, budget) + command.own * Mib = Least(limits)
  <2> HIDE DEF limits
  <2> QED
    BY <1>2, <1>3, <1>4
<1> QED
  BY <1>2, <1>5

LEMMA ReservationWithin ==
    ASSUME NEW h \in Int, NEW n \in Nat \ {0}, command.own \in Nat,
           ~(h < (MINIMUM_WORKER_MIB + RESERVATION_MARGIN_MIB) * Mib)
    PROVE  /\ Reservation(h, n) \in Nat /\ Reservation(h, n) >= MINIMUM_WORKER_MIB
           /\ (Reservation(h, n) + RESERVATION_MARGIN_MIB + command.own) * Mib
                  <= h + command.own * Mib
<1> DEFINE asked == IF External THEN COMMAND_MEMORY_MIB ELSE n * THREAD_MEMORY_MIB
           rest == h - RESERVATION_MARGIN_MIB * Mib
           most == rest \div Mib
<1>0. /\ Mib \in Nat \ {0} /\ MINIMUM_WORKER_MIB \in Nat /\ RESERVATION_MARGIN_MIB \in Nat
      /\ THREAD_MEMORY_MIB \in Nat /\ COMMAND_MEMORY_MIB \in Nat
  BY MibAssumption, MemoryAssumption
<1>1. asked \in Nat /\ asked >= MINIMUM_WORKER_MIB
  <2>1. n * THREAD_MEMORY_MIB \in Nat /\ 1 * THREAD_MEMORY_MIB <= n * THREAD_MEMORY_MIB
    BY <1>0, Multiple
  <2> QED
    BY <1>0, <2>1, MemoryAssumption
<1>2. rest \in Int /\ MINIMUM_WORKER_MIB * Mib <= rest
  <2>1. /\ MINIMUM_WORKER_MIB * Mib \in Int /\ RESERVATION_MARGIN_MIB * Mib \in Int
        /\ (MINIMUM_WORKER_MIB + RESERVATION_MARGIN_MIB) * Mib
               = MINIMUM_WORKER_MIB * Mib + RESERVATION_MARGIN_MIB * Mib
    BY <1>0
  <2> QED
    BY <2>1
<1> HIDE DEF asked, rest
<1>3. most \in Int /\ MINIMUM_WORKER_MIB <= most /\ most * Mib <= rest
  BY <1>0, <1>2, Division, Quotient
<1> HIDE DEF most
<1>4. Reservation(h, n) = Smaller(asked, most)
  BY DEF Reservation, asked, most, rest
<1>5. /\ Reservation(h, n) \in Nat /\ Reservation(h, n) >= MINIMUM_WORKER_MIB
      /\ Reservation(h, n) <= most
  BY <1>0, <1>1, <1>3, <1>4 DEF Smaller
<1>6. Reservation(h, n) * Mib <= most * Mib
  BY <1>0, <1>3, <1>5, Multiple
<1>7. /\ (Reservation(h, n) + RESERVATION_MARGIN_MIB + command.own) * Mib
             = Reservation(h, n) * Mib + RESERVATION_MARGIN_MIB * Mib + command.own * Mib
      /\ Reservation(h, n) * Mib \in Int /\ most * Mib \in Int
      /\ RESERVATION_MARGIN_MIB * Mib \in Int /\ command.own * Mib \in Int
  BY <1>0, <1>3, <1>5
<1>8. Reservation(h, n) * Mib + RESERVATION_MARGIN_MIB * Mib <= h
  BY <1>2, <1>3, <1>6, <1>7 DEF rest
<1> QED
  BY <1>5, <1>7, <1>8

\* Several threads are only run if there is a processor and the memory for each
\* (lint-cli.ts:149-160), and never below another command.
LEMMA ThreadsFit ==
    ASSUME NEW s, s.parallelism \in Nat \ {0}, NEW h \in Nat,
           NEW n \in ThreadsOf(AutomaticThreads(s, h))
    PROVE  /\ n \in Nat \ {0}
           /\ n > 1 => /\ n <= s.parallelism /\ command.inherited = {}
                       /\ n * THREAD_MEMORY_MIB * Mib <= h
<1> DEFINE automatic == AutomaticThreads(s, h)
           each == THREAD_MEMORY_MIB * Mib
           capacity == h \div each
<1>1. each \in Nat \ {0}
  BY MibAssumption, MemoryAssumption
<1>2. capacity \in Nat /\ capacity * each <= h
  <2> HIDE DEF each
  <2> QED
    BY <1>1, Division
<1> HIDE DEF capacity, each
<1>3. /\ automatic \in Nat \ {0}
      /\ automatic > 1 => /\ automatic <= s.parallelism /\ command.inherited = {}
                          /\ automatic <= capacity
  <2>1. automatic = AtLeastOne(Smaller(IF command.inherited # {} THEN 1 ELSE s.parallelism,
                                       AtLeastOne(capacity)))
    BY DEF AutomaticThreads, capacity, each
  <2> HIDE DEF automatic
  <2> QED
    BY <1>2, <2>1 DEF AtLeastOne, Smaller
<1>4. n \in Nat \ {0} /\ n <= automatic
  <2> HIDE DEF automatic
  <2>1. n \in ThreadsOf(automatic)
    BY DEF automatic
  <2>2. n = automatic \/ (n \in {Numbers[x] : x \in DOMAIN Numbers} /\ 1 <= n /\ n <= automatic)
    BY <2>1 DEF ThreadsOf
  <2> QED
    BY <1>3, <2>2, NumbersAssumption
<1>5. ASSUME n > 1 PROVE n * THREAD_MEMORY_MIB * Mib <= h
  <2> HIDE DEF automatic
  <2>1. n <= capacity
    BY <1>2, <1>3, <1>4, <1>5
  <2>2. n * each <= capacity * each /\ n * each \in Int /\ capacity * each \in Int
    BY <1>1, <1>2, <1>4, <2>1, Multiple
  <2>3. n * each <= h
    BY <1>2, <2>2
  <2>4. n * each = n * THREAD_MEMORY_MIB * Mib
    BY <1>4, MibAssumption, MemoryAssumption DEF each
  <2> QED
    BY <2>3, <2>4
<1> HIDE DEF automatic
<1> QED
  BY <1>3, <1>4, <1>5

\* The decision after a complete probe.
LEMMA DecisionFits ==
    ASSUME command \in Commands, system = command.system, Snapshot, Covered, Visited,
           ~Provision.failed, ~Budget(Provision).refused,
           ~(Headroom(Provision, Budget(Provision))
                 < (MINIMUM_WORKER_MIB + RESERVATION_MARGIN_MIB) * Mib),
           NEW n \in ThreadsOf(AutomaticThreads(Provision,
                                   Headroom(Provision, Budget(Provision)))),
           NEW decided,
           decided.threads = n,
           decided.reservation = Reservation(Headroom(Provision, Budget(Provision)), n),
           decided.budget = Budget(Provision).max
    PROVE  decided.threads \in Nat /\ Fits(decided)
<1> DEFINE s == Provision
           b == Budget(s)
           h == Headroom(s, b)
           need == (decided.reservation + RESERVATION_MARGIN_MIB + command.own) * Mib
<1>1. SystemOK(system) /\ command.own \in Nat
  BY CommandsAssumption
<1>2. /\ s.total = probe.total /\ s.available = probe.available
      /\ s.parallelism = probe.parallelism /\ s.rlimits = probe.rlimits
      /\ probe.constraints \subseteq s.constraints
      /\ \A c \in s.constraints : Numeric(c)
      /\ \A x \in system.hostLimit :
             /\ x \in Nat
             /\ \E free \in {a * Mib : a \in system.hostAvailable} \cup {0} :
                    /\ free \in Nat
                    /\ free = 0 \/ \E a \in system.hostAvailable : free = a * Mib
                    /\ \E c \in s.constraints :
                           /\ c.limit = x * Mib /\ c.used = Positive(x * Mib - free)
                           /\ ~c.soft
  BY <1>1, ProvisionShows
<1> HIDE DEF s
<1>3. /\ HardBytes(s) \in Nat /\ AvailableBytes(s) \in Nat
      /\ \A c \in s.constraints : ~c.soft => HardBytes(s) <= c.limit
      /\ AvailableBytes(s) <= s.available
      /\ \A c \in s.constraints : AvailableBytes(s) <= Positive(c.limit - c.used)
  BY <1>2, AvailableFits DEF Snapshot
<1>4. /\ b.max \in Nat /\ b.max * Mib <= HardBytes(s)
      /\ b.available \in Nat /\ b.available * Mib <= AvailableBytes(s)
      /\ \A m \in InheritedMiB : b.max <= m
  BY <1>3, BudgetFits DEF s
<1> HIDE DEF b
<1>5. /\ h \in Int /\ h + command.own * Mib <= b.available * Mib
      /\ \A l \in s.rlimits : h + command.own * Mib <= l
  BY <1>1, <1>2, <1>4, HeadroomFits DEF Snapshot
<1>6. ~(h < (MINIMUM_WORKER_MIB + RESERVATION_MARGIN_MIB) * Mib)
  BY DEF s, b
<1>7. n \in ThreadsOf(AutomaticThreads(s, h)) /\ decided.reservation = Reservation(h, n)
      /\ decided.budget = b.max
  BY DEF s, b
<1> HIDE DEF h
<1>8. /\ Mib \in Nat \ {0} /\ command.own * Mib \in Nat
      /\ (MINIMUM_WORKER_MIB + RESERVATION_MARGIN_MIB) * Mib \in Nat
      /\ b.available * Mib \in Nat /\ b.max * Mib \in Nat
  BY <1>1, <1>4, MibAssumption, MemoryAssumption
<1>9. h \in Nat
  BY <1>5, <1>6, <1>8
<1>10. /\ n \in Nat \ {0}
       /\ n > 1 => /\ n <= probe.parallelism /\ command.inherited = {}
                   /\ n * THREAD_MEMORY_MIB * Mib <= h
  BY <1>2, <1>7, <1>9, ThreadsFit DEF Snapshot
<1>11. /\ decided.reservation \in Nat /\ decided.reservation >= MINIMUM_WORKER_MIB
       /\ need <= h + command.own * Mib
  BY <1>1, <1>5, <1>6, <1>7, <1>10, ReservationWithin
<1>12. need \in Nat /\ need > 0
  <2>1. decided.reservation + RESERVATION_MARGIN_MIB + command.own \in Nat \ {0}
    BY <1>1, <1>11, MemoryAssumption
  <2> QED
    BY <1>8, <2>1
<1> HIDE DEF need
<1>13. need <= AvailableBytes(s) /\ need <= b.available * Mib
  BY <1>3, <1>4, <1>5, <1>8, <1>11, <1>12
\* No constraint leaves less than what is needed.
<1>14. ASSUME NEW c \in s.constraints
       PROVE  /\ c.limit \in Nat /\ c.used \in Nat /\ need <= c.limit - c.used
              /\ ~c.soft => b.max * Mib <= c.limit
  <2>1. c.limit \in Nat /\ c.used \in Nat
    BY <1>2 DEF Numeric
  <2>2. need <= Positive(c.limit - c.used) /\ Positive(c.limit - c.used) \in Nat
    BY <1>3, <1>12, <1>13, <2>1 DEF Positive
  <2>3. need <= c.limit - c.used
    BY <1>12, <2>1, <2>2 DEF Positive
  <2> QED
    BY <1>3, <1>4, <1>8, <2>1, <2>3
<1>15. n > 1 => (n * THREAD_MEMORY_MIB + command.own) * Mib <= probe.available
  <2>1. /\ n * THREAD_MEMORY_MIB * Mib \in Nat
        /\ (n * THREAD_MEMORY_MIB + command.own) * Mib
               = n * THREAD_MEMORY_MIB * Mib + command.own * Mib
    BY <1>1, <1>8, <1>10, MemoryAssumption
  <2>2. probe.available \in Nat /\ b.available * Mib <= probe.available
    BY <1>2, <1>3, <1>4, <1>8 DEF Snapshot
  <2> QED
    BY <1>5, <1>8, <1>9, <1>10, <2>1, <2>2
<1>16. ASSUME system.linux, NEW d \in Groups
       PROVE  /\ \A limit \in LimitOf(d, "max"), u \in UsageRead(d) :
                     /\ u # Unknown /\ need <= limit - u
                     /\ decided.budget * Mib <= limit
              /\ \A limit \in LimitOf(d, "high") \cap (IF d.kind = "cgroup2" THEN Nat ELSE {}),
                     u \in UsageRead(d) : u # Unknown => need <= limit - u
              /\ UsageRead(d) # {}
  <2>1. UsageRead(d) # {}
    <3>1. \A m \in DOMAIN probe.todo : probe.todo[m] = <<>>
      BY DEF Visited
    <3>2. PICK r \in probe.read : r.source = d
      BY <1>16, <3>1 DEF Covered
    <3> QED
      BY <3>2 DEF UsageRead
  <2>2. ASSUME NEW u \in UsageRead(d)
        PROVE  u \in Readings /\ Constraints(d, u) \subseteq s.constraints
    <3>1. PICK r \in probe.read : r.source = d /\ r.usage = u
      BY DEF UsageRead
    <3> QED
      BY <1>2, <3>1 DEF Snapshot
  <2>3. ASSUME NEW limit \in LimitOf(d, "max"), NEW u \in UsageRead(d)
        PROVE  /\ u # Unknown /\ need <= limit - u
               /\ decided.budget * Mib <= limit
    <3> DEFINE c == [source |-> d, limit |-> limit, soft |-> FALSE,
                     used |-> IF u = Unknown THEN limit ELSE u]
    <3>1. limit = memoryBytes(File(d, "max")) /\ limit # Unknown
      BY DEF LimitOf
    <3>2. c \in Constraints(d, u)
      BY <3>1 DEF Constraints
    <3>3. c.limit = limit /\ c.used = (IF u = Unknown THEN limit ELSE u) /\ ~c.soft
      OBVIOUS
    <3> HIDE DEF c
    <3>4. /\ c.limit \in Nat /\ c.used \in Nat /\ need <= c.limit - c.used
          /\ b.max * Mib <= c.limit
      BY <1>14, <2>2, <3>2, <3>3
    <3>5. u # Unknown
      BY <1>12, <3>3, <3>4
    <3> QED
      BY <1>7, <3>3, <3>4, <3>5
  <2>4. ASSUME NEW limit \in LimitOf(d, "high") \cap (IF d.kind = "cgroup2" THEN Nat ELSE {}),
               NEW u \in UsageRead(d), u # Unknown
        PROVE  need <= limit - u
    <3> DEFINE c == [source |-> d, limit |-> limit, soft |-> TRUE, used |-> u]
    <3>1. limit = memoryBytes(File(d, "high")) /\ limit # Unknown /\ d.kind = "cgroup2"
      BY DEF LimitOf
    <3>2. c \in Constraints(d, u)
      BY <2>4, <3>1 DEF Constraints
    <3>3. c.limit = limit /\ c.used = u
      OBVIOUS
    <3> HIDE DEF c
    <3> QED
      BY <1>14, <2>2, <3>2, <3>3
  <2> QED
    BY <2>1, <2>3, <2>4
<1>17. ASSUME system.linux, NEW r \in system.rlimits, NEW v \in Known(r) PROVE need <= v
  <2>1. PICK l \in probe.rlimits : l <= v
    BY <1>17 DEF Snapshot
  <2>2. l \in Nat /\ v \in Nat /\ h + command.own * Mib <= l
    BY <1>1, <1>2, <1>5, Decoded DEF Snapshot, SystemOK
  <2> QED
    BY <1>5, <1>8, <1>11, <1>12, <2>1, <2>2
<1>18. ASSUME NEW x \in system.hostLimit
       PROVE  decided.budget <= x /\ \E a \in system.hostAvailable : need <= a * Mib
  <2>1. PICK free \in {a * Mib : a \in system.hostAvailable} \cup {0} :
            /\ free \in Nat
            /\ free = 0 \/ \E a \in system.hostAvailable : free = a * Mib
            /\ \E c \in s.constraints :
                   c.limit = x * Mib /\ c.used = Positive(x * Mib - free) /\ ~c.soft
    BY <1>2
  <2>2. PICK c \in s.constraints :
            c.limit = x * Mib /\ c.used = Positive(x * Mib - free) /\ ~c.soft
    BY <2>1
  <2>3. x \in Nat /\ x * Mib \in Nat
    BY <1>2, <1>8
  <2>4. need <= x * Mib - Positive(x * Mib - free) /\ b.max * Mib <= x * Mib
    BY <1>14, <2>2
  <2>5. need <= free
    BY <1>12, <2>1, <2>3, <2>4 DEF Positive
  <2>6. b.max <= x
    <3>1. ~(x + 1 <= b.max)
      <4> SUFFICES ASSUME x + 1 <= b.max PROVE FALSE
        OBVIOUS
      <4>1. (x + 1) * Mib <= b.max * Mib
        BY <1>4, <1>8, <2>3, Multiple
      <4>2. (x + 1) * Mib = x * Mib + Mib
        BY <1>8, <2>3
      <4> QED
        BY <1>8, <2>3, <2>4, <4>1, <4>2
    <3> QED
      BY <1>4, <2>3, <3>1
  <2> QED
    BY <1>7, <1>12, <2>1, <2>5, <2>6
<1>19. Fits(decided)
  BY <1>4, <1>7, <1>10, <1>11, <1>15, <1>16, <1>17, <1>18 DEF Fits, need
<1> QED
  BY <1>10, <1>19

LEMMA InitStarts == InvocationInit => StartupInv
  BY DEF InvocationInit, StartupInit, StartupInv, ReservationFits

\* A step that leaves the decided command alone.
LEMMA DecidedStays ==
    ASSUME StartupInv, UNCHANGED <<system, probe, command, stage, outcome>>
    PROVE  StartupInv'
<1> system' = system /\ probe' = probe /\ command' = command /\ stage' = stage
    /\ outcome' = outcome
  OBVIOUS
<1>1. /\ Snapshot' = Snapshot /\ Covered' = Covered
      /\ ReservationFits' = ReservationFits
  BY DEF Snapshot, Covered, ReservationFits, Fits, Shape, Groups, Walk, Membership, Belongs,
         Constraints, File, Known, UsageRead, LimitOf, InheritedMiB
<1> QED
  BY <1>1 DEF StartupInv

\* What has been read stays what it is while nothing is read.
LEMMA ProbeStays ==
    ASSUME UNCHANGED <<system, probe, command>>
    PROVE  /\ Snapshot' = Snapshot /\ Covered' = Covered
           /\ \A decided : Fits(decided) /\ outcome' = decided => Fits(outcome)'
<1> system' = system /\ probe' = probe /\ command' = command
  OBVIOUS
<1>1. Snapshot' = Snapshot /\ Covered' = Covered
  BY DEF Snapshot, Covered, Shape, Groups, Walk, Membership, Belongs, Constraints, File, Known
<1>2. ASSUME NEW decided, Fits(decided), outcome' = decided PROVE Fits(outcome)'
  <2>1. Groups' = Groups
    BY DEF Groups, Walk, Membership, Belongs
  <2>2. \A d : UsageRead(d)' = UsageRead(d)
    BY DEF UsageRead
  <2>3. \A d, name : LimitOf(d, name)' = LimitOf(d, name)
    BY DEF LimitOf, File
  <2>4. InheritedMiB' = InheritedMiB
    BY DEF InheritedMiB
  <2> QED
    BY <1>2, <2>1, <2>2, <2>3, <2>4 DEF Fits
<1> QED
  BY <1>1, <1>2

LEMMA StartKeeps ==
    ASSUME StartupInv, StartupNext
    PROVE  StartupInv'
<1>1. CASE ArgumentsRead
  <2>1. stage = "begun" /\ UNCHANGED <<system, command, outcome>>
    BY <1>1 DEF ArgumentsRead
  <2>2. command \in Commands /\ system = command.system /\ SystemOK(system)
    BY <2>1, CommandsAssumption DEF StartupInv
  <2>3. \/ stage' \in {"rejected", "help"}
        \/ stage' = "probing" /\ ReadProc
    BY <1>1 DEF ArgumentsRead
  <2>4. CASE stage' \in {"rejected", "help"}
    BY <2>4 DEF StartupInv, ReservationFits
  <2>5. CASE stage' = "probing" /\ ReadProc
    <3>1. Snapshot' /\ Covered'
      BY <2>1, <2>2, <2>5, ReadProcShows
    <3> QED
      BY <2>1, <2>2, <2>5, <3>1 DEF StartupInv, ReservationFits
  <2> QED
    BY <2>3, <2>4, <2>5
<1>2. CASE ProbeDirectory
  <2>1. stage = "probing" /\ Visit /\ UNCHANGED <<system, command, stage, outcome>>
    BY <1>2 DEF ProbeDirectory
  <2>2. command \in Commands /\ system = command.system /\ SystemOK(system)
    BY <2>1, CommandsAssumption DEF StartupInv
  <2>3. Snapshot' /\ Covered'
    BY <2>1, <2>2, VisitShows DEF StartupInv
  <2> QED
    BY <2>1, <2>2, <2>3 DEF StartupInv, ReservationFits
<1>3. CASE Decide
  <2>1. stage = "probing" /\ Visited /\ UNCHANGED <<system, probe, command>>
    BY <1>3 DEF Decide
  <2>2. command \in Commands /\ system = command.system /\ Snapshot /\ Covered
    BY <2>1 DEF StartupInv
  <2>3. Snapshot' /\ Covered'
    BY <2>1, <2>2, ProbeStays
  <2>4. CASE stage' = "rejected"
    BY <2>4 DEF StartupInv, ReservationFits
  <2>5. CASE stage' # "rejected"
    <3> DEFINE h == Headroom(Provision, Budget(Provision))
    <3>1. /\ stage' = "planning" /\ ~Provision.failed /\ ~Budget(Provision).refused
          /\ ~(h < (MINIMUM_WORKER_MIB + RESERVATION_MARGIN_MIB) * Mib)
      BY <1>3, <2>5 DEF Decide
    <3>2. PICK n \in ThreadsOf(AutomaticThreads(Provision, h)) :
              outcome' = [threads |-> n, reservation |-> Reservation(h, n),
                          budget |-> Budget(Provision).max,
                          cached |-> parsed.option["--cache"] # {}]
      BY <1>3, <2>5 DEF Decide
    <3>3. /\ outcome'.threads = n /\ outcome'.reservation = Reservation(h, n)
          /\ outcome'.budget = Budget(Provision).max
      BY <3>2
    <3> HIDE DEF h
    <3> DEFINE decided == outcome'
    <3>4. decided.threads \in Nat /\ Fits(decided)
      <4> HIDE DEF decided
      <4>1. /\ decided.threads = n /\ decided.reservation = Reservation(h, n)
            /\ decided.budget = Budget(Provision).max
        BY <3>3 DEF decided
      <4> QED
        BY <2>1, <2>2, <3>1, <4>1, DecisionFits DEF h
    <3>5. ReservationFits'
      BY <2>1, <3>4, ProbeStays DEF ReservationFits
    <3> QED
      BY <2>1, <2>2, <2>3, <3>1, <3>4, <3>5 DEF StartupInv
  <2> QED
    BY <2>4, <2>5
<1>4. CASE ReadArgument \/ PlanArgument
  BY <1>4, DecidedStays DEF ReadArgument, PlanArgument
<1>5. CASE PlanMade
  <2>1. /\ stage = "planning" /\ stage' = "ready"
        /\ UNCHANGED <<system, probe, command, outcome>>
    BY <1>5 DEF PlanMade
  <2>2. Fits(outcome)'
    BY <2>1, ProbeStays DEF StartupInv, ReservationFits
  <2> QED
    BY <2>1, <2>2, ProbeStays DEF StartupInv, ReservationFits
<1> QED
  BY <1>1, <1>2, <1>3, <1>4, <1>5 DEF StartupNext

LEMMA InvocationKeepsStartup ==
    ASSUME StartupInv, [InvocationNext]_<<shardVars, startupVars>>
    PROVE  StartupInv'
<1>1. CASE Start
  BY <1>1, StartKeeps DEF Start
<1>2. CASE Split
  <2>1. stage = "ready" /\ stage' = "split" /\ outcome'.threads = outcome.threads
    BY <1>2 DEF Split, Undecided
  <2> QED
    BY <2>1 DEF StartupInv, ReservationFits
<1>3. CASE Discover \/ Shard \/ Done \/ UNCHANGED <<shardVars, startupVars>>
  BY <1>3, DecidedStays DEF Discover, Shard, Done, startupVars
<1> QED
  BY <1>1, <1>2, <1>3 DEF InvocationNext

\* What a lint command reserves fits into what every visible control group, resource limit
\* and host leaves, for any number of them and any usage while it is read.
THEOREM ReservationAlwaysFits == InvocationSpec => []ReservationFits
<1>1. InvocationSpec => []StartupInv
  <2>1. InvocationInit => StartupInv
    BY InitStarts
  <2>2. StartupInv /\ [InvocationNext]_<<shardVars, startupVars>> => StartupInv'
    BY InvocationKeepsStartup
  <2> QED
    BY <2>1, <2>2, PTL DEF InvocationSpec
<1>2. StartupInv => ReservationFits
  BY DEF StartupInv
<1> QED
  BY <1>1, <1>2, PTL

-----------------------------------------------------------------------------
(* Places in a line of arguments. *)

\* Is s followed by d items of t, those behind position c?
Grows(s, more, t, c, d) ==
    /\ Len(more) = Len(s) + d
    /\ \A k \in 1 .. Len(s) : more[k] = s[k]
    /\ \A j \in 1 .. d : more[Len(s) + j] = t[c + j]

\* The places of what s is followed by are added to those of s.
Extends(q, place, more, t, c, d) ==
    /\ q \in [DOMAIN more -> 1 .. c + d] /\ InOrder(more, t, q)
    /\ Places(q) = Places(place) \cup (c + 1 .. c + d)

\* Items of t from behind all places so far are added to s.
LEMMA InOrderGrows ==
    ASSUME NEW S, NEW s \in Seq(S), NEW more \in Seq(S), NEW t, NEW n \in Nat, NEW c \in Nat,
           NEW d \in Nat, NEW place \in [DOMAIN s -> 1 .. n], InOrder(s, t, place),
           n <= c, Grows(s, more, t, c, d)
    PROVE  \E q : Extends(q, place, more, t, c, d)
<1> DEFINE l == Len(s)
           q == [k \in DOMAIN more |-> IF k <= l THEN place[k] ELSE c + (k - l)]
<1>1. l \in Nat /\ DOMAIN s = 1 .. l /\ DOMAIN more = 1 .. l + d /\ DOMAIN place = 1 .. l
  BY DEF Grows
<1>2. \A k \in 1 .. l : place[k] \in 1 .. n /\ q[k] = place[k]
  BY <1>1
<1>3. \A k \in l + 1 .. l + d : q[k] = c + (k - l) /\ k - l \in 1 .. d /\ k = l + (k - l)
  BY <1>1
<1>4. \A k \in 1 .. l + d : k \in 1 .. l \/ k \in l + 1 .. l + d
  BY <1>1
<1>5. q \in [DOMAIN more -> 1 .. c + d]
  BY <1>1, <1>2, <1>3, <1>4
<1>6. DOMAIN q = 1 .. l + d
  BY <1>1
<1> HIDE DEF q
<1>7. InOrder(more, t, q)
  <2>1. \A k \in 1 .. l + d : more[k] = t[q[k]]
    <3>1. \A k \in 1 .. l : more[k] = t[q[k]]
      BY <1>1, <1>2 DEF InOrder, Grows
    <3>2. \A k \in l + 1 .. l + d : more[k] = t[q[k]]
      BY <1>3 DEF Grows
    <3> QED
      BY <1>4, <3>1, <3>2
  <2>2. \A j, k \in 1 .. l : j < k => q[j] < q[k]
    BY <1>1, <1>2 DEF InOrder
  <2>3. \A j, k \in 1 .. l + d : j < k => q[j] < q[k]
    <3> SUFFICES ASSUME NEW j \in 1 .. l + d, NEW k \in 1 .. l + d, j < k PROVE q[j] < q[k]
      OBVIOUS
    <3>1. CASE k \in 1 .. l
      BY <1>1, <2>2, <3>1
    <3>2. CASE k \in l + 1 .. l + d /\ j \in 1 .. l
      <4>1. q[k] = c + (k - l) /\ k - l >= 1 /\ q[j] <= n
        BY <1>1, <1>2, <1>3, <3>2
      <4> QED
        BY <1>1, <1>2, <3>2, <4>1
    <3>3. CASE k \in l + 1 .. l + d /\ j \in l + 1 .. l + d
      BY <1>1, <1>3, <3>3
    <3> QED
      BY <1>4, <3>1, <3>2, <3>3
  <2> QED
    BY <1>1, <1>6, <2>1, <2>3 DEF InOrder
<1>8. Places(q) = Places(place) \cup (c + 1 .. c + d)
  <2>1. \A x \in Places(q) : x \in Places(place) \cup (c + 1 .. c + d)
    BY <1>1, <1>2, <1>3, <1>4, <1>6 DEF Places
  <2>2. \A x \in Places(place) : x \in Places(q)
    BY <1>1, <1>2, <1>6 DEF Places
  <2>3. \A x \in c + 1 .. c + d : x \in Places(q)
    <3> SUFFICES ASSUME NEW x \in c + 1 .. c + d PROVE x \in Places(q)
      OBVIOUS
    <3>1. l + (x - c) \in l + 1 .. l + d /\ c + ((l + (x - c)) - l) = x
      BY <1>1
    <3>2. q[l + (x - c)] = x
      BY <1>3, <3>1
    <3> QED
      BY <1>1, <1>6, <3>1, <3>2 DEF Places
  <2> QED
    BY <2>1, <2>2, <2>3
<1> QED
  BY <1>5, <1>7, <1>8 DEF Extends
-----------------------------------------------------------------------------
(* The arguments. *)

\* The tokens of a command line.
Tokens(argv) == {argv[i] : i \in DOMAIN argv}

\* One step of the loop of parseLintArguments.
Taking(argv, s, r) ==
    LET t == argv[s.index]
        Same == r.args = s.args /\ r.rejected = s.rejected
        Ends(n) == r.index = s.index + n
    IN  \/ r.rejected /\ Ends(0)
        \/ Own(t) /\ Same /\ r.separated = s.separated /\ Ends(1)
        \/ /\ TakesNext(t) /\ Same /\ r.separated = s.separated /\ Ends(2)
           /\ s.index < Len(argv) /\ argv[s.index + 1].name \notin DashDashed
        \/ /\ t = Separator /\ ~s.separated /\ Same /\ r.separated /\ Ends(1)
           /\ s.index < Len(argv) /\ Own(argv[s.index + 1])
Keeping(argv, s, r) ==
    LET t == argv[s.index]
    IN  /\ r.rejected = s.rejected /\ r.separated = s.separated
        /\ \/ /\ t = Separator /\ r.index = Len(argv) + 1
              /\ r.args = s.args \o SubSeq(argv, s.index, Len(argv))
           \/ /\ t # Separator /\ ~Own(t) /\ r.index = s.index + 1
              /\ r.args = Append(s.args, t)

\* The fields of what is parsed.
Fields == {"index", "separated", "rejected", "args", "option"}

\* An option of ag-lint (lint-arguments.ts:43-70).
LEMMA OptionRead ==
    ASSUME NEW argv, NEW s, DOMAIN s = Fields, s.index \in 1 .. Len(argv), Len(argv) \in Nat,
           NEW r, r = ReadOption(argv, s, s.index),
           Own(argv[s.index]),
           \A v, w \in argv[s.index].value : v = w
    PROVE  DOMAIN r = Fields /\ Taking(argv, s, r)
<1> DEFINE i == s.index
           t == argv[i]
           inline == {Word(v) : v \in t.value}
           value == IF inline = {} THEN Following(argv, i) ELSE inline
           flag == t.name \in {"--help", "--cache"}
           usable == \E v \in value :
               v.name # "" /\ v.name \notin DashDashed
               /\ (t.name = "--max-mem" => v.value = {} /\ ParsesMaxMemory(v.name))
           step == IF flag \/ inline # {} THEN 1 ELSE 2
           taken == IF flag THEN {t} ELSE value
           options == [s.option EXCEPT ![t.name] = taken]
<1>1. \/ r = [s EXCEPT !.rejected = TRUE]
      \/ /\ ~(~flag /\ ~usable)
         /\ r = [s EXCEPT !.option = options, !.index = i + step]
  BY DEF ReadOption
<1>2. CASE r = [s EXCEPT !.rejected = TRUE]
  <2>1. DOMAIN r = Fields /\ r.rejected = TRUE /\ r.index = s.index
    BY <1>2 DEF Fields
  <2> QED
    BY <2>1 DEF Taking
<1>3. ASSUME ~(~flag /\ ~usable), r = [s EXCEPT !.option = options, !.index = i + step]
      PROVE  DOMAIN r = Fields /\ Taking(argv, s, r)
  <2>1. ASSUME step = 2
        PROVE  TakesNext(t) /\ i < Len(argv) /\ argv[i + 1].name \notin DashDashed
    <3>1. ~flag /\ inline = {} /\ usable
      <4> HIDE DEF inline, flag, usable
      <4>1. flag \/ inline # {} => step = 1
        OBVIOUS
      <4>2. ~flag /\ inline = {}
        BY <2>1, <4>1
      <4> QED
        BY <1>3, <4>2
    <3>2. t.value = {}
      BY <3>1
    <3>3. PICK v \in Following(argv, i) : v.name \notin DashDashed
      BY <3>1
    <3>4. i < Len(argv) /\ v = argv[i + 1]
      BY <3>3 DEF Following
    <3> QED
      BY <3>1, <3>2, <3>3, <3>4 DEF TakesNext
  <2>2. step = 1 \/ step = 2
    OBVIOUS
  <2> HIDE DEF step, options
  <2>3. /\ DOMAIN r = Fields /\ r.args = s.args /\ r.rejected = s.rejected
        /\ r.separated = s.separated /\ r.index = i + step
    BY <1>3 DEF Fields
  <2> QED
    BY <2>1, <2>2, <2>3 DEF Taking
<1> QED
  BY <1>1, <1>2, <1>3

\* Any token (lint-arguments.ts:25-42).
LEMMA ArgumentRead ==
    ASSUME NEW argv, NEW s, DOMAIN s = Fields, s.index \in 1 .. Len(argv), Len(argv) \in Nat,
           \A v, w \in argv[s.index].value : v = w,
           NEW r, r = ParseStep(argv, s)
    PROVE  /\ DOMAIN r = Fields
           /\ Taking(argv, s, r) \/ Keeping(argv, s, r)
<1> DEFINE i == s.index
           t == argv[i]
<1>1. CASE t = Separator /\ Forwards(argv, s, i)
  <2>1. r = [s EXCEPT !.separated = TRUE, !.index = i + 1]
    BY <1>1 DEF ParseStep
  <2>2. /\ DOMAIN r = Fields /\ r.args = s.args /\ r.rejected = s.rejected
        /\ r.separated = TRUE /\ r.index = i + 1
    BY <2>1 DEF Fields
  <2>3. ~s.separated /\ i < Len(argv) /\ Own(argv[i + 1])
    BY <1>1 DEF Forwards, Following, Own
  <2> QED
    BY <1>1, <2>2, <2>3 DEF Taking
<1>2. CASE t = Separator /\ ~Forwards(argv, s, i)
  <2>1. r = [s EXCEPT !.args = @ \o SubSeq(argv, i, Len(argv)), !.index = Len(argv) + 1]
    BY <1>2 DEF ParseStep
  <2> DEFINE all == s.args \o SubSeq(argv, i, Len(argv))
  <2>2. r = [s EXCEPT !.args = all, !.index = Len(argv) + 1]
    BY <2>1
  <2>3. all = s.args \o SubSeq(argv, i, Len(argv))
    OBVIOUS
  <2> HIDE DEF all
  <2>4. /\ DOMAIN r = Fields /\ r.args = all /\ r.rejected = s.rejected
        /\ r.separated = s.separated /\ r.index = Len(argv) + 1
    BY <2>2 DEF Fields
  <2> QED
    BY <1>2, <2>3, <2>4 DEF Keeping
<1>3. CASE t # Separator /\ Own(t)
  <2>1. r = ReadOption(argv, s, i)
    BY <1>3 DEF ParseStep, Own
  <2> QED
    BY <1>3, <2>1, OptionRead
<1>4. CASE t # Separator /\ ~Own(t)
  <2>1. r = [s EXCEPT !.args = Append(@, t), !.index = i + 1]
    BY <1>4 DEF ParseStep, Own
  <2> DEFINE all == Append(s.args, t)
  <2>2. r = [s EXCEPT !.args = all, !.index = i + 1]
    BY <2>1
  <2>3. all = Append(s.args, t)
    OBVIOUS
  <2> HIDE DEF all
  <2>4. /\ DOMAIN r = Fields /\ r.args = all /\ r.rejected = s.rejected
        /\ r.separated = s.separated /\ r.index = i + 1
    BY <2>2 DEF Fields
  <2> QED
    BY <1>4, <2>3, <2>4 DEF Keeping
<1> QED
  BY <1>1, <1>2, <1>3, <1>4

\* A sequence behind another one.
LEMMA Joined ==
    ASSUME NEW S, NEW a \in Seq(S), NEW b \in Seq(S)
    PROVE  a \o b \in Seq(S) /\ Grows(a, a \o b, b, 0, Len(b))
  BY DEF Grows

\* Is there a double dash among the tokens that are kept, or among those that are not?
NoEnd(argv, place) == \A k \in Places(place) : argv[k] # Separator
NoDash(argv, n, place) == \A k \in 1 .. n \ Places(place) : argv[k] # Separator

\* Tokens behind the ones read so far that do not reach the engine.
LEMMA MoreTaken ==
    ASSUME NEW argv, NEW n \in Nat, NEW d \in Nat, NEW args,
           NEW place \in [DOMAIN args -> 1 .. n],
           RestOf(argv, n, args, place), NoEnd(argv, place),
           \A i \in n + 1 .. n + d :
               /\ argv[i] = Separator => i = n + 1 /\ NoDash(argv, n, place)
               /\ \/ Own(argv[i])
                  \/ argv[i] = Separator /\ i < Len(argv) /\ Own(argv[i + 1])
                  \/ i - 1 \in n + 1 .. n + d /\ TakesNext(argv[i - 1])
    PROVE  /\ place \in [DOMAIN args -> 1 .. n + d]
           /\ RestOf(argv, n + d, args, place)
<1> DEFINE kept == Places(place)
           old == 1 .. n \ kept
           taken == 1 .. n + d \ kept
           dashes == {k \in taken : argv[k] = Separator}
<1>1. place \in [DOMAIN args -> 1 .. n + d]
  OBVIOUS
<1>2. kept \subseteq 1 .. n
  BY DEF Places
<1>3. old \subseteq taken /\ n + 1 .. n + d \subseteq taken
  BY <1>2
<1>4. \A i \in taken : i \in old \/ i \in n + 1 .. n + d
  OBVIOUS
<1>5. {k \in kept : argv[k] = Separator} = {}
  BY DEF NoEnd
<1>6. InOrder(args, argv, place) /\ \A i \in kept : ~Own(argv[i])
  BY <1>5 DEF RestOf
<1>7. \A j, k \in dashes : j = k
  <2> SUFFICES ASSUME NEW j \in dashes, NEW k \in dashes PROVE j = k
    OBVIOUS
  <2>1. CASE j \in old /\ k \in old
    BY <2>1 DEF RestOf
  <2>2. CASE j \in n + 1 .. n + d \/ k \in n + 1 .. n + d
    <3>1. \A i \in old : argv[i] # Separator
      BY <2>2 DEF NoDash
    <3> QED
      BY <1>4, <3>1
  <2> QED
    BY <1>4, <2>1, <2>2
<1>8. ASSUME NEW i \in taken
      PROVE  \/ Own(argv[i])
             \/ i \in dashes /\ i < Len(argv) /\ Own(argv[i + 1])
             \/ i - 1 \in taken /\ TakesNext(argv[i - 1])
  <2>1. CASE i \in old
    <3>1. \/ Own(argv[i])
          \/ argv[i] = Separator /\ i < Len(argv) /\ Own(argv[i + 1])
          \/ i - 1 \in old /\ TakesNext(argv[i - 1])
      BY <2>1 DEF RestOf
    <3> QED
      BY <1>3, <3>1
  <2>2. CASE i \in n + 1 .. n + d
    BY <1>3, <2>2
  <2> QED
    BY <1>4, <2>1, <2>2
<1> QED
  BY <1>1, <1>5, <1>6, <1>7, <1>8 DEF RestOf

\* Tokens behind the ones read so far that reach the engine: one, or all from a double dash.
LEMMA MoreKept ==
    ASSUME NEW S, NEW argv, NEW n \in Nat, NEW d \in Nat \ {0}, NEW args \in Seq(S),
           NEW more \in Seq(S), Grows(args, more, argv, n, d),
           NEW place \in [DOMAIN args -> 1 .. n],
           RestOf(argv, n, args, place), NoEnd(argv, place),
           ~Own(argv[n + 1]), d > 1 => argv[n + 1] = Separator
    PROVE  \E q : Extends(q, place, more, argv, n, d) /\ RestOf(argv, n + d, more, q)
<1>1. InOrder(args, argv, place) /\ d \in Nat /\ n <= n
  BY DEF RestOf
<1>2. PICK q : Extends(q, place, more, argv, n, d)
  BY <1>1, InOrderGrows
<1>3. /\ q \in [DOMAIN more -> 1 .. n + d] /\ InOrder(more, argv, q)
      /\ Places(q) = Places(place) \cup (n + 1 .. n + d)
  BY <1>2 DEF Extends
<1> DEFINE kept == Places(place)
           now == Places(q)
           taken == 1 .. n \ kept
<1>4. kept \subseteq 1 .. n
  BY DEF Places
<1>5. 1 .. n + d \ now = taken
  BY <1>3, <1>4
<1>6. \A k \in now : argv[k] = Separator => k \in n + 1 .. n + d
  BY <1>3 DEF NoEnd
<1>7. \A i \in kept : ~Own(argv[i])
  <2>1. {k \in kept : argv[k] = Separator} = {}
    BY DEF NoEnd
  <2> QED
    BY <2>1 DEF RestOf
<1>8. ASSUME NEW i \in now, Own(argv[i])
      PROVE  \E k \in now : argv[k] = Separator /\ k < i
  <2>1. i \in n + 1 .. n + d /\ i # n + 1
    BY <1>3, <1>7, <1>8
  <2>2. n + 1 \in now /\ argv[n + 1] = Separator /\ n + 1 < i
    BY <1>3, <2>1
  <2> QED
    BY <2>2
<1>9. RestOf(argv, n + d, more, q)
  <2>1. \A i \in now : Own(argv[i]) => \E k \in {j \in now : argv[j] = Separator} : k < i
    BY <1>8
  <2>2. \A i \in taken, k \in {j \in now : argv[j] = Separator} : i < k
    BY <1>6
  <2>3. /\ \A j, k \in {i \in taken : argv[i] = Separator} : j = k
        /\ \A i \in taken :
               \/ Own(argv[i])
               \/ i \in {j \in taken : argv[j] = Separator} /\ i < Len(argv) /\ Own(argv[i + 1])
               \/ i - 1 \in taken /\ TakesNext(argv[i - 1])
    BY DEF RestOf
  <2> QED
    BY <1>3, <1>5, <2>1, <2>2, <2>3 DEF RestOf
<1> QED
  BY <1>2, <1>9

\* What has been read of the arguments.
Read(argv, s) ==
    /\ DOMAIN s = Fields /\ s.index \in 1 .. Len(argv) + 1
    /\ ~s.rejected =>
           /\ s.args \in Seq(Tokens(argv))
           /\ \E place \in [DOMAIN s.args -> 1 .. s.index - 1] :
                  /\ RestOf(argv, s.index - 1, s.args, place)
                  /\ s.index <= Len(argv) => NoEnd(argv, place)
                  /\ ~s.separated => NoDash(argv, s.index - 1, place)

LEMMA NothingRead ==
    ASSUME NEW argv, argv \in Seq(Tokens(argv))
    PROVE  Read(argv, Unparsed)
<1> DEFINE s == Unparsed
           none == [k \in DOMAIN s.args |-> 0]
<1>1. /\ DOMAIN s = Fields /\ s.index = 1 /\ s.args = <<>> /\ ~s.rejected
  BY DEF Unparsed, Fields
<1>2. Len(argv) \in Nat
  OBVIOUS
<1> HIDE DEF s
<1>3. s.args \in Seq(Tokens(argv)) /\ DOMAIN s.args = {}
  BY <1>1
<1>4. none \in [DOMAIN s.args -> 1 .. 0] /\ DOMAIN none = {}
  BY <1>3
<1> HIDE DEF none
<1>5. Places(none) = {} /\ InOrder(s.args, argv, none)
  BY <1>3, <1>4 DEF Places, InOrder
<1>6. RestOf(argv, 0, s.args, none)
  BY <1>5 DEF RestOf
<1>7. s.index - 1 = 0 /\ s.index \in 1 .. Len(argv) + 1
  BY <1>1, <1>2
<1>8. NoEnd(argv, none) /\ NoDash(argv, 0, none)
  BY <1>5 DEF NoEnd, NoDash
<1> QED
  BY <1>1, <1>3, <1>4, <1>6, <1>7, <1>8 DEF Read, s

\* Whatever the next token is: it is kept, or it is one that ag-lint has for itself.
LEMMA ReadingGoesOn ==
    ASSUME NEW argv, argv \in Seq(Tokens(argv)), NEW s, Read(argv, s), ~s.rejected,
           s.index <= Len(argv), \A v, w \in argv[s.index].value : v = w
    PROVE  Read(argv, ParseStep(argv, s))
<1> SUFFICES ASSUME NEW r, r = ParseStep(argv, s) PROVE Read(argv, r)
  OBVIOUS
<1> DEFINE i == s.index
           t == argv[i]
           n == i - 1
<1>1. Len(argv) \in Nat /\ i \in 1 .. Len(argv) /\ DOMAIN s = Fields /\ DOMAIN argv = 1 .. Len(argv)
  BY DEF Read
<1>2. n \in Nat /\ n + 1 = i
  BY <1>1
<1>3. s.args \in Seq(Tokens(argv))
  BY DEF Read
<1>4. PICK place \in [DOMAIN s.args -> 1 .. n] :
          /\ RestOf(argv, n, s.args, place) /\ NoEnd(argv, place)
          /\ ~s.separated => NoDash(argv, n, place)
  BY DEF Read
<1>5. DOMAIN r = Fields /\ (Taking(argv, s, r) \/ Keeping(argv, s, r))
  BY <1>1, ArgumentRead
<1>6. "--" \in DashDashed /\ Separator.name = "--" /\ ~Own(Separator)
  BY NamesAssumption DEF Separator, Word, Own, WRAPPER_OPTIONS
<1>7. CASE r.rejected /\ r.index = i + 0
  BY <1>1, <1>5, <1>7 DEF Read
\* It is not for the engine.
<1>8. ASSUME NEW d \in Nat, r.index = i + d, r.index <= Len(argv) + 1, r.args = s.args,
             \A x \in n + 1 .. n + d :
                 /\ argv[x] = Separator => x = n + 1 /\ NoDash(argv, n, place) /\ r.separated
                 /\ \/ Own(argv[x])
                    \/ argv[x] = Separator /\ x < Len(argv) /\ Own(argv[x + 1])
                    \/ x - 1 \in n + 1 .. n + d /\ TakesNext(argv[x - 1]),
             ~r.separated => ~s.separated
      PROVE  Read(argv, r)
  <2>1. place \in [DOMAIN r.args -> 1 .. n + d] /\ RestOf(argv, n + d, r.args, place)
    BY <1>2, <1>4, <1>8, MoreTaken
  <2>2. r.index - 1 = n + d /\ r.index \in 1 .. Len(argv) + 1
    BY <1>1, <1>8
  <2>3. ~r.separated => NoDash(argv, n + d, place)
    <3> SUFFICES ASSUME ~r.separated PROVE NoDash(argv, n + d, place)
      OBVIOUS
    <3>1. NoDash(argv, n, place) /\ \A x \in n + 1 .. n + d : argv[x] # Separator
      BY <1>4, <1>8
    <3>2. \A x \in 1 .. n + d : x \in 1 .. n \/ x \in n + 1 .. n + d
      BY <1>2
    <3> QED
      BY <3>1, <3>2 DEF NoDash
  <2> QED
    BY <1>3, <1>4, <1>5, <1>8, <2>1, <2>2, <2>3 DEF Read
<1>9. CASE /\ Own(t) /\ r.args = s.args /\ r.separated = s.separated /\ r.index = i + 1
  <2>1. t # Separator
    BY <1>6, <1>9
  <2>2. \A x \in n + 1 .. n + 1 : x = i
    BY <1>2
  <2> QED
    BY <1>1, <1>8, <1>9, <2>1, <2>2
<1>10. CASE /\ TakesNext(t) /\ r.args = s.args /\ r.separated = s.separated
            /\ r.index = i + 2 /\ i < Len(argv) /\ argv[i + 1].name \notin DashDashed
  <2>1. t # Separator /\ Own(t) /\ argv[i + 1] # Separator
    BY <1>6, <1>10 DEF TakesNext
  <2>2. \A x \in n + 1 .. n + 2 : x = i \/ (x = i + 1 /\ x - 1 = i)
    BY <1>2
  <2>3. i \in n + 1 .. n + 2
    BY <1>2
  <2>4. r.index <= Len(argv) + 1
    BY <1>1, <1>10
  <2> QED
    BY <1>8, <1>10, <2>1, <2>2, <2>3, <2>4
<1>11. CASE /\ t = Separator /\ ~s.separated /\ r.args = s.args /\ r.separated
            /\ r.index = i + 1 /\ i < Len(argv) /\ Own(argv[i + 1])
  <2>1. \A x \in n + 1 .. n + 1 : x = i /\ x = n + 1
    BY <1>2
  <2> QED
    BY <1>1, <1>4, <1>8, <1>11, <2>1
\* It is.
<1>12. ASSUME NEW d \in Nat \ {0}, r.index = i + d, r.index <= Len(argv) + 1,
              r.separated = s.separated, r.args \in Seq(Tokens(argv)),
              Grows(s.args, r.args, argv, n, d),
              ~Own(t), r.index <= Len(argv) => t # Separator,
              d > 1 => t = Separator, d = 1 \/ r.index = Len(argv) + 1
       PROVE  Read(argv, r)
  <2>1. /\ ~Own(argv[n + 1])
        /\ d > 1 => argv[n + 1] = Separator
    BY <1>2, <1>12
  <2>2. PICK q : /\ Extends(q, place, r.args, argv, n, d)
                 /\ RestOf(argv, n + d, r.args, q)
    BY <1>2, <1>3, <1>4, <1>12, <2>1, MoreKept
  <2>3. Places(place) \subseteq 1 .. n
    BY DEF Places
  <2>4. /\ q \in [DOMAIN r.args -> 1 .. n + d]
        /\ RestOf(argv, n + d, r.args, q)
        /\ Places(q) = Places(place) \cup (n + 1 .. n + d)
        /\ 1 .. n + d \ Places(q) = 1 .. n \ Places(place)
    BY <1>2, <2>2, <2>3 DEF Extends
  <2>5. r.index - 1 = n + d /\ r.index \in 1 .. Len(argv) + 1
    BY <1>1, <1>12
  <2>6. r.index <= Len(argv) => NoEnd(argv, q)
    <3> SUFFICES ASSUME r.index <= Len(argv) PROVE NoEnd(argv, q)
      OBVIOUS
    <3>1. t # Separator /\ d = 1
      BY <1>1, <1>12
    <3>2. \A x \in n + 1 .. n + 1 : x = i
      BY <1>2
    <3> QED
      BY <1>4, <2>4, <3>1, <3>2 DEF NoEnd
  <2>7. ~r.separated => NoDash(argv, n + d, q)
    BY <1>4, <1>12, <2>4 DEF NoDash
  <2> QED
    BY <1>5, <1>12, <2>4, <2>5, <2>6, <2>7 DEF Read
<1>13. CASE /\ t = Separator /\ r.index = Len(argv) + 1 /\ r.separated = s.separated
            /\ r.args = s.args \o SubSeq(argv, i, Len(argv))
  <2> DEFINE d == Len(argv) - n
             rest == SubSeq(argv, i, Len(argv))
  <2>1. d \in Nat \ {0} /\ r.index = i + d
    BY <1>1, <1>2, <1>13
  <2>2. rest \in Seq(Tokens(argv)) /\ Len(rest) = d /\ \A j \in 1 .. d : rest[j] = argv[n + j]
    BY <1>1, <1>2
  <2> HIDE DEF rest
  <2>3. s.args \o rest \in Seq(Tokens(argv)) /\ Grows(s.args, s.args \o rest, rest, 0, Len(rest))
    BY <1>3, <2>2, Joined
  <2>4. r.args = s.args \o rest
    BY <1>13 DEF rest
  <2> HIDE DEF d
  <2>5. ~(r.index <= Len(argv)) /\ r.index <= Len(argv) + 1
    BY <1>1, <1>13
  <2>6. Grows(s.args, r.args, argv, n, d)
    <3> DEFINE all == s.args \o rest
    <3>1. r.args = all /\ Grows(s.args, all, rest, 0, Len(rest))
      BY <2>3, <2>4
    <3> HIDE DEF all
    <3> QED
      BY <1>3, <2>1, <2>2, <3>1 DEF Grows
  <2> QED
    BY <1>6, <1>12, <1>13, <2>1, <2>3, <2>4, <2>5, <2>6
<1>14. CASE /\ t # Separator /\ ~Own(t) /\ r.index = i + 1 /\ r.separated = s.separated
            /\ r.args = Append(s.args, t)
  <2>1. t \in Tokens(argv)
    BY <1>1 DEF Tokens
  <2>2. /\ r.args \in Seq(Tokens(argv)) /\ Len(r.args) = Len(s.args) + 1
        /\ \A k \in 1 .. Len(s.args) : r.args[k] = s.args[k]
        /\ r.args[Len(s.args) + 1] = t
    BY <1>3, <1>14, <2>1
  <2>3. \A j \in 1 .. 1 : r.args[Len(s.args) + j] = argv[n + j]
    BY <1>2, <2>2
  <2>4. r.index <= Len(argv) + 1
    BY <1>1, <1>14
  <2>5. Grows(s.args, r.args, argv, n, 1)
    BY <2>2, <2>3 DEF Grows
  <2> QED
    BY <1>12, <1>14, <2>2, <2>4, <2>5
<1> QED
  BY <1>5, <1>7, <1>9, <1>10, <1>11, <1>13, <1>14 DEF Taking, Keeping

\* What is read before anything is probed, and all of it after that.
ParseInv ==
    /\ stage \in {"begun", "probing", "planning", "ready"} => Read(command.argv, parsed)
    /\ stage \in {"probing", "planning", "ready"} =>
           ~parsed.rejected /\ parsed.index > Len(command.argv)

LEMMA CommandLine ==
    ASSUME NEW c \in Commands
    PROVE  /\ c.argv \in Seq(Tokens(c.argv)) /\ Len(c.argv) \in Nat
           /\ DOMAIN c.argv = 1 .. Len(c.argv)
           /\ \A i \in 1 .. Len(c.argv) : \A v, w \in c.argv[i].value : v = w
<1>1. c.argv \in Seq(Tokens(c.argv))
  BY CommandsAssumption DEF Tokens
<1>2. Len(c.argv) \in Nat /\ DOMAIN c.argv = 1 .. Len(c.argv)
  BY <1>1
<1> QED
  BY <1>1, <1>2, CommandsAssumption

LEMMA InitReads == InvocationInit => ParseInv
<1>1. InvocationInit => stage = "begun" /\ command \in Commands /\ parsed = Unparsed
  BY DEF InvocationInit, StartupInit
<1>2. \A c \in Commands : Read(c.argv, Unparsed)
  BY CommandLine, NothingRead
<1> QED
  BY <1>1, <1>2 DEF ParseInv

LEMMA ArgumentsStay ==
    ASSUME ParseInv, UNCHANGED <<command, parsed>>,
           \/ stage' \in {"rejected", "help", "split"}
           \/ stage' = stage
           \/ stage \in {"probing", "planning"} /\ stage' \in {"planning", "ready"}
    PROVE  ParseInv'
  BY DEF ParseInv

LEMMA InvocationKeepsArguments ==
    ASSUME StartupInv, ParseInv, [InvocationNext]_<<shardVars, startupVars>>
    PROVE  ParseInv'
<1>1. CASE ReadArgument
  <2>1. /\ stage = "begun" /\ stage' = "begun" /\ UNCHANGED command
        /\ parsed' = ParseStep(command.argv, parsed)
        /\ ~parsed.rejected /\ parsed.index <= Len(command.argv)
    BY <1>1 DEF ReadArgument
  <2>2. command \in Commands /\ Read(command.argv, parsed)
    BY <2>1 DEF StartupInv, ParseInv
  <2>3. \A v, w \in command.argv[parsed.index].value : v = w
    BY <2>1, <2>2, CommandLine DEF Read
  <2>4. Read(command.argv, ParseStep(command.argv, parsed))
    BY <2>1, <2>2, <2>3, CommandLine, ReadingGoesOn
  <2>5. Read(command.argv', parsed')
    BY <2>1, <2>4
  <2> QED
    BY <2>1, <2>5 DEF ParseInv
<1>2. CASE ArgumentsRead
  <2>1. /\ stage = "begun" /\ UNCHANGED <<command, parsed>>
        /\ \/ stage' \in {"rejected", "help"}
           \/ stage' = "probing" /\ ~parsed.rejected
        /\ parsed.rejected \/ parsed.index > Len(command.argv)
    BY <1>2 DEF ArgumentsRead
  <2> QED
    BY <2>1 DEF ParseInv
<1>3. CASE ProbeDirectory \/ Decide \/ PlanArgument \/ PlanMade
  BY <1>3, ArgumentsStay DEF ProbeDirectory, Decide, PlanArgument, PlanMade
<1>4. CASE Split
  <2>1. stage' = "split"
    BY <1>4 DEF Split
  <2> QED
    BY <2>1 DEF ParseInv
<1>5. CASE Discover \/ Shard \/ Done \/ UNCHANGED <<shardVars, startupVars>>
  BY <1>5, ArgumentsStay DEF Discover, Shard, Done, startupVars
<1> QED
  BY <1>1, <1>2, <1>3, <1>4, <1>5 DEF InvocationNext, Start, StartupNext

\* For any command line that is accepted: the engine has all of its arguments, in order, but the
\* options of ag-lint, their values and a double dash that a package manager put before them.
THEOREM EngineAlwaysSeesTheRest == InvocationSpec => []EngineSeesTheRest
<1>1. InvocationSpec => [](StartupInv /\ ParseInv)
  <2>1. InvocationInit => StartupInv /\ ParseInv
    BY InitStarts, InitReads
  <2>2. StartupInv /\ ParseInv /\ [InvocationNext]_<<shardVars, startupVars>>
            => (StartupInv /\ ParseInv)'
    BY InvocationKeepsStartup, InvocationKeepsArguments
  <2> QED
    BY <2>1, <2>2, PTL DEF InvocationSpec
<1>2. StartupInv /\ ParseInv => EngineSeesTheRest
  <2> SUFFICES ASSUME StartupInv, ParseInv, stage \in {"probing", "planning", "ready"}
               PROVE  \E place \in [DOMAIN parsed.args -> DOMAIN command.argv] :
                          RestOf(command.argv, Len(command.argv), parsed.args, place)
    BY DEF EngineSeesTheRest
  <2> DEFINE n == parsed.index - 1
  <2>1. command \in Commands /\ Read(command.argv, parsed)
        /\ ~parsed.rejected /\ parsed.index > Len(command.argv)
    BY DEF StartupInv, ParseInv
  <2>2. Len(command.argv) \in Nat /\ DOMAIN command.argv = 1 .. Len(command.argv)
    BY <2>1, CommandLine
  <2>3. n = Len(command.argv)
    BY <2>1, <2>2 DEF Read
  <2>4. PICK place \in [DOMAIN parsed.args -> 1 .. n] : RestOf(command.argv, n, parsed.args, place)
    BY <2>1 DEF Read
  <2> HIDE DEF n
  <2> QED
    BY <2>2, <2>3, <2>4
<1> QED
  BY <1>1, <1>2, PTL

-----------------------------------------------------------------------------
(* The plan. *)

\* The fields of a plan.
PlanFields == {"index", "whole", "format", "options", "targets", "flags", "maxWarnings"}

\* The value that an option takes: one behind an equals sign or the next token.
Valued(args, i, n) == IF args[i].value = {} THEN n = 2 /\ i < Len(args) ELSE n = 1
ValueOf(args, i) == IF args[i].value = {} THEN {args[i + 1]} ELSE {Word(v) : v \in args[i].value}

\* One step of the loop of planSharding.
Targets(args, s, r) ==
    LET t == args[s.index]
    IN  /\ r.options = s.options
        /\ \/ /\ t.name \notin DashDashed \cup Dashed /\ r.index = s.index + 1
              /\ r.targets = Append(s.targets, t)
           \/ /\ t = Separator /\ r.index = Len(args) + 1
              /\ r.targets = s.targets \o SubSeq(args, s.index + 1, Len(args))
Reports(args, s, r) ==
    LET t == args[s.index]
    IN  /\ r.options = s.options /\ r.targets = s.targets
        /\ \/ t.name \in ReportFlags /\ r.index = s.index + 1
           \/ \E n \in {1, 2} : /\ t.name \in ReportValues /\ Valued(args, s.index, n)
                                /\ r.index = s.index + n
Passes(args, s, r) ==
    LET t == args[s.index]
    IN  /\ r.targets = s.targets
        /\ \/ /\ t.name \in FlagNames /\ r.index = s.index + 1
              /\ r.options = Append(s.options, t)
           \/ \E n \in {1, 2} :
                  /\ t.name \in ValueNames /\ Valued(args, s.index, n)
                  /\ r.index = s.index + n
                  /\ \E v \in ValueOf(args, s.index) :
                         r.options = s.options \o <<Word(t.name), v>>

\* An option with a value (lint-shard.ts:101-118).
LEMMA ValuePlanned ==
    ASSUME NEW args, NEW s, DOMAIN s = PlanFields, ~s.whole,
           NEW r, r = PlanValue(args, s, s.index),
           args[s.index].name \in ValueNames \cup ReportValues
    PROVE  /\ DOMAIN r = PlanFields
           /\ r.whole \/ (~r.whole /\ (Reports(args, s, r) \/ Passes(args, s, r)))
<1> DEFINE i == s.index
           t == args[i]
           name == t.name
           inline == {Word(v) : v \in t.value}
           value == IF inline = {} THEN Following(args, i) ELSE inline
           n == IF inline = {} THEN 2 ELSE 1
           next == [s EXCEPT !.index = i + n]
           numbers == {Numbers[v.name] : v \in value}
           given == <<Word(name), CHOOSE v \in value : TRUE>>
<1>1. CASE value = {}
  <2>1. r = [s EXCEPT !.whole = TRUE]
    BY <1>1 DEF PlanValue
  <2>2. DOMAIN r = PlanFields /\ r.whole = TRUE
    BY <2>1 DEF PlanFields
  <2> QED
    BY <2>2
<1>2. CASE value # {}
  <2>1. inline = {} <=> t.value = {}
    OBVIOUS
  <2>2. n \in {1, 2} /\ Valued(args, i, n)
    <3>1. CASE inline = {}
      BY <1>2, <2>1, <3>1 DEF Valued, Following
    <3>2. CASE inline # {}
      BY <2>1, <3>2 DEF Valued
    <3> QED
      BY <3>1, <3>2
  <2>3. value = ValueOf(args, i)
    <3>1. CASE inline = {}
      BY <1>2, <2>1, <3>1 DEF ValueOf, Following
    <3>2. CASE inline # {}
      BY <2>1, <3>2 DEF ValueOf
    <3> QED
      BY <3>1, <3>2
  <2>4. DOMAIN next = PlanFields /\ next.index = i + n /\ ~next.whole
        /\ next.options = s.options /\ next.targets = s.targets
    <3> HIDE DEF n
    <3> QED
      BY DEF PlanFields
  <2>5. \/ name \in {"-f", "--format"} /\ r = [next EXCEPT !.format = value]
        \/ name = "--threads" /\ r = next
        \/ name = "--max-warnings" /\ r = [next EXCEPT !.maxWarnings = numbers]
        \/ r = [s EXCEPT !.whole = TRUE]
        \/ /\ name \notin {"-f", "--format", "--threads", "--max-warnings"}
           /\ r = [next EXCEPT !.options = @ \o given]
    BY <1>2 DEF PlanValue
  <2> DEFINE options == s.options \o given
  <2>6. (CHOOSE v \in value : TRUE) \in ValueOf(args, i)
    BY <1>2, <2>3
  <2>7. \E v \in ValueOf(args, i) : options = s.options \o <<Word(name), v>>
    BY <2>6
  <2> HIDE DEF value, numbers, n
  <2>8. CASE r = [s EXCEPT !.whole = TRUE]
    <3>1. DOMAIN r = PlanFields /\ r.whole = TRUE
      BY <2>8 DEF PlanFields
    <3> QED
      BY <3>1
  <2>9. CASE /\ name \notin {"-f", "--format", "--threads", "--max-warnings"}
             /\ r = [next EXCEPT !.options = @ \o given]
    <3>1. r = [next EXCEPT !.options = options]
      BY <2>4, <2>9
    <3> HIDE DEF options, next
    <3>2. /\ DOMAIN r = PlanFields /\ ~r.whole /\ r.index = i + n
          /\ r.options = options /\ r.targets = s.targets
      BY <2>4, <3>1 DEF PlanFields
    <3>3. name \in ValueNames
      BY <2>9 DEF ReportValues
    <3>4. Passes(args, s, r)
      BY <2>2, <2>7, <3>2, <3>3 DEF Passes
    <3> QED
      BY <3>2, <3>4
  <2>10. CASE \/ name \in {"-f", "--format"} /\ r = [next EXCEPT !.format = value]
              \/ name = "--threads" /\ r = next
              \/ name = "--max-warnings" /\ r = [next EXCEPT !.maxWarnings = numbers]
    <3>1. name \in ReportValues
      BY <2>10 DEF ReportValues
    <3> HIDE DEF next
    <3>2. /\ DOMAIN r = PlanFields /\ ~r.whole /\ r.index = i + n
          /\ r.options = s.options /\ r.targets = s.targets
      BY <2>4, <2>10 DEF PlanFields
    <3>3. Reports(args, s, r)
      BY <2>2, <3>1, <3>2 DEF Reports
    <3> QED
      BY <3>2, <3>3
  <2> QED
    BY <2>5, <2>8, <2>9, <2>10
<1> QED
  BY <1>1, <1>2

\* Any argument (lint-shard.ts:82-122).
LEMMA ArgumentPlanned ==
    ASSUME NEW args, NEW s, DOMAIN s = PlanFields, ~s.whole, NEW r, r = PlanStep(args, s)
    PROVE  /\ DOMAIN r = PlanFields
           /\ \/ r.whole
              \/ ~r.whole /\ (Targets(args, s, r) \/ Reports(args, s, r) \/ Passes(args, s, r))
<1> DEFINE i == s.index
           t == args[i]
           rest == s.targets \o SubSeq(args, i + 1, Len(args))
           longer == Append(s.targets, t)
           options == Append(s.options, t)
           flags == s.flags \cup {t.name}
<1>1. \/ t = Separator /\ r = [s EXCEPT !.targets = rest, !.index = Len(args) + 1]
      \/ /\ t.name \notin DashDashed \cup Dashed
         /\ r = [s EXCEPT !.targets = longer, !.index = i + 1]
      \/ t.name \in FlagNames /\ r = [s EXCEPT !.options = options, !.index = i + 1]
      \/ t.name \in ReportFlags /\ r = [s EXCEPT !.flags = flags, !.index = i + 1]
      \/ t.name \in ValueNames \cup ReportValues /\ r = PlanValue(args, s, i)
      \/ r = [s EXCEPT !.whole = TRUE]
  BY DEF PlanStep
<1>2. CASE t = Separator /\ r = [s EXCEPT !.targets = rest, !.index = Len(args) + 1]
  <2>1. rest = s.targets \o SubSeq(args, i + 1, Len(args))
    OBVIOUS
  <2> HIDE DEF rest
  <2>2. /\ DOMAIN r = PlanFields /\ ~r.whole /\ r.index = Len(args) + 1
        /\ r.options = s.options /\ r.targets = rest
    BY <1>2 DEF PlanFields
  <2>3. Targets(args, s, r)
    BY <1>2, <2>1, <2>2 DEF Targets
  <2> QED
    BY <2>2, <2>3
<1>3. CASE /\ t.name \notin DashDashed \cup Dashed
           /\ r = [s EXCEPT !.targets = longer, !.index = i + 1]
  <2>1. longer = Append(s.targets, t)
    OBVIOUS
  <2> HIDE DEF longer
  <2>2. /\ DOMAIN r = PlanFields /\ ~r.whole /\ r.index = i + 1
        /\ r.options = s.options /\ r.targets = longer
    BY <1>3 DEF PlanFields
  <2>3. Targets(args, s, r)
    BY <1>3, <2>1, <2>2 DEF Targets
  <2> QED
    BY <2>2, <2>3
<1>4. CASE t.name \in FlagNames /\ r = [s EXCEPT !.options = options, !.index = i + 1]
  <2>1. options = Append(s.options, t)
    OBVIOUS
  <2> HIDE DEF options
  <2>2. /\ DOMAIN r = PlanFields /\ ~r.whole /\ r.index = i + 1
        /\ r.options = options /\ r.targets = s.targets
    BY <1>4 DEF PlanFields
  <2>3. Passes(args, s, r)
    BY <1>4, <2>1, <2>2 DEF Passes
  <2> QED
    BY <2>2, <2>3
<1>5. CASE t.name \in ReportFlags /\ r = [s EXCEPT !.flags = flags, !.index = i + 1]
  <2> HIDE DEF flags
  <2>1. /\ DOMAIN r = PlanFields /\ ~r.whole /\ r.index = i + 1
        /\ r.options = s.options /\ r.targets = s.targets
    BY <1>5 DEF PlanFields
  <2>2. Reports(args, s, r)
    BY <1>5, <2>1 DEF Reports
  <2> QED
    BY <2>1, <2>2
<1>6. CASE t.name \in ValueNames \cup ReportValues /\ r = PlanValue(args, s, i)
  BY <1>6, ValuePlanned
<1>7. CASE r = [s EXCEPT !.whole = TRUE]
  <2>1. DOMAIN r = PlanFields /\ r.whole = TRUE
    BY <1>7 DEF PlanFields
  <2> QED
    BY <2>1
<1> QED
  BY <1>1, <1>2, <1>3, <1>4, <1>5, <1>6, <1>7

\* Of the first n arguments, T are targets, O are options and the others are for the report.
Divided(args, n, T, O, end) ==
    LET rest == 1 .. n \ (T \cup O \cup {end})
        Behind(i, names) == args[i - 1].name \in names /\ args[i - 1].value = {}
    IN  /\ T \cap O = {}
        /\ end <= n => end \notin T \cup O /\ args[end] = Separator /\ end + 1 .. n \subseteq T
        /\ \A i \in T : args[i].name \in DashDashed \cup Dashed => end < i
        /\ \A i \in O : \/ args[i].name \in FlagNames \cup ValueNames
                        \/ i - 1 \in O /\ Behind(i, ValueNames)
        /\ \A i \in rest : \/ args[i].name \in ReportFlags \cup ReportValues
                           \/ i - 1 \in rest /\ Behind(i, ReportValues)

LEMMA SplitParts ==
    ASSUME NEW args, NEW n, NEW p, NEW targetsAt, NEW optionsAt, NEW end
    PROVE  SplitOf(args, n, p, targetsAt, optionsAt, end) <=>
               /\ InOrder(p.targets, args, targetsAt) /\ SpelledOut(p.options, args, optionsAt)
               /\ Divided(args, n, Places(targetsAt), Places(optionsAt), end)
  BY DEF SplitOf, Divided

\* Further arguments before the double dash at the end.
LEMMA MoreDivided ==
    ASSUME NEW args, NEW n \in Nat, NEW d \in Nat, NEW l \in Nat, n + d <= l,
           NEW T \in SUBSET (1 .. n), NEW O \in SUBSET (1 .. n),
           Divided(args, n, T, O, l + 1),
           NEW X \in SUBSET (n + 1 .. n + d), NEW Y \in SUBSET (n + 1 .. n + d), X \cap Y = {},
           \A i \in X : args[i].name \notin DashDashed \cup Dashed,
           \A i \in Y : \/ args[i].name \in FlagNames \cup ValueNames
                        \/ /\ i - 1 \in Y
                           /\ args[i - 1].name \in ValueNames /\ args[i - 1].value = {},
           \A i \in n + 1 .. n + d \ (X \cup Y) :
               \/ args[i].name \in ReportFlags \cup ReportValues
               \/ /\ i - 1 \in n + 1 .. n + d \ (X \cup Y)
                  /\ args[i - 1].name \in ReportValues /\ args[i - 1].value = {}
    PROVE  Divided(args, n + d, T \cup X, O \cup Y, l + 1)
<1> DEFINE old == 1 .. n \ (T \cup O \cup {l + 1})
           fresh == n + 1 .. n + d \ (X \cup Y)
           rest == 1 .. n + d \ ((T \cup X) \cup (O \cup Y) \cup {l + 1})
<1>1. (T \cup X) \cap (O \cup Y) = {}
  <2>1. T \cap O = {}
    BY DEF Divided
  <2>2. \A i : ~(i \in 1 .. n /\ i \in n + 1 .. n + d)
    OBVIOUS
  <2>3. T \cap Y = {} /\ X \cap O = {}
    BY <2>2
  <2> QED
    BY <2>1, <2>3
<1>2. ~(l + 1 <= n + d)
  OBVIOUS
<1>3. \A i \in T \cup X : args[i].name \in DashDashed \cup Dashed => l + 1 < i
  BY DEF Divided
<1>4. ASSUME NEW i \in O \cup Y
      PROVE  \/ args[i].name \in FlagNames \cup ValueNames
             \/ i - 1 \in O \cup Y /\ args[i - 1].name \in ValueNames /\ args[i - 1].value = {}
  BY DEF Divided
<1>5. old \subseteq rest /\ fresh \subseteq rest /\ \A i \in rest : i \in old \/ i \in fresh
  OBVIOUS
<1>6. ASSUME NEW i \in rest
      PROVE  \/ args[i].name \in ReportFlags \cup ReportValues
             \/ i - 1 \in rest /\ args[i - 1].name \in ReportValues /\ args[i - 1].value = {}
  <2>1. CASE i \in old
    <3>1. \/ args[i].name \in ReportFlags \cup ReportValues
          \/ i - 1 \in old /\ args[i - 1].name \in ReportValues /\ args[i - 1].value = {}
      BY <2>1 DEF Divided
    <3> HIDE DEF old, rest
    <3> QED
      BY <1>5, <3>1
  <2>2. CASE i \in fresh
    <3>1. \/ args[i].name \in ReportFlags \cup ReportValues
          \/ i - 1 \in fresh /\ args[i - 1].name \in ReportValues /\ args[i - 1].value = {}
      BY <2>2
    <3> HIDE DEF fresh, rest
    <3> QED
      BY <1>5, <3>1
  <2> QED
    BY <1>5, <2>1, <2>2
<1> QED
  BY <1>1, <1>2, <1>3, <1>4, <1>6 DEF Divided

\* The double dash and everything behind it.
LEMMA EndDivided ==
    ASSUME NEW args, NEW n \in Nat, NEW l \in Nat, n + 1 <= l, args[n + 1] = Separator,
           NEW T \in SUBSET (1 .. n), NEW O \in SUBSET (1 .. n),
           Divided(args, n, T, O, l + 1)
    PROVE  Divided(args, l, T \cup (n + 2 .. l), O, n + 1)
<1> DEFINE old == 1 .. n \ (T \cup O \cup {l + 1})
           rest == 1 .. l \ ((T \cup (n + 2 .. l)) \cup O \cup {n + 1})
<1>1. (T \cup (n + 2 .. l)) \cap O = {}
  <2>1. T \cap O = {}
    BY DEF Divided
  <2> QED
    BY <2>1
<1>2. n + 1 \notin (T \cup (n + 2 .. l)) \cup O /\ n + 1 + 1 .. l \subseteq T \cup (n + 2 .. l)
  OBVIOUS
<1>3. ASSUME NEW i \in T \cup (n + 2 .. l), args[i].name \in DashDashed \cup Dashed
      PROVE  n + 1 < i
  <2>1. i \notin T
    BY <1>3 DEF Divided
  <2> QED
    BY <2>1
<1>4. rest = old
  OBVIOUS
<1>5. /\ \A i \in O : \/ args[i].name \in FlagNames \cup ValueNames
                      \/ /\ i - 1 \in O
                         /\ args[i - 1].name \in ValueNames /\ args[i - 1].value = {}
      /\ \A i \in old : \/ args[i].name \in ReportFlags \cup ReportValues
                        \/ /\ i - 1 \in old
                           /\ args[i - 1].name \in ReportValues /\ args[i - 1].value = {}
  BY DEF Divided
<1> QED
  BY <1>1, <1>2, <1>3, <1>4, <1>5 DEF Divided

\* Is the argument at position i what it is among the options, or the two words of it?
SpeltAt(options, t, place, i) ==
    \E k \in DOMAIN place :
        LET words == {j \in DOMAIN place : place[j] = i}
        IN  \/ words = {k} /\ options[k] = t[i]
            \/ /\ words = {k, k + 1} /\ options[k] = Word(t[i].name)
               /\ {options[k + 1]} = {Word(v) : v \in t[i].value}

\* More options with further places, behind position n.
Longer(s, place, n, d, more, q) ==
    /\ DOMAIN q = 1 .. Len(s) + d
    /\ \A k \in 1 .. Len(s) : q[k] = place[k] /\ more[k] = s[k]
    /\ \A k \in Len(s) + 1 .. Len(s) + d : q[k] \in Int /\ n < q[k]
    /\ \A j, k \in Len(s) + 1 .. Len(s) + d : j < k => q[j] <= q[k]

\* They change nothing at the places so far.
LEMMA StillSpelt ==
    ASSUME NEW S, NEW s \in Seq(S), NEW more, NEW t, NEW n \in Nat, NEW d \in Nat,
           NEW place \in [DOMAIN s -> 1 .. n], SpelledOut(s, t, place),
           NEW q, Longer(s, place, n, d, more, q)
    PROVE  /\ \A i \in Places(place) : SpeltAt(more, t, q, i)
           /\ \A j, k \in DOMAIN q : j < k => q[j] <= q[k]
<1> DEFINE l == Len(s)
<1>1. /\ DOMAIN q = 1 .. l + d
      /\ \A k \in 1 .. l : q[k] = place[k] /\ more[k] = s[k]
      /\ \A k \in l + 1 .. l + d : q[k] \in Int /\ n < q[k]
      /\ \A j, k \in l + 1 .. l + d : j < k => q[j] <= q[k]
  BY DEF Longer
<1>2. l \in Nat /\ DOMAIN s = 1 .. l /\ DOMAIN place = 1 .. l
  OBVIOUS
<1>3. \A k \in 1 .. l + d : k \in 1 .. l \/ k \in l + 1 .. l + d
  BY <1>2
<1>4. ASSUME NEW i \in Places(place) PROVE SpeltAt(more, t, q, i)
  <2>1. i \in 1 .. n /\ \A k \in l + 1 .. l + d : q[k] # i
    BY <1>1 DEF Places
  <2> DEFINE words == {j \in 1 .. l : place[j] = i}
  <2>2. {j \in 1 .. l + d : q[j] = i} = words
    BY <1>1, <1>2, <1>3, <2>1
  <2>3. PICK k \in 1 .. l :
            \/ words = {k} /\ s[k] = t[i]
            \/ /\ words = {k, k + 1} /\ s[k] = Word(t[i].name)
               /\ {s[k + 1]} = {Word(v) : v \in t[i].value}
    BY <1>2 DEF SpelledOut
  <2>4. (k + 1 \in words => k + 1 \in 1 .. l) /\ k \in 1 .. l + d
    BY <1>2
  <2> HIDE DEF words
  <2> QED
    BY <1>1, <1>2, <2>2, <2>3, <2>4 DEF SpeltAt
<1>5. \A j, k \in 1 .. l + d : j < k => q[j] <= q[k]
  <2>1. \A j, k \in 1 .. l : j < k => q[j] <= q[k]
    BY <1>1, <1>2 DEF SpelledOut
  <2>2. \A j \in 1 .. l, k \in l + 1 .. l + d : q[j] <= q[k]
    <3>1. \A j \in 1 .. l : q[j] \in Int /\ q[j] <= n
      BY <1>1, <1>2
    <3> QED
      BY <1>1, <3>1
  <2>3. \A j \in l + 1 .. l + d, k \in 1 .. l : ~(j < k)
    BY <1>2
  <2> QED
    BY <1>1, <1>3, <2>1, <2>2, <2>3
<1> QED
  BY <1>1, <1>4, <1>5

\* The places of what the options are followed by are added to those of the options.
Spells(q, place, more, t, n, d) ==
    /\ q \in [DOMAIN more -> 1 .. n + d] /\ SpelledOut(more, t, q)
    /\ Places(q) = Places(place) \cup (n + 1 .. n + d)

\* The options are followed by d arguments as they are.
LEMMA OptionsGrow ==
    ASSUME NEW S, NEW s \in Seq(S), NEW more \in Seq(S), NEW t, NEW n \in Nat, NEW d \in Nat,
           NEW place \in [DOMAIN s -> 1 .. n], SpelledOut(s, t, place),
           Grows(s, more, t, n, d)
    PROVE  \E q : Spells(q, place, more, t, n, d)
<1> DEFINE l == Len(s)
           q == [k \in DOMAIN more |-> IF k <= l THEN place[k] ELSE n + (k - l)]
<1>1. l \in Nat /\ DOMAIN s = 1 .. l /\ DOMAIN more = 1 .. l + d /\ DOMAIN place = 1 .. l
  BY DEF Grows
<1>2. \A k \in 1 .. l : place[k] \in 1 .. n /\ q[k] = place[k] /\ more[k] = s[k]
  BY <1>1 DEF Grows
<1>3. \A k \in l + 1 .. l + d : q[k] = n + (k - l) /\ k - l \in 1 .. d /\ k = l + (k - l)
  BY <1>1
<1>4. \A k \in 1 .. l + d : k \in 1 .. l \/ k \in l + 1 .. l + d
  BY <1>1
<1>5. q \in [DOMAIN more -> 1 .. n + d] /\ DOMAIN q = 1 .. l + d
  BY <1>1, <1>2, <1>3, <1>4
<1> HIDE DEF q
<1>6. \A k \in l + 1 .. l + d : more[k] = t[q[k]] /\ q[k] \in n + 1 .. n + d
  <2> SUFFICES ASSUME NEW k \in l + 1 .. l + d
               PROVE  more[k] = t[q[k]] /\ q[k] \in n + 1 .. n + d
    OBVIOUS
  <2>1. q[k] = n + (k - l) /\ k - l \in 1 .. d /\ k = l + (k - l)
    BY <1>3
  <2>2. \A j \in 1 .. d : more[l + j] = t[n + j]
    BY DEF Grows
  <2>3. more[l + (k - l)] = t[n + (k - l)]
    BY <2>1, <2>2
  <2> QED
    BY <2>1, <2>3
<1>7. /\ \A i \in Places(place) : SpeltAt(more, t, q, i)
      /\ \A j, k \in DOMAIN q : j < k => q[j] <= q[k]
  <2>1. \A k \in l + 1 .. l + d : q[k] \in Int /\ n < q[k]
    BY <1>6
  <2>2. \A j, k \in l + 1 .. l + d : j < k => q[j] <= q[k]
    BY <1>1, <1>3
  <2>3. Longer(s, place, n, d, more, q)
    BY <1>2, <1>5, <2>1, <2>2 DEF Longer
  <2> QED
    BY <2>3, StillSpelt
<1>8. Places(q) = Places(place) \cup (n + 1 .. n + d)
  <2>1. \A x \in Places(q) : x \in Places(place) \cup (n + 1 .. n + d)
    BY <1>1, <1>2, <1>4, <1>5, <1>6 DEF Places
  <2>2. \A x \in Places(place) : x \in Places(q)
    BY <1>1, <1>2, <1>5 DEF Places
  <2>3. \A x \in n + 1 .. n + d : x \in Places(q)
    <3> SUFFICES ASSUME NEW x \in n + 1 .. n + d PROVE x \in Places(q)
      OBVIOUS
    <3>1. l + (x - n) \in l + 1 .. l + d /\ n + ((l + (x - n)) - l) = x
      BY <1>1
    <3>2. q[l + (x - n)] = x
      BY <1>3, <3>1
    <3>3. l + (x - n) \in DOMAIN q
      BY <1>1, <1>5, <3>1
    <3> QED
      BY <3>2, <3>3 DEF Places
  <2> QED
    BY <2>1, <2>2, <2>3
<1>9. ASSUME NEW i \in n + 1 .. n + d PROVE SpeltAt(more, t, q, i)
  <2> DEFINE k == l + (i - n)
  <2>1. k \in l + 1 .. l + d /\ k - l = i - n /\ n + (k - l) = i
    BY <1>1
  <2> HIDE DEF k
  <2>2. q[k] = i /\ more[k] = t[i]
    BY <1>3, <1>6, <2>1
  <2>3. \A j \in l + 1 .. l + d : q[j] = i => j = k
    BY <1>1, <1>3, <2>1
  <2>4. \A j \in 1 .. l : q[j] # i
    BY <1>2
  <2>5. {j \in 1 .. l + d : q[j] = i} = {k} /\ k \in 1 .. l + d
    BY <1>1, <1>4, <2>1, <2>2, <2>3, <2>4
  <2> QED
    BY <1>5, <2>2, <2>5 DEF SpeltAt
<1>10. SpelledOut(more, t, q)
  <2>1. \A i \in Places(q) : SpeltAt(more, t, q, i)
    BY <1>7, <1>8, <1>9
  <2>2. DOMAIN q = DOMAIN more
    BY <1>1, <1>5
  <2> QED
    BY <1>7, <2>1, <2>2 DEF SpelledOut, SpeltAt
<1> QED
  BY <1>5, <1>8, <1>10 DEF Spells

\* The options are followed by the two words of one argument.
LEMMA WordsGrow ==
    ASSUME NEW S, NEW s \in Seq(S), NEW more \in Seq(S), NEW t, NEW n \in Nat,
           NEW place \in [DOMAIN s -> 1 .. n], SpelledOut(s, t, place),
           NEW words, Grows(s, more, words, 0, 2),
           words[1] = Word(t[n + 1].name),
           {words[2]} = {Word(v) : v \in t[n + 1].value}
    PROVE  \E q : Spells(q, place, more, t, n, 1)
<1> DEFINE l == Len(s)
           q == [k \in DOMAIN more |-> IF k <= l THEN place[k] ELSE n + 1]
<1>1. /\ l \in Nat /\ DOMAIN s = 1 .. l /\ DOMAIN more = 1 .. l + 2 /\ DOMAIN place = 1 .. l
      /\ more[l + 1] = words[1] /\ more[l + 2] = words[2]
  <2>1. \A j \in 1 .. 2 : more[l + j] = words[0 + j]
    BY DEF Grows
  <2>2. more[l + 1] = words[0 + 1] /\ more[l + 2] = words[0 + 2]
    BY <2>1
  <2> QED
    BY <2>2 DEF Grows
<1>2. \A k \in 1 .. l : place[k] \in 1 .. n /\ q[k] = place[k] /\ more[k] = s[k]
  BY <1>1 DEF Grows
<1>3. \A k \in l + 1 .. l + 2 : q[k] = n + 1
  BY <1>1
<1>4. \A k \in 1 .. l + 2 : k \in 1 .. l \/ k \in l + 1 .. l + 2
  BY <1>1
<1>5. q \in [DOMAIN more -> 1 .. n + 1] /\ DOMAIN q = 1 .. l + 2
  BY <1>1, <1>2, <1>3, <1>4
<1> HIDE DEF q
<1>6. /\ \A i \in Places(place) : SpeltAt(more, t, q, i)
      /\ \A j, k \in DOMAIN q : j < k => q[j] <= q[k]
  <2>1. /\ \A k \in l + 1 .. l + 2 : q[k] \in Int /\ n < q[k]
        /\ \A j, k \in l + 1 .. l + 2 : j < k => q[j] <= q[k]
    <3> DEFINE e == n + 1
    <3>1. e \in Int /\ n < e /\ e <= e
      OBVIOUS
    <3>2. \A k \in l + 1 .. l + 2 : q[k] = e
      BY <1>3
    <3> HIDE DEF e
    <3> QED
      BY <3>1, <3>2
  <2>2. Longer(s, place, n, 2, more, q)
    BY <1>2, <1>5, <2>1 DEF Longer
  <2> QED
    BY <2>2, StillSpelt
<1>7. l + 1 \in DOMAIN q /\ l + 1 \in l + 1 .. l + 2
  BY <1>1, <1>5
<1>8. Places(q) = Places(place) \cup (n + 1 .. n + 1)
  <2>1. \A x \in Places(q) : x \in Places(place) \cup (n + 1 .. n + 1)
    BY <1>1, <1>2, <1>3, <1>4, <1>5 DEF Places
  <2>2. \A x \in Places(place) : x \in Places(q)
    BY <1>1, <1>2, <1>5 DEF Places
  <2>3. n + 1 \in Places(q)
    BY <1>3, <1>7 DEF Places
  <2>4. \A x \in n + 1 .. n + 1 : x = n + 1
    OBVIOUS
  <2> QED
    BY <2>1, <2>2, <2>3, <2>4
<1>9. SpeltAt(more, t, q, n + 1)
  <2>1. \A j \in 1 .. l : q[j] # n + 1
    BY <1>2
  <2>2. {j \in 1 .. l + 2 : q[j] = n + 1} = l + 1 .. l + 2
    BY <1>1, <1>3, <1>4, <2>1
  <2>3. l + 1 .. l + 2 = {l + 1, l + 1 + 1} /\ l + 1 + 1 = l + 2
    BY <1>1
  <2> QED
    BY <1>1, <1>5, <1>7, <2>2, <2>3 DEF SpeltAt
<1>10. SpelledOut(more, t, q)
  <2>1. \A i \in n + 1 .. n + 1 : i = n + 1
    OBVIOUS
  <2>2. \A i \in Places(q) : SpeltAt(more, t, q, i)
    BY <1>6, <1>8, <1>9, <2>1
  <2>3. DOMAIN q = DOMAIN more
    BY <1>1, <1>5
  <2> QED
    BY <1>6, <2>2, <2>3 DEF SpelledOut, SpeltAt
<1> QED
  BY <1>5, <1>8, <1>10 DEF Spells

\* What is appended may be named by where it comes from.
LEMMA GrowsFrom ==
    ASSUME NEW s, NEW more, NEW w, NEW t, NEW c \in Nat, NEW d \in Nat,
           Grows(s, more, w, 0, d), \A j \in 1 .. d : w[j] = t[c + j]
    PROVE  Grows(s, more, t, c, d)
<1>1. \A j \in 1 .. d : more[Len(s) + j] = w[0 + j] /\ w[0 + j] = w[j]
  BY DEF Grows
<1> QED
  BY <1>1 DEF Grows

\* One more item.
LEMMA Appended ==
    ASSUME NEW S, NEW a \in Seq(S), NEW x \in S
    PROVE  Append(a, x) \in Seq(S) /\ Grows(a, Append(a, x), <<x>>, 0, 1)
<1>1. \A j \in 1 .. 1 : j = 1 /\ 0 + j = 1
  OBVIOUS
<1>2. /\ Append(a, x) \in Seq(S) /\ Len(Append(a, x)) = Len(a) + 1
      /\ \A k \in 1 .. Len(a) : Append(a, x)[k] = a[k]
      /\ Append(a, x)[Len(a) + 1] = x
  OBVIOUS
<1> QED
  BY <1>1, <1>2 DEF Grows

\* What is behind a position.
LEMMA Remainder ==
    ASSUME NEW S, NEW a \in Seq(S), NEW c \in Nat, c <= Len(a)
    PROVE  /\ SubSeq(a, c + 1, Len(a)) \in Seq(S)
           /\ Len(SubSeq(a, c + 1, Len(a))) = Len(a) - c
           /\ \A j \in 1 .. Len(a) - c : SubSeq(a, c + 1, Len(a))[j] = a[c + j]
  OBVIOUS

\* The arguments, and each name and each value as a word of its own.
Spellings(args) ==
    Tokens(args) \cup {Word(args[i].name) : i \in DOMAIN args}
                 \cup (UNION {{Word(v) : v \in args[i].value} : i \in DOMAIN args})

\* The arguments of the engine are tokens of the command line.
Tokened(args) ==
    /\ Len(args) \in Nat /\ DOMAIN args = 1 .. Len(args) /\ args \in Seq(Tokens(args))
    /\ \A i \in 1 .. Len(args) :
           /\ args[i] = [name |-> args[i].name, value |-> args[i].value]
           /\ \A v, w \in args[i].value : v = w

\* What has been planned so far.
Planning(args, p) ==
    /\ DOMAIN p = PlanFields
    /\ ~p.whole =>
           /\ p.index \in 1 .. Len(args) + 1
           /\ p.targets \in Seq(Tokens(args)) /\ p.options \in Seq(Spellings(args))
           /\ \E targetsAt \in [DOMAIN p.targets -> 1 .. p.index - 1],
                 optionsAt \in [DOMAIN p.options -> 1 .. p.index - 1],
                 end \in 1 .. Len(args) + 1 :
                     /\ SplitOf(args, p.index - 1, p, targetsAt, optionsAt, end)
                     /\ p.index <= Len(args) => end = Len(args) + 1

LEMMA NothingPlanned ==
    ASSUME NEW args, Tokened(args), NEW w \in BOOLEAN
    PROVE  Planning(args, [Unplanned EXCEPT !.whole = w])
<1> DEFINE p == [Unplanned EXCEPT !.whole = w]
           none == [k \in {} |-> 0]
           l == Len(args)
<1>1. /\ DOMAIN p = PlanFields /\ p.index = 1 /\ p.targets = <<>> /\ p.options = <<>>
  BY DEF Unplanned, PlanFields
<1>2. l \in Nat
  BY DEF Tokened
<1> HIDE DEF p
<1>3. /\ p.targets \in Seq(Tokens(args)) /\ DOMAIN p.targets = {}
      /\ p.options \in Seq(Spellings(args)) /\ DOMAIN p.options = {}
  BY <1>1
<1>4. none \in [{} -> 1 .. 0] /\ DOMAIN none = {}
  OBVIOUS
<1> HIDE DEF none
<1>5. Places(none) = {}
  BY <1>4 DEF Places
<1>6. InOrder(p.targets, args, none) /\ SpelledOut(p.options, args, none)
  BY <1>3, <1>4, <1>5 DEF InOrder, SpelledOut
<1>7. Divided(args, 0, {}, {}, l + 1)
  BY <1>2 DEF Divided
<1>8. SplitOf(args, 0, p, none, none, l + 1)
  BY <1>5, <1>6, <1>7, SplitParts
<1>9. p.index - 1 = 0 /\ p.index \in 1 .. l + 1 /\ l + 1 \in 1 .. l + 1
  BY <1>1, <1>2
<1> QED
  BY <1>1, <1>3, <1>4, <1>8, <1>9 DEF Planning, p

\* Whatever the next argument is, a plan that is kept accounts for it.
LEMMA PlanningGoesOn ==
    ASSUME NEW args, Tokened(args), NEW s, Planning(args, s), ~s.whole, s.index <= Len(args)
    PROVE  Planning(args, PlanStep(args, s))
<1> SUFFICES ASSUME NEW r, r = PlanStep(args, s) PROVE Planning(args, r)
  OBVIOUS
<1> DEFINE i == s.index
           t == args[i]
           n == i - 1
           l == Len(args)
<1>1. /\ l \in Nat /\ i \in 1 .. l /\ DOMAIN args = 1 .. l
      /\ n \in Nat /\ n + 1 = i /\ n + 1 <= l
  BY DEF Tokened, Planning
<1>2. s.targets \in Seq(Tokens(args)) /\ s.options \in Seq(Spellings(args))
  BY DEF Planning
<1>3. PICK targetsAt \in [DOMAIN s.targets -> 1 .. n],
           optionsAt \in [DOMAIN s.options -> 1 .. n], end \in 1 .. l + 1 :
               SplitOf(args, n, s, targetsAt, optionsAt, end) /\ end = l + 1
  BY DEF Planning
<1> DEFINE T == Places(targetsAt)
           O == Places(optionsAt)
<1>4. /\ InOrder(s.targets, args, targetsAt) /\ SpelledOut(s.options, args, optionsAt)
      /\ Divided(args, n, T, O, l + 1)
  BY <1>3, SplitParts
<1>5. T \in SUBSET (1 .. n) /\ O \in SUBSET (1 .. n)
  BY DEF Places
<1>6. /\ DOMAIN r = PlanFields
      /\ \/ r.whole
         \/ ~r.whole /\ (Targets(args, s, r) \/ Reports(args, s, r) \/ Passes(args, s, r))
  BY ArgumentPlanned DEF Planning
<1>7. CASE r.whole
  BY <1>6, <1>7 DEF Planning
\* It is enough to have the places.
<1>8. ASSUME NEW m \in Nat, ~r.whole, r.index = m + 1, m <= l,
             r.targets \in Seq(Tokens(args)), r.options \in Seq(Spellings(args)),
             NEW p \in [DOMAIN r.targets -> 1 .. m], NEW q \in [DOMAIN r.options -> 1 .. m],
             NEW e \in 1 .. l + 1,
             InOrder(r.targets, args, p), SpelledOut(r.options, args, q),
             Divided(args, m, Places(p), Places(q), e), m < l => e = l + 1
      PROVE  Planning(args, r)
  <2>1. SplitOf(args, m, r, p, q, e)
    BY <1>8, SplitParts
  <2>2. r.index - 1 = m /\ r.index \in 1 .. l + 1 /\ (r.index <= l => e = l + 1)
    BY <1>1, <1>8
  <2> QED
    BY <1>6, <1>8, <2>1, <2>2 DEF Planning
\* An argument that is a target.
<1>9. CASE /\ ~r.whole /\ r.options = s.options /\ r.index = i + 1
           /\ t.name \notin DashDashed \cup Dashed /\ r.targets = Append(s.targets, t)
  <2>1. t \in Tokens(args)
    BY <1>1 DEF Tokens
  <2>2. r.targets \in Seq(Tokens(args)) /\ Grows(s.targets, r.targets, <<t>>, 0, 1)
    BY <1>2, <1>9, <2>1, Appended
  <2>3. \A j \in 1 .. 1 : <<t>>[j] = args[n + j]
    BY <1>1
  <2>4. Grows(s.targets, r.targets, args, n, 1) /\ n <= n /\ 1 \in Nat
    BY <1>1, <2>2, <2>3, GrowsFrom
  <2>5. PICK p : Extends(p, targetsAt, r.targets, args, n, 1)
    BY <1>1, <1>2, <1>4, <2>2, <2>4, InOrderGrows
  <2>6. /\ p \in [DOMAIN r.targets -> 1 .. n + 1] /\ InOrder(r.targets, args, p)
        /\ Places(p) = T \cup (n + 1 .. n + 1)
    BY <2>5 DEF Extends
  <2>7. optionsAt \in [DOMAIN r.options -> 1 .. n + 1]
    BY <1>1, <1>9
  <2>8. Divided(args, n + 1, T \cup (n + 1 .. n + 1), O \cup {}, l + 1)
    <3> DEFINE X == n + 1 .. n + 1
    <3>1. X \cap {} = {} /\ {} \in SUBSET X /\ X \in SUBSET (n + 1 .. n + 1)
      OBVIOUS
    <3>2. \A x \in X : args[x].name \notin DashDashed \cup Dashed
      BY <1>1, <1>9
    <3>3. n + 1 .. n + 1 \ (X \cup {}) = {}
      OBVIOUS
    <3> HIDE DEF X, T, O
    <3> QED
      BY <1>1, <1>4, <1>5, <3>1, <3>2, <3>3, MoreDivided DEF X
  <2>9. O \cup {} = O
    OBVIOUS
  <2>10. l + 1 \in 1 .. l + 1 /\ n + 1 \in Nat /\ r.index = (n + 1) + 1
    BY <1>1, <1>9
  <2> HIDE DEF T, O
  <2> QED
    BY <1>1, <1>2, <1>4, <1>8, <1>9, <2>2, <2>6, <2>7, <2>8, <2>9, <2>10 DEF O
\* The double dash.
<1>10. CASE /\ ~r.whole /\ r.options = s.options /\ t = Separator /\ r.index = l + 1
            /\ r.targets = s.targets \o SubSeq(args, i + 1, l)
  <2> DEFINE c == n + 1
             d == l - c
             rest == SubSeq(args, i + 1, l)
  <2>1. c \in Nat /\ d \in Nat /\ n <= c /\ c + d = l /\ c + 1 = n + 2
    BY <1>1
  <2>2. rest \in Seq(Tokens(args)) /\ Len(rest) = d /\ \A j \in 1 .. d : rest[j] = args[c + j]
    <3>1. args \in Seq(Tokens(args)) /\ c <= Len(args) /\ c + 1 = i + 1
      BY <1>1 DEF Tokened
    <3>2. rest = SubSeq(args, c + 1, Len(args)) /\ d = Len(args) - c
      BY <3>1
    <3> HIDE DEF c, d, rest
    <3>3. /\ SubSeq(args, c + 1, Len(args)) \in Seq(Tokens(args))
          /\ Len(SubSeq(args, c + 1, Len(args))) = Len(args) - c
          /\ \A j \in 1 .. Len(args) - c : SubSeq(args, c + 1, Len(args))[j] = args[c + j]
      BY <2>1, <3>1, Remainder
    <3> QED
      BY <3>2, <3>3
  <2> HIDE DEF d, rest
  <2>3. r.targets \in Seq(Tokens(args)) /\ Grows(s.targets, r.targets, rest, 0, Len(rest))
    <3>1. r.targets = s.targets \o rest
      BY <1>10 DEF rest
    <3> QED
      BY <1>2, <2>2, <3>1, Joined
  <2>4. Grows(s.targets, r.targets, args, c, d)
    <3> HIDE DEF c
    <3> QED
      BY <2>1, <2>2, <2>3, GrowsFrom
  <2>5. PICK p : Extends(p, targetsAt, r.targets, args, c, d)
    <3> HIDE DEF c
    <3> QED
      BY <1>1, <1>2, <1>4, <2>1, <2>3, <2>4, InOrderGrows
  <2>6. /\ p \in [DOMAIN r.targets -> 1 .. l] /\ InOrder(r.targets, args, p)
        /\ Places(p) = T \cup (n + 2 .. l)
    BY <2>1, <2>5 DEF Extends
  <2>7. optionsAt \in [DOMAIN r.options -> 1 .. l]
    BY <1>1, <1>10
  <2>8. Divided(args, l, T \cup (n + 2 .. l), O, n + 1)
    <3> HIDE DEF T, O
    <3> QED
      BY <1>1, <1>4, <1>5, <1>10, EndDivided
  <2>9. /\ n + 1 \in 1 .. l + 1 /\ r.index = l + 1 /\ ~(l < l) /\ ~r.whole
        /\ r.options = s.options
    BY <1>1, <1>10
  <2>10. Divided(args, l, Places(p), Places(optionsAt), n + 1)
    <3> HIDE DEF T
    <3> QED
      BY <2>6, <2>8
  <2>11. SpelledOut(r.options, args, optionsAt) /\ r.options \in Seq(Spellings(args))
    BY <1>2, <1>4, <2>9
  <2> DEFINE e == n + 1
  <2>12. e \in 1 .. l + 1 /\ Divided(args, l, Places(p), Places(optionsAt), e)
    BY <2>9, <2>10
  <2>13. l \in Nat /\ l <= l
    BY <1>1
  <2> HIDE DEF T, O, e, l, n
  <2> QED
    BY <1>8, <2>3, <2>6, <2>7, <2>9, <2>11, <2>12, <2>13
\* An option for the report, with its value.
<1>11. ASSUME NEW d \in {1, 2}, ~r.whole, r.options = s.options, r.targets = s.targets,
              r.index = i + d, n + d <= l,
              \A x \in n + 1 .. n + d :
                  \/ args[x].name \in ReportFlags \cup ReportValues
                  \/ /\ x - 1 \in n + 1 .. n + d
                     /\ args[x - 1].name \in ReportValues /\ args[x - 1].value = {}
       PROVE  Planning(args, r)
  <2>1. /\ targetsAt \in [DOMAIN r.targets -> 1 .. n + d]
        /\ optionsAt \in [DOMAIN r.options -> 1 .. n + d]
    BY <1>1, <1>11
  <2>2. Divided(args, n + d, T \cup {}, O \cup {}, l + 1)
    <3> DEFINE fresh == n + 1 .. n + d
    <3>1. {} \in SUBSET fresh /\ {} \cap {} = {} /\ fresh \ ({} \cup {}) = fresh /\ d \in Nat
      OBVIOUS
    <3> HIDE DEF fresh, T, O
    <3> QED
      BY <1>1, <1>4, <1>5, <1>11, <3>1, MoreDivided DEF fresh
  <2>3. T \cup {} = T /\ O \cup {} = O
    OBVIOUS
  <2>4. l + 1 \in 1 .. l + 1 /\ n + d \in Nat /\ r.index = (n + d) + 1
    BY <1>1, <1>11
  <2> HIDE DEF T, O
  <2> QED
    BY <1>1, <1>2, <1>4, <1>8, <1>11, <2>1, <2>2, <2>3, <2>4 DEF T, O
\* An option for every process, with its value.
<1>12. ASSUME NEW d \in {1, 2}, ~r.whole, r.targets = s.targets,
              r.index = i + d, n + d <= l, r.options \in Seq(Spellings(args)),
              NEW q, Spells(q, optionsAt, r.options, args, n, d),
              \A x \in n + 1 .. n + d :
                  \/ args[x].name \in FlagNames \cup ValueNames
                  \/ /\ x - 1 \in n + 1 .. n + d
                     /\ args[x - 1].name \in ValueNames /\ args[x - 1].value = {}
       PROVE  Planning(args, r)
  <2>1. targetsAt \in [DOMAIN r.targets -> 1 .. n + d]
    BY <1>1, <1>12
  <2>2. /\ q \in [DOMAIN r.options -> 1 .. n + d] /\ SpelledOut(r.options, args, q)
        /\ Places(q) = O \cup (n + 1 .. n + d)
    BY <1>12 DEF Spells
  <2>3. Divided(args, n + d, T \cup {}, O \cup (n + 1 .. n + d), l + 1)
    <3> DEFINE Y == n + 1 .. n + d
    <3>1. {} \in SUBSET Y /\ Y \in SUBSET Y /\ {} \cap Y = {} /\ Y \ ({} \cup Y) = {} /\ d \in Nat
      OBVIOUS
    <3> HIDE DEF Y, T, O
    <3> QED
      BY <1>1, <1>4, <1>5, <1>12, <3>1, MoreDivided DEF Y
  <2>4. T \cup {} = T
    OBVIOUS
  <2>5. l + 1 \in 1 .. l + 1 /\ n + d \in Nat /\ r.index = (n + d) + 1
    BY <1>1, <1>12
  <2> HIDE DEF T, O
  <2> QED
    BY <1>1, <1>2, <1>4, <1>8, <1>12, <2>2, <2>1, <2>3, <2>4, <2>5 DEF T
\* Where the value is.
<1>13. ASSUME NEW d \in {1, 2}, Valued(args, i, d)
       PROVE  /\ n + d <= l
              /\ \A x \in n + 1 .. n + d :
                     \/ x = i
                     \/ x - 1 = i /\ i \in n + 1 .. n + d /\ t.value = {}
  BY <1>1, <1>13 DEF Valued
<1>14. CASE ~r.whole /\ Reports(args, s, r)
  <2>1. CASE t.name \in ReportFlags /\ r.index = i + 1
    <3>1. \A x \in n + 1 .. n + 1 : x = i
      BY <1>1
    <3> QED
      BY <1>1, <1>11, <1>14, <2>1, <3>1 DEF Reports
  <2>2. ASSUME NEW d \in {1, 2}, t.name \in ReportValues, Valued(args, i, d), r.index = i + d
        PROVE  Planning(args, r)
    BY <1>11, <1>13, <1>14, <2>2 DEF Reports
  <2> QED
    BY <1>14, <2>1, <2>2 DEF Reports
<1>15. CASE ~r.whole /\ Passes(args, s, r)
  <2>1. CASE /\ t.name \in FlagNames /\ r.index = i + 1
             /\ r.options = Append(s.options, t)
    <3>1. t \in Spellings(args)
      BY <1>1 DEF Spellings, Tokens
    <3>2. r.options \in Seq(Spellings(args)) /\ Grows(s.options, r.options, <<t>>, 0, 1)
      BY <1>2, <2>1, <3>1, Appended
    <3>3. \A j \in 1 .. 1 : <<t>>[j] = args[n + j]
      BY <1>1
    <3>4. Grows(s.options, r.options, args, n, 1) /\ 1 \in Nat
      BY <1>1, <3>2, <3>3, GrowsFrom
    <3>5. PICK q : Spells(q, optionsAt, r.options, args, n, 1)
      BY <1>1, <1>2, <1>4, <3>2, <3>4, OptionsGrow
    <3>6. \A x \in n + 1 .. n + 1 : x = i
      BY <1>1
    <3> HIDE DEF O
    <3> QED
      BY <1>1, <1>12, <1>15, <2>1, <3>2, <3>5, <3>6 DEF Passes
  <2>2. ASSUME NEW d \in {1, 2}, t.name \in ValueNames, Valued(args, i, d), r.index = i + d,
               NEW v \in ValueOf(args, i), r.options = s.options \o <<Word(t.name), v>>
        PROVE  Planning(args, r)
    <3> DEFINE words == <<Word(t.name), v>>
    <3>1. words \in Seq(Spellings(args)) /\ Len(words) = 2
      <4>1. Word(t.name) \in Spellings(args)
        BY <1>1 DEF Spellings
      <4>2. v \in Spellings(args)
        BY <1>1, <1>13, <2>2 DEF Spellings, ValueOf, Valued, Tokens
      <4> QED
        BY <4>1, <4>2
    <3>2. words[1] = Word(t.name) /\ words[2] = v
      OBVIOUS
    <3>3. r.options = s.options \o words
      BY <2>2
    <3> HIDE DEF words
    <3>4. r.options \in Seq(Spellings(args)) /\ Grows(s.options, r.options, words, 0, 2)
      BY <1>2, <3>1, <3>3, Joined
    <3>5. \E q : Spells(q, optionsAt, r.options, args, n, d)
      <4>1. CASE t.value = {}
        <5>1. d = 2 /\ v = args[i + 1]
          BY <2>2, <4>1 DEF Valued, ValueOf
        <5>2. t = Word(t.name)
          BY <1>1, <4>1 DEF Tokened, Word
        <5>3. \A j \in 1 .. 2 : words[j] = args[n + j]
          <6>1. words[1] = args[n + 1] /\ words[2] = args[n + 2]
            BY <1>1, <3>2, <5>1, <5>2
          <6> QED
            BY <6>1
        <5>4. Grows(s.options, r.options, args, n, 2) /\ 2 \in Nat
          BY <1>1, <3>4, <5>3, GrowsFrom
        <5> QED
          BY <1>1, <1>2, <1>4, <3>4, <5>1, <5>4, OptionsGrow
      <4>2. CASE t.value # {}
        <5>1. d = 1 /\ v \in {Word(w) : w \in t.value}
          BY <2>2, <4>2 DEF Valued, ValueOf
        <5>2. {words[2]} = {Word(w) : w \in args[n + 1].value}
          BY <1>1, <3>2, <5>1 DEF Tokened
        <5>3. words[1] = Word(args[n + 1].name)
          BY <1>1, <3>2
        <5> QED
          BY <1>1, <1>2, <1>4, <3>4, <5>1, <5>2, <5>3, WordsGrow
      <4> QED
        BY <4>1, <4>2
    <3>6. PICK q : Spells(q, optionsAt, r.options, args, n, d)
      BY <3>5
    <3> HIDE DEF O
    <3> QED
      BY <1>12, <1>13, <1>15, <2>2, <3>4, <3>6 DEF Passes
  <2> QED
    BY <1>15, <2>1, <2>2 DEF Passes
<1> QED
  BY <1>6, <1>7, <1>9, <1>10, <1>14, <1>15 DEF Targets

\* What is planned is of all arguments when the command is ready.
PlanInv ==
    /\ stage \in {"planning", "ready"} => Planning(parsed.args, plan)
    /\ stage = "ready" /\ ~plan.whole => plan.index > Len(parsed.args)

LEMMA ParsedTokens ==
    ASSUME StartupInv, ParseInv, stage \in {"probing", "planning", "ready"}
    PROVE  Tokened(parsed.args)
<1> DEFINE argv == command.argv
           args == parsed.args
<1>1. command \in Commands /\ args \in Seq(Tokens(argv))
  BY DEF StartupInv, ParseInv, Read
<1>2. \A t \in Tokens(argv) :
          t = [name |-> t.name, value |-> t.value] /\ \A v, w \in t.value : v = w
  <2>1. \A i \in DOMAIN argv :
            /\ argv[i] = [name |-> argv[i].name, value |-> argv[i].value]
            /\ \A v, w \in argv[i].value : v = w
    BY <1>1, CommandsAssumption
  <2> HIDE DEF argv
  <2> QED
    BY <2>1 DEF Tokens
<1> HIDE DEF argv, args
<1>3. Len(args) \in Nat /\ DOMAIN args = 1 .. Len(args)
  BY <1>1
<1>4. \A i \in 1 .. Len(args) : args[i] \in Tokens(argv)
  BY <1>1
<1>5. args \in Seq(Tokens(args))
  <2>1. \A i \in 1 .. Len(args) : args[i] \in Tokens(args)
    BY <1>3 DEF Tokens
  <2> QED
    BY <1>1, <1>3, <2>1, SeqDef
<1> QED
  BY <1>2, <1>3, <1>4, <1>5 DEF Tokened, args

LEMMA PlanStays ==
    ASSUME PlanInv, UNCHANGED <<parsed, plan>>,
           stage' = stage \/ stage' \in {"begun", "rejected", "help", "probing", "split"}
    PROVE  PlanInv'
  BY DEF PlanInv

LEMMA InvocationKeepsPlan ==
    ASSUME StartupInv, ParseInv, PlanInv, [InvocationNext]_<<shardVars, startupVars>>
    PROVE  PlanInv'
<1>1. CASE ReadArgument
  <2>1. stage' = "begun"
    BY <1>1 DEF ReadArgument
  <2> QED
    BY <2>1 DEF PlanInv
<1>2. CASE Decide
  <2> DEFINE w == External \/ command.inherited # {}
  <2>1. /\ stage = "probing" /\ parsed' = parsed
        /\ \/ stage' = "rejected"
           \/ stage' = "planning" /\ plan' = [Unplanned EXCEPT !.whole = w]
    BY <1>2 DEF Decide
  <2>2. w \in BOOLEAN
    OBVIOUS
  <2>3. Tokened(parsed.args)
    BY <2>1, ParsedTokens
  <2> HIDE DEF w
  <2>4. Planning(parsed.args, [Unplanned EXCEPT !.whole = w])
    BY <2>2, <2>3, NothingPlanned
  <2> QED
    BY <2>1, <2>4 DEF PlanInv
<1>3. CASE PlanArgument
  <2>1. /\ stage = "planning" /\ stage' = "planning" /\ parsed' = parsed
        /\ ~plan.whole /\ plan.index <= Len(parsed.args)
        /\ plan' = PlanStep(parsed.args, plan)
    BY <1>3 DEF PlanArgument
  <2>2. Tokened(parsed.args) /\ Planning(parsed.args, plan)
    BY <2>1, ParsedTokens DEF PlanInv
  <2>3. Planning(parsed.args, PlanStep(parsed.args, plan))
    BY <2>1, <2>2, PlanningGoesOn
  <2> QED
    BY <2>1, <2>3 DEF PlanInv
<1>4. CASE PlanMade
  <2>1. /\ stage = "planning" /\ stage' = "ready" /\ parsed' = parsed
        /\ plan' = plan \/ plan' = [plan EXCEPT !.whole = TRUE]
        /\ plan.whole \/ plan.index > Len(parsed.args)
    BY <1>4 DEF PlanMade, Planned
  <2>2. Planning(parsed.args, plan)
    BY <2>1 DEF PlanInv
  <2>3. CASE plan' = plan
    BY <2>1, <2>2, <2>3 DEF PlanInv
  <2>4. CASE plan' = [plan EXCEPT !.whole = TRUE]
    <3>1. DOMAIN plan' = PlanFields /\ plan'.whole = TRUE
      BY <2>2, <2>4 DEF Planning, PlanFields
    <3> QED
      BY <2>1, <3>1 DEF PlanInv, Planning
  <2> QED
    BY <2>1, <2>3, <2>4
<1>5. CASE ArgumentsRead \/ ProbeDirectory
  BY <1>5, PlanStays DEF ArgumentsRead, ProbeDirectory
<1>6. CASE Split
  <2>1. stage' = "split"
    BY <1>6 DEF Split
  <2> QED
    BY <2>1 DEF PlanInv
<1>7. CASE Discover \/ Shard \/ Done \/ UNCHANGED <<shardVars, startupVars>>
  BY <1>7, PlanStays DEF Discover, Shard, Done, startupVars
<1> QED
  BY <1>1, <1>2, <1>3, <1>4, <1>5, <1>6, <1>7 DEF InvocationNext, Start, StartupNext

\* For any arguments, a command that is split gives each of them to every process or to one of
\* them, or needs it for the report only.
THEOREM SplitNeverLosesAnything == InvocationSpec => []SplitLosesNothing
<1> DEFINE Inv == StartupInv /\ ParseInv /\ PlanInv
<1>1. InvocationSpec => []Inv
  <2>1. InvocationInit => Inv
    <3>1. InvocationInit => PlanInv
      BY DEF InvocationInit, StartupInit, PlanInv
    <3> QED
      BY <3>1, InitStarts, InitReads
  <2>2. Inv /\ [InvocationNext]_<<shardVars, startupVars>> => Inv'
    BY InvocationKeepsStartup, InvocationKeepsArguments, InvocationKeepsPlan
  <2> QED
    BY <2>1, <2>2, PTL DEF InvocationSpec
<1>2. Inv => SplitLosesNothing
  <2> SUFFICES ASSUME Inv, stage = "ready", ~plan.whole PROVE SplitLosesNothing
    BY DEF SplitLosesNothing
  <2> DEFINE args == parsed.args
             n == plan.index - 1
  <2>1. Tokened(args) /\ Planning(args, plan) /\ plan.index > Len(args)
    BY ParsedTokens DEF PlanInv
  <2>2. Len(args) \in Nat /\ DOMAIN args = 1 .. Len(args)
    BY <2>1 DEF Tokened
  <2>3. n = Len(args)
    <3>1. plan.index \in 1 .. Len(args) + 1
      BY <2>1 DEF Planning
    <3> HIDE DEF args
    <3> QED
      BY <2>1, <2>2, <3>1
  <2>4. PICK targetsAt \in [DOMAIN plan.targets -> 1 .. n],
             optionsAt \in [DOMAIN plan.options -> 1 .. n], end \in 1 .. Len(args) + 1 :
                 SplitOf(args, n, plan, targetsAt, optionsAt, end)
    BY <2>1 DEF Planning
  <2> HIDE DEF n, args
  <2>5. \E p \in [DOMAIN plan.targets -> DOMAIN args],
           q \in [DOMAIN plan.options -> DOMAIN args], e \in 1 .. Len(args) + 1 :
               SplitOf(args, Len(args), plan, p, q, e)
    BY <2>2, <2>3, <2>4
  <2> QED
    BY <2>5 DEF SplitLosesNothing, args
<1> QED
  BY <1>1, <1>2, PTL

-----------------------------------------------------------------------------
(* The shards. *)

\* What has been discovered.
InputOK ==
    /\ input.order \in Seq(Files) /\ input.size \in [Files -> Nat]
    /\ input.capacity \in Int /\ input.threads \in Nat
    /\ \A i, j \in DOMAIN input.order : input.order[i] = input.order[j] => i = j
    /\ input.found \in Findings

\* No file is in two shards, and none that has a shard is smaller than one that has none.
LargestFirst ==
    /\ loads \in Seq(SUBSET Files)
    /\ \A s \in DOMAIN loads : loads[s] \subseteq Pending
    /\ \A s, t \in DOMAIN loads : s # t => loads[s] \cap loads[t] = {}
    /\ \A s \in DOMAIN loads : \A f \in loads[s], g \in Pending \ Placed :
           input.size[g] <= input.size[f]

\* The files to be linted are in the shards sh, the batch b that is being filled and the
\* tasks t, each in one of them only; the batch continues with files that come later.
Distributed(sh, b, t) ==
    /\ sh \in Seq(SUBSET Files) /\ b \in Seq(Files) /\ t \in Seq(Seq(Files))
    /\ (UNION {FilesIn(t[k]) : k \in DOMAIN t}) \cup FilesIn(b) \cup (UNION {sh[k] : k \in DOMAIN sh})
           = Pending
    /\ \A k, l \in DOMAIN t : k # l => FilesIn(t[k]) \cap FilesIn(t[l]) = {}
    /\ \A k \in DOMAIN t : FilesIn(t[k]) \cap FilesIn(b) = {}
    /\ \A k \in DOMAIN t, l \in DOMAIN sh : FilesIn(t[k]) \cap sh[l] = {}
    /\ \A k, l \in DOMAIN sh : k # l => sh[k] \cap sh[l] = {}
    /\ \A l \in DOMAIN sh : FilesIn(b) \cap sh[l] = {}
    /\ \A k \in DOMAIN t : Fine(t[k])
    /\ b # <<>> =>
           /\ Fine(b) /\ sh # <<>>
           /\ \A f \in FilesIn(b), g \in sh[1] : Position(f) < Position(g)

ShardsInv ==
    /\ phase \in {"starting", "discovered", "assigning", "unsharded", "batching", "refused",
                  "failed", "reported"}
    /\ phase # "starting" => InputOK /\ LargestFirst
    /\ phase \in {"starting", "discovered"} => loads = <<>>
    /\ Balanced
    /\ phase \in {"batching", "refused", "failed", "reported"} =>
           Distributed(shards, batch, tasks)
    /\ phase \in {"starting", "discovered", "assigning"} =>
           shards = <<>> /\ batch = <<>> /\ tasks = <<>>

LEMMA PendingFinite ==
    ASSUME InputOK
    PROVE  /\ Pending \subseteq Files /\ IsFiniteSet(Pending)
           /\ \A S \in SUBSET Files : IsFiniteSet(S)
           /\ \A f \in Pending : Position(f) \in Nat /\ input.order[Position(f)] = f
<1>1. Pending \subseteq Files /\ DOMAIN input.order \subseteq Nat
  BY DEF Pending, FilesIn, InputOK
<1>2. \A S \in SUBSET Files : IsFiniteSet(S)
  BY FilesAssumption, FS_Subset
<1>3. ASSUME NEW f \in Pending PROVE Position(f) \in DOMAIN input.order /\ input.order[Position(f)] = f
  <2>1. \E i \in DOMAIN input.order : input.order[i] = f
    BY DEF Pending, FilesIn
  <2> QED
    BY <2>1 DEF Position
<1> QED
  BY <1>1, <1>2, <1>3

\* The next file goes to the lightest shard (lint-shard.ts:139-144).
LEMMA PlaceBalances ==
    ASSUME InputOK, LargestFirst, Balanced, Place
    PROVE  LargestFirst' /\ Balanced'
<1>1. PICK f \in Pending \ Placed, s \in DOMAIN loads :
          Largest(f) /\ Lightest(s) /\ loads' = [loads EXCEPT ![s] = @ \cup {f}]
  BY DEF Place
<1> DEFINE size == input.size
           more == loads[s] \cup {f}
<1>2. /\ input' = input /\ Pending' = Pending /\ size \in [Files -> Nat]
  BY DEF Place, Pending, InputOK
<1>3. /\ DOMAIN loads' = DOMAIN loads /\ loads'[s] = more
      /\ \A t \in DOMAIN loads : t # s => loads'[t] = loads[t]
  BY <1>1 DEF LargestFirst
<1>4. /\ f \in Files /\ \A t \in DOMAIN loads : f \notin loads[t]
      /\ \A t \in DOMAIN loads : loads[t] \in SUBSET Files /\ IsFiniteSet(loads[t])
      /\ DOMAIN loads \subseteq Nat
  BY PendingFinite DEF Placed, LargestFirst
<1>5. Placed' = Placed \cup {f}
  BY <1>1, <1>3 DEF Placed
<1>6. \A g \in Pending \ Placed : size[g] <= size[f]
  <2> SUFFICES ASSUME NEW g \in Pending \ Placed PROVE size[g] <= size[f]
    OBVIOUS
  <2>1. size[g] \in Nat /\ size[f] \in Nat
    BY <1>2, <1>4, PendingFinite
  <2> QED
    BY <1>1, <2>1 DEF Largest
<1>7. LargestFirst'
  <2>1. loads' \in Seq(SUBSET Files)
    <3>1. more \in SUBSET Files
      BY <1>4
    <3> QED
      BY <1>1, <3>1 DEF LargestFirst
  <2>2. \A t \in DOMAIN loads' : loads'[t] \subseteq Pending
    BY <1>1, <1>3 DEF LargestFirst
  <2>3. \A t, u \in DOMAIN loads' : t # u => loads'[t] \cap loads'[u] = {}
    BY <1>3, <1>4 DEF LargestFirst
  <2>4. \A t \in DOMAIN loads' : \A x \in loads'[t], g \in Pending \ Placed' :
            size[g] <= size[x]
    BY <1>3, <1>5, <1>6 DEF LargestFirst
  <2> QED
    BY <1>2, <2>1, <2>2, <2>3, <2>4 DEF LargestFirst
\* The sums.
<1>8. ASSUME NEW S \in SUBSET Files
      PROVE  IsFiniteSet(S) /\ (\A x \in S : size[x] \in Nat) /\ Total(size, S) \in Nat
  <2>1. IsFiniteSet(S) /\ \A x \in S : size[x] \in Nat
    BY <1>2, PendingFinite
  <2> HIDE DEF size
  <2> QED
    BY <2>1, TotalType
<1>9. Total(size, more) = Load(s) + size[f] /\ size[f] \in Nat
  <2>1. IsFiniteSet(loads[s]) /\ f \notin loads[s] /\ \A x \in loads[s] \cup {f} : size[x] \in Nat
    BY <1>2, <1>4
  <2>2. Total(size, loads[s] \cup {f}) = Total(size, loads[s]) + size[f]
    <3> HIDE DEF size
    <3> QED
      BY <2>1, TotalAdd
  <2> QED
    BY <2>1, <2>2 DEF Load
<1>10. \A t \in DOMAIN loads : Load(t) \in Nat /\ Load(s) <= Load(t)
  <2> SUFFICES ASSUME NEW t \in DOMAIN loads PROVE Load(t) \in Nat /\ Load(s) <= Load(t)
    OBVIOUS
  <2>1. Load(t) \in Nat /\ Load(s) \in Nat
    BY <1>4, <1>8 DEF Load
  <2> QED
    BY <1>1, <2>1 DEF Lightest
<1>11. ASSUME NEW t \in DOMAIN loads PROVE Load(t) <= Total(size, loads'[t])
  <2>1. CASE t = s
    <3>1. Total(size, loads'[t]) = Load(t) + size[f]
      BY <1>3, <1>9, <2>1
    <3> HIDE DEF size, more
    <3> QED
      BY <1>9, <1>10, <3>1
  <2>2. CASE t # s
    <3>1. Load(t) = Total(size, loads'[t])
      BY <1>3, <2>2 DEF Load
    <3> QED
      BY <1>10, <3>1
  <2> QED
    BY <2>1, <2>2
\* What a shard has but one of its files is no more than the load of any shard.
<1>12. ASSUME NEW u \in DOMAIN loads, NEW t \in DOMAIN loads, NEW x \in loads'[u]
       PROVE  Total(size, loads'[u] \ {x}) <= Load(t)
  <2>1. CASE u # s
    BY <1>3, <2>1 DEF Balanced
  <2>2. CASE u = s /\ x = f
    <3>1. loads'[u] \ {x} = loads[s]
      BY <1>3, <1>4, <2>2
    <3> QED
      BY <1>10, <3>1 DEF Load
  <2>3. CASE u = s /\ x # f
    <3>1. x \in loads[s] /\ loads'[u] = more
      BY <1>3, <2>3
    <3>2. Total(size, more \ {x}) = Total(size, more) - size[x]
      <4>1. more \in SUBSET Files /\ x \in more
        BY <1>4, <3>1
      <4> HIDE DEF size, more
      <4> QED
        BY <1>8, <4>1, TotalRemove
    <3>3. size[f] <= size[x] /\ size[x] \in Nat
      BY <1>1, <1>2, <1>4, <3>1 DEF LargestFirst
    <3>4. Total(size, more \ {x}) <= Load(s)
      BY <1>9, <1>10, <3>2, <3>3
    <3>5. Total(size, more \ {x}) \in Int
      BY <1>9, <1>10, <3>2, <3>3
    <3> QED
      BY <1>10, <3>1, <3>4, <3>5
  <2> QED
    BY <2>1, <2>2, <2>3
<1>13. Balanced'
  <2> SUFFICES ASSUME NEW u \in DOMAIN loads, NEW t \in DOMAIN loads, NEW x \in loads'[u]
               PROVE  Total(size, loads'[u] \ {x}) <= Total(size, loads'[t])
    BY <1>2, <1>3 DEF Balanced, Load
  <2>1. Total(size, loads'[u] \ {x}) <= Load(t) /\ Load(t) <= Total(size, loads'[t])
    BY <1>11, <1>12
  <2>2. loads'[u] \ {x} \in SUBSET Files /\ loads'[t] \in SUBSET Files
    BY <1>3, <1>4
  <2>3. /\ Total(size, loads'[u] \ {x}) \in Nat /\ Total(size, loads'[t]) \in Nat
        /\ Load(t) \in Nat
    BY <1>8, <1>10, <2>2
  <2> QED
    BY <2>1, <2>3
<1> QED
  BY <1>7, <1>13

\* The files of a batch with one more.
LEMMA FilesAppended ==
    ASSUME NEW S, NEW b \in Seq(S), NEW f \in S
    PROVE  /\ FilesIn(Append(b, f)) = FilesIn(b) \cup {f} /\ Append(b, f) \in Seq(S)
           /\ Append(b, f) # <<>> /\ DOMAIN Append(b, f) = 1 .. Len(b) + 1
           /\ DOMAIN b = 1 .. Len(b) /\ Len(b) \in Nat
           /\ Append(b, f)[Len(b) + 1] = f /\ \A k \in DOMAIN b : Append(b, f)[k] = b[k]
<1> DEFINE c == Append(b, f)
<1>1. /\ c \in Seq(S) /\ c # <<>> /\ DOMAIN c = 1 .. Len(b) + 1 /\ Len(b) \in Nat
      /\ DOMAIN b = 1 .. Len(b) /\ c[Len(b) + 1] = f /\ \A k \in DOMAIN b : c[k] = b[k]
  OBVIOUS
<1> HIDE DEF c
<1>2. FilesIn(c) = FilesIn(b) \cup {f}
  BY <1>1 DEF FilesIn
<1> QED
  BY <1>1, <1>2 DEF c

\* A batch that is complete becomes a task (lint-batch.ts:39-44).
LEMMA BatchEnds ==
    ASSUME NEW sh, NEW b, NEW t, Distributed(sh, b, t), b # <<>>
    PROVE  Distributed(sh, <<>>, Append(t, b))
<1> DEFINE u == Append(t, b)
<1>1. /\ sh \in Seq(SUBSET Files) /\ b \in Seq(Files) /\ t \in Seq(Seq(Files))
      /\ Fine(b)
  BY DEF Distributed
<1>2. /\ u \in Seq(Seq(Files)) /\ DOMAIN u = 1 .. Len(t) + 1 /\ DOMAIN t = 1 .. Len(t)
      /\ Len(t) \in Nat /\ u[Len(t) + 1] = b /\ \A k \in DOMAIN t : u[k] = t[k]
  BY <1>1, FilesAppended
<1> HIDE DEF u
<1>3. FilesIn(<<>>) = {} /\ <<>> \in Seq(Files)
  BY DEF FilesIn
<1>4. \A k \in DOMAIN u : k \in DOMAIN t \/ k = Len(t) + 1
  BY <1>2
<1>5. (UNION {FilesIn(u[k]) : k \in DOMAIN u}) = (UNION {FilesIn(t[k]) : k \in DOMAIN t}) \cup FilesIn(b)
  <2>1. ASSUME NEW x \in (UNION {FilesIn(u[k]) : k \in DOMAIN u})
        PROVE  x \in (UNION {FilesIn(t[k]) : k \in DOMAIN t}) \cup FilesIn(b)
    BY <1>2, <1>4
  <2>2. ASSUME NEW x \in (UNION {FilesIn(t[k]) : k \in DOMAIN t}) \cup FilesIn(b)
        PROVE  x \in (UNION {FilesIn(u[k]) : k \in DOMAIN u})
    <3>1. CASE x \in FilesIn(b)
      BY <1>2, <3>1
    <3>2. CASE x \notin FilesIn(b)
      <4>1. PICK k \in DOMAIN t : x \in FilesIn(t[k])
        BY <3>2
      <4> QED
        BY <1>2, <4>1
    <3> QED
      BY <3>1, <3>2
  <2> QED
    BY <2>1, <2>2
<1>6. \A k, l \in DOMAIN u : k # l => FilesIn(u[k]) \cap FilesIn(u[l]) = {}
  BY <1>2, <1>4 DEF Distributed
<1>7. \A k \in DOMAIN u, l \in DOMAIN sh : FilesIn(u[k]) \cap sh[l] = {}
  BY <1>2, <1>4 DEF Distributed
<1>8. \A k \in DOMAIN u : Fine(u[k])
  BY <1>1, <1>2, <1>4 DEF Distributed
<1>9. Distributed(sh, <<>>, u)
  BY <1>1, <1>2, <1>3, <1>5, <1>6, <1>7, <1>8 DEF Distributed
<1> QED
  BY <1>9 DEF u

LEMMA OneMoreFile ==
    \A b \in Seq(Files), f \in Files :
        /\ FilesIn(Append(b, f)) = FilesIn(b) \cup {f} /\ Append(b, f) \in Seq(Files)
        /\ Append(b, f) # <<>> /\ DOMAIN Append(b, f) = 1 .. Len(b) + 1
        /\ DOMAIN b = 1 .. Len(b) /\ Len(b) \in Nat
        /\ Append(b, f)[Len(b) + 1] = f /\ \A k \in DOMAIN b : Append(b, f)[k] = b[k]
<1> TAKE b \in Seq(Files), f \in Files
<1> QED
  BY FilesAppended

\* A file for which there is room joins the batch (lint-batch.ts:43-44).
LEMMA FileJoins ==
    ASSUME InputOK, NEW sh, NEW b, NEW t, Distributed(sh, b, t), sh # <<>>,
           NEW f \in sh[1], \A g \in sh[1] : Position(f) <= Position(g),
           Bytes[f] <= input.capacity,
           b # <<>> => Total(Bytes, FilesIn(b)) + Bytes[f] <= input.capacity
    PROVE  Distributed([sh EXCEPT ![1] = @ \ {f}], Append(b, f), t)
<1>1. /\ sh \in Seq(SUBSET Files) /\ b \in Seq(Files) /\ t \in Seq(Seq(Files))
      /\ 1 \in DOMAIN sh
  BY DEF Distributed
<1>2. f \in Files /\ f \in Pending
  BY <1>1 DEF Distributed
<1> DEFINE c == Append(b, f)
           rest == [sh EXCEPT ![1] = @ \ {f}]
<1>3. /\ FilesIn(c) = FilesIn(b) \cup {f} /\ c \in Seq(Files) /\ c # <<>>
      /\ DOMAIN c = 1 .. Len(b) + 1 /\ DOMAIN b = 1 .. Len(b) /\ Len(b) \in Nat
      /\ c[Len(b) + 1] = f /\ \A k \in DOMAIN b : c[k] = b[k]
  <2>1. b \in Seq(Files) /\ f \in Files
    BY <1>1, <1>2
  <2> QED
    BY <2>1, OneMoreFile, Zenon
<1>4. /\ rest \in Seq(SUBSET Files) /\ rest # <<>> /\ DOMAIN rest = DOMAIN sh
      /\ rest[1] = sh[1] \ {f} /\ \A l \in DOMAIN sh : l # 1 => rest[l] = sh[l]
  <2>1. sh[1] \ {f} \in SUBSET Files
    BY <1>1
  <2> QED
    BY <1>1, <2>1
<1> HIDE DEF c, rest
<1>5. f \notin FilesIn(b) /\ \A l \in DOMAIN sh : l # 1 => f \notin sh[l]
  BY <1>1 DEF Distributed
<1>6. \A l \in DOMAIN rest : rest[l] \subseteq sh[l] /\ f \notin rest[l]
  BY <1>4, <1>5
<1>7. (UNION {sh[l] : l \in DOMAIN sh}) = (UNION {rest[l] : l \in DOMAIN rest}) \cup {f}
  <2>1. ASSUME NEW x \in (UNION {sh[l] : l \in DOMAIN sh}), x # f
        PROVE  x \in (UNION {rest[l] : l \in DOMAIN rest})
    <3>1. PICK l \in DOMAIN sh : x \in sh[l]
      OBVIOUS
    <3>2. x \in rest[l]
      BY <1>4, <2>1, <3>1
    <3> QED
      BY <1>4, <3>2
  <2>2. ASSUME NEW x \in (UNION {rest[l] : l \in DOMAIN rest}) \cup {f}
        PROVE  x \in (UNION {sh[l] : l \in DOMAIN sh})
    BY <1>1, <1>4, <1>6
  <2> QED
    BY <2>1, <2>2
<1>8. (UNION {FilesIn(t[k]) : k \in DOMAIN t}) \cup FilesIn(c) \cup (UNION {rest[k] : k \in DOMAIN rest})
          = Pending
  <2> DEFINE T == (UNION {FilesIn(t[k]) : k \in DOMAIN t})
             A == (UNION {sh[l] : l \in DOMAIN sh})
             B == (UNION {rest[l] : l \in DOMAIN rest})
  <2>1. T \cup FilesIn(b) \cup A = Pending
    BY DEF Distributed
  <2> HIDE DEF T, A, B
  <2>2. T \cup FilesIn(c) \cup B = Pending
    BY <1>3, <1>7, <2>1 DEF A, B
  <2> QED
    BY <2>2 DEF T, B
<1>9. \A k \in DOMAIN t : FilesIn(t[k]) \cap FilesIn(c) = {}
  BY <1>1, <1>3 DEF Distributed
<1>10. \A k \in DOMAIN t, l \in DOMAIN rest : FilesIn(t[k]) \cap rest[l] = {}
  BY <1>4, <1>6 DEF Distributed
<1>11. \A k, l \in DOMAIN rest : k # l => rest[k] \cap rest[l] = {}
  BY <1>4, <1>6 DEF Distributed
<1>12. \A l \in DOMAIN rest : FilesIn(c) \cap rest[l] = {}
  BY <1>3, <1>4, <1>6 DEF Distributed
<1>13. \A k \in DOMAIN b : b[k] \in FilesIn(b) /\ Position(b[k]) < Position(f)
  BY DEF FilesIn, Distributed
<1>14. Ordered(c)
  <2> SUFFICES ASSUME NEW i \in DOMAIN c, NEW j \in DOMAIN c, i < j
               PROVE  Position(c[i]) < Position(c[j])
    BY DEF Ordered
  <2>1. i \in DOMAIN b /\ (j \in DOMAIN b \/ j = Len(b) + 1)
    BY <1>3
  <2>2. b # <<>>
    BY <2>1
  <2>3. Ordered(b)
    BY <2>2 DEF Distributed, Fine
  <2> QED
    BY <1>3, <1>13, <2>1, <2>3 DEF Ordered
<1>15. Total(Bytes, FilesIn(c)) <= input.capacity
  <2>1. FilesIn(b) \subseteq Files /\ IsFiniteSet(FilesIn(b))
    <3>1. FilesIn(b) \subseteq Files
      BY <1>1 DEF FilesIn
    <3> QED
      BY <3>1, PendingFinite
  <2>2. \A x \in FilesIn(b) \cup {f} : Bytes[x] \in Nat
    BY <1>2, <2>1, FilesAssumption
  <2>3. Total(Bytes, FilesIn(c)) = Total(Bytes, FilesIn(b)) + Bytes[f]
    <3> DEFINE S == FilesIn(b)
    <3>1. IsFiniteSet(S) /\ f \notin S /\ \A x \in S \cup {f} : Bytes[x] \in Nat
      BY <1>5, <2>1, <2>2
    <3> HIDE DEF S
    <3>2. Total(Bytes, S \cup {f}) = Total(Bytes, S) + Bytes[f]
      BY <3>1, TotalAdd
    <3> QED
      BY <1>3, <3>2 DEF S
  <2>4. CASE b = <<>>
    <3>1. FilesIn(b) = {}
      BY <2>4 DEF FilesIn
    <3>2. Total(Bytes, FilesIn(b)) = 0
      BY <3>1, TotalEmpty
    <3> QED
      BY <2>2, <2>3, <3>2
  <2>5. CASE b # <<>>
    BY <2>3, <2>5
  <2> QED
    BY <2>4, <2>5
<1>16. \A x \in FilesIn(c), g \in rest[1] : Position(x) < Position(g)
  <2> SUFFICES ASSUME NEW x \in FilesIn(c), NEW g \in rest[1]
               PROVE  Position(x) < Position(g)
    OBVIOUS
  <2>1. g \in sh[1] /\ g # f /\ g \in Pending
    BY <1>1, <1>4 DEF Distributed
  <2>2. CASE x = f
    <3>1. Position(f) \in Nat /\ Position(g) \in Nat /\ Position(f) # Position(g)
      BY <1>2, <2>1, PendingFinite
    <3> QED
      BY <2>1, <2>2, <3>1
  <2>3. CASE x # f
    <3>1. x \in FilesIn(b) /\ b # <<>>
      BY <1>3, <2>3 DEF FilesIn
    <3> QED
      BY <2>1, <3>1 DEF Distributed
  <2> QED
    BY <2>2, <2>3
<1>17. Distributed(rest, c, t)
  BY <1>1, <1>3, <1>4, <1>8, <1>9, <1>10, <1>11, <1>12, <1>14, <1>15, <1>16
     DEF Distributed, Fine
<1> QED
  BY <1>17 DEF c, rest

\* A shard that has no file left is done with (lint-batch.ts:46-49).
LEMMA ShardEnds ==
    ASSUME NEW sh, NEW t, Distributed(sh, <<>>, t), sh # <<>>, sh[1] = {}
    PROVE  Distributed(Tail(sh), <<>>, t)
<1> DEFINE rest == Tail(sh)
<1>1. sh \in Seq(SUBSET Files)
  BY DEF Distributed
<1>2. /\ rest \in Seq(SUBSET Files) /\ 1 \in 1 .. Len(sh) /\ Len(rest) = Len(sh) - 1
      /\ \A i \in 1 .. Len(rest) : i + 1 \in 1 .. Len(sh) /\ rest[i] = sh[i + 1]
  BY <1>1, TailMembers
<1> HIDE DEF rest
<1>3. /\ DOMAIN sh = 1 .. Len(sh) /\ DOMAIN rest = 1 .. Len(rest) /\ Len(sh) \in Nat
      /\ Len(rest) \in Nat
  BY <1>1, <1>2
<1>4. (UNION {rest[l] : l \in DOMAIN rest}) = (UNION {sh[l] : l \in DOMAIN sh})
  <2>1. ASSUME NEW x \in (UNION {sh[l] : l \in DOMAIN sh}) PROVE x \in (UNION {rest[l] : l \in DOMAIN rest})
    <3>1. PICK l \in DOMAIN sh : x \in sh[l]
      OBVIOUS
    <3>2. l - 1 \in DOMAIN rest /\ (l - 1) + 1 = l
      BY <1>2, <1>3, <3>1
    <3> QED
      BY <1>2, <1>3, <3>1, <3>2
  <2>2. ASSUME NEW x \in (UNION {rest[l] : l \in DOMAIN rest}) PROVE x \in (UNION {sh[l] : l \in DOMAIN sh})
    <3>1. PICK l \in DOMAIN rest : x \in rest[l]
      OBVIOUS
    <3> QED
      BY <1>2, <1>3, <3>1
  <2> QED
    BY <2>1, <2>2
<1>5. \A k \in DOMAIN t, l \in DOMAIN rest : FilesIn(t[k]) \cap rest[l] = {}
  BY <1>2, <1>3 DEF Distributed
<1>6. \A k, l \in DOMAIN rest : k # l => rest[k] \cap rest[l] = {}
  <2> SUFFICES ASSUME NEW k \in DOMAIN rest, NEW l \in DOMAIN rest, k # l
               PROVE  rest[k] \cap rest[l] = {}
    OBVIOUS
  <2>1. k + 1 \in DOMAIN sh /\ l + 1 \in DOMAIN sh /\ k + 1 # l + 1
    BY <1>2, <1>3
  <2>2. sh[k + 1] \cap sh[l + 1] = {}
    BY <2>1 DEF Distributed
  <2> QED
    BY <1>2, <1>3, <2>2
<1>7. FilesIn(<<>>) = {}
  BY DEF FilesIn
<1>8. Distributed(rest, <<>>, t)
  BY <1>1, <1>2, <1>4, <1>5, <1>6, <1>7 DEF Distributed
<1> QED
  BY <1>8 DEF rest

LEMMA StaysDistributed ==
    ASSUME UNCHANGED input, NEW sh, NEW b, NEW t, Distributed(sh, b, t),
           shards' = sh, batch' = b, tasks' = t
    PROVE  Distributed(shards, batch, tasks)'
<1>1. Pending' = Pending /\ (\A f : Position(f)' = Position(f)) /\ \A q : Fine(q)' = Fine(q)
  BY DEF Pending, Position, Fine, Ordered
<1> QED
  BY <1>1 DEF Distributed

\* One iteration of batchLintFiles.
LEMMA BatchKeeps ==
    ASSUME InputOK, Distributed(shards, batch, tasks), Batch
    PROVE  Distributed(shards, batch, tasks)'
<1>1. PICK f \in Head(shards) :
          /\ \A g \in Head(shards) : Position(f) <= Position(g)
          /\ \/ Bytes[f] > input.capacity /\ UNCHANGED <<shards, batch, tasks>>
             \/ /\ Bytes[f] <= input.capacity
                /\ shards' = [shards EXCEPT ![1] = @ \ {f}]
                /\ IF Overflows(f) /\ batch # <<>> THEN Flush(f)
                   ELSE batch' = Append(batch, f) /\ UNCHANGED tasks
  BY DEF Batch
<1>2. /\ shards # <<>> /\ input' = input /\ shards \in Seq(SUBSET Files) /\ batch \in Seq(Files)
      /\ Head(shards) = shards[1] /\ 1 \in DOMAIN shards
  BY DEF Batch, Distributed
<1>3. CASE UNCHANGED <<shards, batch, tasks>>
  BY <1>2, <1>3, StaysDistributed
<1>4. CASE /\ Bytes[f] <= input.capacity
           /\ shards' = [shards EXCEPT ![1] = @ \ {f}]
           /\ Overflows(f) /\ batch # <<>> /\ Flush(f)
  <2>1. Distributed(shards, <<>>, Append(tasks, batch))
    BY <1>4, BatchEnds
  <2>2. Distributed([shards EXCEPT ![1] = @ \ {f}], Append(<<>>, f), Append(tasks, batch))
    BY <1>1, <1>2, <1>4, <2>1, FileJoins
  <2>3. batch' = Append(<<>>, f) /\ tasks' = Append(tasks, batch)
    BY <1>4 DEF Flush
  <2> QED
    BY <1>2, <1>4, <2>2, <2>3, StaysDistributed
<1>5. CASE /\ Bytes[f] <= input.capacity
           /\ shards' = [shards EXCEPT ![1] = @ \ {f}]
           /\ ~(Overflows(f) /\ batch # <<>>)
           /\ batch' = Append(batch, f) /\ UNCHANGED tasks
  <2>1. batch # <<>> => Total(Bytes, FilesIn(batch)) + Bytes[f] <= input.capacity
    <3> SUFFICES ASSUME batch # <<>>
                 PROVE  Total(Bytes, FilesIn(batch)) + Bytes[f] <= input.capacity
      OBVIOUS
    <3>1. f \in Files
      BY <1>1, <1>2
    <3>2. FilesIn(batch) \subseteq Files
      BY <1>2 DEF FilesIn
    <3>3. Total(Bytes, FilesIn(batch)) \in Nat
      <4>1. IsFiniteSet(FilesIn(batch)) /\ \A x \in FilesIn(batch) : Bytes[x] \in Nat
        BY <3>2, PendingFinite, FilesAssumption
      <4> QED
        BY <4>1, TotalType
    <3>4. Bytes[f] \in Nat /\ input.capacity \in Int
      BY <3>1, FilesAssumption DEF InputOK
    <3> QED
      BY <1>5, <3>3, <3>4 DEF Overflows
  <2>2. Distributed([shards EXCEPT ![1] = @ \ {f}], Append(batch, f), tasks)
    BY <1>1, <1>2, <1>5, <2>1, FileJoins
  <2> QED
    BY <1>2, <1>5, <2>2, StaysDistributed
<1> QED
  BY <1>1, <1>3, <1>4, <1>5

LEMMA EndShardKeeps ==
    ASSUME Distributed(shards, batch, tasks), EndShard
    PROVE  Distributed(shards, batch, tasks)'
<1>1. /\ shards # <<>> /\ Head(shards) = {} /\ shards' = Tail(shards) /\ batch' = <<>>
      /\ tasks' = (IF batch = <<>> THEN tasks ELSE Append(tasks, batch))
      /\ input' = input /\ shards \in Seq(SUBSET Files)
  BY DEF EndShard, Distributed
<1>2. shards[1] = {}
  BY <1>1
<1>3. CASE batch = <<>>
  <2>1. Distributed(Tail(shards), <<>>, tasks)
    BY <1>1, <1>2, <1>3, ShardEnds
  <2> QED
    BY <1>1, <1>3, <2>1, StaysDistributed
<1>4. CASE batch # <<>>
  <2>1. Distributed(shards, <<>>, Append(tasks, batch))
    BY <1>4, BatchEnds
  <2>2. Distributed(Tail(shards), <<>>, Append(tasks, batch))
    BY <1>1, <1>2, <2>1, ShardEnds
  <2> QED
    BY <1>1, <1>4, <2>2, StaysDistributed
<1> QED
  BY <1>3, <1>4

\* The files are in the shards when the batches are begun.
LEMMA DistributionBegins ==
    ASSUME InputOK, NEW sh \in Seq(SUBSET Files),
           (UNION {sh[k] : k \in DOMAIN sh}) = Pending,
           \A k, l \in DOMAIN sh : k # l => sh[k] \cap sh[l] = {}
    PROVE  Distributed(sh, <<>>, <<>>)
<1>1. FilesIn(<<>>) = {} /\ <<>> \in Seq(Files) /\ <<>> \in Seq(Seq(Files)) /\ DOMAIN <<>> = {}
  BY DEF FilesIn
<1> QED
  BY <1>1 DEF Distributed

\* What the shards are is kept by whatever leaves them alone.
LEMMA ShardsStay ==
    ASSUME UNCHANGED <<input, loads>>
    PROVE  (InputOK => InputOK') /\ (LargestFirst => LargestFirst') /\ (Balanced => Balanced')
BY DEF InputOK, LargestFirst, Balanced, Load, Placed, Pending

LEMMA UnchangedKeeps ==
    ASSUME ShardsInv, UNCHANGED <<input, phase, loads, shards, batch, tasks>>
    PROVE  ShardsInv'
<1>1. Distributed(shards, batch, tasks) => Distributed(shards, batch, tasks)'
  BY StaysDistributed
<1> QED
  BY <1>1, ShardsStay DEF ShardsInv

LEMMA InitHasShards ==
    ASSUME InvocationInit
    PROVE  ShardsInv
<1>1. /\ loads = <<>> /\ shards = <<>> /\ batch = <<>> /\ tasks = <<>> /\ phase = "starting"
      /\ DOMAIN loads = {}
  BY DEF InvocationInit, Empty
<1> QED
  BY <1>1 DEF ShardsInv, Balanced

\* The discovery (lint-shard.ts:57-79).
LEMMA DiscoverKeeps ==
    ASSUME StartupInv, ShardsInv, Discover
    PROVE  ShardsInv'
<1>1. /\ phase' = "discovered" /\ outcome.threads \in Nat
      /\ input' \in Discovered(outcome.threads, outcome.cached)
      /\ loads' = <<>> /\ shards' = <<>> /\ batch' = <<>> /\ tasks' = <<>>
  BY DEF Discover, StartupInv, ShardsInv
<1>2. /\ input'.order \in Orders /\ input'.size \in [Files -> Sizes]
      /\ input'.capacity \in Capacities /\ input'.threads = outcome.threads
      /\ input'.found \in Findings
  BY <1>1 DEF Discovered
<1>3. InputOK'
  <2>1. /\ input'.order \in Seq(Files)
        /\ \A i, j \in DOMAIN input'.order : input'.order[i] = input'.order[j] => i = j
    BY <1>2, FilesAssumption
  <2>2. input'.size \in [Files -> Nat]
    BY <1>2, FilesAssumption
  <2>3. input'.capacity \in Int /\ input'.threads \in Nat
    BY <1>1, <1>2, LimitsAssumption
  <2> QED
    BY <1>2, <2>1, <2>2, <2>3 DEF InputOK
<1>4. LargestFirst' /\ Balanced'
  <2>1. loads' \in Seq(SUBSET Files) /\ DOMAIN loads' = {}
    BY <1>1
  <2> QED
    BY <2>1 DEF LargestFirst, Balanced
<1> QED
  BY <1>1, <1>3, <1>4 DEF ShardsInv

\* The shards are begun, or the one that there is (lint-cli.ts:150-175).
LEMMA PlanKeeps ==
    ASSUME ShardsInv, Plan
    PROVE  ShardsInv'
<1>1. /\ phase = "discovered" /\ InputOK /\ LargestFirst /\ Balanced /\ input' = input
      /\ loads = <<>> /\ shards = <<>> /\ batch' = <<>> /\ tasks' = <<>>
  BY DEF Plan, ShardsInv
<1>2. InputOK' /\ Pending' = Pending
  BY <1>1 DEF InputOK, Pending
<1>3. CASE Count >= 2 /\ phase' = "assigning" /\ loads' = [s \in 1 .. Count |-> {}] /\ shards' = shards
  <2>1. Count \in Nat
    <3>1. Cardinality(Pending) \in Nat
      BY <1>1, PendingFinite, FS_CardinalityType
    <3> QED
      BY <1>1, <3>1, LimitsAssumption DEF Count, Smaller, InputOK
  <2>2. /\ loads' \in Seq(SUBSET Files)
        /\ \A s \in DOMAIN loads' : loads'[s] = {}
    <3> DEFINE n == Count
    <3> HIDE DEF n
    <3>1. [s \in 1 .. n |-> {}] \in Seq(SUBSET Files)
      BY <2>1 DEF n
    <3> QED
      BY <1>3, <2>1, <3>1 DEF n
  <2>3. LargestFirst' /\ Balanced'
    BY <2>2 DEF LargestFirst, Balanced
  <2> QED
    BY <1>1, <1>2, <1>3, <2>3 DEF ShardsInv
<1>4. CASE phase' = "batching" /\ loads' = loads /\ shards' = IF Pending = {} THEN <<>> ELSE <<Pending>>
  <2> DEFINE sh == IF Pending = {} THEN <<>> ELSE <<Pending>>
  <2>1. /\ sh \in Seq(SUBSET Files) /\ (UNION {sh[k] : k \in DOMAIN sh}) = Pending
        /\ \A k, l \in DOMAIN sh : k # l => sh[k] \cap sh[l] = {}
    <3>1. Pending \in SUBSET Files
      BY <1>1, PendingFinite
    <3>2. CASE Pending = {}
      <4>1. sh = <<>> /\ DOMAIN sh = {}
        BY <3>2
      <4> QED
        BY <3>2, <4>1
    <3>3. CASE Pending # {}
      <4>1. sh = <<Pending>> /\ DOMAIN sh = {1} /\ sh[1] = Pending
        BY <3>3
      <4> HIDE DEF sh
      <4>2. sh \in Seq(SUBSET Files)
        <5>1. <<Pending>> \in Seq(SUBSET Files)
          BY <3>1
        <5> QED
          BY <4>1, <5>1, Zenon
      <4>3. {sh[k] : k \in DOMAIN sh} = {Pending} /\ UNION {Pending} = Pending
        BY <4>1
      <4> QED
        BY <4>1, <4>2, <4>3
    <3> QED
      BY <3>2, <3>3
  <2> HIDE DEF sh
  <2>2. Distributed(sh, <<>>, <<>>)
    BY <1>1, <2>1, DistributionBegins
  <2>3. shards' = sh
    BY <1>4 DEF sh
  <2>4. Distributed(shards, batch, tasks)'
    BY <1>1, <2>2, <2>3, StaysDistributed
  <2> QED
    BY <1>1, <1>4, <2>4, ShardsStay DEF ShardsInv
<1>5. CASE phase' = "unsharded" /\ loads' = loads /\ shards' = shards
  BY <1>1, <1>5, ShardsStay DEF ShardsInv
<1> QED
  BY <1>3, <1>4, <1>5 DEF Plan

LEMMA PlaceKeeps ==
    ASSUME ShardsInv, Place
    PROVE  ShardsInv'
<1>1. /\ phase = "assigning" /\ InputOK /\ LargestFirst /\ Balanced
      /\ UNCHANGED <<input, phase, shards, batch, tasks>>
  BY DEF Place, ShardsInv
<1>2. LargestFirst' /\ Balanced' /\ InputOK'
  BY <1>1, PlaceBalances DEF InputOK
<1> QED
  BY <1>1, <1>2 DEF ShardsInv

LEMMA AssignKeeps ==
    ASSUME ShardsInv, Assign
    PROVE  ShardsInv'
<1>1. /\ phase = "assigning" /\ InputOK /\ LargestFirst /\ Balanced
      /\ phase' = "batching" /\ shards' = loads /\ batch' = <<>> /\ tasks' = <<>>
      /\ UNCHANGED <<input, loads>> /\ Placed = Pending
  BY DEF Assign, ShardsInv
<1>2. Distributed(loads, <<>>, <<>>)
  BY <1>1, DistributionBegins DEF LargestFirst, Placed
<1>3. Distributed(shards, batch, tasks)'
  BY <1>1, <1>2, StaysDistributed
<1> QED
  BY <1>1, <1>3, ShardsStay DEF ShardsInv

LEMMA ShardKeeps ==
    ASSUME ShardsInv, Shard
    PROVE  ShardsInv'
<1>1. CASE Plan
  BY <1>1, PlanKeeps
<1>2. CASE Place
  BY <1>2, PlaceKeeps
<1>3. CASE Assign
  BY <1>3, AssignKeeps
<1>4. CASE Batch
  <2>1. /\ phase = "batching" /\ phase' \in {"batching", "refused"} /\ UNCHANGED <<input, loads>>
        /\ InputOK /\ LargestFirst /\ Balanced /\ Distributed(shards, batch, tasks)
    BY <1>4 DEF Batch, ShardsInv
  <2>2. Distributed(shards, batch, tasks)'
    BY <1>4, <2>1, BatchKeeps
  <2> QED
    BY <2>1, <2>2, ShardsStay DEF ShardsInv
<1>5. CASE EndShard
  <2>1. /\ phase = "batching" /\ UNCHANGED <<input, loads, phase>>
        /\ InputOK /\ LargestFirst /\ Balanced /\ Distributed(shards, batch, tasks)
    BY <1>5 DEF EndShard, ShardsInv
  <2>2. Distributed(shards, batch, tasks)'
    BY <1>5, <2>1, EndShardKeeps
  <2> QED
    BY <2>1, <2>2, ShardsStay DEF ShardsInv
<1>6. CASE Lint \/ Render
  <2>1. /\ phase = "batching" /\ phase' \in {"batching", "failed", "reported"}
        /\ UNCHANGED <<input, loads, shards, batch, tasks>>
    BY <1>6 DEF Lint, Render
  <2>2. Distributed(shards, batch, tasks)'
    BY <2>1, StaysDistributed DEF ShardsInv
  <2> QED
    BY <2>1, <2>2, ShardsStay DEF ShardsInv
<1>7. CASE Terminated
  BY <1>7, UnchangedKeeps DEF Terminated, vars
<1> QED
  BY <1>1, <1>2, <1>3, <1>4, <1>5, <1>6, <1>7 DEF Shard, Next

LEMMA InvocationKeepsShards ==
    ASSUME StartupInv, ShardsInv, [InvocationNext]_<<shardVars, startupVars>>
    PROVE  ShardsInv'
<1>1. CASE Discover
  BY <1>1, DiscoverKeeps
<1>2. CASE Shard
  BY <1>2, ShardKeeps
<1>3. CASE Start \/ Split \/ Done \/ UNCHANGED <<shardVars, startupVars>>
  BY <1>3, UnchangedKeeps DEF Start, Split, Done, shardVars, vars
<1> QED
  BY <1>1, <1>2, <1>3 DEF InvocationNext

LEMMA ShardsHold == InvocationSpec => []ShardsInv
<1>1. InvocationInit => StartupInv /\ ShardsInv
  BY InitStarts, InitHasShards
<1>2. StartupInv /\ ShardsInv /\ [InvocationNext]_<<shardVars, startupVars>>
          => StartupInv' /\ ShardsInv'
  BY InvocationKeepsStartup, InvocationKeepsShards
<1> QED
  BY <1>1, <1>2, PTL DEF InvocationSpec

\* No shard is more than its smallest file ahead of any other (assignShards), for any
\* number of files, shards and threads and for any sizes.
THEOREM ShardsAlwaysBalanced == InvocationSpec => []Balanced
<1>1. ShardsInv => Balanced
  BY DEF ShardsInv
<1> QED
  BY <1>1, ShardsHold, PTL

\* Once the batches are complete, they have every file that has to be linted.
LEMMA BatchesComplete ==
    ASSUME ShardsInv, phase \in {"batching", "failed", "reported"}, shards = <<>>
    PROVE  /\ UNION {FilesIn(tasks[k]) : k \in DOMAIN tasks} = Pending
           /\ \A k, l \in DOMAIN tasks : k # l => FilesIn(tasks[k]) \cap FilesIn(tasks[l]) = {}
           /\ \A k \in DOMAIN tasks : Fine(tasks[k])
<1>1. Distributed(shards, batch, tasks)
  BY DEF ShardsInv
<1>2. batch = <<>> /\ FilesIn(batch) = {} /\ {shards[k] : k \in DOMAIN shards} = {}
  BY <1>1 DEF Distributed, FilesIn
<1>3. (UNION {FilesIn(tasks[k]) : k \in DOMAIN tasks}) \cup FilesIn(batch)
          \cup (UNION {shards[k] : k \in DOMAIN shards}) = Pending
  BY <1>1 DEF Distributed
<1>4. UNION {FilesIn(tasks[k]) : k \in DOMAIN tasks} = Pending
  BY <1>2, <1>3
<1> QED
  BY <1>1, <1>4 DEF Distributed

\* The tasks have every file that has to be linted once, in the order of discovery and
\* within the ceiling (batchLintFiles), for any files, shards and ceiling.
THEOREM NothingEverDropped == InvocationSpec => []NothingDropped
<1>1. ShardsInv => NothingDropped
  BY BatchesComplete DEF NothingDropped
<1> QED
  BY <1>1, ShardsHold, PTL

-----------------------------------------------------------------------------
(* The report. *)

Apart(s) == \A i, j \in DOMAIN s : s[i] = s[j] => i = j

\* The reports that there are: each has the files of its task, once.
ReportsInv ==
    /\ outputs \in Seq(Seq(Files))
    /\ outputs # <<>> => shards = <<>> /\ phase \in {"batching", "failed", "reported"}
    /\ \A k \in DOMAIN outputs :
           k \in DOMAIN tasks /\ Apart(outputs[k]) /\ FilesIn(outputs[k]) = FilesIn(tasks[k])

\* The reports r have every file that has been discovered, and each of them once.
Complete(r) ==
    /\ r \in Seq(Seq(Files))
    /\ \A k \in DOMAIN r : Apart(r[k])
    /\ \A k, l \in DOMAIN r : k # l => FilesIn(r[k]) \cap FilesIn(r[l]) = {}
    /\ UNION {FilesIn(r[k]) : k \in DOMAIN r} = FilesIn(input.order)

\* A list by an order has everything, once and in this order.
LEMMA RankedLists ==
    ASSUME NEW S, IsFiniteSet(S), NEW R,
           \A x \in S : <<x, x>> \notin R,
           \A x, y, z \in S : <<x, y>> \in R /\ <<y, z>> \in R => <<x, z>> \in R,
           \A x, y \in S : x # y => <<x, y>> \in R \/ <<y, x>> \in R
    PROVE  /\ Ranked(S, R) \in [1 .. Cardinality(S) -> S]
           /\ \A x \in S : \E i \in 1 .. Cardinality(S) : Ranked(S, R)[i] = x
           /\ \A i, j \in 1 .. Cardinality(S) : i < j => <<Ranked(S, R)[i], Ranked(S, R)[j]>> \in R
           /\ \A i, j \in 1 .. Cardinality(S) : Ranked(S, R)[i] = Ranked(S, R)[j] => i = j
<1> DEFINE n == Cardinality(S)
           below(x) == {y \in S : <<y, x>> \in R}
           place == [x \in S |-> Cardinality(below(x)) + 1]
<1>1. n \in Nat
  BY FS_CardinalityType
<1>2. ASSUME NEW x \in S
      PROVE  IsFiniteSet(below(x)) /\ Cardinality(below(x)) \in 0 .. n - 1
  <2>1. below(x) \in SUBSET S /\ x \notin below(x)
    OBVIOUS
  <2> HIDE DEF below
  <2>2. /\ IsFiniteSet(below(x)) /\ Cardinality(below(x)) <= n
        /\ n = Cardinality(below(x)) => S = below(x)
    BY <2>1, FS_Subset
  <2>3. Cardinality(below(x)) \in Nat
    BY <2>2, FS_CardinalityType
  <2> QED
    BY <1>1, <2>1, <2>2, <2>3
<1>3. ASSUME NEW x \in S, NEW y \in S, <<x, y>> \in R
      PROVE  Cardinality(below(x)) < Cardinality(below(y))
  <2>1. below(x) \in SUBSET below(y) /\ x \in below(y) /\ x \notin below(x)
    BY <1>3
  <2> HIDE DEF below
  <2>2. IsFiniteSet(below(y)) /\ Cardinality(below(y)) \in Nat /\ Cardinality(below(x)) \in Nat
    BY <1>1, <1>2
  <2>3. /\ Cardinality(below(x)) <= Cardinality(below(y))
        /\ Cardinality(below(y)) = Cardinality(below(x)) => below(y) = below(x)
    BY <2>1, <2>2, FS_Subset
  <2> QED
    BY <2>1, <2>2, <2>3
<1> HIDE DEF below
<1>4. place \in [S -> 1 .. n]
  <2>1. ASSUME NEW x \in S PROVE Cardinality(below(x)) + 1 \in 1 .. n
    BY <1>1, <1>2
  <2> QED
    BY <2>1
<1>5. \A x, y \in S : place[x] = place[y] => x = y
  <2> SUFFICES ASSUME NEW x \in S, NEW y \in S, place[x] = place[y], x # y PROVE FALSE
    OBVIOUS
  <2>1. Cardinality(below(x)) = Cardinality(below(y)) /\ Cardinality(below(x)) \in Nat
    BY <1>2
  <2>2. CASE <<x, y>> \in R
    <3>1. Cardinality(below(x)) < Cardinality(below(y))
      BY <1>3, <2>2
    <3> QED
      BY <2>1, <3>1
  <2>3. CASE <<y, x>> \in R
    <3>1. Cardinality(below(y)) < Cardinality(below(x))
      BY <1>3, <2>3
    <3> QED
      BY <2>1, <3>1
  <2> QED
    BY <2>2, <2>3
<1>6. IsFiniteSet(1 .. n) /\ Cardinality(1 .. n) = n
  BY <1>1, FS_Interval
<1>7. \A i \in 1 .. n : \E x \in S : place[x] = i
  <2> DEFINE T == 1 .. n
  <2>1. IsFiniteSet(T) /\ Cardinality(S) = Cardinality(T) /\ place \in [S -> T]
    BY <1>4, <1>6
  <2> HIDE DEF place, T
  <2>2. \A i \in T : \E x \in S : place[x] = i
    BY <1>5, <2>1, OneEach
  <2> QED
    BY <2>2 DEF T
<1> DEFINE at(i) == CHOOSE x \in S : Cardinality(below(x)) = i - 1
<1>12. Ranked(S, R) = [i \in 1 .. n |-> at(i)]
  BY DEF Ranked, at, below
<1> HIDE DEF at
<1>8. ASSUME NEW i \in 1 .. n
      PROVE  Ranked(S, R)[i] \in S /\ place[Ranked(S, R)[i]] = i
  <2>1. Ranked(S, R)[i] = CHOOSE x \in S : Cardinality(below(x)) = i - 1
    BY <1>12 DEF at
  <2>2. PICK x \in S : place[x] = i
    BY <1>7
  <2>3. Cardinality(below(x)) = i - 1
    BY <1>2, <2>2
  <2>4. Ranked(S, R)[i] \in S /\ Cardinality(below(Ranked(S, R)[i])) = i - 1
    BY <2>1, <2>3
  <2> QED
    BY <1>1, <2>4
<1>9. Ranked(S, R) \in [1 .. n -> S]
  <2>1. \A i \in 1 .. n : at(i) \in S
    BY <1>12, <1>8
  <2> QED
    BY <1>12, <2>1
<1>10. ASSUME NEW x \in S PROVE \E i \in 1 .. n : Ranked(S, R)[i] = x
  <2>1. place[x] \in 1 .. n
    BY <1>4
  <2>2. Ranked(S, R)[place[x]] \in S /\ place[Ranked(S, R)[place[x]]] = place[x]
    BY <1>8, <2>1
  <2> HIDE DEF place
  <2> QED
    BY <1>5, <2>1, <2>2
<1>11. ASSUME NEW i \in 1 .. n, NEW j \in 1 .. n
       PROVE  /\ i < j => <<Ranked(S, R)[i], Ranked(S, R)[j]>> \in R
              /\ Ranked(S, R)[i] = Ranked(S, R)[j] => i = j
  <2> DEFINE x == Ranked(S, R)[i]
             y == Ranked(S, R)[j]
  <2>1. x \in S /\ y \in S /\ place[x] = i /\ place[y] = j
    BY <1>8
  <2>2. <<y, x>> \in R => place[y] < place[x]
    <3> HIDE DEF x, y
    <3> QED
      BY <1>2, <1>3, <2>1
  <2> HIDE DEF x, y, place
  <2>3. i < j => <<x, y>> \in R
    BY <1>1, <2>1, <2>2
  <2>4. x = y => i = j
    BY <2>1
  <2> QED
    BY <2>3, <2>4 DEF x, y
<1> HIDE DEF place
<1> QED
  BY <1>9, <1>10, <1>11

\* A process reports every file of its task.
LEMMA ArrangementsHave ==
    ASSUME NEW S \in SUBSET Files, NEW s \in Arrangements(S)
    PROVE  s \in Seq(Files) /\ Apart(s) /\ FilesIn(s) = S
<1> DEFINE n == Cardinality(S)
           T == 1 .. n
<1>1. IsFiniteSet(S) /\ n \in Nat
  BY FilesAssumption, FS_Subset, FS_CardinalityType
<1>2. IsFiniteSet(T) /\ Cardinality(T) = Cardinality(S)
  BY <1>1, FS_Interval
<1>3. s \in [T -> S] /\ DOMAIN s = T /\ \A i, j \in T : s[i] = s[j] => i = j
  BY DEF Arrangements
<1>4. s \in Seq(Files)
  BY <1>1, <1>3
<1> HIDE DEF T
<1>5. \A f \in S : \E i \in T : s[i] = f
  BY <1>1, <1>2, <1>3, OneEach
<1>6. FilesIn(s) = S
  BY <1>3, <1>5 DEF FilesIn
<1> QED
  BY <1>3, <1>4, <1>6 DEF Apart

LEMMA LintReports ==
    ASSUME ShardsInv, ReportsInv, Lint
    PROVE  ReportsInv'
<1>1. /\ phase = "batching" /\ shards = <<>> /\ Len(outputs) < Len(tasks)
      /\ UNCHANGED <<input, shards, tasks>>
      /\ phase' \in {"batching", "failed"}
  BY DEF Lint
<1>2. tasks \in Seq(Seq(Files)) /\ outputs \in Seq(Seq(Files))
  BY <1>1 DEF ShardsInv, Distributed, ReportsInv
<1>3. CASE outputs' = outputs
  BY <1>1, <1>3 DEF ReportsInv
<1>4. CASE \E s \in Arrangements(FilesIn(tasks[Len(outputs) + 1])) : outputs' = Append(outputs, s)
  <2> DEFINE m == Len(outputs) + 1
  <2>1. m \in DOMAIN tasks
    BY <1>1, <1>2
  <2>2. FilesIn(tasks[m]) \in SUBSET Files
    BY <1>2, <2>1 DEF FilesIn
  <2>3. PICK s \in Arrangements(FilesIn(tasks[m])) : outputs' = Append(outputs, s)
    BY <1>4
  <2>4. s \in Seq(Files) /\ Apart(s) /\ FilesIn(s) = FilesIn(tasks[m])
    BY <2>2, ArrangementsHave
  <2>5. /\ outputs' \in Seq(Seq(Files)) /\ DOMAIN outputs' = DOMAIN outputs \cup {m}
        /\ outputs'[m] = s /\ \A k \in DOMAIN outputs : outputs'[k] = outputs[k]
    BY <1>2, <2>3, <2>4
  <2> HIDE DEF m
  <2>6. ASSUME NEW k \in DOMAIN outputs'
        PROVE  /\ k \in DOMAIN tasks /\ Apart(outputs'[k])
               /\ FilesIn(outputs'[k]) = FilesIn(tasks[k])
    <3>1. CASE k = m
      BY <2>1, <2>4, <2>5, <3>1
    <3>2. CASE k \in DOMAIN outputs
      BY <2>5, <3>2 DEF ReportsInv
    <3> QED
      BY <2>5, <3>1, <3>2
  <2> QED
    BY <1>1, <2>5, <2>6 DEF ReportsInv
<1> QED
  BY <1>3, <1>4 DEF Lint

LEMMA InvocationKeepsReports ==
    ASSUME ShardsInv, ReportsInv, [InvocationNext]_<<shardVars, startupVars>>
    PROVE  ReportsInv'
<1>1. CASE outputs = <<>> /\ outputs' = outputs
  <2>1. outputs' \in Seq(Seq(Files)) /\ DOMAIN outputs' = {}
    BY <1>1
  <2> QED
    BY <1>1, <2>1 DEF ReportsInv
<1>2. CASE Shard
  <2>1. CASE Plan \/ Place \/ Assign
    <3>1. phase \in {"discovered", "assigning"} /\ outputs' = outputs
      BY <2>1 DEF Plan, Place, Assign
    <3> QED
      BY <1>1, <3>1 DEF ReportsInv
  <2>2. CASE Batch \/ EndShard
    <3>1. shards # <<>> /\ outputs' = outputs
      BY <2>2 DEF Batch, EndShard
    <3> QED
      BY <1>1, <3>1 DEF ReportsInv
  <2>3. CASE Lint
    BY <2>3, LintReports
  <2>4. CASE Render
    <3>1. UNCHANGED <<outputs, tasks, shards>> /\ phase' = "reported"
      BY <2>4 DEF Render
    <3> QED
      BY <3>1 DEF ReportsInv
  <2>5. CASE Terminated
    BY <2>5 DEF Terminated, vars, ReportsInv
  <2> QED
    BY <1>2, <2>1, <2>2, <2>3, <2>4, <2>5 DEF Shard, Next
<1>3. CASE Discover
  <2>1. phase = "starting" /\ outputs' = outputs
    BY <1>3 DEF Discover
  <2> QED
    BY <1>1, <2>1 DEF ReportsInv
<1>4. CASE Start \/ Split \/ Done \/ UNCHANGED <<shardVars, startupVars>>
  BY <1>4 DEF Start, Split, Done, shardVars, vars, ReportsInv
<1> QED
  BY <1>2, <1>3, <1>4 DEF InvocationNext

\* The files that the cache answers for.
LEMMA AnsweredShows ==
    ASSUME InputOK
    PROVE  /\ Answered \in Seq(Files) /\ Apart(Answered)
           /\ FilesIn(Answered) = FilesIn(input.order) \cap input.known
<1> DEFINE A == FilesIn(input.order) \cap input.known
           R == {p \in A \X A : Position(p[1]) < Position(p[2])}
           n == Cardinality(A)
<1>1. A \in SUBSET Files /\ DOMAIN input.order \subseteq Nat
  BY DEF FilesIn, InputOK
<1>2. IsFiniteSet(A) /\ n \in Nat
  BY <1>1, FilesAssumption, FS_Subset, FS_CardinalityType
<1>3. ASSUME NEW f \in A PROVE Position(f) \in Nat /\ input.order[Position(f)] = f
  <2>1. \E i \in DOMAIN input.order : input.order[i] = f
    BY DEF FilesIn
  <2> QED
    BY <1>1, <2>1 DEF Position
<1>4. \A f, g \in A : <<f, g>> \in R <=> Position(f) < Position(g)
  OBVIOUS
<1>5. Answered = Ranked(A, R)
  BY DEF Answered
<1> HIDE DEF A, R
<1>6. /\ \A x \in A : <<x, x>> \notin R
      /\ \A x, y, z \in A : <<x, y>> \in R /\ <<y, z>> \in R => <<x, z>> \in R
      /\ \A x, y \in A : x # y => <<x, y>> \in R \/ <<y, x>> \in R
  <2>1. \A x, y \in A : Position(x) = Position(y) => x = y
    BY <1>3
  <2> QED
    BY <1>3, <1>4, <2>1
<1>7. /\ Answered \in [1 .. n -> A]
      /\ \A x \in A : \E i \in 1 .. n : Answered[i] = x
      /\ \A i, j \in 1 .. n : Answered[i] = Answered[j] => i = j
  BY <1>2, <1>5, <1>6, RankedLists
<1> HIDE DEF n
<1>8. Answered \in Seq(Files) /\ DOMAIN Answered = 1 .. n
  BY <1>1, <1>2, <1>7
<1>9. FilesIn(Answered) = A
  BY <1>7, <1>8 DEF FilesIn
<1> QED
  BY <1>7, <1>8, <1>9 DEF Apart, A

\* The reports of all tasks and of the cache.
LEMMA MergedComplete ==
    ASSUME ShardsInv, ReportsInv, phase = "batching", shards = <<>>, Len(outputs) = Len(tasks)
    PROVE  Complete(Merged)
<1>1. InputOK /\ Distributed(shards, batch, tasks)
  BY DEF ShardsInv
<1>2. /\ tasks \in Seq(Seq(Files)) /\ outputs \in Seq(Seq(Files)) /\ DOMAIN outputs = DOMAIN tasks
      /\ \A k \in DOMAIN tasks : Apart(outputs[k]) /\ FilesIn(outputs[k]) = FilesIn(tasks[k])
  BY <1>1 DEF Distributed, ReportsInv
<1>4. UNION {FilesIn(tasks[k]) : k \in DOMAIN tasks} = Pending
  BY BatchesComplete
<1>5. \A k, l \in DOMAIN outputs : k # l => FilesIn(outputs[k]) \cap FilesIn(outputs[l]) = {}
  BY <1>1, <1>2 DEF Distributed
<1>6. UNION {FilesIn(outputs[k]) : k \in DOMAIN outputs} = Pending
  BY <1>2, <1>4
<1>7. /\ Answered \in Seq(Files) /\ Apart(Answered)
      /\ FilesIn(Answered) = FilesIn(input.order) \cap input.known
  BY <1>1, AnsweredShows
<1>8. CASE Answered = <<>>
  <2>1. FilesIn(Answered) = {} /\ Merged = outputs
    BY <1>8 DEF FilesIn, Merged
  <2>2. Pending = FilesIn(input.order)
    BY <1>7, <2>1 DEF Pending
  <2> QED
    BY <1>2, <1>5, <1>6, <2>1, <2>2 DEF Complete
<1>9. CASE Answered # <<>>
  <2> DEFINE m == Len(outputs) + 1
  <2>1. Merged = Append(outputs, Answered)
    BY <1>9 DEF Merged
  <2>2. /\ Merged \in Seq(Seq(Files)) /\ DOMAIN Merged = DOMAIN outputs \cup {m}
        /\ Merged[m] = Answered /\ \A k \in DOMAIN outputs : Merged[k] = outputs[k]
    BY <1>2, <1>7, <2>1
  <2> HIDE DEF m
  <2>3. \A k \in DOMAIN outputs : FilesIn(outputs[k]) \subseteq Pending
    BY <1>6
  <2>4. /\ FilesIn(Answered) \cap Pending = {}
        /\ FilesIn(Answered) \cup Pending = FilesIn(input.order)
    BY <1>7 DEF Pending
  <2>5. \A k \in DOMAIN Merged : Apart(Merged[k])
    BY <1>2, <1>7, <2>2
  <2>6. \A k, l \in DOMAIN Merged : k # l => FilesIn(Merged[k]) \cap FilesIn(Merged[l]) = {}
    <3> SUFFICES ASSUME NEW k \in DOMAIN Merged, NEW l \in DOMAIN Merged, k # l
                 PROVE  FilesIn(Merged[k]) \cap FilesIn(Merged[l]) = {}
      OBVIOUS
    <3>1. CASE k # m /\ l # m
      BY <1>5, <2>2, <3>1
    <3>2. CASE k = m
      <4>1. Merged[k] = Answered /\ Merged[l] = outputs[l] /\ FilesIn(outputs[l]) \subseteq Pending
        BY <2>2, <2>3, <3>2
      <4> QED
        BY <2>4, <4>1
    <3>3. CASE l = m
      <4>1. Merged[l] = Answered /\ Merged[k] = outputs[k] /\ FilesIn(outputs[k]) \subseteq Pending
        BY <2>2, <2>3, <3>3
      <4> QED
        BY <2>4, <4>1
    <3> QED
      BY <3>1, <3>2, <3>3
  <2>7. UNION {FilesIn(Merged[k]) : k \in DOMAIN Merged} = FilesIn(input.order)
    <3>1. {FilesIn(Merged[k]) : k \in DOMAIN Merged}
            = {FilesIn(outputs[k]) : k \in DOMAIN outputs} \cup {FilesIn(Answered)}
      BY <2>2
    <3> QED
      BY <1>6, <2>4, <3>1
  <2> QED
    BY <2>2, <2>5, <2>6, <2>7 DEF Complete
<1> QED
  BY <1>8, <1>9

\* A diagnostic is what the engine reports of a file that has been discovered.
LEMMA WholeHas ==
    ASSUME InputOK, NEW d \in Whole
    PROVE  /\ d.file \in FilesIn(input.order) /\ d.n \in DOMAIN input.found[d.file]
           /\ d = Diagnostic(d.file, d.n)
           /\ d.file \in Nat /\ d.n \in Nat /\ d.offset \in Nat
<1>0. PICK f \in FilesIn(input.order) : \E n \in DOMAIN input.found[f] : d = Diagnostic(f, n)
  BY DEF Whole
<1>1. PICK n \in DOMAIN input.found[f] : d = Diagnostic(f, n)
  BY <1>0
<1>2. d.file = f /\ d.n = n /\ d.offset = input.found[f][n].offset
  BY <1>1 DEF Diagnostic
<1>3. f \in Files /\ f \in Nat
  <2>1. PICK i \in DOMAIN input.order : f = input.order[i]
    BY DEF FilesIn
  <2>2. f \in Files
    BY <2>1 DEF InputOK
  <2> QED
    BY <2>2, FilesAssumption
<1>4. input.found[f] \in Seq([offset : Nat, severity : {"error", "warning", "advice"}])
  BY <1>3, ReportsAssumption DEF InputOK
<1>5. n \in Nat /\ input.found[f][n] \in [offset : Nat, severity : {"error", "warning", "advice"}]
  <2> DEFINE D == [offset : Nat, severity : {"error", "warning", "advice"}]
             s == input.found[f]
  <2>1. s \in Seq(D) /\ n \in DOMAIN s
    BY <1>4
  <2> HIDE DEF D, s
  <2>2. n \in Nat /\ s[n] \in D
    BY <2>1
  <2> QED
    BY <2>2 DEF D, s
<1>6. input.found[f][n].offset \in Nat
  BY <1>5
<1> QED
  BY <1>1, <1>2, <1>3, <1>5, <1>6

\* The order of one process is a strict one of all diagnostics.
LEMMA WholeOrdered ==
    ASSUME InputOK
    PROVE  /\ \A d \in Whole : ~Precedes(d, d)
           /\ \A d, e, g \in Whole : Precedes(d, e) /\ Precedes(e, g) => Precedes(d, g)
           /\ \A d, e \in Whole : d # e => Precedes(d, e) \/ Precedes(e, d)
<1>1. \A d \in Whole : d.file \in Nat /\ d.n \in Nat /\ d.offset \in Nat
  BY WholeHas
<1>2. ASSUME NEW d \in Whole, NEW e \in Whole, d # e PROVE Precedes(d, e) \/ Precedes(e, d)
  <2>1. d = Diagnostic(d.file, d.n) /\ e = Diagnostic(e.file, e.n)
    BY WholeHas
  <2>2. d.file # e.file \/ d.n # e.n
    BY <1>2, <2>1
  <2> QED
    BY <1>1, <2>2 DEF Precedes
<1> QED
  BY <1>1, <1>2 DEF Precedes

LEMMA WholeFinite ==
    ASSUME InputOK
    PROVE  IsFiniteSet(Whole)
<1> DEFINE of(f) == {Diagnostic(f, n) : n \in DOMAIN input.found[f]}
           F == FilesIn(input.order)
           all == {of(f) : f \in F}
<1>1. F \subseteq Files /\ IsFiniteSet(F)
  <2>1. F \subseteq Files
    BY DEF FilesIn, InputOK
  <2> QED
    BY <2>1, FilesAssumption, FS_Subset
<1>2. ASSUME NEW f \in F PROVE IsFiniteSet(of(f))
  <2> DEFINE n == Len(input.found[f])
             T == 1 .. n
             s == [i \in T |-> Diagnostic(f, i)]
  <2>1. n \in Nat /\ DOMAIN input.found[f] = T
    <3>1. input.found[f] \in Seq([offset : Nat, severity : {"error", "warning", "advice"}])
      BY <1>1, ReportsAssumption DEF InputOK
    <3> QED
      BY <3>1
  <2>2. IsFiniteSet(T)
    BY <2>1, FS_Interval
  <2>3. s \in [T -> of(f)] /\ \A d \in of(f) : \E i \in T : s[i] = d
    BY <2>1
  <2> HIDE DEF s, T, of
  <2> QED
    BY <2>2, <2>3, ImageFinite
<1>3. IsFiniteSet(all)
  <2> DEFINE s == [f \in F |-> of(f)]
  <2>1. s \in [F -> all] /\ \A A \in all : \E f \in F : s[f] = A
    OBVIOUS
  <2> HIDE DEF s, all, of, F
  <2> QED
    BY <1>1, <2>1, ImageFinite
<1>4. \A A \in all : IsFiniteSet(A)
  BY <1>2
<1>5. Whole = UNION all
  BY DEF Whole
<1> HIDE DEF all
<1> QED
  BY <1>3, <1>4, <1>5, FS_UNION

\* What complete reports have at their places is what one process reports, once.
LEMMA DiagnosticsOnce ==
    ASSUME InputOK, NEW r, Complete(r)
    PROVE  LET all == Diagnostics(r)
           IN  /\ all \in [DOMAIN all -> Whole] /\ IsFiniteSet(DOMAIN all)
               /\ \A a, b \in DOMAIN all : all[a] = all[b] => a = b
               /\ \A d \in Whole : \E a \in DOMAIN all : all[a] = d
               /\ \A a, b \in DOMAIN all : <<a, b>> \in SortOrder(all) <=> Precedes(all[a], all[b])
<1> DEFINE all == Diagnostics(r)
           places == UNION {UNION {PlacesOf(r[k][j], k, j) : j \in DOMAIN r[k]} : k \in DOMAIN r}
<1>1. all = [at \in places |-> Diagnostic(r[at[1]][at[2]], at[3])] /\ DOMAIN all = places
  BY DEF Diagnostics
<1>2. ASSUME NEW k \in DOMAIN r, NEW j \in DOMAIN r[k]
      PROVE  k \in Nat /\ j \in Nat /\ r[k][j] \in FilesIn(input.order) /\ r[k][j] \in FilesIn(r[k])
  <2>1. r[k][j] \in FilesIn(r[k])
    BY DEF FilesIn
  <2>2. FilesIn(r[k]) \subseteq FilesIn(input.order)
    BY DEF Complete
  <2>3. k \in Nat /\ r[k] \in Seq(Files)
    BY DEF Complete
  <2>4. j \in Nat
    BY <2>3
  <2> QED
    BY <2>1, <2>2, <2>3, <2>4
<1>3. ASSUME NEW a \in places
      PROVE  \E k \in DOMAIN r : \E j \in DOMAIN r[k] : \E n \in DOMAIN input.found[r[k][j]] :
                 a = <<k, j, n>>
  BY DEF PlacesOf
<1>4. ASSUME NEW k \in DOMAIN r, NEW j \in DOMAIN r[k], NEW n \in DOMAIN input.found[r[k][j]]
      PROVE  <<k, j, n>> \in places /\ all[<<k, j, n>>] = Diagnostic(r[k][j], n)
  <2>1. <<k, j, n>> \in places
    BY DEF PlacesOf
  <2> HIDE DEF all, places
  <2> QED
    BY <1>1, <2>1
<1> HIDE DEF all, places
<1>5. ASSUME NEW a \in places
      PROVE  \E k \in DOMAIN r : \E j \in DOMAIN r[k] : \E n \in DOMAIN input.found[r[k][j]] :
                 /\ a = <<k, j, n>> /\ k \in Nat /\ j \in Nat /\ n \in Nat
                 /\ r[k][j] \in FilesIn(input.order) /\ r[k][j] \in FilesIn(r[k])
                 /\ all[a] = Diagnostic(r[k][j], n) /\ all[a] \in Whole
                 /\ all[a].file = r[k][j] /\ all[a].n = n
  <2>1. PICK k \in DOMAIN r : \E j \in DOMAIN r[k] : \E n \in DOMAIN input.found[r[k][j]] : a = <<k, j, n>>
    BY <1>3
  <2>2. PICK j \in DOMAIN r[k] : \E n \in DOMAIN input.found[r[k][j]] : a = <<k, j, n>>
    BY <2>1
  <2>3. PICK n \in DOMAIN input.found[r[k][j]] : a = <<k, j, n>>
    BY <2>2
  <2>4. k \in Nat /\ j \in Nat /\ r[k][j] \in FilesIn(input.order) /\ r[k][j] \in FilesIn(r[k])
    BY <1>2
  <2>5. all[a] = Diagnostic(r[k][j], n)
    BY <1>4, <2>3
  <2>6. all[a] \in Whole
    BY <2>4, <2>5 DEF Whole
  <2>7. all[a].file = r[k][j] /\ all[a].n = n
    BY <2>5 DEF Diagnostic
  <2>8. n \in Nat
    BY <2>6, <2>7, WholeHas
  <2> QED
    BY <2>3, <2>4, <2>5, <2>6, <2>7, <2>8
<1>6. all \in [places -> Whole]
  <2>1. \A a \in places : all[a] \in Whole
    BY <1>5
  <2> QED
    BY <1>1, <2>1
<1>7. ASSUME NEW a \in places, NEW b \in places, all[a].file = all[b].file
      PROVE  /\ a[1] = b[1] /\ a[2] = b[2] /\ a[3] = all[a].n /\ b[3] = all[b].n
             /\ a = <<a[1], a[2], a[3]>> /\ b = <<b[1], b[2], b[3]>>
  <2>1. PICK k \in DOMAIN r, j \in Nat, n \in Nat :
            j \in DOMAIN r[k] /\ a = <<k, j, n>> /\ r[k][j] \in FilesIn(r[k]) /\ all[a].file = r[k][j] /\ all[a].n = n
    BY <1>5
  <2>2. PICK l \in DOMAIN r, i \in Nat, m \in Nat :
            i \in DOMAIN r[l] /\ b = <<l, i, m>> /\ r[l][i] \in FilesIn(r[l]) /\ all[b].file = r[l][i] /\ all[b].n = m
    BY <1>5
  <2>3. k = l
    BY <1>7, <2>1, <2>2 DEF Complete
  <2>4. j = i
    BY <1>7, <2>1, <2>2, <2>3 DEF Complete, Apart
  <2> QED
    BY <2>1, <2>2, <2>3, <2>4
<1>8. \A a, b \in places : all[a] = all[b] => a = b
  BY <1>7
<1>9. ASSUME NEW d \in Whole PROVE \E a \in places : all[a] = d
  <2>1. d.file \in FilesIn(input.order) /\ d.n \in DOMAIN input.found[d.file] /\ d = Diagnostic(d.file, d.n)
    BY WholeHas
  <2>2. PICK k \in DOMAIN r : d.file \in FilesIn(r[k])
    BY <2>1 DEF Complete
  <2>3. PICK j \in DOMAIN r[k] : r[k][j] = d.file
    BY <2>2 DEF FilesIn
  <2>4. d.n \in DOMAIN input.found[r[k][j]] /\ d = Diagnostic(r[k][j], d.n)
    BY <2>1, <2>3
  <2>5. <<k, j, d.n>> \in places /\ all[<<k, j, d.n>>] = Diagnostic(r[k][j], d.n)
    BY <1>4, <2>4
  <2> QED
    BY <2>4, <2>5
<1>10. ASSUME NEW a \in places, NEW b \in places
       PROVE  <<a, b>> \in SortOrder(all) <=> Precedes(all[a], all[b])
  <2>1. /\ all[a].file = all[b].file => (ComesFirst(a, b) <=> all[a].n < all[b].n)
    <3> SUFFICES ASSUME all[a].file = all[b].file PROVE ComesFirst(a, b) <=> all[a].n < all[b].n
      OBVIOUS
    <3>1. a[1] = b[1] /\ a[2] = b[2] /\ a[3] = all[a].n /\ b[3] = all[b].n
      BY <1>7
    <3>2. a[1] \in Nat /\ a[2] \in Nat /\ a[3] \in Nat /\ b[3] \in Nat
      BY <1>5
    <3> QED
      BY <3>1, <3>2 DEF ComesFirst
  <2>2. <<a, b>> \in SortOrder(all) <=>
            \/ all[a].file < all[b].file
            \/ all[a].file = all[b].file /\ all[a].offset < all[b].offset
            \/ all[a].file = all[b].file /\ all[a].offset = all[b].offset /\ ComesFirst(a, b)
    BY <1>1 DEF SortOrder
  <2> QED
    BY <2>1, <2>2 DEF Precedes
<1>11. IsFiniteSet(places)
  BY <1>6, <1>8, WholeFinite, SourceFinite
<1> QED
  BY <1>1, <1>6, <1>8, <1>9, <1>10, <1>11 DEF all

\* The files of complete reports are as many as have been discovered.
LEMMA FilesCounted ==
    ASSUME InputOK, NEW r, Complete(r)
    PROVE  Total([k \in DOMAIN r |-> Len(r[k])], DOMAIN r) = Len(input.order)
<1> DEFINE len == [k \in DOMAIN r |-> Len(r[k])]
           U == Units(len, DOMAIN r)
           F == FilesIn(input.order)
           n == Len(input.order)
           T == 1 .. n
           from == [u \in U |-> r[u[1]][u[2]]]
<1>1. n \in Nat /\ DOMAIN input.order = T /\ input.order \in [T -> F]
  <2>1. n \in Nat /\ DOMAIN input.order = T /\ input.order = [i \in T |-> input.order[i]]
    BY DEF InputOK
  <2> QED
    BY <2>1 DEF FilesIn
<1>2. IsFiniteSet(T) /\ Cardinality(T) = n
  BY <1>1, FS_Interval
<1>3. /\ \A i, j \in T : input.order[i] = input.order[j] => i = j
      /\ \A f \in F : \E i \in T : input.order[i] = f
  BY <1>1 DEF InputOK, FilesIn
<1>4. \A k \in DOMAIN r : DOMAIN r[k] = 1 .. len[k]
  <2> SUFFICES ASSUME NEW k \in DOMAIN r PROVE DOMAIN r[k] = 1 .. len[k]
    OBVIOUS
  <2>1. r[k] \in Seq(Files)
    BY DEF Complete
  <2> QED
    BY <2>1
<1>5. ASSUME NEW u \in U
      PROVE  u[1] \in DOMAIN r /\ u[2] \in DOMAIN r[u[1]] /\ u = <<u[1], u[2]>>
  <2>1. PICK k \in DOMAIN r : u \in {k} \X (1 .. len[k])
    BY DEF Units
  <2>2. u[1] = k /\ u[2] \in 1 .. len[k] /\ u = <<u[1], u[2]>>
    BY <2>1
  <2> QED
    BY <1>4, <2>2
<1>6. ASSUME NEW k \in DOMAIN r, NEW j \in DOMAIN r[k] PROVE <<k, j>> \in U
  <2>1. j \in 1 .. len[k]
    BY <1>4
  <2> HIDE DEF len
  <2> QED
    BY <2>1 DEF Units
<1> HIDE DEF U, len
<1>7. ASSUME NEW k \in DOMAIN r, NEW j \in DOMAIN r[k]
      PROVE  r[k][j] \in FilesIn(r[k]) /\ r[k][j] \in F
  <2>1. r[k][j] \in FilesIn(r[k])
    BY DEF FilesIn
  <2>2. FilesIn(r[k]) \subseteq F
    BY DEF Complete
  <2> QED
    BY <2>1, <2>2
<1>8. from \in [U -> F]
  <2>1. \A u \in U : r[u[1]][u[2]] \in F
    BY <1>5, <1>7
  <2> QED
    BY <2>1
<1>9. \A u, v \in U : from[u] = from[v] => u = v
  <2> SUFFICES ASSUME NEW u \in U, NEW v \in U, from[u] = from[v] PROVE u = v
    OBVIOUS
  <2>1. r[u[1]][u[2]] = r[v[1]][v[2]]
    OBVIOUS
  <2>2. u[1] = v[1]
    <3>1. r[u[1]][u[2]] \in FilesIn(r[u[1]]) /\ r[v[1]][v[2]] \in FilesIn(r[v[1]])
      BY <1>5, <1>7
    <3> QED
      BY <1>5, <2>1, <3>1 DEF Complete
  <2>3. u[2] = v[2]
    BY <1>5, <2>1, <2>2 DEF Complete, Apart
  <2> QED
    BY <1>5, <2>2, <2>3
<1>10. ASSUME NEW f \in F PROVE \E u \in U : from[u] = f
  <2>1. PICK k \in DOMAIN r : f \in FilesIn(r[k])
    BY DEF Complete
  <2>2. PICK j \in DOMAIN r[k] : r[k][j] = f
    BY <2>1 DEF FilesIn
  <2>3. <<k, j>> \in U
    BY <1>6
  <2> QED
    BY <2>2, <2>3
<1> HIDE DEF F, T, from, n
<1>11. IsFiniteSet(F) /\ Cardinality(F) = n
  BY <1>1, <1>2, <1>3, AsMany
<1>12. IsFiniteSet(U)
  BY <1>8, <1>9, <1>11, SourceFinite
<1>13. Cardinality(F) = Cardinality(U)
  BY <1>8, <1>9, <1>10, <1>12, AsMany
<1>14. Cardinality(U) = n
  BY <1>11, <1>13
<1> QED
  BY <1>14 DEF Total, U, n, len

\* What is counted at the places is what one process counts.
LEMMA CountedOnce ==
    ASSUME NEW all, IsFiniteSet(DOMAIN all), \A a, b \in DOMAIN all : all[a] = all[b] => a = b,
           NEW A \in SUBSET DOMAIN all, NEW B, \A a \in A : all[a] \in B,
           \A d \in B : \E a \in A : all[a] = d
    PROVE  IsFiniteSet(A) /\ IsFiniteSet(B) /\ Cardinality(B) = Cardinality(A)
<1> DEFINE f == [a \in A |-> all[a]]
<1>1. IsFiniteSet(A)
  BY FS_Subset
<1>2. /\ f \in [A -> B] /\ \A a, b \in A : f[a] = f[b] => a = b
      /\ \A d \in B : \E a \in A : f[a] = d
  OBVIOUS
<1> HIDE DEF f
<1> QED
  BY <1>1, <1>2, AsMany

\* What renderShards reports, as one process would.
Right(p, shown, status, files) ==
    LET visible == {d \in Whole : ~Hides(p, d)}
        warnings == {d \in Whole : d.severity = "warning"}
    IN  /\ {shown[i] : i \in DOMAIN shown} = visible
        /\ Len(shown) = Cardinality(visible)
        /\ \A i, j \in DOMAIN shown : i < j => Precedes(shown[i], shown[j])
        /\ status = 0 <=>
               /\ \A d \in Whole : d.severity # "error"
               /\ p.denyWarnings => warnings = {}
               /\ \A most \in p.maxWarnings : Cardinality(warnings) <= most
        /\ files = Len(input.order)

LEMMA ShownRight ==
    ASSUME InputOK, NEW r, Complete(r), NEW p
    PROVE  LET all == Diagnostics(r)
               listed == Ranked({a \in DOMAIN all : ~Hides(p, all[a])}, SortOrder(all))
               shown == [i \in DOMAIN listed |-> all[listed[i]]]
               visible == {d \in Whole : ~Hides(p, d)}
           IN  /\ {shown[i] : i \in DOMAIN shown} = visible
               /\ Len(shown) = Cardinality(visible)
               /\ \A i, j \in DOMAIN shown : i < j => Precedes(shown[i], shown[j])
<1> DEFINE all == Diagnostics(r)
           A == {a \in DOMAIN all : ~Hides(p, all[a])}
           R == SortOrder(all)
           listed == Ranked(A, R)
           shown == [i \in DOMAIN listed |-> all[listed[i]]]
           visible == {d \in Whole : ~Hides(p, d)}
           n == Cardinality(A)
<1>1. /\ all \in [DOMAIN all -> Whole] /\ IsFiniteSet(DOMAIN all)
      /\ \A a, b \in DOMAIN all : all[a] = all[b] => a = b
      /\ \A d \in Whole : \E a \in DOMAIN all : all[a] = d
      /\ \A a, b \in DOMAIN all : <<a, b>> \in R <=> Precedes(all[a], all[b])
  BY DiagnosticsOnce
<1> HIDE DEF all, R
<1>2. A \in SUBSET DOMAIN all /\ (\A a \in A : all[a] \in visible) /\ \A d \in visible : \E a \in A : all[a] = d
  BY <1>1
<1> HIDE DEF A, visible
<1>3. IsFiniteSet(A) /\ Cardinality(visible) = n
  <2>1. IsFiniteSet(DOMAIN all) /\ \A a, b \in DOMAIN all : all[a] = all[b] => a = b
    BY <1>1
  <2> QED
    BY <1>2, <2>1, CountedOnce
<1>4. n \in Nat
  BY <1>3, FS_CardinalityType
<1>5. /\ \A a \in A : <<a, a>> \notin R
      /\ \A a, b, c \in A : <<a, b>> \in R /\ <<b, c>> \in R => <<a, c>> \in R
      /\ \A a, b \in A : a # b => <<a, b>> \in R \/ <<b, a>> \in R
  <2>1. \A a \in A : a \in DOMAIN all /\ all[a] \in Whole
    BY <1>1, <1>2
  <2>2. \A a, b \in A : a # b => all[a] # all[b]
    BY <1>1, <2>1
  <2>3. /\ \A d \in Whole : ~Precedes(d, d)
        /\ \A d, e, g \in Whole : Precedes(d, e) /\ Precedes(e, g) => Precedes(d, g)
        /\ \A d, e \in Whole : d # e => Precedes(d, e) \/ Precedes(e, d)
    BY WholeOrdered
  <2>4. \A a, b \in A : <<a, b>> \in R <=> Precedes(all[a], all[b])
    BY <1>1, <2>1
  <2> QED
    BY <2>1, <2>2, <2>3, <2>4
<1>6. /\ listed \in [1 .. n -> A]
      /\ \A a \in A : \E i \in 1 .. n : listed[i] = a
      /\ \A i, j \in 1 .. n : i < j => <<listed[i], listed[j]>> \in R
  BY <1>3, <1>5, RankedLists
<1> HIDE DEF n, listed
<1>7. DOMAIN listed = 1 .. n /\ shown \in [1 .. n -> visible]
  BY <1>2, <1>6
<1>8. Len(shown) = n /\ DOMAIN shown = 1 .. n
  BY <1>4, <1>7
<1>9. {shown[i] : i \in DOMAIN shown} = visible
  <2>1. \A i \in DOMAIN shown : shown[i] \in visible
    BY <1>7
  <2>2. ASSUME NEW d \in visible PROVE \E i \in DOMAIN shown : shown[i] = d
    <3>1. PICK a \in A : all[a] = d
      BY <1>2
    <3>2. PICK i \in 1 .. n : listed[i] = a
      BY <1>6
    <3> QED
      BY <1>7, <3>1, <3>2
  <2> QED
    BY <2>1, <2>2
<1>10. ASSUME NEW i \in DOMAIN shown, NEW j \in DOMAIN shown, i < j
       PROVE  Precedes(shown[i], shown[j])
  <2>1. i \in 1 .. n /\ j \in 1 .. n /\ <<listed[i], listed[j]>> \in R
    BY <1>6, <1>7, <1>10
  <2>2. listed[i] \in DOMAIN all /\ listed[j] \in DOMAIN all
    BY <1>2, <1>6, <2>1
  <2>3. Precedes(all[listed[i]], all[listed[j]])
    BY <1>1, <2>1, <2>2
  <2> QED
    BY <1>7, <2>1, <2>3
<1> QED
  BY <1>3, <1>8, <1>9, <1>10 DEF shown, listed, A, R, visible, all

LEMMA StatusRight ==
    ASSUME InputOK, NEW r, Complete(r), NEW p \in Policies
    PROVE  LET all == Diagnostics(r)
               warnings == {d \in Whole : d.severity = "warning"}
           IN  ~Fails(all, p) <=>
                   /\ \A d \in Whole : d.severity # "error"
                   /\ p.denyWarnings => warnings = {}
                   /\ \A most \in p.maxWarnings : Cardinality(warnings) <= most
<1> DEFINE all == Diagnostics(r)
           of(s) == {d \in Whole : d.severity = s}
<1>1. /\ all \in [DOMAIN all -> Whole] /\ IsFiniteSet(DOMAIN all)
      /\ \A a, b \in DOMAIN all : all[a] = all[b] => a = b
      /\ \A d \in Whole : \E a \in DOMAIN all : all[a] = d
  BY DiagnosticsOnce
<1> HIDE DEF all
<1>2. ASSUME NEW s
      PROVE  /\ Number(all, s) = Cardinality(of(s)) /\ Number(all, s) \in Nat
             /\ Number(all, s) = 0 <=> of(s) = {}
  <2> DEFINE A == {a \in DOMAIN all : all[a].severity = s}
  <2>1. A \in SUBSET DOMAIN all /\ (\A a \in A : all[a] \in of(s)) /\ \A d \in of(s) : \E a \in A : all[a] = d
    BY <1>1
  <2>2. Number(all, s) = Cardinality(A)
    BY DEF Number
  <2> DEFINE B == of(s)
  <2> HIDE DEF A, B
  <2>3. IsFiniteSet(A) /\ IsFiniteSet(B) /\ Cardinality(B) = Cardinality(A)
    BY <1>1, <2>1, CountedOnce DEF B
  <2>4. Cardinality(B) \in Nat /\ (Cardinality(B) = 0 <=> B = {})
    BY <2>3, FS_CardinalityType, FS_EmptySet
  <2> QED
    BY <2>2, <2>3, <2>4 DEF B
<1>3. (\A d \in Whole : d.severity # "error") <=> of("error") = {}
  OBVIOUS
<1>4. p.maxWarnings \subseteq Nat
  BY ReportsAssumption
<1> DEFINE errors == of("error")
           warnings == of("warning")
<1>5. /\ Number(all, "error") \in Nat /\ (Number(all, "error") = 0 <=> errors = {})
      /\ Number(all, "warning") = Cardinality(warnings) /\ Number(all, "warning") \in Nat
      /\ Number(all, "warning") = 0 <=> warnings = {}
  BY <1>2
<1> HIDE DEF errors, warnings
<1>6. ~Fails(all, p) <=>
          /\ errors = {}
          /\ p.denyWarnings => warnings = {}
          /\ \A most \in p.maxWarnings : Cardinality(warnings) <= most
  BY <1>4, <1>5 DEF Fails
<1> QED
  BY <1>3, <1>6 DEF all, errors, warnings

LEMMA RenderReports ==
    ASSUME InputOK, Complete(Merged), Render
    PROVE  AsOneProcess'
<1> DEFINE r == Merged
           all == Diagnostics(r)
           listed(p) == Ranked({a \in DOMAIN all : ~Hides(p, all[a])}, SortOrder(all))
           shown(p) == [i \in DOMAIN listed(p) |-> all[listed(p)[i]]]
           status(p) == IF Fails(all, p) THEN 1 ELSE 0
           files == Total([k \in DOMAIN r |-> Len(r[k])], DOMAIN r)
<1>1. input' = input /\ \E p \in Policies :
          report' = [policy |-> p, shown |-> shown(p), status |-> status(p), files |-> files]
  BY DEF Render
<1>2. PICK p \in Policies :
          report' = [policy |-> p, shown |-> shown(p), status |-> status(p), files |-> files]
  BY <1>1
<1>3. files = Len(input.order)
  BY FilesCounted
<1>4. Right(p, shown(p), status(p), files)
  <2> DEFINE warnings == {d \in Whole : d.severity = "warning"}
             fine == /\ \A d \in Whole : d.severity # "error"
                     /\ p.denyWarnings => warnings = {}
                     /\ \A most \in p.maxWarnings : Cardinality(warnings) <= most
  <2>1. ~Fails(all, p) <=> fine
    BY StatusRight
  <2>2. status(p) = 0 <=> fine
    <3> HIDE DEF fine, all
    <3> QED
      BY <2>1
  <2>3. /\ {shown(p)[i] : i \in DOMAIN shown(p)} = {d \in Whole : ~Hides(p, d)}
        /\ Len(shown(p)) = Cardinality({d \in Whole : ~Hides(p, d)})
        /\ \A i, j \in DOMAIN shown(p) : i < j => Precedes(shown(p)[i], shown(p)[j])
    BY ShownRight
  <2> DEFINE sh == shown(p)
             st == status(p)
  <2> HIDE DEF sh, st, fine, files
  <2>4. /\ {sh[i] : i \in DOMAIN sh} = {d \in Whole : ~Hides(p, d)}
        /\ Len(sh) = Cardinality({d \in Whole : ~Hides(p, d)})
        /\ \A i, j \in DOMAIN sh : i < j => Precedes(sh[i], sh[j])
        /\ st = 0 <=> fine
    BY <2>2, <2>3 DEF sh, st
  <2>5. Right(p, sh, st, files)
    BY <1>3, <2>4 DEF Right, fine
  <2> QED
    BY <2>5 DEF sh, st
<1>5. Whole' = Whole
  BY <1>1 DEF Whole, Diagnostic
<1> HIDE DEF shown, status, files, r
<1>6. /\ report'.policy = p /\ report'.shown = shown(p) /\ report'.status = status(p)
      /\ report'.files = files
  BY <1>2
<1> QED
  BY <1>1, <1>4, <1>5, <1>6 DEF AsOneProcess, Right

LEMMA InvocationKeepsTheReport ==
    ASSUME ShardsInv, ReportsInv, AsOneProcess, [InvocationNext]_<<shardVars, startupVars>>
    PROVE  AsOneProcess'
<1> SUFFICES ASSUME phase' = "reported" PROVE AsOneProcess'
  BY DEF AsOneProcess
<1>1. CASE phase = "reported" /\ UNCHANGED <<input, phase, report>>
  <2>1. Whole' = Whole
    BY <1>1 DEF Whole, Diagnostic
  <2> QED
    BY <1>1, <2>1 DEF AsOneProcess
<1>2. CASE Shard
  <2>1. CASE Render
    <3>1. Complete(Merged) /\ InputOK
      BY <2>1, MergedComplete DEF Render, ShardsInv
    <3> QED
      BY <2>1, <3>1, RenderReports
  <2>2. CASE Terminated
    BY <1>1, <2>2 DEF Terminated, vars
  <2>3. CASE Plan \/ Place \/ Assign \/ Batch \/ EndShard \/ Lint
    BY <2>3 DEF Plan, Place, Assign, Batch, EndShard, Lint
  <2> QED
    BY <1>2, <2>1, <2>2, <2>3 DEF Shard, Next
<1>3. CASE Discover
  BY <1>3 DEF Discover
<1>4. CASE Start \/ Split \/ Done \/ UNCHANGED <<shardVars, startupVars>>
  BY <1>1, <1>4 DEF Start, Split, Done, shardVars, vars
<1> QED
  BY <1>2, <1>3, <1>4 DEF InvocationNext

\* A command that is split reports what one process would (docs/lint-execution.md:91-93),
\* for any files, shards, batches, cache and order of the processes, and any policy.
THEOREM AlwaysReportsAsOneProcess == InvocationSpec => []AsOneProcess
<1> DEFINE Inv == StartupInv /\ ShardsInv /\ ReportsInv /\ AsOneProcess
<1>1. InvocationInit => Inv
  <2> SUFFICES ASSUME InvocationInit PROVE Inv
    OBVIOUS
  <2>1. outputs = <<>> /\ phase = "starting"
    BY DEF InvocationInit, Empty
  <2>2. ReportsInv
    <3>1. outputs \in Seq(Seq(Files)) /\ DOMAIN outputs = {}
      BY <2>1
    <3> QED
      BY <2>1, <3>1 DEF ReportsInv
  <2>3. AsOneProcess
    BY <2>1 DEF AsOneProcess
  <2> QED
    BY <2>2, <2>3, InitStarts, InitHasShards
<1>2. Inv /\ [InvocationNext]_<<shardVars, startupVars>> => Inv'
  BY InvocationKeepsStartup, InvocationKeepsShards, InvocationKeepsReports, InvocationKeepsTheReport
<1> QED
  BY <1>1, <1>2, PTL DEF InvocationSpec
=============================================================================
