------------------------- MODULE MemoryLimitsProofs -------------------------
(***************************************************************************)
(* Proofs about MemoryLimits: the arithmetic between bytes, megabytes and  *)
(* the clamp, for a megabyte of any number of bytes, any limits the        *)
(* containers are deployed with or callers ask for, and any number of      *)
(* changes.                                                                *)
(***************************************************************************)
EXTENDS MemoryLimits, SequenceTheorems, TLAPS

\* All that is needed of the ends of the clamp.
LEMMA ClampEnds ==
    /\ MemoryMinMb \in Nat /\ MemoryMaxMb \in Nat
    /\ 0 < MemoryMinMb /\ MemoryMinMb <= MemoryMaxMb /\ MemoryDefaultMb \in Nat
BY DEF MemoryMinMb, MemoryMaxMb, MemoryDefaultMb

\* Whole megabytes, and what is cut off.
LEMMA Megabytes ==
    ASSUME NEW bytes \in Nat
    PROVE  /\ bytes \div Mb \in Nat
           /\ (bytes \div Mb) * Mb <= bytes
           /\ bytes < (bytes \div Mb + 1) * Mb
           /\ bytes % Mb = 0 => bytes = (bytes \div Mb) * Mb
<1>1. bytes \div Mb \in Nat
  BY MbAssumption
<1>2. (bytes \div Mb) * Mb <= bytes
  BY MbAssumption
<1>3. bytes < (bytes \div Mb + 1) * Mb
  BY MbAssumption
<1>4. bytes % Mb = 0 => bytes = (bytes \div Mb) * Mb
  BY MbAssumption
<1> QED
  BY <1>1, <1>2, <1>3, <1>4

\* A limit the handlers set is one of the clamp's.
LEMMA ScaledIsExact ==
    ASSUME NEW mb \in Int
    PROVE  /\ Clamp(mb) \in MemoryMinMb..MemoryMaxMb
           /\ mb \in MemoryMinMb..MemoryMaxMb => Clamp(mb) = mb
           /\ ScaledTo(mb) = Clamp(mb) * Mb
           /\ ScaledTo(mb) \in Nat /\ Exact(ScaledTo(mb))
<1>1. Clamp(mb) \in MemoryMinMb..MemoryMaxMb /\ (mb \in MemoryMinMb..MemoryMaxMb => Clamp(mb) = mb)
  BY ClampEnds DEF Clamp
<1>2. \A q \in Nat : q * Mb \in Nat /\ (q * Mb) % Mb = 0 /\ (q * Mb) \div Mb = q
  <2> SUFFICES ASSUME NEW q \in Nat
               PROVE  q * Mb \in Nat /\ (q * Mb) % Mb = 0 /\ (q * Mb) \div Mb = q
    OBVIOUS
  <2>1. q * Mb \in Nat
    BY MbAssumption
  <2>2. (q * Mb) \div Mb = q
    BY MbAssumption
  <2>3. (q * Mb) - ((q * Mb) \div Mb) * Mb = (q * Mb) % Mb
    BY <2>1, MbAssumption
  <2> QED
    BY <2>1, <2>2, <2>3
<1>3. Clamp(mb) \in Nat
  BY <1>1, ClampEnds
<1> QED
  BY <1>1, <1>2, <1>3 DEF ScaledTo, Exact

\* The limit a remediation asks for.
LEMMA TargetType ==
    ASSUME NEW bytes \in Nat
    PROVE  TargetMb(bytes) \in MemoryMinMb..MemoryMaxMb
<1>1. bytes \div Mb \in Nat
  BY Megabytes
<1>2. HeadroomFactor * (IF bytes # 0 THEN bytes \div Mb ELSE MemoryDefaultMb) \in Int
  BY <1>1, ClampEnds DEF HeadroomFactor
<1> QED
  BY <1>2, ScaledIsExact DEF TargetMb

\* What doubling the whole megabytes within the clamp does to the bytes.
LEMMA Doubled ==
    ASSUME NEW bytes \in Nat, NEW whole \in Nat, NEW mb \in Nat \ {0},
           NEW min \in Nat, NEW max \in Nat, NEW target \in Nat,
           0 < min, min <= max, bytes <= max * mb, bytes < (whole + 1) * mb,
           target = IF 2 * whole < min THEN min ELSE IF 2 * whole > max THEN max ELSE 2 * whole
    PROVE  target * mb >= bytes /\ (target * mb > 2 * (bytes - mb) \/ target = max)
<1>1. \A a, b \in Nat : a <= b => a * mb <= b * mb
  OBVIOUS
<1>2. (whole + 1) * mb = whole * mb + mb /\ (2 * whole) * mb = 2 * (whole * mb)
      /\ whole * mb \in Nat /\ target * mb \in Nat
  OBVIOUS
<1>3. target = max \/ (whole + 1 <= target /\ 2 * whole <= target)
  OBVIOUS
<1>4. ASSUME whole + 1 <= target, 2 * whole <= target
      PROVE  target * mb >= bytes /\ target * mb > 2 * (bytes - mb)
  <2>1. (whole + 1) * mb <= target * mb
    BY <1>1, <1>4
  <2>2. (2 * whole) * mb <= target * mb
    BY <1>1, <1>4
  <2> QED
    BY <1>2, <2>1, <2>2
<1> QED
  BY <1>3, <1>4

\* A sequence without its last element.
LEMMA AllButLast ==
    ASSUME NEW S, NEW s \in Seq(S), s # <<>>
    PROVE  LET rest == SubSeq(s, 1, Len(s) - 1)
           IN  /\ Len(s) \in Nat /\ Len(s) >= 1 /\ rest \in Seq(S)
               /\ Len(rest) = Len(s) - 1
               /\ \A i \in 1..Len(rest) : rest[i] = s[i]
<1>1. Len(s) \in Nat /\ Len(s) >= 1
  BY EmptySeq, LenProperties
<1>2. \A i \in 1..(Len(s) - 1) : s[i] \in S
  BY <1>1, ElementOfSeq
<1> DEFINE rest == SubSeq(s, 1, Len(s) - 1)
<1>3. /\ rest \in Seq(S)
      /\ Len(rest) = IF 1 <= Len(s) - 1 THEN (Len(s) - 1) - 1 + 1 ELSE 0
      /\ \A i \in 1..((Len(s) - 1) - 1 + 1) : rest[i] = s[1 + i - 1]
  <2> HIDE DEF rest
  <2> QED
    BY <1>1, <1>2, SubSeqProperties DEF rest
<1> HIDE DEF rest
<1>4. Len(rest) = Len(s) - 1
  <2>1. \A n \in Nat : n >= 1 => (IF 1 <= n - 1 THEN (n - 1) - 1 + 1 ELSE 0) = n - 1
    OBVIOUS
  <2> QED
    BY <1>1, <1>3, <2>1
<1>5. \A i \in 1..Len(rest) : rest[i] = s[i]
  BY <1>1, <1>3, <1>4
<1> QED
  BY <1>1, <1>3, <1>4, <1>5 DEF rest

\* The limit a task keeps is one of the clamp's.
LEMMA ProposalType ==
    ASSUME LimitsTypeOK, NEW t \in Task, proposed[t] # None
    PROVE  /\ proposed[t].limit_mb \in MemoryMinMb..MemoryMaxMb
           /\ proposed[t].limit_mb \in Int /\ proposed[t].read \in Nat
<1>1. proposed[t] \in [limit_mb: MemoryMinMb..MemoryMaxMb, read: Nat]
  BY DEF LimitsTypeOK
<1>2. proposed[t].limit_mb \in MemoryMinMb..MemoryMaxMb /\ proposed[t].read \in Nat
  BY <1>1
<1> QED
  BY <1>2, ClampEnds

Sized ==
    /\ LimitsTypeOK
    /\ PlansAreInverses
    /\ ProposalsAreSized
    /\ RemediationIsSized

LEMMA StartsSized == Init => Sized
<1> SUFFICES ASSUME Init PROVE Sized
  OBVIOUS
<1>1. /\ limit \in Deployed /\ proposed = [t \in Task |-> None] /\ plans = <<>>
      /\ before = <<>> /\ reading = None
  BY DEF Init
<1>2. limit \in Nat
  BY <1>1, DeployedAssumption
<1>3. proposed \in [Task -> [limit_mb: MemoryMinMb..MemoryMaxMb, read: Nat] \cup {None}]
  BY <1>1
<1>4. \A t \in Task : proposed[t] = None
  BY <1>1
<1>5. Len(plans) = 0 /\ Len(before) = 0
      /\ plans \in Seq((Nat \ {0}) \cup {None}) /\ before \in Seq(Nat)
  BY <1>1
<1> QED
  BY <1>1, <1>2, <1>3, <1>4, <1>5
     DEF Sized, LimitsTypeOK, PlansAreInverses, ProposalsAreSized, RemediationIsSized

\* A change appends its inverse.
LEMMA ScaleSized ==
    ASSUME Sized, NEW mb \in Int, Scale(mb)
    PROVE  /\ limit' \in Nat /\ Exact(limit')
           /\ plans' \in Seq((Nat \ {0}) \cup {None}) /\ before' \in Seq(Nat)
           /\ Len(plans') = Len(before')
           /\ PlansAreInverses'
<1>1. /\ limit \in Nat /\ plans \in Seq((Nat \ {0}) \cup {None}) /\ before \in Seq(Nat)
      /\ Len(plans) = Len(before)
  BY DEF Sized, LimitsTypeOK
<1>2. PICK plan \in {Captured(limit, mb), None} : plans' = Append(plans, plan)
  BY DEF Scale
<1>3. before' = Append(before, limit) /\ limit' = ScaledTo(mb)
  BY DEF Scale
<1>4. plan \in (Nat \ {0}) \cup {None} /\ (plan # None => plan = limit \div Mb)
  BY <1>1, Megabytes DEF Captured
<1>5. limit' \in Nat /\ Exact(limit')
  BY <1>3, ScaledIsExact
<1>6. plans' \in Seq((Nat \ {0}) \cup {None}) /\ before' \in Seq(Nat)
      /\ Len(plans') = Len(before')
  BY <1>1, <1>2, <1>3, <1>4, AppendProperties
<1>7. PlansAreInverses'
  <2>1. Len(plans) \in Nat /\ Len(plans') = Len(plans) + 1
    BY <1>1, <1>2, <1>4, AppendProperties, LenProperties
  <2>2. \A i \in 1..Len(plans) : plans'[i] = plans[i] /\ before'[i] = before[i]
    BY <1>1, <1>2, <1>3, <1>4, AppendProperties
  <2>3. plans'[Len(plans) + 1] = plan /\ before'[Len(plans) + 1] = limit
    BY <1>1, <1>2, <1>3, <1>4, AppendProperties
  <2>4. \A i \in 1..Len(plans) : plans[i] # None => plans[i] = before[i] \div Mb
    BY DEF Sized, PlansAreInverses
  <2>5. SUFFICES ASSUME NEW i \in 1..(Len(plans) + 1), plans'[i] # None
                 PROVE  plans'[i] = before'[i] \div Mb
    BY <2>1 DEF PlansAreInverses
  <2>6. CASE i \in 1..Len(plans)
    BY <2>2, <2>4, <2>5, <2>6
  <2>7. CASE i = Len(plans) + 1
    BY <1>4, <2>3, <2>5, <2>7
  <2> QED
    BY <2>1, <2>6, <2>7
<1> QED
  BY <1>5, <1>6, <1>7

\* A plan keeps what its reading comes to.
LEMMA ProposeSized ==
    ASSUME Sized, NEW t \in Task, Propose(t)
    PROVE  Sized'
<1>1. PICK bytes \in Readings :
        proposed' = [proposed EXCEPT ![t] = [limit_mb |-> TargetMb(bytes), read |-> bytes]]
  BY DEF Propose
<1>2. bytes \in Nat
  BY DeployedAssumption DEF Readings, Sized, LimitsTypeOK
<1>3. TargetMb(bytes) \in MemoryMinMb..MemoryMaxMb
  BY <1>2, TargetType
<1>4. reading' = None /\ UNCHANGED <<limit, plans, before>>
  BY DEF Propose
<1> DEFINE proposal == [limit_mb |-> TargetMb(bytes), read |-> bytes]
<1>5. proposal \in [limit_mb: MemoryMinMb..MemoryMaxMb, read: Nat]
  BY <1>2, <1>3
<1>6. proposal.limit_mb = TargetMb(proposal.read)
  OBVIOUS
<1>7. proposed \in [Task -> [limit_mb: MemoryMinMb..MemoryMaxMb, read: Nat] \cup {None}]
  BY DEF Sized, LimitsTypeOK
<1> HIDE DEF proposal
<1>8. proposed' = [proposed EXCEPT ![t] = proposal]
  BY <1>1 DEF proposal
<1>9. proposed' \in [Task -> [limit_mb: MemoryMinMb..MemoryMaxMb, read: Nat] \cup {None}]
  BY <1>5, <1>7, <1>8
<1>10. ProposalsAreSized'
  BY <1>6, <1>7, <1>8 DEF Sized, ProposalsAreSized
<1> QED
  BY <1>4, <1>9, <1>10
     DEF Sized, LimitsTypeOK, PlansAreInverses, RemediationIsSized, Exact

\* A remediation applies what its task kept.
LEMMA RemediateSized ==
    ASSUME Sized, NEW t \in Task, Remediate(t)
    PROVE  Sized'
<1>1. /\ proposed[t] # None /\ Scale(proposed[t].limit_mb)
      /\ reading' = proposed[t].read
      /\ proposed' = [proposed EXCEPT ![t] = None]
  BY DEF Remediate
<1>2. proposed[t].limit_mb \in Int /\ proposed[t].read \in Nat
  BY <1>1, ProposalType DEF Sized
<1>3. /\ limit' \in Nat /\ Exact(limit')
      /\ plans' \in Seq((Nat \ {0}) \cup {None}) /\ before' \in Seq(Nat)
      /\ Len(plans') = Len(before')
      /\ PlansAreInverses'
  BY <1>1, <1>2, ScaleSized
<1>4. proposed' \in [Task -> [limit_mb: MemoryMinMb..MemoryMaxMb, read: Nat] \cup {None}]
  BY <1>1 DEF Sized, LimitsTypeOK
<1>5. ProposalsAreSized'
  <2> SUFFICES ASSUME NEW u \in Task, proposed'[u] # None
               PROVE  proposed'[u].limit_mb = TargetMb(proposed'[u].read)
    BY DEF ProposalsAreSized
  <2>1. proposed'[u] = proposed[u]
    BY <1>1 DEF Sized, LimitsTypeOK
  <2> QED
    BY <2>1 DEF Sized, ProposalsAreSized
<1>6. RemediationIsSized'
  <2>1. limit' = ScaledTo(proposed[t].limit_mb)
    BY <1>1 DEF Scale
  <2>2. proposed[t].limit_mb = TargetMb(proposed[t].read)
    BY <1>1 DEF Sized, ProposalsAreSized
  <2> QED
    BY <1>1, <2>1, <2>2 DEF RemediationIsSized
<1> QED
  BY <1>1, <1>2, <1>3, <1>4, <1>5, <1>6 DEF Sized, LimitsTypeOK, Exact

\* Another caller's change is no remediation.
LEMMA OperateSized ==
    ASSUME Sized, Operate
    PROVE  Sized'
<1>1. PICK mb \in Asked : Scale(mb)
  BY DEF Operate
<1>2. reading' = None /\ proposed' = proposed
  BY DEF Operate
<1>3. /\ limit' \in Nat /\ Exact(limit')
      /\ plans' \in Seq((Nat \ {0}) \cup {None}) /\ before' \in Seq(Nat)
      /\ Len(plans') = Len(before')
      /\ PlansAreInverses'
  BY <1>1, ScaleSized, DeployedAssumption
<1> QED
  BY <1>2, <1>3 DEF Sized, LimitsTypeOK, ProposalsAreSized, RemediationIsSized, Exact

\* An undo takes the newest plan away.
LEMMA UndoSized ==
    ASSUME Sized, Undo
    PROVE  Sized'
<1>1. /\ limit \in Nat /\ plans \in Seq((Nat \ {0}) \cup {None}) /\ before \in Seq(Nat)
      /\ Len(plans) = Len(before) /\ plans # <<>>
  BY DEF Sized, LimitsTypeOK, Undo
<1>2. /\ plans' = SubSeq(plans, 1, Len(plans) - 1)
      /\ before' = SubSeq(before, 1, Len(before) - 1)
      /\ reading' = None /\ proposed' = proposed
  BY DEF Undo
<1>3. before # <<>> /\ Len(plans) \in Nat /\ Len(plans) >= 1
  BY <1>1, EmptySeq, LenProperties
<1>4. /\ plans' \in Seq((Nat \ {0}) \cup {None}) /\ before' \in Seq(Nat)
      /\ Len(plans') = Len(plans) - 1 /\ Len(before') = Len(before) - 1
      /\ \A i \in 1..Len(plans') : plans'[i] = plans[i]
      /\ \A i \in 1..Len(before') : before'[i] = before[i]
  BY <1>1, <1>2, <1>3, AllButLast
<1>5. LimitsTypeOK'
  <2>1. limit' \in Nat /\ (limit \in Deployed \/ Exact(limit))'
    <3>1. CASE plans[Len(plans)] = None
      BY <3>1 DEF Sized, LimitsTypeOK, Undo, Exact
    <3>2. CASE plans[Len(plans)] # None
      <4>1. plans[Len(plans)] \in (Nat \ {0}) \cup {None}
        BY <1>1, <1>3, ElementOfSeq
      <4>2. plans[Len(plans)] \in Int /\ limit' = ScaledTo(plans[Len(plans)])
        BY <3>2, <4>1 DEF Undo
      <4> QED
        BY <4>2, ScaledIsExact DEF Exact
    <3> QED
      BY <3>1, <3>2
  <2> QED
    BY <1>1, <1>2, <1>4, <2>1 DEF Sized, LimitsTypeOK
<1>6. PlansAreInverses'
  <2>1. \A i \in 1..Len(plans) : plans[i] # None => plans[i] = before[i] \div Mb
    BY DEF Sized, PlansAreInverses
  <2>2. SUFFICES ASSUME NEW i \in 1..Len(plans'), plans'[i] # None
                 PROVE  plans'[i] = before'[i] \div Mb
    BY DEF PlansAreInverses
  <2>3. i \in 1..Len(plans) /\ plans'[i] = plans[i] /\ before'[i] = before[i]
    BY <1>1, <1>3, <1>4
  <2> QED
    BY <2>1, <2>2, <2>3
<1>7. ProposalsAreSized' /\ RemediationIsSized'
  BY <1>2 DEF Sized, ProposalsAreSized, RemediationIsSized
<1> QED
  BY <1>5, <1>6, <1>7 DEF Sized

LEMMA SizedInvariant == Spec => []Sized
<1>1. Init => Sized
  BY StartsSized
<1>2. Sized /\ [Next]_vars => Sized'
  <2> SUFFICES ASSUME Sized, [Next]_vars PROVE Sized'
    OBVIOUS
  <2>1. ASSUME NEW t \in Task, Propose(t) PROVE Sized'
    BY <2>1, ProposeSized
  <2>2. ASSUME NEW t \in Task, Remediate(t) PROVE Sized'
    BY <2>2, RemediateSized
  <2>3. CASE Operate
    BY <2>3, OperateSized
  <2>4. CASE Undo
    BY <2>4, UndoSized
  <2>5. CASE UNCHANGED vars
    BY <2>5 DEF vars, Sized, LimitsTypeOK, PlansAreInverses, ProposalsAreSized,
                RemediationIsSized, Exact
  <2> QED
    BY <2>1, <2>2, <2>3, <2>4, <2>5 DEF Next
<1> QED
  BY <1>1, <1>2, PTL DEF Spec

\* The handlers of ops_tools.py and _build_rollback keep limits whole
\* megabytes of the clamp, and a plan is never a limit of 0.
THEOREM LimitsTyped == Spec => []LimitsTypeOK
<1>1. Sized => LimitsTypeOK
  BY DEF Sized
<1> QED
  BY <1>1, SizedInvariant, PTL

\* What _build_rollback captured before scale_memory puts the limit back to
\* the byte where it was one the tools can set, however many changes deep.
THEOREM ChangesAreRetraced == Spec => []UndoRetraces
<1>1. Sized => UndoRetraces
  <2> SUFFICES ASSUME Sized, NEW i \in 1..Len(plans), plans[i] # None, Exact(before[i])
               PROVE  ScaledTo(plans[i]) = before[i]
    BY DEF UndoRetraces
  <2>1. plans[i] = before[i] \div Mb /\ before[i] \in Nat
    BY ElementOfSeq DEF Sized, LimitsTypeOK, PlansAreInverses
  <2>2. plans[i] \in MemoryMinMb..MemoryMaxMb /\ before[i] = plans[i] * Mb
    BY <2>1, Megabytes DEF Exact
  <2>3. Clamp(plans[i]) = plans[i]
    <3>1. plans[i] \in Int
      BY <2>2, ClampEnds
    <3> QED
      BY <2>2, <3>1, ScaledIsExact
  <2> QED
    BY <2>2, <2>3 DEF ScaledTo
<1> QED
  BY <1>1, SizedInvariant, PTL

\* derive_arguments, the plan _apply and _resume take from the task, and the
\* clamp: whatever came between the reading and the change, a remediation leaves
\* the double of what was read, up to the ceiling, and never less than was read.
THEOREM RemediationsGrow == Spec => []RemediationGrows
<1>1. Sized => RemediationGrows
  <2> SUFFICES ASSUME Sized, reading # None, reading \in 1..(MemoryMaxMb * Mb)
               PROVE  /\ limit >= reading
                      /\ limit > 2 * (reading - Mb) \/ limit = MemoryMaxMb * Mb
    BY DEF RemediationGrows
  <2> DEFINE bytes == reading
             whole == bytes \div Mb
  <2>1. bytes \in Nat /\ bytes # 0 /\ bytes <= MemoryMaxMb * Mb /\ Mb \in Nat \ {0}
    <3>1. MemoryMaxMb * Mb \in Nat
      BY MbAssumption, ClampEnds
    <3> QED
      BY <3>1, MbAssumption
  <2>2. whole \in Nat /\ bytes < (whole + 1) * Mb
    BY <2>1, Megabytes
  <2>3. limit = TargetMb(bytes) * Mb
    <3>1. TargetMb(bytes) \in MemoryMinMb..MemoryMaxMb
      BY <2>1, TargetType
    <3>2. ScaledTo(TargetMb(bytes)) = TargetMb(bytes) * Mb
      BY <3>1, ScaledIsExact
    <3> QED
      BY <3>2 DEF Sized, RemediationIsSized
  <2>4. TargetMb(bytes) = IF 2 * whole < MemoryMinMb THEN MemoryMinMb
                          ELSE IF 2 * whole > MemoryMaxMb THEN MemoryMaxMb ELSE 2 * whole
    BY <2>1 DEF TargetMb, Clamp, HeadroomFactor
  <2>5. TargetMb(bytes) \in Nat
    BY <2>1, TargetType, ClampEnds
  <2>6. /\ TargetMb(bytes) * Mb >= bytes
        /\ TargetMb(bytes) * Mb > 2 * (bytes - Mb) \/ TargetMb(bytes) = MemoryMaxMb
    <3> HIDE DEF bytes, whole
    <3> QED
      BY <2>1, <2>2, <2>4, <2>5, ClampEnds, Doubled
  <2> QED
    BY <2>3, <2>6
<1> QED
  BY <1>1, SizedInvariant, PTL
=============================================================================
