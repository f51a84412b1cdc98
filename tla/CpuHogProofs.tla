----------------------------- MODULE CpuHogProofs -----------------------------
(***************************************************************************)
(* Theorems of CpuHog for every number of spinners.                        *)
(***************************************************************************)
EXTENDS CpuHog, FiniteSetTheorems, TLAPS

-----------------------------------------------------------------------------
(* Lemmas.                                                                 *)

\* The caller is none of the spinners.
LEMMA CallerApart == Caller \notin Spinners
  BY ThreadsAssumption DEF Caller, Spinners

\* Only one thread holds the lock.
LEMMA OneOwner ==
    ASSUME MutualExclusion, NEW s \in {Caller} \cup Spinners, s \in owner
    PROVE  owner = {s}
  BY DEF MutualExclusion

LEMMA GrantsFinite ==
    ASSUME HogTypeOK
    PROVE  IsFiniteSet(grantedTo) /\ Cardinality(grantedTo) \in Nat
<1>1. IsFiniteSet(Spinners)
  BY ThreadsAssumption, FS_Interval DEF Spinners
<1>2. QED
  BY <1>1, FS_Subset, FS_CardinalityType DEF HogTypeOK

\* A spinner that goes from one place past its request to another leaves the
\* count of the grants alone.
LEMMA GrantsKept ==
    ASSUME HogTypeOK, GrantsCounted, UNCHANGED << granted, band, grantedTo >>,
           \A i \in Spinners :
               at[i] \notin {"unborn", "policy"} => at'[i] \notin {"unborn", "policy"}
    PROVE  GrantsCounted'
<1>1. granted' = Cardinality(grantedTo')
  BY DEF GrantsCounted
<1>2. \A i \in grantedTo' : at'[i] \notin {"unborn", "policy"}
  BY DEF GrantsCounted, HogTypeOK
<1>3. FALSE \in band' => \E i \in Spinners \ grantedTo' : at'[i] \notin {"unborn", "policy"}
  BY DEF GrantsCounted
<1>4. TRUE \in band' => grantedTo' # {}
  BY DEF GrantsCounted
<1>5. band' = {} => grantedTo' = {}
  BY DEF GrantsCounted
<1>6. QED
  BY <1>1, <1>2, <1>3, <1>4, <1>5 DEF GrantsCounted

LEMMA HogInductiveInit == HogInit => HogInductive
<1> SUFFICES ASSUME HogInit PROVE HogInductive
  OBVIOUS
<1>1. HogTypeOK
  BY DEF HogInit, HogTypeOK, Word
<1>2. MutualExclusion /\ SeenUnderLock /\ NoLostWakeup /\ StopOrder
  BY DEF HogInit, MutualExclusion, SeenUnderLock, NoLostWakeup, StopOrder
<1>3. GrantsCounted
  BY FS_EmptySet DEF HogInit, GrantsCounted
<1>4. QED
  BY <1>1, <1>2, <1>3 DEF HogInductive

-----------------------------------------------------------------------------
(* The spinners' steps.                                                    *)

LEMMA SpawnPreserves ==
    ASSUME HogInductive, NEW i \in Spinners, Spawn(i), word # "TERMINATE"
    PROVE  HogInductive'
<1> USE DEF HogInductive, Spawn, Move, policyUnchanged
<1>1. HogTypeOK'
  BY DEF HogTypeOK
<1>2. MutualExclusion'
  BY DEF MutualExclusion, HogTypeOK
<1>3. SeenUnderLock' /\ NoLostWakeup' /\ StopOrder'
  BY DEF SeenUnderLock, NoLostWakeup, StopOrder, HogTypeOK
<1>4. GrantsCounted'
  BY GrantsKept DEF HogTypeOK
<1>5. QED
  BY <1>1, <1>2, <1>3, <1>4

LEMMA RequestPolicyPreserves ==
    ASSUME HogInductive, NEW i \in Spinners, NEW ok \in BOOLEAN, RequestPolicy(i, ok)
    PROVE  HogInductive'
<1> USE DEF HogInductive, RequestPolicy, Move, signalUnchanged
<1>1. HogTypeOK'
  <2>1. granted' \in Nat
    BY DEF HogTypeOK
  <2>2. QED
    BY <2>1 DEF HogTypeOK
<1>2. MutualExclusion'
  BY DEF MutualExclusion, HogTypeOK
<1>3. SeenUnderLock' /\ NoLostWakeup' /\ StopOrder'
  BY DEF SeenUnderLock, NoLostWakeup, StopOrder, HogTypeOK
<1>4. GrantsCounted'
  <2>1. i \notin grantedTo
    BY DEF GrantsCounted
  <2>2. granted' = Cardinality(grantedTo')
    <3>1. CASE ok
      BY <2>1, <3>1, GrantsFinite, FS_AddElement DEF GrantsCounted
    <3>2. CASE ~ok
      BY <3>2, GrantsFinite DEF GrantsCounted
    <3>3. QED
      BY <3>1, <3>2
  <2>3. /\ at'[i] = "load" /\ band' = {ok}
        /\ grantedTo' = grantedTo \cup (IF ok THEN {i} ELSE {})
        /\ \A j \in Spinners : j # i => at'[j] = at[j]
    BY DEF HogTypeOK
  <2>4. \A j \in grantedTo' : at'[j] \notin {"unborn", "policy"}
    BY <2>3 DEF GrantsCounted, HogTypeOK
  <2>5. FALSE \in band' => \E j \in Spinners \ grantedTo' : at'[j] \notin {"unborn", "policy"}
    BY <2>1, <2>3
  <2>6. TRUE \in band' => grantedTo' # {}
    BY <2>3
  <2>7. QED
    BY <2>2, <2>3, <2>4, <2>5, <2>6 DEF GrantsCounted
<1>5. QED
  BY <1>1, <1>2, <1>3, <1>4

LEMMA PropagatePreserves ==
    ASSUME HogInductive, NEW i \in Spinners, Propagate(i)
    PROVE  HogInductive'
<1> USE DEF HogInductive, Propagate, signalUnchanged, policyUnchanged
<1>1. HogTypeOK'
  BY DEF HogTypeOK
<1>2. MutualExclusion' /\ SeenUnderLock' /\ NoLostWakeup' /\ StopOrder'
  BY DEF MutualExclusion, SeenUnderLock, NoLostWakeup, StopOrder, HogTypeOK
<1>3. GrantsCounted'
  BY GrantsKept
<1>4. QED
  BY <1>1, <1>2, <1>3

\* The steps that neither take nor give the lock.
LEMMA UnlockedPreserves ==
    ASSUME HogInductive, NEW i \in Spinners, Load(i) \/ Spin(i) \/ SpuriousWakeup(i)
    PROVE  HogInductive'
<1>1. PICK to \in {"spin", "ended", "acquire", "load"} :
          /\ at' = [at EXCEPT ![i] = to]
          /\ at[i] \in {"load", "spin", "waiting"}
          /\ UNCHANGED << word, seen, owner, calling, next, handles, granted, band, grantedTo >>
  BY DEF Load, Spin, SpuriousWakeup, Move, signalUnchanged, policyUnchanged
<1> USE DEF HogInductive
<1>2. HogTypeOK'
  BY <1>1 DEF HogTypeOK
<1>3. MutualExclusion'
  BY <1>1 DEF MutualExclusion, HogTypeOK
<1>4. SeenUnderLock' /\ NoLostWakeup' /\ StopOrder'
  BY <1>1 DEF SeenUnderLock, NoLostWakeup, StopOrder, HogTypeOK
<1>5. GrantsCounted'
  BY <1>1, GrantsKept DEF HogTypeOK
<1>6. QED
  BY <1>2, <1>3, <1>4, <1>5

LEMMA AcquirePreserves ==
    ASSUME HogInductive, NEW i \in Spinners, Acquire(i)
    PROVE  HogInductive'
<1> USE DEF HogInductive, Acquire, Move, signalUnchanged, policyUnchanged
<1>1. HogTypeOK'
  BY DEF HogTypeOK
<1>2. MutualExclusion'
  BY CallerApart DEF MutualExclusion, HogTypeOK
<1>3. SeenUnderLock' /\ NoLostWakeup' /\ StopOrder'
  BY DEF SeenUnderLock, NoLostWakeup, StopOrder, HogTypeOK
<1>4. GrantsCounted'
  BY GrantsKept DEF HogTypeOK
<1>5. QED
  BY <1>1, <1>2, <1>3, <1>4

LEMMA RetestPreserves ==
    ASSUME HogInductive, NEW i \in Spinners, Retest(i)
    PROVE  HogInductive'
<1> USE DEF HogInductive, Retest, Move, signalUnchanged, policyUnchanged
<1>1. HogTypeOK'
  BY DEF HogTypeOK
<1>2. owner = {i} /\ seen[i] = word
  BY OneOwner DEF MutualExclusion, SeenUnderLock
<1>3. MutualExclusion'
  BY <1>2, CallerApart DEF MutualExclusion, HogTypeOK
<1>4. SeenUnderLock' /\ NoLostWakeup' /\ StopOrder'
  BY <1>2 DEF SeenUnderLock, NoLostWakeup, StopOrder, HogTypeOK
<1>5. GrantsCounted'
  BY GrantsKept DEF HogTypeOK
<1>6. QED
  BY <1>1, <1>3, <1>4, <1>5

LEMMA BlockPreserves ==
    ASSUME HogInductive, NEW i \in Spinners, Block(i)
    PROVE  HogInductive'
<1> USE DEF HogInductive, Block, Move, signalUnchanged, policyUnchanged
<1>1. HogTypeOK'
  BY DEF HogTypeOK
<1>2. owner = {i}
  BY OneOwner DEF MutualExclusion
<1>3. MutualExclusion'
  BY <1>2, CallerApart DEF MutualExclusion, HogTypeOK
<1>4. SeenUnderLock' /\ NoLostWakeup' /\ StopOrder'
  BY <1>2 DEF SeenUnderLock, NoLostWakeup, StopOrder, HogTypeOK
<1>5. GrantsCounted'
  BY GrantsKept DEF HogTypeOK
<1>6. QED
  BY <1>1, <1>3, <1>4, <1>5

-----------------------------------------------------------------------------
(* The caller's steps.                                                     *)

LEMMA SetPreserves ==
    ASSUME HogInductive, NEW v \in Word, Set(v)
    PROVE  HogInductive'
<1> USE DEF HogInductive, Set, policyUnchanged
<1>1. HogTypeOK'
  BY DEF HogTypeOK
<1>2. MutualExclusion' /\ SeenUnderLock' /\ NoLostWakeup' /\ StopOrder'
  BY DEF MutualExclusion, SeenUnderLock, NoLostWakeup, StopOrder
<1>3. GrantsCounted'
  BY GrantsKept
<1>4. QED
  BY <1>1, <1>2, <1>3

LEMMA SetLockPreserves ==
    ASSUME HogInductive, SetLock
    PROVE  HogInductive'
<1> USE DEF HogInductive, SetLock, policyUnchanged
<1>1. HogTypeOK'
  BY DEF HogTypeOK
<1>2. MutualExclusion' /\ SeenUnderLock' /\ NoLostWakeup' /\ StopOrder'
  BY CallerApart DEF MutualExclusion, SeenUnderLock, NoLostWakeup, StopOrder
<1>3. GrantsCounted'
  BY GrantsKept
<1>4. QED
  BY <1>1, <1>2, <1>3

LEMMA SetStorePreserves ==
    ASSUME HogInductive, SetStore
    PROVE  HogInductive'
<1> USE DEF HogInductive, SetStore, policyUnchanged
<1>1. HogTypeOK'
  BY DEF HogTypeOK
<1>2. owner = {Caller}
  BY OneOwner DEF MutualExclusion
<1>3. \A i \in Spinners : i \notin owner /\ at[i] \notin {"retest", "block"}
  BY <1>2, CallerApart DEF MutualExclusion
<1>4. MutualExclusion' /\ SeenUnderLock' /\ NoLostWakeup' /\ StopOrder'
  BY <1>2, <1>3 DEF MutualExclusion, SeenUnderLock, NoLostWakeup, StopOrder
<1>5. GrantsCounted'
  BY GrantsKept
<1>6. QED
  BY <1>1, <1>4, <1>5

LEMMA SetNotifyPreserves ==
    ASSUME HogInductive, SetNotify
    PROVE  HogInductive'
<1> USE DEF HogInductive, SetNotify, AfterSet, policyUnchanged
<1>1. owner = {Caller}
  BY OneOwner DEF MutualExclusion
<1>2. \A i \in Spinners : at[i] \notin {"retest", "block"}
  BY <1>1, CallerApart DEF MutualExclusion
<1>3. \A i \in Spinners : at'[i] = IF at[i] = "waiting" THEN "acquire" ELSE at[i]
  BY DEF Wake
<1>4. HogTypeOK'
  BY DEF HogTypeOK, Wake
<1>5. MutualExclusion' /\ SeenUnderLock'
  BY <1>2, <1>3 DEF MutualExclusion, SeenUnderLock
<1>6. NoLostWakeup'
  BY <1>2, <1>3 DEF NoLostWakeup
<1>7. StopOrder'
  BY <1>3 DEF StopOrder
<1>8. GrantsCounted'
  BY <1>3, GrantsKept
<1>9. QED
  BY <1>4, <1>5, <1>6, <1>7, <1>8

LEMMA JoinPreserves ==
    ASSUME HogInductive, NEW i \in Spinners, Join(i)
    PROVE  HogInductive'
<1> USE DEF HogInductive, Join, policyUnchanged
<1>1. HogTypeOK'
  BY DEF HogTypeOK
<1>2. MutualExclusion' /\ SeenUnderLock' /\ NoLostWakeup' /\ StopOrder'
  BY DEF MutualExclusion, SeenUnderLock, NoLostWakeup, StopOrder
<1>3. GrantsCounted'
  BY GrantsKept
<1>4. QED
  BY <1>1, <1>2, <1>3

LEMMA SpinnerStepPreserves ==
    ASSUME HogInductive, NEW i \in Spinners, SpinnerStep(i)
    PROVE  HogInductive'
  BY RequestPolicyPreserves, PropagatePreserves, UnlockedPreserves, AcquirePreserves,
     RetestPreserves, BlockPreserves
  DEF SpinnerStep

LEMMA CallStepPreserves ==
    ASSUME HogInductive, CallStep
    PROVE  HogInductive'
  BY SetLockPreserves, SetStorePreserves, SetNotifyPreserves, JoinPreserves DEF CallStep

LEMMA HogInductiveStep ==
    HogInductive /\ [HogNext]_hogVars => HogInductive'
<1> SUFFICES ASSUME HogInductive, [HogNext]_hogVars PROVE HogInductive'
  OBVIOUS
<1>1. ASSUME NEW v \in {"IDLE", "ACTIVE"}, Set(v) PROVE HogInductive'
  BY <1>1, SetPreserves DEF Word
<1>2. ASSUME Stop PROVE HogInductive'
  BY <1>2, SetPreserves DEF Stop, Word
<1>3. ASSUME word # "TERMINATE", NEW i \in Spinners, Spawn(i) PROVE HogInductive'
  BY <1>3, SpawnPreserves
<1>4. CASE UNCHANGED hogVars
  BY <1>4
  DEF hogVars, HogInductive, HogTypeOK, MutualExclusion, SeenUnderLock, NoLostWakeup,
      StopOrder, GrantsCounted
<1>5. QED
  BY <1>1, <1>2, <1>3, <1>4, SpinnerStepPreserves, CallStepPreserves DEF HogNext

-----------------------------------------------------------------------------
(* Theorems.                                                               *)

THEOREM HogInvariant == HogSpec => []HogInductive
<1>1. QED
  BY HogInductiveInit, HogInductiveStep, PTL DEF HogSpec

\* With any number of spinners and any sequence of calls, no spinner sleeps on
\* a word it should act on, but for the moment before the notify (hog.rs:68-70,
\* 86-90, 202-207).
THEOREM WakeupsAreNotLost == HogSpec => []NoLostWakeup
<1>1. HogInductive => NoLostWakeup
  BY DEF HogInductive
<1>2. QED
  BY <1>1, HogInvariant, PTL

LEMMA StopIsComplete == HogInductive => StopLeavesNobody
<1> SUFFICES ASSUME HogInductive, word = "TERMINATE", calling = "none"
             PROVE  /\ \A i \in Spinners : at[i] \in {"unborn", "ended"}
                    /\ granted = Cardinality(grantedTo)
                    /\ grantedTo = {i \in Spinners : at[i] = "ended"} => FALSE \notin band
                    /\ granted = 0 => TRUE \notin band
  BY DEF StopLeavesNobody
<1>1. \A i \in Spinners : at[i] \in {"unborn", "ended"}
  BY DEF HogInductive, StopOrder
<1>2. granted = Cardinality(grantedTo)
  BY DEF HogInductive, GrantsCounted
<1>3. grantedTo = {i \in Spinners : at[i] = "ended"} => FALSE \notin band
  BY <1>1 DEF HogInductive, GrantsCounted
<1>4. granted = 0 => TRUE \notin band
  BY <1>2, GrantsFinite, FS_EmptySet DEF HogInductive, GrantsCounted
<1>5. QED
  BY <1>1, <1>2, <1>3, <1>4

\* After stop no spinner is left, and the grants that are read then are all
\* that were given (hog.rs:126-134, 233-246).
THEOREM StopEndsAll == HogSpec => []StopLeavesNobody
<1>1. QED
  BY StopIsComplete, HogInvariant, PTL
=============================================================================
