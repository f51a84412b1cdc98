-------------------------------- MODULE CpuHog --------------------------------
(***************************************************************************)
(* host/src/hog.rs: spinning threads switched on and off through a state   *)
(* word that is stored under a lock, read without it, and waited for with  *)
(* a condition variable.  The word is read with relaxed ordering: a        *)
(* spinner may go on seeing an older value until the new one reaches it or *)
(* it takes the lock under which the word was stored.                      *)
(***************************************************************************)
EXTENDS Integers, FiniteSets

CONSTANT Threads   \* CpuHog::threads

ASSUME ThreadsAssumption == Threads \in Nat

Spinners == 1 .. Threads
Caller == 0          \* the thread that owns the hog
Word == {"IDLE", "ACTIVE", "TERMINATE"}

VARIABLES
    word,       \* Signal::state, its latest value
    seen,       \* the value a relaxed load of a spinner returns
    owner,      \* who holds Signal::lock: at most one thread
    at,         \* where a spinner is
    calling,    \* where the caller is inside set or stop
    next,       \* the argument of set
    handles,    \* CpuHog::handles: spawned and not joined
    granted,    \* Signal::granted
    band,       \* PolicyObserved: the answer of the last spinner that wrote it
    grantedTo   \* history: the spinners whose request was granted

hogVars == << word, seen, owner, at, calling, next, handles, granted, band, grantedTo >>

HogTypeOK ==
    /\ word \in Word
    /\ seen \in [Spinners -> Word]
    /\ owner \in SUBSET ({Caller} \cup Spinners)
    /\ at \in [Spinners -> {"unborn", "policy", "load", "spin", "acquire",
                            "retest", "block", "waiting", "ended"}]
    /\ calling \in {"none", "lock", "store", "notify", "join"}
    /\ next \in Word
    /\ handles \in SUBSET Spinners
    /\ granted \in Nat
    /\ band \in SUBSET BOOLEAN
    /\ grantedTo \in SUBSET Spinners

HogInit ==
    /\ word = "IDLE"
    /\ seen = [i \in Spinners |-> "IDLE"]
    /\ owner = {}
    /\ at = [i \in Spinners |-> "unborn"]
    /\ calling = "none"
    /\ next = "IDLE"
    /\ handles = {}
    /\ granted = 0
    /\ band = {}
    /\ grantedTo = {}

-----------------------------------------------------------------------------
(* The spinners.                                                           *)

Move(i, from, to) == at[i] = from /\ at' = [at EXCEPT ![i] = to]

signalUnchanged == UNCHANGED << word, calling, next, handles >>
policyUnchanged == UNCHANGED << granted, band, grantedTo >>

Spawn(i) ==
    /\ calling = "none"
    /\ Move(i, "unborn", "policy")
    /\ \A j \in 1 .. i - 1 : at[j] # "unborn"
    /\ handles' = handles \cup {i}
    /\ UNCHANGED << word, seen, owner, calling, next >> /\ policyUnchanged

\* The thread asks for its policy and counts and notes the answer.
RequestPolicy(i, ok) ==
    /\ Move(i, "policy", "load")
    /\ granted' = granted + (IF ok THEN 1 ELSE 0)
    /\ band' = {ok}
    /\ grantedTo' = grantedTo \cup (IF ok THEN {i} ELSE {})
    /\ UNCHANGED << seen, owner >> /\ signalUnchanged

\* A store of the word reaches a spinner that has not synchronised with it.
Propagate(i) ==
    /\ seen[i] # word
    /\ seen' = [seen EXCEPT ![i] = word]
    /\ UNCHANGED << at, owner >> /\ signalUnchanged /\ policyUnchanged

Load(i) ==
    /\ Move(i, "load", CASE seen[i] = "ACTIVE"    -> "spin"
                         [] seen[i] = "TERMINATE" -> "ended"
                         [] OTHER                 -> "acquire")
    /\ UNCHANGED << seen, owner >> /\ signalUnchanged /\ policyUnchanged

\* One chunk of iterations, then the word is read again.
Spin(i) ==
    /\ Move(i, "spin", "load")
    /\ UNCHANGED << seen, owner >> /\ signalUnchanged /\ policyUnchanged

Acquire(i) ==
    /\ owner = {}
    /\ Move(i, "acquire", "retest")
    /\ owner' = {i}
    /\ seen' = [seen EXCEPT ![i] = word]
    /\ signalUnchanged /\ policyUnchanged

\* Mutant: the spinner waits without looking again.
RetestNever(i) ==
    /\ Move(i, "retest", "block")
    /\ UNCHANGED << seen, owner >> /\ signalUnchanged /\ policyUnchanged

\* wait_while looks at the word under the lock, and waits only if it is IDLE.
Retest(i) ==
    /\ Move(i, "retest", IF seen[i] = "IDLE" THEN "block" ELSE "load")
    /\ owner' = (IF seen[i] = "IDLE" THEN owner ELSE {})
    /\ UNCHANGED seen /\ signalUnchanged /\ policyUnchanged

\* The lock is released and the thread joins the wait set in one step.
Block(i) ==
    /\ Move(i, "block", "waiting")
    /\ owner' = {}
    /\ UNCHANGED seen /\ signalUnchanged /\ policyUnchanged

SpuriousWakeup(i) ==
    /\ Move(i, "waiting", "acquire")
    /\ UNCHANGED << seen, owner >> /\ signalUnchanged /\ policyUnchanged

SpinnerStep(i) ==
    \/ \E ok \in BOOLEAN : RequestPolicy(i, ok)
    \/ Propagate(i) \/ Load(i) \/ Spin(i)
    \/ Acquire(i) \/ Retest(i) \/ Block(i) \/ SpuriousWakeup(i)

-----------------------------------------------------------------------------
(* The caller: set(v), which is activate, deactivate and a part of stop.   *)

Set(v) ==
    /\ calling = "none"
    /\ calling' = "lock"
    /\ next' = v
    /\ UNCHANGED << word, seen, owner, at, handles >> /\ policyUnchanged

\* Mutant: the word is stored without the lock.
SetLockUnheld ==
    /\ calling = "lock"
    /\ calling' = "store"
    /\ UNCHANGED << word, owner, seen, at, next, handles >> /\ policyUnchanged

SetLock ==
    /\ calling = "lock" /\ owner = {}
    /\ calling' = "store"
    /\ owner' = {Caller}
    /\ UNCHANGED << word, seen, at, next, handles >> /\ policyUnchanged

SetStore ==
    /\ calling = "store"
    /\ calling' = "notify"
    /\ word' = next
    /\ UNCHANGED << seen, owner, at, next, handles >> /\ policyUnchanged

\* Mutant: notify_one.
WakeOne ==
    LET w == {i \in Spinners : at[i] = "waiting"}
    IN  [i \in Spinners |-> IF i \in w /\ \A j \in w : i <= j THEN "acquire" ELSE at[i]]

\* notify_all
Wake == [i \in Spinners |-> IF at[i] = "waiting" THEN "acquire" ELSE at[i]]

\* Mutant: the spinners are told to end but not waited for.
AfterSetDetaching == handles' = (IF next = "TERMINATE" THEN {} ELSE handles) /\ calling' = "none"

\* stop goes on to join what it has told to end.
AfterSet ==
    /\ calling' = IF next = "TERMINATE" THEN "join" ELSE "none"
    /\ UNCHANGED handles

SetNotify ==
    /\ calling = "notify"
    /\ at' = Wake
    /\ owner' = {}
    /\ AfterSet
    /\ UNCHANGED << word, seen, next >> /\ policyUnchanged

\* With no handle left stop returns at once, as the drop of a stopped hog does.
Stop == handles # {} /\ Set("TERMINATE")

Join(i) ==
    /\ calling = "join"
    /\ i \in handles /\ \A j \in handles : i <= j
    /\ at[i] = "ended"
    /\ handles' = handles \ {i}
    /\ calling' = IF handles' = {} THEN "none" ELSE "join"
    /\ UNCHANGED << word, seen, owner, at, next >> /\ policyUnchanged

CallStep == SetLock \/ SetStore \/ SetNotify \/ \E i \in Spinners : Join(i)

\* Before TERMINATE any sequence of calls is allowed; run() is one of them.
HogNext ==
    \/ word # "TERMINATE" /\ \E v \in {"IDLE", "ACTIVE"} : Set(v)
    \/ word # "TERMINATE" /\ Stop
    \/ word # "TERMINATE" /\ \E i \in Spinners : Spawn(i)
    \/ CallStep
    \/ \E i \in Spinners : SpinnerStep(i)

HogSpec == HogInit /\ [][HogNext]_hogVars

\* A runnable thread runs, a store becomes visible, and a mutex that is free
\* again and again is had by each thread that asks for it.
HogFairness ==
    /\ WF_hogVars(SetStore) /\ WF_hogVars(SetNotify) /\ SF_hogVars(SetLock)
    /\ \A i \in Spinners :
          /\ WF_hogVars(Join(i)) /\ WF_hogVars(\E ok \in BOOLEAN : RequestPolicy(i, ok))
          /\ WF_hogVars(Propagate(i)) /\ WF_hogVars(Load(i)) /\ WF_hogVars(Spin(i))
          /\ WF_hogVars(Retest(i)) /\ WF_hogVars(Block(i)) /\ SF_hogVars(Acquire(i))

-----------------------------------------------------------------------------
(* Properties.                                                             *)

\* A spinner sleeps only while there is nothing to wake it for, except between
\* a store and the notify that follows it under the same lock: no wake-up is
\* lost between a spinner's test and its wait (hog.rs:68-70, 202-207).
NoLostWakeup ==
    \A i \in Spinners :
        at[i] \in {"block", "waiting"} /\ word # "IDLE" => at[i] = "waiting" /\ calling = "notify"

\* When stop has returned every spinner has ended, and the number of grants
\* the report reads is complete: all of them and nothing of a part
\* (hog.rs:126-134, 233-246).  A band that all spinners were granted, or none,
\* is what any of them noted (hog.rs:73-75).
StopLeavesNobody ==
    word = "TERMINATE" /\ calling = "none" =>
        /\ \A i \in Spinners : at[i] \in {"unborn", "ended"}
        /\ granted = Cardinality(grantedTo)
        /\ grantedTo = {i \in Spinners : at[i] = "ended"} => FALSE \notin band
        /\ granted = 0 => TRUE \notin band
\* The strengthening the theorems rest on: the lock is held by one thread, who
\* is where the lock is needed and sees the latest word; what is not joined is
\* in handles; the grants are counted as they are given.
MutualExclusion ==
    /\ owner = {} \/ \E t \in {Caller} \cup Spinners : owner = {t}
    /\ Caller \in owner <=> calling \in {"store", "notify"}
    /\ \A i \in Spinners : i \in owner <=> at[i] \in {"retest", "block"}

SeenUnderLock == \A i \in Spinners : i \in owner => seen[i] = word

StopOrder ==
    /\ calling = "notify" => word = next
    /\ calling = "join" => word = "TERMINATE"
    /\ word = "TERMINATE" /\ calling = "none" => handles = {}
    /\ \A i \in Spinners : at[i] \in {"unborn", "ended"} \/ i \in handles

GrantsCounted ==
    /\ granted = Cardinality(grantedTo)
    /\ \A i \in grantedTo : at[i] \notin {"unborn", "policy"}
    /\ FALSE \in band => \E i \in Spinners \ grantedTo : at[i] \notin {"unborn", "policy"}
    /\ TRUE \in band => grantedTo # {}
    /\ band = {} => grantedTo = {}

HogInductive ==
    /\ HogTypeOK
    /\ MutualExclusion
    /\ SeenUnderLock
    /\ NoLostWakeup
    /\ StopOrder
    /\ GrantsCounted
=============================================================================
