------------------------- MODULE CloudScore_proofs -------------------------
(***************************************************************************)
(* Why a cloud run that says "done" has scored everything, why its trap    *)
(* leaves nothing behind, and what its VMs can cost at most, for every     *)
(* archive, deadline, number of attempts, of zones and of failing calls.   *)
(***************************************************************************)
EXTENDS CloudScore, FiniteSetTheorems, TLAPS

-----------------------------------------------------------------------------
(***************************************************************************)
(* The inductive invariant.                                                *)
(***************************************************************************)
AtWork == Labels \ (Cleaning \cup Gone)

\* Before the VM of an attempt is made.
Unborn == {"mark_bucket", "make_bucket", "upload", "launch", "create"}

\* Where no VM is left that is not on its way out.
Quiet == Unborn \cup {"recheck", "salvage", "seed", "decide"}

Live(a) == vm[a].at \in Active /\ ~vm[a].stopping

\* The counters are below their limits as long as the script works.
Within == pc \in AtWork => tried < Zones /\ unreadable < UnreadableLimit

Complete(scores) == \A t \in Tickers : Archive[t] \subseteq scores[t]

\* What a run that is about to say done has downloaded and merged so far.
DonePc ==
    /\ pc \in AtWork \ {"verify", "merge"} => reason = "none"
    /\ pc \in {"verify", "merge"} /\ reason = "done" => \A scores \in got : Complete(scores)
    /\ pc = "merge" /\ reason = "done" => \A t \in Tickers \ merging : Archive[t] \subseteq local[t]
    /\ DoneIsComplete

\* Results are complete from the disk they are packed on to the merge.
DoneInv ==
    /\ \A a \in Attempts : vm[a].at = "pack" => Complete(vm[a].disk)
    /\ \A scores \in bucket.results : Complete(scores)
    /\ DonePc

\* Whatever exists is written down, and what cleanup leaves took a fault.
TrackInv ==
    /\ pc = "mark_bucket" => ~bucket.exists /\ created = {}
    /\ pc \in AtWork \ {"mark_bucket"} => marked
    /\ pc = "delete_vms" => marked \/ (~bucket.exists /\ created = {} /\ \A a \in Attempts : ~Exists(a))
    /\ pc \in AtWork =>
          /\ \A a \in Attempts : Exists(a) => a \in created
          /\ \A a \in Attempts : a > attempt => vm[a].at = "none"
    /\ pc \in Unborn => vm[attempt].at = "none"
    /\ pc = "create" => attempt \in created
    /\ pc = "delete_vms" => \A a \in Attempts : Exists(a) => a \in created \/ faults > 0
    /\ pc = "list" => /\ bucket.exists => faults > 0
                      /\ \A a \in Attempts : Exists(a) => faults > 0
    /\ LeavesNothing

(***************************************************************************)
(* At most one VM is neither stopped nor being reclaimed, so the VMs have  *)
(* run no longer than the clock; and the clock goes on past what the       *)
(* controller waits only as far as some VM may still run.                  *)
(***************************************************************************)
TimeInv ==
    /\ pc \notin Gone => \A a \in Attempts : Live(a) => a = attempt
    /\ pc \in Quiet => \A a \in Attempts : ~Live(a)
    /\ \A a, b \in Attempts : Live(a) /\ Live(b) => a = b
    /\ \A a \in Attempts : vm[a].at \in Active => vm[a].until <= Deadline + HourTicks - 1
    /\ pc \in Unborn => clock < Deadline
    /\ pc \in {"describe", "asleep"} => clock < Deadline + Grace
    /\ clock <= Deadline + (IF pc = "killed" \/ leftover THEN HourTicks - 1 ELSE Grace)
    /\ ran <= clock
    /\ leftover => pc = "exited"

-----------------------------------------------------------------------------
(***************************************************************************)
(* The constants.                                                          *)
(***************************************************************************)
\* Nothing scored is a cache.
LEMMA NoScoresIsCaches == NoScores \in Caches
BY DEF NoScores, Caches

\* The types of what there is in the beginning, and of what is deleted.
LEMMA InitialTypes ==
    /\ NoVm \in Vms /\ StoppedVm \in Vms /\ GoneVm \in Vms
    /\ NoBucket \in Buckets
    /\ NoVm.at = "none" /\ StoppedVm.at = "stopped" /\ GoneVm.at = "gone"
BY NoScoresIsCaches DEF NoVm, StoppedVm, GoneVm, NoBucket, Vms, Buckets, Active

\* A product of naturals, for the solver.
LEMMA ProductNat == \A m, n \in Nat : m * n \in Nat
OBVIOUS

\* A quotient, for the solver.
LEMMA QuotientOf ==
    ASSUME NEW x \in Nat, NEW h \in Nat \ {0}
    PROVE  /\ (x \div h) \in Nat /\ (x \div h) * h <= x
           /\ x >= h => (x \div h) >= 1
OBVIOUS

\* The deadline and the grace, in ticks.
LEMMA TimeTypes ==
    /\ HourTicks \in Nat /\ HourTicks >= 4
    /\ Deadline \in Nat /\ Deadline >= HourTicks
    /\ Grace \in Nat /\ Grace >= 1 /\ Grace <= HourTicks - 1
<1>1. HourTicks \in Nat \ {0} /\ HourTicks % 4 = 0 /\ MaxHours \in Nat \ {0}
    BY CloudAssumption
<1>2. HourTicks >= 4 /\ Grace \in Nat /\ Grace >= 1 /\ Grace <= HourTicks - 1
    BY <1>1 DEF Grace
<1>3. MaxHours * HourTicks \in Nat /\ MaxHours * HourTicks >= HourTicks
    BY <1>1
<1> QED
    BY <1>1, <1>2, <1>3 DEF Deadline

\* A VM made before the deadline is deleted less than an hour after it.
LEMMA HoursBound ==
    ASSUME clock \in Nat
    PROVE  /\ Hours * HourTicks \in Nat
           /\ clock < Deadline => clock + Hours * HourTicks <= Deadline + HourTicks - 1
<1>1. CASE clock < Deadline
  <2>1. PICK x \in Nat : x = Deadline - clock + HourTicks - 1
      BY <1>1, TimeTypes
  <2>2. x >= HourTicks /\ HourTicks \in Nat \ {0}
      BY <1>1, <2>1, TimeTypes
  <2>3. Hours = x \div HourTicks /\ Hours \in Nat
      BY <2>1, <2>2, QuotientOf DEF Hours
  <2>4. Hours * HourTicks <= x /\ Hours * HourTicks \in Nat
      BY <2>2, <2>3, QuotientOf, ProductNat
  <2>5. ASSUME NEW y \in Nat, y <= x PROVE clock + y <= Deadline + HourTicks - 1
      BY <2>1, <2>5, TimeTypes
  <2> QED
      BY <2>4, <2>5
<1>2. CASE ~(clock < Deadline)
  <2>1. (Deadline - clock + HourTicks - 1) \div HourTicks \in Int
      BY TimeTypes
  <2>2. Hours \in Nat
      BY <2>1 DEF Hours
  <2> QED
      BY <1>2, <2>2, TimeTypes, ProductNat
<1> QED
    BY <1>1, <1>2

\* A new VM, whose run duration is counted from now.
LEMMA NewVmIs ==
    ASSUME clock \in Nat
    PROVE  /\ NewVm \in Vms
           /\ NewVm.at = "boot" /\ ~NewVm.stopping
           /\ clock < Deadline => NewVm.until <= Deadline + HourTicks - 1
<1>1. PICK k \in Nat : k = Hours * HourTicks
    BY HoursBound
<1>2. clock + k \in Nat
    BY <1>1
<1>3. NewVm = [at |-> "boot", disk |-> NoScores, until |-> clock + k, stopping |-> FALSE]
    BY <1>1 DEF NewVm
<1> QED
    BY <1>1, <1>2, <1>3, HoursBound, NoScoresIsCaches DEF Vms, Active

-----------------------------------------------------------------------------
(***************************************************************************)
(* What a step of a job does, and a call of the controller.                *)
(***************************************************************************)
\* A call works or fails; either way faults are counted.
LEMMA FaultsCount ==
    ASSUME faults \in Nat, Works \/ Fails
    PROVE  /\ faults' \in Nat /\ faults' >= faults
           /\ Fails => faults' > 0
BY CloudAssumption DEF Works, Fails

\* A VM that has ended never starts again, nor does its time change.
GoesOn(it, next) ==
    /\ next \in Vms
    /\ it.at \in Active
    /\ next.at # "none"
    /\ next.at \in Active => next.until = it.until /\ (it.stopping => next.stopping)
    /\ next.at = "pack" => (it.at = "pack" \/ Complete(it.disk)) /\ next.disk = it.disk

\* A step of a job is its VM's and the bucket's alone.
JobDoes(a) ==
    /\ UNCHANGED <<local, pc, control, outcome, time>>
    /\ faults' \in Nat /\ faults' >= faults
    /\ bucket' \in Buckets /\ bucket'.exists = bucket.exists
    /\ \E next : vm' = [vm EXCEPT ![a] = next] /\ GoesOn(vm[a], next)
    /\ bucket'.results = bucket.results
       \/ (vm[a].at = "pack" /\ bucket'.results = {vm[a].disk})

\* Every step of a job is such a step.
LEMMA JobStep ==
    ASSUME TypeOK, faults \in Nat, NEW a \in Attempts, Job(a)
    PROVE  JobDoes(a)
<1>1. PICK it \in Vms : it = vm[a]
    BY DEF TypeOK
<1>2. vm \in [Attempts -> Vms] /\ bucket \in Buckets
    BY DEF TypeOK
<1>3. \A at \in Active \cup {"stopped", "gone"} : [it EXCEPT !.at = at] \in Vms
    BY <1>1 DEF Vms
<1>4. ASSUME NEW next, vm' = [vm EXCEPT ![a] = next], GoesOn(it, next),
              UNCHANGED <<local, pc, control, outcome, time>>,
              faults' \in Nat, faults' >= faults,
              bucket' \in Buckets, bucket'.exists = bucket.exists,
              bucket'.results = bucket.results \/ (it.at = "pack" /\ bucket'.results = {it.disk})
       PROVE  JobDoes(a)
    BY <1>1, <1>4 DEF JobDoes
<1>5. UNCHANGED faults => faults' \in Nat /\ faults' >= faults
    OBVIOUS
<1>6. UNCHANGED bucket => /\ bucket' \in Buckets /\ bucket'.exists = bucket.exists
                           /\ bucket'.results = bucket.results
    BY <1>2
<1>7. CASE Boot(a)
  <2>1. PICK disk \in Caches : /\ vm' = [vm EXCEPT ![a].at = "score", ![a].disk = disk]
                               /\ Works \/ Fails
      BY <1>2, <1>7, NoScoresIsCaches DEF Boot, Buckets
  <2>2. PICK next : next = [it EXCEPT !.at = "score", !.disk = disk]
      OBVIOUS
  <2>3. vm' = [vm EXCEPT ![a] = next]
      BY <1>1, <1>2, <2>1, <2>2
  <2>4. GoesOn(it, next)
      BY <1>1, <1>7, <2>2 DEF GoesOn, Vms, Active, Boot
  <2> QED
      BY <1>4, <1>6, <1>7, <2>1, <2>3, <2>4, FaultsCount DEF Boot
<1>8. CASE Flush(a)
  <2>1. PICK t \in Tickers : \E scores \in SUBSET Archive[t] :
          vm' = [vm EXCEPT ![a].disk[t] = @ \cup scores]
      BY <1>8 DEF Flush
  <2>2. PICK scores \in SUBSET Archive[t] : vm' = [vm EXCEPT ![a].disk[t] = @ \cup scores]
      BY <2>1
  <2>x. PICK next : next = [it EXCEPT !.disk[t] = @ \cup scores]
      OBVIOUS
  <2>3. next \in Vms
    <3>1. [it.disk EXCEPT ![t] = @ \cup scores] \in Caches
        BY <1>1 DEF Vms, Caches
    <3> QED
        BY <1>1, <2>2, <2>x, <3>1 DEF Vms
  <2>4. vm' = [vm EXCEPT ![a] = next]
      BY <1>1, <1>2, <2>1, <2>2, <2>x
  <2>5. GoesOn(it, next)
      BY <1>1, <1>8, <2>2, <2>x, <2>3 DEF GoesOn, Vms, Active, Flush
  <2> QED
      BY <1>4, <1>5, <1>6, <1>8, <2>4, <2>5 DEF Flush
<1>9. ASSUME NEW place \in {"boot", "score", "pack", "done", "failed"},
             NEW at \in {"pack", "done", "failed", "halt"},
             JobAt(a, place, at), at = "pack" => Complete(it.disk)
      PROVE  /\ UNCHANGED <<local, pc, control, outcome, time>>
             /\ \E next : vm' = [vm EXCEPT ![a] = next] /\ GoesOn(it, next)
  <2>1. PICK next : next = [it EXCEPT !.at = at]
      OBVIOUS
  <2>2. vm' = [vm EXCEPT ![a] = next]
      BY <1>1, <1>2, <1>9, <2>1 DEF JobAt
  <2>3. GoesOn(it, next)
      BY <1>1, <1>3, <1>9, <2>1 DEF GoesOn, Vms, Active, JobAt
  <2> QED
      BY <1>9, <2>2, <2>3 DEF JobAt
<1>10. CASE ScoreDone(a)
    BY <1>1, <1>4, <1>5, <1>6, <1>9, <1>10 DEF ScoreDone, AllScored, Complete
<1>11. CASE JobFails(a)
    BY <1>4, <1>5, <1>6, <1>9, <1>11 DEF JobFails
<1>12. CASE Rsync(a)
  <2>1. PICK t \in Tickers : bucket' = [bucket EXCEPT !.partial[t] = it.disk[t]]
      BY <1>1, <1>12 DEF Rsync
  <2>2. [bucket.partial EXCEPT ![t] = it.disk[t]] \in Caches
      BY <1>1, <1>2 DEF Vms, Buckets, Caches
  <2>3. bucket' \in Buckets /\ bucket'.exists = bucket.exists /\ bucket'.results = bucket.results
      BY <1>2, <2>1, <2>2 DEF Buckets
  <2>4. vm' = [vm EXCEPT ![a] = it] /\ GoesOn(it, it)
      BY <1>1, <1>2, <1>12 DEF Rsync, GoesOn, Active
  <2> QED
      BY <1>4, <1>5, <1>12, <2>3, <2>4 DEF Rsync
<1>13. CASE Pack(a)
  <2>1. bucket' = [bucket EXCEPT !.results = {it.disk}] /\ it.at = "pack"
      BY <1>1, <1>13 DEF Pack, JobAt
  <2>2. bucket' \in Buckets /\ bucket'.exists = bucket.exists /\ bucket'.results = {it.disk}
      BY <1>1, <1>2, <2>1 DEF Buckets, Vms
  <2> QED
      BY <1>4, <1>5, <1>9, <1>13, <2>1, <2>2 DEF Pack
<1>14. CASE Finish(a)
  <2>1. bucket' \in Buckets /\ bucket'.exists = bucket.exists /\ bucket'.results = bucket.results
      BY <1>2, <1>14 DEF Finish, Buckets
  <2>2. Works \/ Fails
      BY <1>14 DEF Finish
  <2> QED
      BY <1>4, <1>9, <1>14, <2>1, <2>2, FaultsCount DEF Finish
<1>15. CASE Halt(a)
  <2>1. vm' = [vm EXCEPT ![a] = StoppedVm] /\ GoesOn(it, StoppedVm)
      BY <1>1, <1>15, InitialTypes DEF Halt, GoesOn, Active
  <2> QED
      BY <1>4, <1>5, <1>6, <1>15, <2>1 DEF Halt
<1>16. CASE Preempt(a)
  <2>1. PICK next : next = [it EXCEPT !.stopping = TRUE]
      OBVIOUS
  <2>2. vm' = [vm EXCEPT ![a] = next]
      BY <1>1, <1>2, <1>16, <2>1 DEF Preempt
  <2>3. GoesOn(it, next)
      BY <1>1, <1>16, <2>1 DEF GoesOn, Vms, Active, Preempt
  <2> QED
      BY <1>4, <1>5, <1>6, <1>16, <2>2, <2>3 DEF Preempt
<1>17. CASE Vanish(a)
  <2>1. vm' = [vm EXCEPT ![a] = GoneVm] /\ GoesOn(it, GoneVm)
      BY <1>1, <1>17, InitialTypes DEF Vanish, Due, GoesOn, Active
  <2> QED
      BY <1>4, <1>5, <1>6, <1>17, <2>1 DEF Vanish
<1> QED
    BY <1>7, <1>8, <1>10, <1>11, <1>12, <1>13, <1>14, <1>15, <1>16, <1>17 DEF Job

-----------------------------------------------------------------------------
(***************************************************************************)
(* Types.                                                                  *)
(***************************************************************************)
\* The types, faults and limits together are inductive.
TypeInv == TypeOK /\ faults \in Nat /\ Within

\* The bucket's types, changed in one field.
LEMMA BucketTypes ==
    ASSUME NEW b \in Buckets
    PROVE  /\ \A x \in BOOLEAN : [b EXCEPT !.exists = x] \in Buckets
           /\ \A x \in Caches : [b EXCEPT !.scores = x] \in Buckets
BY DEF Buckets

\* The VM of an attempt is made, or it is not.
LEMMA VmOrNotIs ==
    ASSUME TypeOK, VmOrNot
    PROVE  /\ vm' \in [Attempts -> Vms]
           /\ vm' = vm \/ (vm'[attempt] = NewVm /\ \A a \in Attempts \ {attempt} : vm'[a] = vm[a])
<1>1. vm \in [Attempts -> Vms] /\ attempt \in Attempts /\ clock \in Nat
    BY DEF TypeOK
<1> QED
    BY <1>1, NewVmIs DEF VmOrNot

\* What a process knew is forgotten when it is gone.
LEMMA ForgetTypes ==
    ASSUME Forget
    PROVE  /\ attempt' \in Attempts
           /\ tried' \in 0 .. Zones
           /\ unreadable' \in 0 .. UnreadableLimit
           /\ got' \in SUBSET Caches
           /\ merging' \in SUBSET Tickers
           /\ created' \in SUBSET Attempts
           /\ marked' \in BOOLEAN
<1>1. 1 \in Attempts /\ 0 \in 0 .. Zones /\ 0 \in 0 .. UnreadableLimit
    BY CloudAssumption DEF Attempts
<1> QED
    BY <1>1 DEF Forget

\* A run's limits are not reached as long as it works.
LEMMA ControllerTypes ==
    ASSUME TypeInv, Controller
    PROVE  TypeInv'
<1>1. /\ vm \in [Attempts -> Vms] /\ attempt \in Attempts /\ clock \in Nat
      /\ bucket \in Buckets /\ TypeOK /\ faults \in Nat /\ local \in Caches /\ got \in SUBSET Caches
    BY DEF TypeInv, TypeOK
<1>2. Attempts \subseteq Nat /\ MaxAttempts \in Nat /\ Zones \in Nat \ {0} /\ UnreadableLimit \in Nat \ {0}
      /\ 1 \in Attempts
    BY CloudAssumption DEF Attempts
<1> USE DEF TypeInv, TypeOK, Within, AtWork, Labels, Reasons, Cleaning, Gone, Goto, Leave, Die,
            control, outcome, cloud, time
<1>3. CASE MarkBucket
    BY <1>1, <1>3 DEF MarkBucket
<1>4. CASE MakeBucket
    BY <1>1, <1>4, BucketTypes, FaultsCount DEF MakeBucket
<1>5. CASE Upload
    BY <1>1, <1>5, BucketTypes, FaultsCount DEF Upload
<1>6. CASE Launch
    BY <1>1, <1>6 DEF Launch
<1>7. CASE Create
  <2>1. vm' \in [Attempts -> Vms]
      BY <1>1, <1>7, NewVmIs DEF Create
  <2> QED
      BY <1>2, <1>7, <2>1 DEF Create
<1>8. CASE Stockout
    BY <1>1, <1>2, <1>8 DEF Stockout
<1>9. CASE CreateFails
    BY <1>1, <1>9, VmOrNotIs, FaultsCount DEF CreateFails
<1>10. CASE LsDone \/ LsFailed \/ Recheck \/ Wake
    BY <1>1, <1>10, FaultsCount DEF LsDone, LsFailed, Recheck, Wake, Seen, NotSeen, Lost
<1>11. CASE Describe
    BY <1>1, <1>2, <1>11, FaultsCount DEF Describe, Lost
<1>12. CASE Salvage
    BY <1>1, <1>12, FaultsCount DEF Salvage, Buckets
<1>13. CASE Seed
    BY <1>1, <1>13, BucketTypes, FaultsCount DEF Seed
<1>14. CASE Retry
    BY <1>1, <1>2, <1>14 DEF Retry, OutOfAttempts, Attempts
<1>15. CASE GiveUp
    BY <1>1, <1>15 DEF GiveUp, VerifyFor
<1>16. CASE Fetch
    BY <1>1, <1>16, FaultsCount DEF Fetch, VerifyFor, Buckets
<1>17. CASE Verify
    BY <1>1, <1>17, FaultsCount DEF Verify
<1>18. CASE MergeTicker
  <2>1. PICK scores \in got, t \in merging : local' = [local EXCEPT ![t] = Merged(@, scores[t])]
      BY <1>18 DEF MergeTicker
  <2>2. local' \in Caches
      BY <1>1, <2>1 DEF Merged, Caches
  <2> QED
      BY <1>18, <2>2 DEF MergeTicker
<1>19. CASE MergeRaises \/ Finished
    BY <1>1, <1>19, FaultsCount DEF MergeRaises, Finished
<1>20. CASE DeleteVm
  <2>1. vm' \in [Attempts -> Vms] /\ created' \in SUBSET Attempts /\ (Works \/ Fails)
      BY <1>1, <1>20, InitialTypes DEF DeleteVm
  <2> QED
      BY <1>1, <1>20, <2>1, FaultsCount DEF DeleteVm
<1>21. CASE DeleteBucket
    BY <1>1, <1>21, InitialTypes, FaultsCount DEF DeleteBucket
<1>23. CASE NothingMarked
    BY <1>1, <1>23, ForgetTypes DEF NothingMarked
<1>22. CASE List
  <2>1. leftover' = (bucket.exists \/ \E a \in Attempts : Exists(a)) \/ leftover' = TRUE
      BY <1>22 DEF List
  <2>2. leftover' \in BOOLEAN
      BY ONLY <2>1, Zenon
  <2> QED
      BY <1>1, <1>22, <2>2, FaultsCount, ForgetTypes DEF List
<1> QED
    BY <1>3, <1>4, <1>5, <1>6, <1>7, <1>8, <1>9, <1>10, <1>11, <1>12, <1>13, <1>14, <1>15, <1>16, <1>17,
       <1>18, <1>19, <1>20, <1>21, <1>22, <1>23 DEF Controller

\* A signal, and a death.
LEMMA EndTypes ==
    ASSUME TypeInv, Interrupt \/ Kill
    PROVE  TypeInv'
<1>1. /\ vm \in [Attempts -> Vms] /\ attempt \in Attempts /\ clock \in Nat
      /\ bucket \in Buckets /\ TypeOK /\ faults \in Nat
    BY DEF TypeInv, TypeOK
<1>2. vm' \in [Attempts -> Vms]
    BY <1>1, VmOrNotIs DEF Interrupt, Kill
<1> USE DEF TypeInv, TypeOK, Within, AtWork, Labels, Reasons, Cleaning, Gone, Leave, Die,
            outcome, time
<1>3. CASE Interrupt
  <2>1. bucket' \in Buckets /\ marked' \in BOOLEAN
      BY <1>1, <1>3, BucketTypes DEF Interrupt, control
  <2> QED
      BY <1>1, <1>2, <1>3, <2>1 DEF Interrupt, control
<1>4. CASE Kill
    BY <1>1, <1>2, <1>4, ForgetTypes DEF Kill
<1> QED
    BY <1>3, <1>4

\* How many VMs run.
LEMMA RunningFinite ==
    /\ IsFiniteSet(Running) /\ Cardinality(Running) \in Nat
<1>1. IsFiniteSet(Attempts)
    BY CloudAssumption, FS_Interval DEF Attempts
<1> QED
    BY <1>1, FS_Subset, FS_CardinalityType DEF Running

\* The types are kept by every step.
LEMMA TypeStep ==
    ASSUME TypeInv, [Next]_vars
    PROVE  TypeInv'
<1>1. CASE Controller
    BY <1>1, ControllerTypes
<1>2. CASE Interrupt \/ Kill
    BY <1>2, EndTypes
<1>3. ASSUME NEW a \in Attempts, Job(a) PROVE TypeInv'
  <2>1. JobDoes(a) /\ vm \in [Attempts -> Vms]
      BY <1>3, JobStep DEF TypeInv, TypeOK
  <2>2. vm' \in [Attempts -> Vms]
      BY <2>1 DEF JobDoes, GoesOn
  <2> QED
      BY <2>1, <2>2 DEF JobDoes, TypeInv, TypeOK, Within, control, outcome, time
<1>4. CASE Tick
  <2>1. clock' \in Nat /\ ran' \in Nat
      BY <1>4, RunningFinite DEF Tick, TypeInv, TypeOK
  <2>2. pc' \in Labels /\ (pc' \in AtWork => pc \in AtWork)
      BY <1>4 DEF Tick, TypeInv, TypeOK, Goto, Labels, AtWork, Cleaning, Gone
  <2> QED
      BY <1>4, <2>1, <2>2 DEF Tick, TypeInv, TypeOK, Within, Goto, control, outcome, cloud
<1>5. CASE UNCHANGED vars
    BY <1>5 DEF vars, TypeInv, TypeOK, Within, control, outcome, cloud, time
<1> QED
    BY <1>1, <1>2, <1>3, <1>4, <1>5 DEF Next

\* The script starts with nothing made.
LEMMA TypeInit ==
    ASSUME Init
    PROVE  TypeInv
<1>1. 1 \in Attempts /\ Zones \in Nat \ {0} /\ UnreadableLimit \in Nat \ {0} /\ Scored \in Caches
    BY CloudAssumption DEF Attempts
<1>2. vm \in [Attempts -> Vms] /\ bucket \in Buckets
    BY InitialTypes DEF Init
<1>3. got \in SUBSET Caches /\ merging \in SUBSET Tickers /\ created \in SUBSET Attempts
    BY DEF Init
<1>4. tried \in 0 .. Zones /\ unreadable \in 0 .. UnreadableLimit
    BY <1>1 DEF Init
<1>5. TypeOK
    BY <1>1, <1>2, <1>3, <1>4 DEF Init, TypeOK, Labels, Reasons
<1>6. Within
    BY <1>1 DEF Init, Within
<1>7. faults \in Nat
    BY DEF Init
<1> QED
    BY <1>5, <1>6, <1>7 DEF TypeInv

(***************************************************************************)
(* Every variable of a cloud run has its type: among others, no more VMs   *)
(* are created than --max-attempts allows, nor zones tried than there are. *)
(***************************************************************************)
THEOREM CloudTypeCorrect == Spec => []TypeOK
<1>1. Init => TypeInv
    BY TypeInit
<1>2. TypeInv /\ [Next]_vars => TypeInv'
    BY TypeStep
<1>3. TypeInv => TypeOK
    BY DEF TypeInv
<1> QED
    BY <1>1, <1>2, <1>3, PTL DEF Spec

-----------------------------------------------------------------------------
(***************************************************************************)
(* Scores.                                                                 *)
(***************************************************************************)
\* A step that is not of a job makes this attempt's VM, deletes one, or neither;
\* and puts no results in the bucket.
LEMMA ControlDoes ==
    ASSUME TypeInv, Controller \/ Interrupt \/ Kill \/ Tick \/ UNCHANGED vars
    PROVE  /\ \A a \in Attempts : \/ vm'[a] = vm[a]
                                  \/ vm'[a] = GoneVm
                                  \/ vm'[a] = NewVm /\ a = attempt /\ pc = "create"
           /\ bucket'.results = bucket.results \/ bucket'.results = {}
<1>1. vm \in [Attempts -> Vms] /\ bucket \in Buckets /\ TypeOK
    BY DEF TypeInv, TypeOK
<1>2. NoBucket.results = {}
    BY DEF NoBucket
<1> USE DEF control, cloud, Buckets
<1>3. CASE Create \/ CreateFails \/ Interrupt \/ Kill
    BY <1>1, <1>3, VmOrNotIs DEF Create, CreateFails, Interrupt, Kill
<1>4. CASE DeleteVm
    BY <1>1, <1>4 DEF DeleteVm
<1>5. CASE MarkBucket \/ MakeBucket \/ Upload \/ Launch \/ Stockout \/ LsDone \/ LsFailed \/ Describe \/ Recheck \/ Wake
    BY <1>1, <1>5 DEF MarkBucket, MakeBucket, Upload, Launch, Stockout, LsDone, LsFailed, Describe, Recheck, Wake
<1>6. CASE Salvage \/ Seed \/ Retry \/ GiveUp \/ Fetch \/ Verify \/ MergeTicker \/ MergeRaises \/ Finished
    BY <1>1, <1>6 DEF Salvage, Seed, Retry, GiveUp, Fetch, Verify, MergeTicker, MergeRaises, Finished
<1>7. CASE DeleteBucket \/ NothingMarked \/ List \/ Tick \/ UNCHANGED vars
    BY <1>1, <1>2, <1>7 DEF DeleteBucket, NothingMarked, List, Tick, vars
<1> QED
    BY <1>3, <1>4, <1>5, <1>6, <1>7 DEF Controller

\* Only a merge writes the local caches, and it adds to one of them.
LEMMA OnlyMergeWrites ==
    ASSUME TypeInv, [Next]_vars
    PROVE  local' = local \/ MergeTicker
<1>1. ASSUME NEW a \in Attempts, Job(a) PROVE local' = local
    BY <1>1, JobStep DEF JobDoes, TypeInv
<1>2. CASE MarkBucket \/ MakeBucket \/ Upload \/ Launch \/ Create \/ Stockout \/ CreateFails \/ LsDone \/ LsFailed
           \/ Describe \/ Recheck \/ Wake
    BY <1>2 DEF MarkBucket, MakeBucket, Upload, Launch, Create, Stockout, CreateFails, LsDone, LsFailed, Describe, Recheck, Wake
<1>3. CASE Salvage \/ Seed \/ Retry \/ GiveUp \/ Fetch \/ Verify \/ MergeRaises \/ Finished
           \/ DeleteVm \/ DeleteBucket \/ NothingMarked \/ List
    BY <1>3 DEF Salvage, Seed, Retry, GiveUp, Fetch, Verify, MergeRaises, Finished, DeleteVm, DeleteBucket, NothingMarked, List
<1>4. CASE Interrupt \/ Kill \/ Tick \/ UNCHANGED vars
    BY <1>4 DEF Interrupt, Kill, Tick, vars
<1> QED
    BY <1>1, <1>2, <1>3, <1>4 DEF Next, Controller

(***************************************************************************)
(* No step takes a score out of the local caches, whatever was salvaged,   *)
(* merged in part or interrupted.                                          *)
(***************************************************************************)
THEOREM CloudKeepsScores == Spec => ScoresKept
<1>1. ASSUME TypeInv, [Next]_vars, NEW t \in Tickers PROVE local[t] \subseteq local'[t]
  <2>1. local \in Caches
      BY <1>1 DEF TypeInv, TypeOK
  <2>2. CASE MergeTicker
      BY <2>1, <2>2 DEF MergeTicker, Merged, Caches
  <2> QED
      BY <1>1, <2>2, OnlyMergeWrites
<1>2. TypeInv /\ [Next]_vars => [\A t \in Tickers : local[t] \subseteq local'[t]]_vars
    BY <1>1
<1>3. TypeInv /\ [Next]_vars => TypeInv'
    BY TypeStep
<1> QED
    BY <1>2, <1>3, TypeInit, PTL DEF Spec, ScoresKept

\* Only a complete download is merged on the way to done.
LEMMA DonePcStep ==
    ASSUME TypeInv, DoneInv, Controller
    PROVE  DonePc'
<1>1. local \in Caches /\ merging \subseteq Tickers /\ pc \in Labels /\ DonePc
      /\ \A scores \in bucket.results : Complete(scores)
    BY DEF TypeInv, TypeOK, DoneInv, DonePc
<1> USE DEF DonePc, DoneIsComplete, AtWork, Labels, Cleaning, Gone, Goto, Leave, Die, outcome, control
<1>2. CASE MarkBucket \/ MakeBucket \/ Upload \/ Launch \/ Create \/ Stockout \/ CreateFails
    BY <1>1, <1>2 DEF MarkBucket, MakeBucket, Upload, Launch, Create, Stockout, CreateFails
<1>3. CASE LsDone \/ LsFailed \/ Describe \/ Recheck \/ Wake
    BY <1>1, <1>3 DEF LsDone, LsFailed, Describe, Recheck, Wake, Lost
<1>4. CASE Salvage \/ Seed \/ Retry \/ GiveUp
    BY <1>1, <1>4 DEF Salvage, Seed, Retry, GiveUp, VerifyFor
<1>5. CASE Fetch
    BY <1>1, <1>5 DEF Fetch, VerifyFor
<1>6. CASE Verify
    BY <1>1, <1>6 DEF Verify
<1>7. CASE MergeTicker
  <2>1. PICK scores \in got, t \in merging :
          /\ local' = [local EXCEPT ![t] = local[t] \cup scores[t]]
          /\ merging' = merging \ {t}
      BY <1>7 DEF MergeTicker, Merged
  <2>2. pc = "merge" /\ UNCHANGED <<pc, got, reason>>
      BY <1>7 DEF MergeTicker
  <2>3. reason = "done" => Archive[t] \subseteq local'[t]
      BY <1>1, <2>1, <2>2 DEF Complete, Caches
  <2>4. \A u \in Tickers \ {t} : local'[u] = local[u]
      BY <1>1, <2>1 DEF Caches
  <2> QED
      BY <1>1, <2>1, <2>2, <2>3, <2>4
<1>8. CASE MergeRaises \/ Finished
    BY <1>1, <1>8 DEF MergeRaises, Finished
<1>9. CASE DeleteVm \/ DeleteBucket \/ NothingMarked \/ List
    BY <1>1, <1>9 DEF DeleteVm, DeleteBucket, NothingMarked, List
<1> QED
    BY <1>2, <1>3, <1>4, <1>5, <1>6, <1>7, <1>8, <1>9 DEF Controller

\* No step makes incomplete results, or says done before they are merged.
LEMMA DoneStep ==
    ASSUME TypeInv, DoneInv, [Next]_vars
    PROVE  DoneInv'
<1>1. ASSUME NEW a \in Attempts, Job(a) PROVE DoneInv'
  <2>1. JobDoes(a) /\ vm \in [Attempts -> Vms]
      BY <1>1, JobStep DEF TypeInv, TypeOK
  <2>2. \A b \in Attempts : vm'[b].at = "pack" => Complete(vm'[b].disk)
      BY <2>1 DEF JobDoes, GoesOn, DoneInv
  <2>3. \A scores \in bucket'.results : Complete(scores)
      BY <2>1 DEF JobDoes, DoneInv
  <2>4. UNCHANGED <<local, pc, reason, got, merging>>
      BY <2>1 DEF JobDoes, control, outcome
  <2> QED
      BY <2>2, <2>3, <2>4 DEF DoneInv, DonePc, DoneIsComplete, Complete
<1>2. ASSUME Controller \/ Interrupt \/ Kill \/ Tick \/ UNCHANGED vars
      PROVE  /\ \A a \in Attempts : vm'[a].at = "pack" => Complete(vm'[a].disk)
             /\ \A scores \in bucket'.results : Complete(scores)
  <2>1. GoneVm.at # "pack" /\ (NewVm).at # "pack"
      BY InitialTypes, NewVmIs DEF TypeInv, TypeOK
  <2> QED
      BY <1>2, <2>1, ControlDoes DEF DoneInv
<1>3. CASE Controller
    BY <1>2, <1>3, DonePcStep DEF DoneInv, DonePc, Complete
<1>4. CASE Interrupt \/ Kill
  <2>1. pc' \in {"delete_vms", "killed"} /\ (pc' = "delete_vms" => reason' = "died")
      BY <1>4 DEF Interrupt, Kill, Die, Leave
  <2>2. DonePc'
      BY <2>1 DEF DonePc, DoneIsComplete, AtWork, Cleaning, Gone
  <2> QED
      BY <1>2, <1>4, <2>2 DEF DoneInv, DonePc, Complete
<1>5. CASE Tick \/ UNCHANGED vars
  <2>1. UNCHANGED <<local, reason, got, merging>> /\ (pc' = pc \/ (pc = "asleep" /\ pc' = "ls_done"))
      BY <1>5 DEF Tick, Goto, vars, outcome, control
  <2>2. DonePc'
      BY <2>1 DEF DoneInv, DonePc, DoneIsComplete, AtWork, Labels, Cleaning, Gone
  <2> QED
      BY <1>2, <1>5, <2>2 DEF DoneInv, DonePc, Complete
<1> QED
    BY <1>1, <1>3, <1>4, <1>5 DEF Next

\* A run that is done has everything scored.
LEMMA DoneInit ==
    ASSUME Init
    PROVE  DoneInv
BY DEF Init, DoneInv, DonePc, DoneIsComplete, NoVm, NoBucket, AtWork, Cleaning

(***************************************************************************)
(* The script ends with "done" only when every archived article is scored  *)
(* locally, whichever VM made the results and whatever was lost, failed or *)
(* was interrupted before.                                                 *)
(***************************************************************************)
THEOREM DoneMeansComplete == Spec => []DoneIsComplete
<1>1. Init => TypeInv /\ DoneInv
    BY TypeInit, DoneInit
<1>2. TypeInv /\ DoneInv /\ [Next]_vars => TypeInv' /\ DoneInv'
    BY TypeStep, DoneStep
<1>3. DoneInv => DoneIsComplete
    BY DEF DoneInv, DonePc
<1> QED
    BY <1>1, <1>2, <1>3, PTL DEF Spec

-----------------------------------------------------------------------------
(***************************************************************************)
(* The store.                                                              *)
(***************************************************************************)
\* The store as a function of the local caches.
StoreOf(here) == [k \in UNION {{t} \X here[t] : t \in Tickers} |-> "scored"]

\* What is in the store.
LEMMA StoreHolds ==
    ASSUME NEW here \in Caches
    PROVE  /\ Contract!Admissible(StoreOf(here))
           /\ \A k : k \in DOMAIN StoreOf(here) <=> \E t \in Tickers : \E a \in here[t] : k = <<t, a>>
           /\ \A k \in DOMAIN StoreOf(here) : StoreOf(here)[k] = "scored"
<1>1. \A t \in Tickers : here[t] \subseteq Urls
    BY DEF Caches, Urls
<1>2. \A k : k \in DOMAIN StoreOf(here) <=> \E t \in Tickers : \E a \in here[t] : k = <<t, a>>
    BY DEF StoreOf
<1>3. \A k \in DOMAIN StoreOf(here) : StoreOf(here)[k] = "scored"
    BY DEF StoreOf
<1>4. ASSUME NEW k \in DOMAIN StoreOf(here)
      PROVE  /\ k \in Tickers \X Urls
             /\ StoreOf(here)[k] \in [i \in Tickers \X Urls |-> {"scored"}][k]
  <2>1. k \in Tickers \X Urls
      BY <1>1, <1>2
  <2> QED
      BY <1>3, <2>1
<1> QED
    BY <1>2, <1>3, <1>4 DEF Contract!Admissible

\* A step that adds to the local caches, and promises nothing, is a write of the store.
LEMMA MergeWrites ==
    ASSUME TypeInv, TypeInv', \A t \in Tickers : local[t] \subseteq local'[t],
           UNCHANGED Promised
    PROVE  Contract!Write
<1>1. local \in Caches /\ local' \in Caches
    BY DEF TypeInv, TypeOK
<1>2. Store = StoreOf(local) /\ Store' = StoreOf(local')
    BY DEF Store, StoreOf
<1>3. ASSUME NEW k \in DOMAIN StoreOf(local)
      PROVE  k \in DOMAIN StoreOf(local') /\ StoreOf(local')[k] = StoreOf(local)[k]
    BY <1>1, StoreHolds
<1>4. Contract!Admissible(StoreOf(local'))
    BY <1>1, StoreHolds
<1> QED
    BY <1>2, <1>3, <1>4 DEF Contract!Write

\* The end of the script promises what is in the local caches by then.
LEMMA ExitPromises ==
    ASSUME TypeInv, DoneInv', UNCHANGED local, Promised # {} => UNCHANGED Promised
    PROVE  Contract!Promise
<1>1. Store' = Store /\ Store = StoreOf(local) /\ local \in Caches
    BY DEF Store, StoreOf, TypeInv, TypeOK
<1>2. \A t \in Tickers : pc' = "exited" /\ reason' = "done" => Archive[t] \subseteq local[t]
    BY DEF DoneInv, DonePc, DoneIsComplete
<1>3. ASSUME NEW k \in Promised' PROVE k \in DOMAIN Store
  <2>1. PICK t \in Tickers : /\ k \in {t} \X Archive[t]
                             /\ pc' = "exited" /\ reason' = "done"
      BY <1>3 DEF Promised
  <2>2. PICK a \in Archive[t] : k = <<t, a>>
      BY <2>1
  <2>3. a \in local[t]
      BY <1>2, <2>1, <2>2
  <2> QED
      BY <1>1, <2>2, <2>3, StoreHolds
<1>4. Promised \subseteq Promised'
    OBVIOUS
<1> QED
    BY <1>1, <1>3, <1>4 DEF Contract!Promise

\* Once the script is gone, its answer stays.
LEMMA GoneStays ==
    ASSUME TypeInv, [Next]_vars, pc = "exited"
    PROVE  UNCHANGED <<pc, reason>>
<1>1. ASSUME NEW a \in Attempts, Job(a) PROVE UNCHANGED <<pc, reason>>
    BY <1>1, JobStep DEF JobDoes, TypeInv, outcome
<1>2. ~Controller
    BY DEF Controller, MarkBucket, MakeBucket, Upload, Launch, Create, Stockout, CreateFails, LsDone, LsFailed,
           Describe, Recheck, Wake, Salvage, Seed, Retry, GiveUp, Fetch, Verify, MergeTicker,
           MergeRaises, Finished, DeleteVm, DeleteBucket, NothingMarked, List
<1> QED
    BY <1>1, <1>2 DEF Next, Interrupt, Kill, Tick, vars, outcome, Gone

(***************************************************************************)
(* archive_scoring.py: "Local entries are never lost".  Whatever the VMs   *)
(* and the bucket do, the local caches are the store that ScoreStore       *)
(* specifies: scores are only added, and "done" promises the archive.      *)
(***************************************************************************)
THEOREM CloudImplementsStore == Spec => ImplementsStore
<1>1. Init => Contract!Init
  <2> SUFFICES ASSUME Init PROVE Contract!Init
      OBVIOUS
  <2>1. Store = StoreOf(local) /\ local \in Caches
      BY TypeInit DEF Store, StoreOf, TypeInv, TypeOK
  <2>2. Promised = {}
      BY DEF Init, Promised
  <2> QED
      BY <2>1, <2>2, StoreHolds DEF Contract!Init
<1>2. TypeInv /\ DoneInv /\ [Next]_vars => [Contract!Next]_<<Store, Promised>>
  <2> SUFFICES ASSUME TypeInv, DoneInv, [Next]_vars PROVE Contract!Next
      OBVIOUS
  <2>1. TypeInv' /\ DoneInv'
      BY TypeStep, DoneStep
  <2>2. CASE MergeTicker
    <3>1. local \in Caches
        BY DEF TypeInv, TypeOK
    <3>2. \A t \in Tickers : local[t] \subseteq local'[t]
        BY <2>2, <3>1 DEF MergeTicker, Merged, Caches
    <3>3. UNCHANGED Promised
        BY <2>2 DEF MergeTicker, Promised
    <3> QED
        BY <2>1, <3>2, <3>3, MergeWrites DEF Contract!Next
  <2>3. CASE UNCHANGED local
    <3>1. Promised # {} => UNCHANGED Promised
        BY GoneStays DEF Promised
    <3> QED
        BY <2>1, <2>3, <3>1, ExitPromises DEF Contract!Next
  <2> QED
      BY <2>2, <2>3, OnlyMergeWrites
<1>3. TypeInv /\ DoneInv /\ [Next]_vars => TypeInv' /\ DoneInv'
    BY TypeStep, DoneStep
<1>4. Init => TypeInv /\ DoneInv
    BY TypeInit, DoneInit
<1> QED
    BY <1>1, <1>2, <1>3, <1>4, PTL DEF Spec, ImplementsStore, Contract!Spec

-----------------------------------------------------------------------------
(***************************************************************************)
(* What is left.                                                           *)
(***************************************************************************)
\* The controller keeps its list of VMs, and deletes what is on it.
LEMMA TrackController ==
    ASSUME TypeInv, TrackInv, Controller
    PROVE  TrackInv'
<1>1. /\ vm \in [Attempts -> Vms] /\ bucket \in Buckets /\ pc \in Labels
      /\ attempt \in Attempts /\ faults \in Nat /\ Attempts \subseteq Nat
    BY CloudAssumption DEF TypeInv, TypeOK, Attempts
<1>2. ASSUME NEW a \in Attempts
      PROVE  \/ vm'[a] = vm[a]
             \/ vm'[a].at = "gone"
             \/ a = attempt /\ pc = "create"
    BY ControlDoes, InitialTypes
<1> USE DEF TrackInv, LeavesNothing, Exists, AtWork, Unborn, Labels, Cleaning, Gone, Goto, Leave, Die,
            outcome, control, cloud
<1>3. CASE MarkBucket \/ MakeBucket \/ Upload \/ Launch
    BY <1>1, <1>3 DEF MarkBucket, MakeBucket, Upload, Launch
<1>4. CASE Create \/ CreateFails
  <2>1. /\ pc = "create" /\ pc' \in {"ls_done", "delete_vms"}
        /\ created' = created /\ attempt' = attempt /\ marked' = marked
      BY <1>4 DEF Create, CreateFails
  <2>2. \A a \in Attempts \ {attempt} : vm'[a] = vm[a]
      BY <1>1, <1>4, VmOrNotIs DEF Create, CreateFails, TypeInv
  <2> QED
      BY <1>1, <2>1, <2>2
<1>5. CASE Stockout
    BY <1>1, <1>5 DEF Stockout
<1>6. CASE LsDone \/ LsFailed \/ Describe \/ Recheck \/ Wake
    BY <1>1, <1>6 DEF LsDone, LsFailed, Describe, Recheck, Wake, Lost
<1>7. CASE Salvage \/ Seed \/ GiveUp
    BY <1>1, <1>7 DEF Salvage, Seed, GiveUp, VerifyFor
<1>8. CASE Retry
  <2>1. pc = "decide" /\ pc' = "launch" /\ attempt' = attempt + 1 /\ UNCHANGED <<created, marked, vm, bucket, faults>>
      BY <1>8 DEF Retry
  <2>2. attempt' \in Attempts /\ attempt' > attempt
      BY <1>1, <1>8, <2>1, ControllerTypes DEF Controller, TypeInv, TypeOK
  <2> QED
      BY <1>1, <2>1, <2>2
<1>9. CASE Fetch \/ Verify \/ MergeTicker \/ MergeRaises \/ Finished
    BY <1>1, <1>9 DEF Fetch, Verify, MergeTicker, MergeRaises, Finished, VerifyFor
<1>10. CASE DeleteVm
  <2>1. PICK a \in created :
          /\ created' = created \ {a}
          /\ \/ Works /\ vm' = IF Exists(a) THEN [vm EXCEPT ![a] = GoneVm] ELSE vm
             \/ Fails /\ UNCHANGED vm
      BY <1>10 DEF DeleteVm
  <2>2. pc = "delete_vms" /\ pc' = pc /\ UNCHANGED <<marked, bucket>> /\ a \in Attempts /\ faults' >= faults /\ faults' \in Nat
      BY <1>1, <1>10, <2>1, FaultsCount DEF DeleteVm, TypeInv, TypeOK
  <2>3. CASE Fails
    <3>1. faults' > 0
        BY <1>1, <2>3, FaultsCount
    <3> QED
        BY <2>2, <3>1
  <2>4. CASE Works /\ vm' = IF Exists(a) THEN [vm EXCEPT ![a] = GoneVm] ELSE vm
    <3>1. vm'[a].at \in {"none", "gone"} /\ \A b \in Attempts \ {a} : vm'[b] = vm[b]
        BY <1>1, <2>2, <2>4, InitialTypes
    <3> QED
        BY <1>1, <2>1, <2>2, <3>1
  <2> QED
      BY <2>1, <2>3, <2>4
<1>11. CASE DeleteBucket
  <2>1. ~NoBucket.exists
      BY DEF NoBucket
  <2>2. faults' >= faults /\ faults' \in Nat /\ (Fails => faults' > 0) /\ (Works \/ Fails)
      BY <1>1, <1>11, FaultsCount DEF DeleteBucket
  <2> QED
      BY <1>1, <1>11, <2>1, <2>2 DEF DeleteBucket
<1>13. CASE NothingMarked
    BY <1>1, <1>13 DEF NothingMarked
<1>12. CASE List
  <2>1. faults' >= faults /\ faults' \in Nat /\ (Fails => faults' > 0)
      BY <1>1, <1>12, FaultsCount DEF List
  <2>2. pc = "list" /\ pc' = "exited" /\ UNCHANGED <<vm, bucket>>
      BY <1>12 DEF List
  <2>3. (bucket.exists \/ \E a \in Attempts : Exists(a)) => faults' > 0
      BY <1>1, <2>1, <2>2
  <2>4. (bucket.exists \/ \E a \in Attempts : Exists(a)) => leftover'
    <3>1. leftover' = (bucket.exists \/ \E a \in Attempts : Exists(a)) \/ leftover' = TRUE
        BY <1>12 DEF List
    <3> QED
        BY ONLY <3>1, Zenon
  <2> QED
      BY <2>2, <2>3, <2>4
<1> QED
    BY <1>3, <1>4, <1>5, <1>6, <1>7, <1>8, <1>9, <1>10, <1>11, <1>12, <1>13 DEF Controller

\* No step makes a VM that is not written down, or forgets one that exists.
LEMMA TrackStep ==
    ASSUME TypeInv, TrackInv, [Next]_vars
    PROVE  TrackInv'
<1>1. /\ vm \in [Attempts -> Vms] /\ attempt \in Attempts /\ pc \in Labels
      /\ faults \in Nat /\ Attempts \subseteq Nat
    BY CloudAssumption DEF TypeInv, TypeOK, Attempts
<1>2. CASE Controller
    BY <1>2, TrackController
<1>3. ASSUME NEW a \in Attempts, Job(a) PROVE TrackInv'
  <2>1. JobDoes(a)
      BY <1>3, JobStep DEF TypeInv
  <2>2. \A b \in Attempts : /\ Exists(b)' => Exists(b)
                            /\ vm[b].at = "none" => vm'[b].at = "none"
      BY <1>1, <2>1 DEF JobDoes, GoesOn, Exists, Active
  <2>3. UNCHANGED <<pc, created, attempt, marked, leftover>> /\ bucket'.exists = bucket.exists
        /\ faults' \in Nat /\ faults' >= faults
      BY <2>1 DEF JobDoes, control, outcome
  <2> QED
      BY <1>1, <2>2, <2>3 DEF TrackInv, LeavesNothing
<1>4. CASE Interrupt
  <2>1. pc \in AtWork /\ pc' = "delete_vms" /\ created' = created /\ marked' = marked
      BY <1>1, <1>4 DEF Interrupt, Die, Leave, AtWork, control
  <2>3. pc = "mark_bucket" => bucket' = bucket /\ vm' = vm
      BY <1>4 DEF Interrupt
  <2>2. \A a \in Attempts : vm'[a] = vm[a] \/ vm'[a].at = "gone" \/ (a = attempt /\ pc = "create")
      BY <1>4, ControlDoes, InitialTypes
  <2> QED
      BY <1>1, <2>1, <2>2, <2>3 DEF TrackInv, LeavesNothing, Exists, Unborn, AtWork, Cleaning
<1>5. CASE Kill
  <2>1. pc' = "killed"
      BY <1>5 DEF Kill
  <2> QED
      BY <2>1 DEF TrackInv, LeavesNothing, Unborn, AtWork, Gone
<1>6. CASE Tick \/ UNCHANGED vars
  <2>1. /\ UNCHANGED <<vm, bucket, created, attempt, marked, leftover, faults>>
        /\ pc' = pc \/ (pc = "asleep" /\ pc' = "ls_done")
      BY <1>6 DEF Tick, Goto, vars, outcome, control, cloud
  <2> QED
      BY <1>1, <2>1 DEF TrackInv, LeavesNothing, Exists, Unborn, AtWork, Labels, Cleaning, Gone
<1> QED
    BY <1>2, <1>3, <1>4, <1>5, <1>6 DEF Next

\* In the beginning there is nothing to leave.
LEMMA TrackInit ==
    ASSUME Init
    PROVE  TrackInv
BY CloudAssumption DEF Init, TrackInv, LeavesNothing, Exists, NoVm, NoBucket, Attempts

(***************************************************************************)
(* Whatever goes wrong before it, when the trap has run and a VM or the    *)
(* bucket is still there, it has said so, and some call had failed.        *)
(***************************************************************************)
THEOREM CleanupLeavesNothing == Spec => []LeavesNothing
<1>1. Init => TypeInv /\ TrackInv
    BY TypeInit, TrackInit
<1>2. TypeInv /\ TrackInv /\ [Next]_vars => TypeInv' /\ TrackInv'
    BY TypeStep, TrackStep
<1>3. TrackInv => LeavesNothing
    BY DEF TrackInv
<1> QED
    BY <1>1, <1>2, <1>3, PTL DEF Spec

-----------------------------------------------------------------------------
(***************************************************************************)
(* What the VMs cost.                                                      *)
(***************************************************************************)
\* A call of the controller takes no time, and gives life to one VM at most.
LEMMA TimeController ==
    ASSUME TypeInv, TimeInv, Controller \/ Interrupt \/ Kill
    PROVE  TimeInv'
<1>1. /\ vm \in [Attempts -> Vms] /\ pc \in Labels /\ attempt \in Attempts
      /\ clock \in Nat /\ ran \in Nat
    BY DEF TypeInv, TypeOK
<1>2. UNCHANGED <<clock, ran>>
  <2>1. CASE MarkBucket \/ MakeBucket \/ Upload \/ Launch \/ Create \/ Stockout \/ CreateFails \/ LsDone \/ LsFailed
             \/ Describe \/ Recheck \/ Wake
      BY <2>1 DEF MarkBucket, MakeBucket, Upload, Launch, Create, Stockout, CreateFails, LsDone, LsFailed, Describe, Recheck,
                  Wake, time
  <2>2. CASE Salvage \/ Seed \/ Retry \/ GiveUp \/ Fetch \/ Verify \/ MergeTicker \/ MergeRaises \/ Finished
      BY <2>2 DEF Salvage, Seed, Retry, GiveUp, Fetch, Verify, MergeTicker, MergeRaises, Finished, time
  <2>3. CASE DeleteVm \/ DeleteBucket \/ NothingMarked \/ List \/ Interrupt \/ Kill
      BY <2>3 DEF DeleteVm, DeleteBucket, NothingMarked, List, Interrupt, Kill, time
  <2> QED
      BY <2>1, <2>2, <2>3 DEF Controller
<1>3. ASSUME NEW a \in Attempts
      PROVE  /\ Live(a)' => Live(a) \/ (a = attempt /\ pc = "create")
             /\ vm'[a].at \in Active => vm'[a].until <= Deadline + HourTicks - 1
  <2>1. CASE vm'[a] = vm[a]
      BY <2>1 DEF Live, TimeInv
  <2>2. CASE vm'[a] = GoneVm
      BY <2>2, InitialTypes DEF Live, Active
  <2>3. CASE vm'[a] = NewVm /\ a = attempt /\ pc = "create"
    <3>1. clock < Deadline
        BY <2>3 DEF TimeInv, Unborn
    <3> QED
        BY <1>1, <2>3, <3>1, NewVmIs
  <2> QED
      BY <2>1, <2>2, <2>3, ControlDoes
<1>4. \A a, b \in Attempts : Live(a)' /\ Live(b)' => a = b
    BY <1>3 DEF TimeInv, Quiet, Unborn
<1>5. ASSUME UNCHANGED leftover, pc' # "killed",
             pc' \notin Gone => \A a \in Attempts : Live(a)' => a = attempt',
             pc' \in Quiet => \A a \in Attempts : ~Live(a)',
             pc' \in Unborn => clock < Deadline,
             pc' \in {"describe", "asleep"} => clock < Deadline + Grace,
             pc \notin Gone
      PROVE  TimeInv'
    BY <1>2, <1>3, <1>4, <1>5 DEF TimeInv, Gone
<1>6. ASSUME UNCHANGED <<leftover, attempt>>, pc' \in Labels \ (Gone \cup Quiet \cup {"describe", "asleep"}),
             pc \notin Gone
      PROVE  TimeInv'
    BY <1>3, <1>5, <1>6 DEF TimeInv, Quiet, Gone
<1>7. ASSUME UNCHANGED <<leftover, attempt>>, pc \in Quiet \ {"create"}, pc' \in Labels \ Gone,
             pc' \in Unborn => pc \in Unborn, pc' \notin {"describe", "asleep"}
      PROVE  TimeInv'
    BY <1>3, <1>5, <1>7 DEF TimeInv, Quiet, Unborn, Gone
<1> USE DEF Goto, Leave, Die, outcome, control
<1>8. CASE MarkBucket \/ MakeBucket \/ Upload \/ Launch \/ Recheck \/ Salvage \/ Seed \/ GiveUp
    BY <1>7, <1>8 DEF MarkBucket, MakeBucket, Upload, Launch, Recheck, Salvage, Seed, GiveUp, Lost, VerifyFor,
                      Quiet, Unborn, Gone, Labels, Cleaning
<1>9. CASE Create \/ CreateFails \/ LsDone \/ Wake \/ Fetch \/ Verify \/ MergeTicker \/ MergeRaises \/ Finished
           \/ DeleteVm \/ DeleteBucket \/ Interrupt
    BY <1>1, <1>6, <1>9 DEF Create, CreateFails, LsDone, Wake, Fetch, Verify, MergeTicker, MergeRaises, Finished,
                      DeleteVm, DeleteBucket, Interrupt, VerifyFor, Quiet, Unborn, Gone, Labels, Cleaning
<1>10. CASE Stockout
    BY <1>1, <1>3, <1>5, <1>10 DEF Stockout, TimeInv, Quiet, Unborn, Gone, cloud, Live
<1>11. CASE LsFailed
    BY <1>1, <1>3, <1>5, <1>11 DEF LsFailed, TimeInv, Quiet, Unborn, Gone
<1>12. CASE Describe
  <2>1. UNCHANGED <<leftover, attempt, vm>> /\ pc = "describe"
        /\ pc' \in {"asleep", "recheck", "salvage", "delete_vms"}
      BY <1>12 DEF Describe, Lost, cloud
  <2>2. pc' \in {"recheck", "salvage"} => ~Live(attempt)
      BY <1>12 DEF Describe, Lost, Live, Active
  <2>3. clock < Deadline + Grace
      BY <2>1 DEF TimeInv
  <2> QED
      BY <1>1, <1>3, <1>5, <2>1, <2>2, <2>3 DEF TimeInv, Quiet, Unborn, Gone, Live
<1>13. CASE Retry
  <2>1. UNCHANGED leftover /\ pc = "decide" /\ pc' = "launch" /\ clock < Deadline
      BY <1>1, <1>13, TimeTypes DEF Retry, OutOfAttempts
  <2>2. \A a \in Attempts : ~Live(a)'
      BY <1>3, <2>1 DEF TimeInv, Quiet, Unborn
  <2> QED
      BY <1>5, <2>1, <2>2 DEF Gone
<1>14. CASE List \/ NothingMarked \/ Kill
  <2>1. pc' \in Gone /\ pc \notin Gone
      BY <1>14 DEF List, NothingMarked, Kill, Gone
  <2>2. ~leftover /\ clock <= Deadline + Grace /\ (leftover' => pc' = "exited")
      BY <1>14, <2>1 DEF List, NothingMarked, Kill, TimeInv, Gone
  <2>3. clock <= Deadline + HourTicks - 1
      BY <1>1, <2>2, TimeTypes
  <2> QED
      BY <1>2, <1>3, <1>4, <2>1, <2>2, <2>3 DEF TimeInv, Quiet, Unborn, Gone
<1> QED
    BY <1>8, <1>9, <1>10, <1>11, <1>12, <1>13, <1>14 DEF Controller

\* A VM that ends, or is on its way out, is not live any more.
LEMMA TimeJob ==
    ASSUME TypeInv, TimeInv, NEW a \in Attempts, Job(a)
    PROVE  TimeInv'
<1>1. JobDoes(a) /\ vm \in [Attempts -> Vms]
    BY JobStep DEF TypeInv, TypeOK
<1>2. \A b \in Attempts : /\ Live(b)' => Live(b)
                          /\ vm'[b].at \in Active => vm[b].at \in Active /\ vm'[b].until = vm[b].until
    BY <1>1 DEF JobDoes, GoesOn, Live, Vms
<1>3. UNCHANGED <<pc, attempt, leftover, clock, ran>>
    BY <1>1 DEF JobDoes, control, outcome, time
<1> QED
    BY <1>2, <1>3 DEF TimeInv

\* When time passes one VM runs at most, and it is not past its duration.
LEMMA TimeTick ==
    ASSUME TypeInv, TimeInv, LeavesNothing, Tick
    PROVE  TimeInv'
<1>1. /\ vm \in [Attempts -> Vms] /\ clock \in Nat /\ ran \in Nat
    BY DEF TypeInv, TypeOK
<1>2. \A a \in Running : a \in Attempts /\ Live(a) /\ clock < vm[a].until /\ vm[a].until \in Nat
    BY <1>1 DEF Tick, Running, Due, Live, Vms
<1>3. Cardinality(Running) <= 1
  <2>1. \A a, b \in Running : a = b
      BY <1>2 DEF TimeInv
  <2>2. CASE Running = {}
      BY <2>2, FS_EmptySet
  <2>3. ASSUME NEW a \in Running PROVE Cardinality(Running) <= 1
    <3>1. Running = {a}
        BY <2>1
    <3>2. Cardinality({a}) = 1
        BY FS_Singleton
    <3> QED
        BY <3>1, <3>2
  <2> QED
      BY <2>2, <2>3
<1>4. clock' = clock + 1 /\ ran' = ran + Cardinality(Running) /\ ran' <= clock'
    BY <1>1, <1>3, RunningFinite DEF Tick, TimeInv
<1>5. UNCHANGED <<vm, attempt, leftover>>
    BY DEF Tick, Goto, outcome, control, cloud
<1>6. CASE pc = "asleep" /\ pc' = "ls_done"
  <2>1. clock < Deadline + Grace /\ ~leftover
      BY <1>6 DEF TimeInv
  <2>2. clock' <= Deadline + Grace
      BY <1>1, <1>4, <2>1, TimeTypes
  <2> QED
      BY <1>4, <1>5, <1>6, <2>1, <2>2 DEF TimeInv, Live, Quiet, Unborn, Gone
<1>7. CASE pc \in Gone /\ Running # {} /\ pc' = pc
  <2>1. PICK a \in Attempts : vm[a].at \in Active /\ clock < vm[a].until /\ vm[a].until \in Nat
      BY <1>2, <1>7 DEF Running
  <2>2. clock' <= Deadline + HourTicks - 1
      BY <1>1, <1>4, <2>1, TimeTypes DEF TimeInv
  <2>3. pc = "killed" \/ leftover
      BY <1>7, <2>1 DEF LeavesNothing, Exists, Active, Gone
  <2> QED
      BY <1>4, <1>5, <1>7, <2>2, <2>3 DEF TimeInv, Live, Quiet, Unborn, Gone
<1> QED
    BY <1>6, <1>7 DEF Tick, Goto

\* No step lets the VMs run beyond the clock, or the clock beyond its bound.
LEMMA TimeStep ==
    ASSUME TypeInv, TrackInv, TimeInv, [Next]_vars
    PROVE  TimeInv'
<1>1. UNCHANGED vars => TimeInv'
    BY DEF vars, control, outcome, cloud, time, TimeInv, Live
<1> QED
    BY <1>1, TimeController, TimeJob, TimeTick DEF Next, TrackInv

\* The clock starts at nought.
LEMMA TimeInit ==
    ASSUME Init
    PROVE  TimeInv
<1>1. \A a \in Attempts : vm[a].at \notin Active
    BY DEF Init, NoVm, Active
<1> QED
    BY <1>1, TimeTypes DEF Init, TimeInv, Live, Gone, Quiet, Unborn

(***************************************************************************)
(* All the VMs of a run together run for --max-hours and the quarter of an *)
(* hour the controller waits beyond it; when it is killed, or could not    *)
(* delete what it had to, for less than an hour more than --max-hours.     *)
(***************************************************************************)
THEOREM CostIsBounded == Spec => []RunTimeBounded
<1>1. Init => TypeInv /\ TrackInv /\ TimeInv
    BY TypeInit, TrackInit, TimeInit
<1>2. TypeInv /\ TrackInv /\ TimeInv /\ [Next]_vars => TypeInv' /\ TrackInv' /\ TimeInv'
    BY TypeStep, TrackStep, TimeStep
<1>3. TypeInv /\ TimeInv => RunTimeBounded
    BY TimeTypes DEF TypeInv, TypeOK, TimeInv, RunTimeBounded
<1> QED
    BY <1>1, <1>2, <1>3, PTL DEF Spec
=============================================================================
