----------------------------- MODULE CloudScore -----------------------------
(***************************************************************************)
(* Scoring the news archive on rented virtual machines                     *)
(* (scripts/cloud_score.sh --run): the controller on the local machine,    *)
(* the job it starts on a VM, the job's uploader, and the bucket between   *)
(* them.                                                                   *)
(*                                                                         *)
(* One step is one gcloud call of the controller, one write of the job to  *)
(* its disk or to the bucket, or a quarter of an hour passing.  A call     *)
(* takes moments, so time passes only while the controller sleeps or is no *)
(* longer there; it polls at least once in each tick.                      *)
(*                                                                         *)
(* Set-up that only reads (argument and secret checks, the dry run) is     *)
(* left out: a refusal there has created nothing.                          *)
(***************************************************************************)
EXTENDS Integers, FiniteSets

CONSTANTS
    Tickers,
    Archive,            \* the urls of each ticker's archived articles
    Scored,             \* those in the local score caches when the run starts
    MaxHours,           \* --max-hours
    MaxAttempts,        \* --max-attempts
    Zones,              \* how many zones there are to try
    UnreadableLimit,    \* status errors in a row that end the wait
    HourTicks,          \* ticks per hour
    MaxFaults           \* bound on failing calls

Caches == [Tickers -> SUBSET UNION {Archive[t] : t \in Tickers}]
NoScores == [t \in Tickers |-> {}]

ASSUME CloudAssumption ==
    /\ Archive \in Caches
    /\ Scored \in Caches
    /\ MaxHours \in Nat \ {0}
    /\ MaxAttempts \in Nat \ {0}
    /\ Zones \in Nat \ {0}
    /\ UnreadableLimit \in Nat \ {0}
    /\ HourTicks \in Nat \ {0} /\ HourTicks % 4 = 0
    /\ MaxFaults \in Nat

Attempts == 1 .. MaxAttempts
Deadline == MaxHours * HourTicks        \* TOTAL_DEADLINE
Grace == HourTicks \div 4               \* the 900 s after it

VARIABLES
    local,              \* the local score caches
    \* The controller.
    pc,
    attempt,
    tried,              \* zones tried for this attempt
    unreadable,         \* DESCRIBE_FAILS
    got,                \* the scores downloaded to TMP, as a set of at most one
    merging,            \* tickers still to be merged
    created,            \* VMS_CREATED
    marked,             \* BUCKET_CREATED
    reason,             \* how it leaves
    leftover,           \* cleanup reported a resource that it could not see gone
    \* The cloud.
    vm,                 \* of each attempt: what its job is at, its disk, when it is deleted
    bucket,
    \* Time, and history read only by the properties.
    clock,
    ran,                \* ticks of VM time so far
    faults

control == <<attempt, tried, unreadable, got, merging, created, marked>>
outcome == <<reason, leftover>>
cloud == <<vm, bucket>>
time == <<clock, ran>>
vars == <<local, pc, control, outcome, cloud, time, faults>>

NoVm == [at |-> "none", disk |-> NoScores, until |-> 0, stopping |-> FALSE]
StoppedVm == [NoVm EXCEPT !.at = "stopped"]
GoneVm == [NoVm EXCEPT !.at = "gone"]
NoBucket == [exists |-> FALSE, scores |-> NoScores, partial |-> NoScores, results |-> {}, status |-> {}]

Init ==
    /\ local = Scored
    /\ pc = "mark_bucket"
    /\ attempt = 1
    /\ tried = 0
    /\ unreadable = 0
    /\ got = {}
    /\ merging = {}
    /\ created = {}
    /\ marked = FALSE
    /\ reason = "none"
    /\ leftover = FALSE
    /\ vm = [a \in Attempts |-> NoVm]
    /\ bucket = NoBucket
    /\ clock = 0
    /\ ran = 0
    /\ faults = 0

-----------------------------------------------------------------------------
(***************************************************************************)
(* Calls that fail.                                                        *)
(***************************************************************************)
Works == UNCHANGED faults
Fails == faults < MaxFaults /\ faults' = faults + 1

Goto(label) == pc' = label /\ UNCHANGED outcome

\* The EXIT trap, at the end of the script.
Leave(why) == pc' = "delete_vms" /\ reason' = why /\ UNCHANGED leftover

\* The same on die, or when a command fails under set -e.
Die == Leave("died")

-----------------------------------------------------------------------------
(***************************************************************************)
(* The job on a VM:                                                        *)
(*   boot -> score -> pack -> done -> halt -> stopped                      *)
(*                         \-> failed -> halt -> stopped                   *)
(***************************************************************************)
Active == {"boot", "score", "pack", "done", "failed", "halt"}

JobAt(a, place, next) ==
    /\ vm[a].at = place
    /\ UNCHANGED <<local, pc, control, outcome, time>>
    /\ vm' = [vm EXCEPT ![a].at = next]

\* Without the score caches the job starts from none.
Boot(a) ==
    /\ vm[a].at = "boot"
    /\ bucket.exists
    /\ \E disk \in {bucket.scores, NoScores} :
        /\ IF disk = bucket.scores THEN Works ELSE Fails
        /\ vm' = [vm EXCEPT ![a].at = "score", ![a].disk = disk]
    /\ UNCHANGED <<local, pc, control, outcome, time, bucket>>

\* score_archive writes one cache at a time, each whole.
Flush(a) ==
    /\ vm[a].at = "score"
    /\ \E t \in Tickers : \E scores \in (SUBSET (Archive[t] \ vm[a].disk[t])) \ {{}} :
        vm' = [vm EXCEPT ![a].disk[t] = @ \cup scores]
    /\ UNCHANGED <<local, pc, control, outcome, time, bucket, faults>>

\* score_archive returns normally.
AllScored(disk) == \A t \in Tickers : Archive[t] \subseteq disk[t]

ScoreDone(a) ==
    /\ AllScored(vm[a].disk)
    /\ JobAt(a, "score", "pack")
    /\ UNCHANGED <<bucket, faults>>

\* No GPU, no inputs, a corrupt cache, an invalid score, results that cannot be saved.
JobFails(a) ==
    /\ \E place \in {"boot", "score", "pack"} : JobAt(a, place, "failed")
    /\ UNCHANGED <<bucket, faults>>

\* The uploader copies one file after the other, once a minute.
Rsync(a) ==
    /\ vm[a].at = "score"
    /\ bucket.exists
    /\ \E t \in Tickers :
        /\ bucket.partial[t] # vm[a].disk[t]
        /\ bucket' = [bucket EXCEPT !.partial[t] = vm[a].disk[t]]
    /\ UNCHANGED <<local, pc, control, outcome, time, vm, faults>>

Pack(a) ==
    /\ bucket.exists
    /\ bucket' = [bucket EXCEPT !.results = {vm[a].disk}]
    /\ JobAt(a, "pack", "done")
    /\ UNCHANGED faults

\* finish: nobody looks whether the marker was written before the shutdown.
Finish(a) ==
    /\ \/ /\ bucket.exists
          /\ bucket' = [bucket EXCEPT !.status =
                            @ \cup {IF vm[a].at = "done" THEN "DONE" ELSE "FAILED"}]
          /\ Works
       \/ /\ UNCHANGED bucket
          /\ IF bucket.exists THEN Fails ELSE Works
    /\ \E place \in {"done", "failed"} : JobAt(a, place, "halt")

\* Nothing reads the disk again.
Halt(a) ==
    /\ vm[a].at = "halt"
    /\ vm' = [vm EXCEPT ![a] = StoppedVm]
    /\ UNCHANGED <<local, pc, control, outcome, time, bucket, faults>>

\* A spot VM is reclaimed: it may go on for moments, and is then deleted.
Preempt(a) ==
    /\ vm[a].at \in Active
    /\ ~vm[a].stopping
    /\ vm' = [vm EXCEPT ![a].stopping = TRUE]
    /\ UNCHANGED <<local, pc, control, outcome, time, bucket, faults>>

\* Mutation: no --max-run-duration.
Due_Reclaimed(a) == vm[a].at \in Active /\ vm[a].stopping

\* Reclaimed, or past its --max-run-duration.
Due(a) == vm[a].at \in Active /\ (vm[a].stopping \/ vm[a].until <= clock)

Vanish(a) ==
    /\ Due(a)
    /\ vm' = [vm EXCEPT ![a] = GoneVm]
    /\ UNCHANGED <<local, pc, control, outcome, time, bucket, faults>>

Job(a) ==
    \/ Boot(a) \/ Flush(a) \/ ScoreDone(a) \/ JobFails(a) \/ Rsync(a)
    \/ Pack(a) \/ Finish(a) \/ Halt(a) \/ Preempt(a) \/ Vanish(a)

-----------------------------------------------------------------------------
(***************************************************************************)
(* The controller: bucket, uploads, launch.                                *)
(***************************************************************************)
\* Marked first: a create that fails may have made the bucket.
MarkBucket ==
    /\ pc = "mark_bucket"
    /\ marked' = TRUE
    /\ Goto("make_bucket")
    /\ UNCHANGED <<local, attempt, tried, unreadable, got, merging, created, cloud, time, faults>>

MakeBucket ==
    /\ pc = "make_bucket"
    /\ \/ bucket' = [bucket EXCEPT !.exists = TRUE] /\ Goto("upload") /\ Works
       \/ /\ \E made \in BOOLEAN : bucket' = [bucket EXCEPT !.exists = made]
          /\ Die
          /\ Fails
    /\ UNCHANGED <<local, control, vm, time>>

Upload ==
    /\ pc = "upload"
    /\ \/ bucket' = [bucket EXCEPT !.scores = local] /\ Goto("launch") /\ Works
       \/ UNCHANGED bucket /\ Die /\ Fails
    /\ UNCHANGED <<local, control, vm, time>>

\* Mutation: an exact number of hours is rounded up to the next.
Hours_OneMore == (Deadline - clock + HourTicks) \div HourTicks

\* Whole hours until the deadline, rounded up, and at least one.
Hours ==
    LET left == (Deadline - clock + HourTicks - 1) \div HourTicks
    IN  IF left >= 1 THEN left ELSE 1

\* Mutation: the VM is not written down.
Launch_Unrecorded ==
    /\ pc = "launch"
    /\ Goto("create")
    /\ UNCHANGED <<local, control, cloud, time, faults>>

\* Recorded first: a create that fails may have made the VM.
Launch ==
    /\ pc = "launch"
    /\ created' = created \cup {attempt}
    /\ Goto("create")
    /\ UNCHANGED <<local, attempt, tried, unreadable, got, merging, marked, cloud, time, faults>>

NewVm == [at |-> "boot", disk |-> NoScores, until |-> clock + Hours * HourTicks, stopping |-> FALSE]

Create ==
    /\ pc = "create"
    /\ vm' = [vm EXCEPT ![attempt] = NewVm]
    /\ Goto("ls_done")
    /\ unreadable' = 0
    /\ tried' = 0
    /\ UNCHANGED <<local, attempt, got, merging, created, marked, bucket, time, faults>>

\* A stockout makes nothing, so there is nothing to delete; the next zone is tried.
Stockout ==
    /\ pc = "create"
    /\ created' = created \ {attempt}
    /\ tried' = tried + 1
    /\ IF tried + 1 < Zones THEN Goto("launch") ELSE Die
    /\ UNCHANGED <<local, attempt, unreadable, got, merging, marked, cloud, time, faults>>

VmOrNot == vm' \in {vm, [vm EXCEPT ![attempt] = NewVm]}

CreateFails ==
    /\ pc = "create"
    /\ VmOrNot
    /\ Die
    /\ Fails
    /\ UNCHANGED <<local, control, bucket, time>>

-----------------------------------------------------------------------------
(***************************************************************************)
(* wait_for_vm:                                                            *)
(*   ls_done -> ls_failed -> describe -> recheck                           *)
(*      |           |           |  \-> asleep -> ls_done                   *)
(*      v           v           v                                          *)
(*    fetch       (exit)     salvage                                       *)
(***************************************************************************)
\* A listing that fails reads as: not there.
Seen(marker) == marker \in bucket.status /\ Works
NotSeen(marker) == IF marker \in bucket.status THEN Fails ELSE Works

LsDone ==
    /\ pc = "ls_done"
    /\ \/ Seen("DONE") /\ Goto("fetch")
       \/ NotSeen("DONE") /\ Goto("ls_failed")
    /\ UNCHANGED <<local, control, cloud, time>>

LsFailed ==
    /\ pc = "ls_failed"
    /\ \/ Seen("FAILED") /\ Die
       \/ /\ NotSeen("FAILED")
          /\ IF clock < Deadline + Grace
             THEN Goto("describe")
             ELSE Die
    /\ UNCHANGED <<local, attempt, tried, unreadable, got, merging, created, marked, cloud, time>>

Lost == Goto("salvage")

Describe ==
    /\ pc = "describe"
    /\ \/ /\ Works
          /\ LET it == vm[attempt]
             IN  \/ /\ it.at \in Active /\ ~it.stopping
                    /\ unreadable' = 0 /\ Goto("asleep")
                 \/ /\ it.at = "stopped" \/ (it.at \in Active /\ it.stopping)
                    /\ unreadable' = 0 /\ Goto("recheck")
                 \/ /\ it.at = "gone"
                    /\ UNCHANGED unreadable /\ Lost
                 \/ /\ it.at # "gone"       \* in a state the script does not expect
                    /\ unreadable' = 0 /\ Die
       \/ /\ Fails
          /\ unreadable' = unreadable + 1
          /\ IF unreadable + 1 < UnreadableLimit
             THEN Goto("asleep")
             ELSE Die
    /\ UNCHANGED <<local, attempt, tried, got, merging, created, marked, cloud, time>>

Recheck ==
    /\ pc = "recheck"
    /\ \/ Seen("DONE") /\ Goto("ls_done")
       \/ NotSeen("DONE") /\ Lost
    /\ UNCHANGED <<local, attempt, tried, unreadable, got, merging, created, marked, cloud, time>>

Wake ==
    /\ pc = "asleep"
    /\ Goto("ls_done")
    /\ UNCHANGED <<local, control, cloud, time, faults>>

-----------------------------------------------------------------------------
(***************************************************************************)
(* After a loss.                                                           *)
(***************************************************************************)
Salvage ==
    /\ pc = "salvage"
    /\ \/ /\ bucket.partial # NoScores
          /\ got' = {bucket.partial}
          /\ Goto("seed")
          /\ Works
       \/ /\ got' = {}
          /\ Goto("decide")
          /\ IF bucket.partial # NoScores THEN Fails ELSE Works
    /\ UNCHANGED <<local, attempt, tried, unreadable, merging, created, marked, cloud, time>>

\* A failed upload goes unnoticed: set -e is off in a function whose status is tested.
Seed ==
    /\ pc = "seed"
    /\ \/ (\E scores \in got : bucket' = [bucket EXCEPT !.scores = scores]) /\ Works
       \/ UNCHANGED bucket /\ Fails
    /\ Goto("decide")
    /\ UNCHANGED <<local, control, vm, time>>

\* Mutation: only the time counts.
OutOfAttempts_Time == clock >= Deadline

OutOfAttempts == attempt >= MaxAttempts \/ clock >= Deadline

Retry ==
    /\ pc = "decide"
    /\ ~OutOfAttempts
    /\ attempt' = attempt + 1
    /\ got' = {}
    /\ Goto("launch")
    /\ UNCHANGED <<local, tried, unreadable, merging, created, marked, cloud, time, faults>>

\* What it will leave with, if nothing goes wrong on the way.
VerifyFor(why) == pc' = "verify" /\ reason' = why /\ UNCHANGED leftover

GiveUp ==
    /\ pc = "decide"
    /\ OutOfAttempts
    /\ IF got = {} THEN Die ELSE VerifyFor("exhausted")
    /\ UNCHANGED <<local, control, cloud, time, faults>>

-----------------------------------------------------------------------------
(***************************************************************************)
(* Fetch, verify, merge.                                                   *)
(***************************************************************************)
Fetch ==
    /\ pc = "fetch"
    /\ \/ /\ bucket.results # {}
          /\ got' = bucket.results
          /\ VerifyFor("done")
          /\ Works
       \/ got' = {} /\ Die /\ Fails
    /\ UNCHANGED <<local, attempt, tried, unreadable, merging, created, marked, cloud, time>>

Added(scores, t) == (scores[t] \cap Archive[t]) \ local[t]

\* A sample of what the cloud added is scored again; a difference merges nothing.
Verify ==
    /\ pc = "verify"
    /\ \/ merging' = Tickers /\ Goto("merge") /\ Works
       \/ /\ UNCHANGED merging
          /\ Die
          /\ IF \E scores \in got, t \in Tickers : Added(scores, t) # {} THEN Works ELSE Fails
    /\ UNCHANGED <<local, attempt, tried, unreadable, got, created, marked, cloud, time>>

\* Mutation: the downloaded cache takes the place of the local one.
Merged_Replaced(here, there) == there

\* merge_caches on one ticker
Merged(here, there) == here \cup there

MergeTicker ==
    /\ pc = "merge"
    /\ \E scores \in got, t \in merging :
        /\ local' = [local EXCEPT ![t] = Merged(@, scores[t])]
        /\ merging' = merging \ {t}
    /\ UNCHANGED <<pc, attempt, tried, unreadable, got, created, marked, outcome, cloud, time, faults>>

\* An entry on both sides that disagrees, or a file that cannot be written.
MergeRaises ==
    /\ pc = "merge"
    /\ merging # {}
    /\ Die
    /\ Fails
    /\ UNCHANGED <<local, control, cloud, time>>

Finished ==
    /\ pc = "merge"
    /\ merging = {}
    /\ Leave(reason)
    /\ UNCHANGED <<local, control, cloud, time, faults>>

-----------------------------------------------------------------------------
(***************************************************************************)
(* Signals, death, cleanup, time.                                          *)
(***************************************************************************)
Gone == {"exited", "killed"}
Cleaning == {"delete_vms", "delete_bucket", "list"}

\* INT, TERM or HUP, before cleanup: the call under way may have taken effect.
Interrupt ==
    /\ pc \notin Gone \cup Cleaning
    /\ Die
    /\ IF pc = "create" THEN VmOrNot ELSE UNCHANGED vm
    /\ IF pc = "make_bucket"
       THEN \E made \in BOOLEAN : bucket' = [bucket EXCEPT !.exists = made]
       ELSE UNCHANGED bucket
    /\ UNCHANGED <<local, control, time, faults>>

\* What a process knew is gone with it.
Forget ==
    /\ attempt' = 1
    /\ tried' = 0
    /\ unreadable' = 0
    /\ got' = {}
    /\ merging' = {}
    /\ created' = {}
    /\ marked' = FALSE

\* SIGKILL, or the machine: no trap runs.
Kill ==
    /\ pc \notin Gone
    /\ pc' = "killed"
    /\ IF pc = "create" THEN VmOrNot ELSE UNCHANGED vm
    /\ Forget
    /\ UNCHANGED <<local, outcome, bucket, time, faults>>

Exists(a) == vm[a].at \notin {"none", "gone"}

DeleteVm ==
    /\ pc = "delete_vms"
    /\ \E a \in created :
        /\ created' = created \ {a}
        /\ \/ Works /\ vm' = IF Exists(a) THEN [vm EXCEPT ![a] = GoneVm] ELSE vm
           \/ Fails /\ UNCHANGED vm
    /\ UNCHANGED <<local, pc, attempt, tried, unreadable, got, merging, marked, outcome, bucket, time>>

DeleteBucket ==
    /\ pc = "delete_vms"
    /\ created = {}
    /\ marked
    /\ \/ bucket' = NoBucket /\ Works
       \/ bucket.exists /\ UNCHANGED bucket /\ Fails
    /\ Goto("list")
    /\ UNCHANGED <<local, control, vm, time>>

\* Nothing was marked, so no VM was written down either: nothing is deleted or listed.
NothingMarked ==
    /\ pc = "delete_vms"
    /\ created = {}
    /\ ~marked
    /\ pc' = "exited"
    /\ Forget
    /\ UNCHANGED <<local, outcome, cloud, time, faults>>

\* A listing that fails counts as a leftover.
List ==
    /\ pc = "list"
    /\ pc' = "exited"
    /\ \/ leftover' = (bucket.exists \/ \E a \in Attempts : Exists(a)) /\ Works
       \/ leftover' = TRUE /\ Fails
    /\ Forget
    /\ UNCHANGED <<local, reason, cloud, time>>

Running == {a \in Attempts : vm[a].at \in Active}

\* Bound: by then every VM has reached its run duration, so it cuts nothing off.
MaxClock == Deadline + HourTicks

Tick ==
    /\ clock < MaxClock
    /\ \A a \in Attempts : ~Due(a)
    /\ \/ pc = "asleep" /\ Goto("ls_done")
       \/ pc \in Gone /\ Running # {} /\ UNCHANGED <<pc, outcome>>
    /\ clock' = clock + 1
    /\ ran' = ran + Cardinality(Running)
    /\ UNCHANGED <<local, control, cloud, faults>>

Controller ==
    \/ MarkBucket \/ MakeBucket \/ Upload \/ Launch \/ Create \/ Stockout \/ CreateFails
    \/ LsDone \/ LsFailed \/ Describe \/ Recheck \/ Wake
    \/ Salvage \/ Seed \/ Retry \/ GiveUp
    \/ Fetch \/ Verify \/ MergeTicker \/ MergeRaises \/ Finished
    \/ DeleteVm \/ DeleteBucket \/ NothingMarked \/ List

Next ==
    \/ Controller \/ Interrupt \/ Kill
    \/ \E a \in Attempts : Job(a)
    \/ Tick

Spec == Init /\ [][Next]_vars

\* Calls return, the provider deletes what it has to, and time passes.
Fairness ==
    /\ WF_vars(Controller)
    /\ \A a \in Attempts : WF_vars(Vanish(a))
    /\ SF_vars(Tick)

FairSpec == Spec /\ Fairness

-----------------------------------------------------------------------------
(***************************************************************************)
(* Properties.                                                             *)
(***************************************************************************)
Vms == [at : Active \cup {"none", "stopped", "gone"}, disk : Caches, until : Nat, stopping : BOOLEAN]

Buckets == [exists : BOOLEAN, scores : Caches, partial : Caches, results : SUBSET Caches,
            status : SUBSET {"DONE", "FAILED"}]

Labels == {"mark_bucket", "make_bucket", "upload", "launch", "create", "ls_done", "ls_failed", "describe",
           "recheck", "asleep", "salvage", "seed", "decide", "fetch", "verify", "merge"}
              \cup Cleaning \cup Gone

Reasons == {"none", "died", "exhausted", "done"}

TypeOK ==
    /\ local \in Caches
    /\ pc \in Labels
    /\ attempt \in Attempts
    /\ tried \in 0 .. Zones
    /\ unreadable \in 0 .. UnreadableLimit
    /\ got \in SUBSET Caches
    /\ merging \in SUBSET Tickers
    /\ created \in SUBSET Attempts
    /\ marked \in BOOLEAN
    /\ reason \in Reasons
    /\ leftover \in BOOLEAN
    /\ vm \in [Attempts -> Vms]
    /\ bucket \in Buckets
    /\ clock \in Nat
    /\ ran \in Nat

\* archive_scoring.py: "Local entries are never lost".  Whatever is salvaged, merged
\* in part or interrupted, no step takes a score out of the local caches.
ScoresKept == [][\A t \in Tickers : local[t] \subseteq local'[t]]_vars

\* The script ends with "done" only when every archived article is scored locally,
\* whichever VM made the results and however many were lost or failed before.
DoneIsComplete ==
    pc \in Cleaning \cup {"exited"} /\ reason = "done" =>
        \A t \in Tickers : Archive[t] \subseteq local[t]

\* The run as a whole implements the store that ScoreStore specifies, as the local
\* processes do: no score is lost, and "done" promises all of the archive.  What that
\* comes to here is ScoresKept and DoneIsComplete.
Urls == UNION {Archive[t] : t \in Tickers}

Store == [k \in UNION {{t} \X local[t] : t \in Tickers} |-> "scored"]

Promised ==
    IF pc = "exited" /\ reason = "done" THEN UNION {{t} \X Archive[t] : t \in Tickers} ELSE {}

Contract == INSTANCE ScoreStore
    WITH Keys <- Tickers \X Urls, Given <- [k \in Tickers \X Urls |-> {"scored"}],
         store <- Store, promised <- Promised

ImplementsStore == Contract!Spec

\* The trap deletes what was created on any exit, also when a create only half
\* succeeded, and says so if something is left, which takes a call that failed.
LeavesNothing ==
    pc = "exited" /\ (bucket.exists \/ \E a \in Attempts : Exists(a)) => leftover /\ faults > 0

\* What the VMs run for is bounded, though not by --max-hours as the script says (see
\* HardCap): the controller waits a quarter of an hour longer, and --max-run-duration is
\* whole hours, so that VMs which no controller deletes run almost an hour longer.
RunTimeBounded ==
    ran <= Deadline + (IF pc = "killed" \/ leftover THEN HourTicks - 1 ELSE Grace)

\* cloud_score.sh, of --max-hours: "hard cap on total run time across all VMs".  The VMs
\* of all attempts have run together for no longer than that.
HardCap == ran <= Deadline

\* The script ends and every VM stops, also when the script is killed.
EverythingStops == <>[](pc \in Gone /\ Running = {})

\* wait_for_vm: "Real failures (the job itself failed, ...) die here".  No VM is taken
\* for lost when its job has said in the bucket that it failed.
FailedIsFinal == [][pc # "salvage" /\ pc' = "salvage" => "FAILED" \notin bucket.status]_vars
=============================================================================
