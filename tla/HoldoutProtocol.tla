-------------------------- MODULE HoldoutProtocol --------------------------
(***************************************************************************)
(* The one-shot holdout of a pre-registered hypothesis (eval/protocol.py,  *)
(* the steps dev, freeze and holdout of eval/h2.py and eval/h3.py), in one *)
(* checkout whose git tree an operator edits, commits and checks out.      *)
(*                                                                         *)
(* Checks that take moments are one step: those of freeze, and those of    *)
(* holdout before it loads its data.  What takes minutes lies between two  *)
(* steps: the development run, the loading, the evaluation.  OperatorWaits *)
(* says whether the operator leaves the files alone meanwhile.             *)
(*                                                                         *)
(* A version of the frozen files stands for all of them, with the          *)
(* constants the fingerprint repeats; what a development run selects       *)
(* depends on the version that ran, so the version names the selection.    *)
(***************************************************************************)
EXTENDS Integers, Sequences, FiniteSets

CONSTANTS
    Codes,              \* versions of the frozen files
    Clearing,           \* those whose selection clears the protocol (proceed)
    OutDirs,            \* values of --out-dir
    Procs,              \* development and holdout processes, each started once
    OperatorWaits,      \* TRUE: no edit, checkout or deletion while one of them runs
    MaxCommits,
    MaxDeletions,       \* bound on files the operator deletes
    MaxCrashes

ASSUME HoldoutAssumption ==
    /\ Codes # {}
    /\ OutDirs # {}
    /\ Clearing \subseteq Codes
    /\ OperatorWaits \in BOOLEAN
    /\ MaxCommits \in Nat \ {0}
    /\ MaxDeletions \in Nat
    /\ MaxCrashes \in Nat

Kinds == {"dev", "freeze", "marker", "results"}

Paths == OutDirs \X Kinds

VARIABLES
    tree,               \* the working tree: the code, and each path's file
    commits,            \* every commit of the repository, with its ancestors
    head,               \* HEAD
    pc,                 \* where each process is
    dir,                \* its --out-dir
    loaded,             \* the code it runs
    frozen,             \* the freeze a holdout process read, as a set of at most one
    (* History, read only by the properties. *)
    evaluated,          \* every evaluation of holdout data, in order
    lost,               \* markers deleted before they were ever committed, per directory
    deletions,
    crashes

process == <<pc, dir, loaded, frozen>>
vars == <<tree, commits, head, process, evaluated, lost, deletions, crashes>>

(***************************************************************************)
(* A file is a set: empty when there is none, else its one document, which *)
(* is Torn when a crash cut the write short.  Every read parses the        *)
(* document and raises on a torn one.                                      *)
(***************************************************************************)
Torn == [torn |-> TRUE]

\* sel and ran name code versions: the one that selected, the one that evaluated.
DevDocs     == [sel : Codes, hash : Codes]
FreezeDocs  == [sel : Codes, hash : Codes, commit : Nat]
MarkerDocs  == [commit : Nat, status : {"started", "completed"}]
ResultsDocs == [sel : Codes, ran : Codes]

File(d, kind) == tree.file[<<d, kind>>]

Readable(d, kind) == File(d, kind) \ {Torn}

\* The tree after `docs` is written to, or removed from, one path.
Put(d, kind, docs) == tree' = [tree EXCEPT !.file[<<d, kind>>] = docs]

\* What a process has in memory before it starts and after it exits.
NoDir == CHOOSE d \in OutDirs : TRUE
NoCode == CHOOSE c \in Codes : TRUE

Init ==
    /\ tree \in [code : Codes, file : {[p \in Paths |-> {}]}]
    /\ commits = <<[code |-> tree.code, file |-> tree.file, past |-> {}]>>
    /\ head = 1
    /\ pc = [p \in Procs |-> "idle"]
    /\ dir = [p \in Procs |-> NoDir]
    /\ loaded = [p \in Procs |-> NoCode]
    /\ frozen = [p \in Procs |-> {}]
    /\ evaluated = <<>>
    /\ lost = [d \in OutDirs |-> 0]
    /\ deletions = 0
    /\ crashes = 0

-----------------------------------------------------------------------------
(***************************************************************************)
(* git.                                                                    *)
(***************************************************************************)
\* _require_clean_tree: untracked files make the tree dirty too.
Clean == tree.code = commits[head].code /\ tree.file = commits[head].file

\* git log --all -- marker
InHistory(d) == \E i \in DOMAIN commits : commits[i].file[<<d, "marker">>] # {}

-----------------------------------------------------------------------------
(***************************************************************************)
(* The steps dev and freeze.                                               *)
(***************************************************************************)
Goto(p, label) == pc' = [pc EXCEPT ![p] = label] /\ UNCHANGED <<dir, loaded, frozen>>

\* The process loads the code, which it runs to its end.
Launch(p, label, d) ==
    /\ pc' = [pc EXCEPT ![p] = label]
    /\ dir' = [dir EXCEPT ![p] = d]
    /\ loaded' = [loaded EXCEPT ![p] = tree.code]

Exit(p) ==
    /\ pc' = [pc EXCEPT ![p] = "done"]
    /\ dir' = [dir EXCEPT ![p] = NoDir]
    /\ loaded' = [loaded EXCEPT ![p] = NoCode]
    /\ frozen' = [frozen EXCEPT ![p] = {}]

StartDev(p, d) ==
    /\ pc[p] = "idle"
    /\ Launch(p, "develop", d)
    /\ UNCHANGED <<tree, commits, head, frozen, evaluated, lost, deletions, crashes>>

\* The hash is that of the files at the end of the run.
DevDoc(p) == [sel |-> loaded[p], hash |-> tree.code]

SaveDev(p) ==
    /\ pc[p] = "develop"
    /\ Put(dir[p], "dev", {DevDoc(p)})
    /\ Exit(p)
    /\ UNCHANGED <<commits, head, evaluated, lost, deletions, crashes>>

\* Mutation: freezes whatever dev.json says.
DevMatches_Any(doc) == TRUE

DevMatches(doc) == doc.hash = tree.code

\* The freeze file is created exclusively; a crash may leave it torn.
FreezeSelection(d) ==
    \E doc \in Readable(d, "dev") :
        /\ DevMatches(doc)
        /\ doc.sel \in Clearing
        /\ Clean
        /\ File(d, "freeze") = {}
        /\ \/ /\ Put(d, "freeze", {[sel |-> doc.sel, hash |-> tree.code, commit |-> head]})
              /\ UNCHANGED crashes
           \/ /\ crashes < MaxCrashes
              /\ crashes' = crashes + 1
              /\ Put(d, "freeze", {Torn})
        /\ UNCHANGED <<commits, head, process, evaluated, lost, deletions>>

-----------------------------------------------------------------------------
(***************************************************************************)
(* The step holdout:                                                       *)
(*   idle -> loading -> evaluate -> save -> complete -> done               *)
(***************************************************************************)
\* Mutation: looks at the file only.
Unclaimed_FileOnly(d) == File(d, "marker") = {}

\* require_unclaimed
Unclaimed(d) == File(d, "marker") = {} /\ ~InHistory(d)

\* Mutation: any code may run a committed freeze.
Verified_AnyCode(d, doc) ==
    /\ Clean
    /\ commits[head].file[<<d, "freeze">>] # {}
    /\ doc.commit \in commits[head].past \cup {head}

\* verify_freeze
Verified(d, doc) ==
    /\ doc.hash = tree.code
    /\ Clean
    /\ commits[head].file[<<d, "freeze">>] # {}
    /\ doc.commit \in commits[head].past \cup {head}

\* A start that is refused leaves no trace, so it is no step.
StartHoldout(p, d) ==
    /\ pc[p] = "idle"
    /\ Unclaimed(d)
    /\ \E doc \in Readable(d, "freeze") :
        /\ Verified(d, doc)
        /\ frozen' = [frozen EXCEPT ![p] = {doc}]
    /\ Launch(p, "loading", d)
    /\ UNCHANGED <<tree, commits, head, evaluated, lost, deletions, crashes>>

\* Loading shows no outcome, so a failure is free.
LoadFails(p) ==
    /\ pc[p] = "loading"
    /\ Exit(p)
    /\ UNCHANGED <<tree, commits, head, evaluated, lost, deletions, crashes>>

\* Mutation: the marker does not say which freeze it spends.
StartedMarkers_Unnamed(p) == {[status |-> "started"] : doc \in frozen[p]}

StartedMarkers(p) == {[commit |-> doc.commit, status |-> "started"] : doc \in frozen[p]}

\* Mutation: the marker is not created exclusively.
ClaimHoldout_Overwrites(p) ==
    /\ pc[p] = "loading"
    /\ Put(dir[p], "marker", StartedMarkers(p))
    /\ Goto(p, "evaluate")
    /\ UNCHANGED <<commits, head, evaluated, lost, deletions, crashes>>

\* claim_holdout: exclusive creation, and nothing but that.
ClaimHoldout(p) ==
    /\ pc[p] = "loading"
    /\ File(dir[p], "marker") = {}
    /\ Put(dir[p], "marker", StartedMarkers(p))
    /\ Goto(p, "evaluate")
    /\ UNCHANGED <<commits, head, evaluated, lost, deletions, crashes>>

ClaimRefused(p) ==
    /\ pc[p] = "loading"
    /\ File(dir[p], "marker") # {}
    /\ Exit(p)
    /\ UNCHANGED <<tree, commits, head, evaluated, lost, deletions, crashes>>

EvaluationsBy(p) ==
    {[dir |-> dir[p], sel |-> doc.sel, ran |-> loaded[p], commit |-> doc.commit] :
        doc \in frozen[p]}

\* Mutation: the marker is completed before the results are saved.
Evaluate_CompletesFirst(p) ==
    /\ pc[p] = "evaluate"
    /\ \E e \in EvaluationsBy(p) : evaluated' = Append(evaluated, e)
    /\ Put(dir[p], "marker",
           {[doc EXCEPT !.status = "completed"] : doc \in Readable(dir[p], "marker")})
    /\ Goto(p, "save")
    /\ UNCHANGED <<commits, head, lost, deletions, crashes>>

\* run_holdout: from here on the outcome may have been seen.
Evaluate(p) ==
    /\ pc[p] = "evaluate"
    /\ \E e \in EvaluationsBy(p) : evaluated' = Append(evaluated, e)
    /\ Goto(p, "save")
    /\ UNCHANGED <<tree, commits, head, lost, deletions, crashes>>

SaveResults(p) ==
    /\ pc[p] = "save"
    /\ Put(dir[p], "results", {[sel |-> doc.sel, ran |-> loaded[p]] : doc \in frozen[p]})
    /\ Goto(p, "complete")
    /\ UNCHANGED <<commits, head, evaluated, lost, deletions, crashes>>

\* complete_holdout: rewrites the marker that is there, and raises without one.
CompleteHoldout(p) ==
    /\ pc[p] = "complete"
    /\ IF Readable(dir[p], "marker") = {}
       THEN UNCHANGED tree
       ELSE Put(dir[p], "marker",
                {[doc EXCEPT !.status = "completed"] : doc \in Readable(dir[p], "marker")})
    /\ Exit(p)
    /\ UNCHANGED <<commits, head, evaluated, lost, deletions, crashes>>

-----------------------------------------------------------------------------
(***************************************************************************)
(* Crashes, and the operator.                                              *)
(***************************************************************************)
Running(p) == pc[p] \notin {"idle", "done"}

Crash(p) ==
    /\ Running(p)
    /\ crashes < MaxCrashes
    /\ crashes' = crashes + 1
    /\ Exit(p)
    /\ UNCHANGED <<tree, commits, head, evaluated, lost, deletions>>

\* What a process at each point is about to write.
Writes(p) ==
    CASE pc[p] = "develop"  -> {"dev"}
      [] pc[p] = "save"     -> {"results"}
      [] pc[p] = "loading"  -> {kind \in {"marker"} : File(dir[p], kind) = {}}
      [] pc[p] = "complete" -> {kind \in {"marker"} : Readable(dir[p], kind) # {}}
      [] OTHER              -> {}

CrashWriting(p) ==
    /\ crashes < MaxCrashes
    /\ crashes' = crashes + 1
    /\ \E kind \in Writes(p) : Put(dir[p], kind, {Torn})
    /\ Exit(p)
    /\ UNCHANGED <<commits, head, evaluated, lost, deletions>>

Undisturbed == OperatorWaits => \A p \in Procs : ~Running(p)

EditCode ==
    /\ Undisturbed
    /\ \E c \in Codes \ {tree.code} : tree' = [tree EXCEPT !.code = c]
    /\ UNCHANGED <<commits, head, process, evaluated, lost, deletions, crashes>>

\* Some or all of what changed; a deletion too.
Commit ==
    /\ Len(commits) < MaxCommits
    /\ LET last == commits[head]
       IN  \E ps \in SUBSET {p \in Paths : tree.file[p] # last.file[p]},
              code \in {tree.code, last.code} :
            /\ ps # {} \/ code # last.code
            /\ commits' = Append(commits,
                   [code |-> code,
                    file |-> [p \in Paths |-> IF p \in ps THEN tree.file[p] ELSE last.file[p]],
                    past |-> last.past \cup {head}])
    /\ head' = Len(commits) + 1
    /\ UNCHANGED <<tree, process, evaluated, lost, deletions, crashes>>

\* What differs from HEAD stays as it is, or git refuses the checkout.
Checkout(i) ==
    /\ Undisturbed
    /\ i # head
    /\ LET from == commits[head]
           to   == commits[i]
       IN  /\ tree.code = from.code \/ from.code = to.code
           /\ \A p \in Paths : tree.file[p] = from.file[p] \/ from.file[p] = to.file[p]
           /\ tree' = [code |-> IF tree.code = from.code THEN to.code ELSE tree.code,
                       file |-> [p \in Paths |-> IF tree.file[p] = from.file[p]
                                                 THEN to.file[p] ELSE tree.file[p]]]
    /\ head' = i
    /\ UNCHANGED <<commits, process, evaluated, lost, deletions, crashes>>

\* A torn freeze to be written again, a marker after a crash, or either for no reason.
Delete(d, kind) ==
    /\ Undisturbed
    /\ deletions < MaxDeletions
    /\ File(d, kind) # {}
    /\ Put(d, kind, {})
    /\ deletions' = deletions + 1
    /\ lost' = IF kind = "marker" /\ ~InHistory(d) THEN [lost EXCEPT ![d] = @ + 1] ELSE lost
    /\ UNCHANGED <<commits, head, process, evaluated, crashes>>

Operator ==
    \/ EditCode
    \/ Commit
    \/ \E i \in DOMAIN commits : Checkout(i)
    \/ \E d \in OutDirs, kind \in {"freeze", "marker"} : Delete(d, kind)

Next ==
    \/ \E p \in Procs, d \in OutDirs : StartDev(p, d) \/ StartHoldout(p, d)
    \/ \E p \in Procs :
        \/ SaveDev(p)
        \/ LoadFails(p) \/ ClaimHoldout(p) \/ ClaimRefused(p)
        \/ Evaluate(p) \/ SaveResults(p) \/ CompleteHoldout(p)
        \/ Crash(p) \/ CrashWriting(p)
    \/ \E d \in OutDirs : FreezeSelection(d)
    \/ Operator

Spec == Init /\ [][Next]_vars

-----------------------------------------------------------------------------
(***************************************************************************)
(* Properties.                                                             *)
(***************************************************************************)
DocsOf(kind) ==
    {Torn} \cup (IF kind = "dev" THEN DevDocs
                 ELSE IF kind = "freeze" THEN FreezeDocs
                 ELSE IF kind = "marker" THEN MarkerDocs ELSE ResultsDocs)

Docs == DevDocs \cup FreezeDocs \cup MarkerDocs \cup ResultsDocs \cup {Torn}

Files == {f \in [Paths -> SUBSET Docs] : \A p \in Paths : f[p] \subseteq DocsOf(p[2])}

Evaluations == [dir : OutDirs, sel : Codes, ran : Codes, commit : Nat]

Pcs == {"idle", "develop", "loading", "evaluate", "save", "complete", "done"}

TypeOK ==
    /\ tree \in [code : Codes, file : Files]
    /\ commits \in Seq([code : Codes, file : Files, past : SUBSET Nat])
    /\ head \in DOMAIN commits
    /\ pc \in [Procs -> Pcs]
    /\ dir \in [Procs -> OutDirs]
    /\ loaded \in [Procs -> Codes]
    /\ frozen \in [Procs -> SUBSET FreezeDocs]
    /\ evaluated \in Seq(Evaluations)
    /\ lost \in [OutDirs -> Nat]

EvaluationsIn(d) == {i \in DOMAIN evaluated : evaluated[i].dir = d}

\* protocol.py: the holdout is evaluated once.  Whatever crashed, was committed,
\* checked out, frozen again or started at the same time, each further evaluation
\* took the deletion of a marker that had never been committed.
OneShot == \A d \in OutDirs : Cardinality(EvaluationsIn(d)) <= 1 + lost[d]

\* The holdout step as a whole implements the claim that OneShotClaim specifies: a
\* directory is spent while its marker is in the tree or anywhere in the history,
\* and the evaluation in flight is that of the process past claim_holdout.
Claimed == {d \in OutDirs : ~Unclaimed(d)}

Evaluating == {dir[p] : p \in {q \in Procs : pc[q] = "evaluate"}}

Claims == INSTANCE OneShotClaim
    WITH Dirs <- OutDirs, closed <- Claimed, inFlight <- Evaluating,
         seen <- [d \in OutDirs |-> Cardinality(EvaluationsIn(d))], forgotten <- lost

ImplementsOneShot == Claims!Spec

\* What was evaluated is what was pre-registered: the freeze names a commit, and
\* the selection is that of the development results in that commit, evaluated by
\* the code of that commit.
EvaluatedAsFrozen ==
    \A i \in DOMAIN evaluated :
        LET e      == evaluated[i]
            commit == commits[e.commit]
        IN  /\ e.ran = commit.code
            /\ \E doc \in commit.file[<<e.dir, "dev">>] \ {Torn} : doc.sel = e.sel

ResultsEver(d) ==
    Readable(d, "results")
        \cup UNION {commits[i].file[<<d, "results">>] \ {Torn} : i \in DOMAIN commits}

\* A completed marker stands for results: there are whole results, in the tree or
\* committed, that the code of the freeze the marker names made of its selection.
CompletedIsReported ==
    \A d \in OutDirs : \A m \in Readable(d, "marker") :
        m.status = "completed" =>
            \E r \in ResultsEver(d) :
                /\ r.ran = commits[m.commit].code
                /\ \E doc \in commits[m.commit].file[<<d, "dev">>] \ {Torn} : doc.sel = r.sel

\* h2.py: freeze refuses when "the code changed since the development run".  A
\* frozen selection was made by the code the freeze names.
FrozenByItsCode ==
    \A d \in OutDirs : \A doc \in Readable(d, "freeze") : doc.sel = doc.hash
=============================================================================
