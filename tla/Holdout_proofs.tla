--------------------------- MODULE Holdout_proofs ---------------------------
(***************************************************************************)
(* Why what is evaluated on the holdout is what was pre-registered, for    *)
(* every number of processes, commits, crashes, deletions and directories, *)
(* and also when the operator does not wait for running processes.  When   *)
(* he does: why a freeze names the code that ran, why a directory is       *)
(* evaluated once, and why a completed marker has its report.              *)
(***************************************************************************)
EXTENDS HoldoutProtocol, SequenceTheorems, FiniteSetTheorems, TLAPS

-----------------------------------------------------------------------------
(***************************************************************************)
(* Types.                                                                  *)
(***************************************************************************)
CommitRecords == [code : Codes, file : Files, past : SUBSET Nat]

\* The memory of a process that is not running has the right type.
LEMMA NoMemory == NoDir \in OutDirs /\ NoCode \in Codes
BY HoldoutAssumption DEF NoDir, NoCode

\* The elements of a sequence.
LEMMA ElementType ==
    ASSUME NEW S, NEW s \in Seq(S), NEW i \in DOMAIN s
    PROVE  s[i] \in S
OBVIOUS

\* A commit in the history is a record of one.
LEMMA CommitAt == ASSUME TypeOK, NEW i \in DOMAIN commits PROVE commits[i] \in CommitRecords
BY ElementType DEF TypeOK, CommitRecords

\* What a file of the working tree may hold.
LEMMA FileType ==
    ASSUME TypeOK, NEW d \in OutDirs, NEW kind \in Kinds
    PROVE  File(d, kind) \subseteq DocsOf(kind)
<1>1. <<d, kind>> \in Paths /\ <<d, kind>>[2] = kind
    BY DEF Paths
<1>2. tree.file \in Files
    BY DEF TypeOK
<1> QED
    BY <1>1, <1>2 DEF Files, File

\* A write of one file keeps the working tree well typed.
LEMMA PutType ==
    ASSUME TypeOK, NEW d \in OutDirs, NEW kind \in Kinds, NEW docs \in SUBSET DocsOf(kind),
           Put(d, kind, docs)
    PROVE  tree' \in [code : Codes, file : Files]
<1>1. tree \in [code : Codes, file : Files] /\ <<d, kind>> \in Paths
    BY DEF TypeOK, Paths
<1>2. DocsOf(kind) \subseteq Docs
    BY DEF DocsOf, Docs, Kinds
<1>3. tree.file \in [Paths -> SUBSET Docs]
    BY <1>1 DEF Files
<1> DEFINE file == [tree.file EXCEPT ![<<d, kind>>] = docs]
<1>4. file \in [Paths -> SUBSET Docs]
    BY <1>2, <1>3
<1>5. \A p \in Paths : file[p] \subseteq DocsOf(p[2])
    BY <1>1, <1>3 DEF Files
<1>6. tree' = [tree EXCEPT !.file = file]
    BY <1>1, <1>3 DEF Put
<1> QED
    BY <1>1, <1>4, <1>5, <1>6 DEF Files

\* The first state is well typed.
LEMMA InitTypeOK == Init => TypeOK
<1> SUFFICES ASSUME Init PROVE TypeOK
    OBVIOUS
<1> DEFINE none == [p \in Paths |-> {}]
<1>1. none \in Files
    BY DEF Files
<1>2. tree.code \in Codes /\ tree.file = none
    BY DEF Init
<1>3. tree \in [code : Codes, file : Files]
    BY <1>1 DEF Init
<1>4. commits = <<[code |-> tree.code, file |-> tree.file, past |-> {}]>>
    BY DEF Init
<1>5. [code |-> tree.code, file |-> tree.file, past |-> {}] \in CommitRecords
    BY <1>1, <1>2 DEF CommitRecords
<1>6. commits \in Seq(CommitRecords) /\ head \in DOMAIN commits
    BY <1>4, <1>5 DEF Init
<1> QED
    BY <1>3, <1>6, NoMemory DEF Init, TypeOK, CommitRecords, Pcs

\* A process that ends keeps its types, as do the two below that begin and move on.
LEMMA ExitType ==
    ASSUME TypeOK, NEW p \in Procs, Exit(p)
    PROVE  /\ pc' \in [Procs -> Pcs]
           /\ dir' \in [Procs -> OutDirs]
           /\ loaded' \in [Procs -> Codes]
           /\ frozen' \in [Procs -> SUBSET FreezeDocs]
BY NoMemory DEF Exit, TypeOK, Pcs

\* A process that begins.
LEMMA LaunchType ==
    ASSUME TypeOK, NEW p \in Procs, NEW d \in OutDirs, NEW label \in Pcs, Launch(p, label, d)
    PROVE  /\ pc' \in [Procs -> Pcs]
           /\ dir' \in [Procs -> OutDirs]
           /\ loaded' \in [Procs -> Codes]
BY DEF Launch, TypeOK

\* A process that moves on.
LEMMA GotoType ==
    ASSUME TypeOK, NEW p \in Procs, NEW label \in Pcs, Goto(p, label)
    PROVE  /\ pc' \in [Procs -> Pcs]
           /\ dir' \in [Procs -> OutDirs]
           /\ loaded' \in [Procs -> Codes]
           /\ frozen' \in [Procs -> SUBSET FreezeDocs]
BY DEF Goto, TypeOK

\* What completes a marker is a marker.
LEMMA CompletedType ==
    ASSUME TypeOK, NEW d \in OutDirs
    PROVE  {[doc EXCEPT !.status = "completed"] : doc \in Readable(d, "marker")} \subseteq MarkerDocs
<1>1. File(d, "marker") \subseteq MarkerDocs \cup {Torn}
    BY FileType DEF Kinds, DocsOf
<1>2. \A doc \in Readable(d, "marker") : doc \in MarkerDocs
    BY <1>1 DEF Readable
<1> QED
    BY <1>2 DEF MarkerDocs

-----------------------------------------------------------------------------
(***************************************************************************)
(* One step keeps the types.                                               *)
(***************************************************************************)
\* What a step of process p may write.
LEMMA ProcessTypeOK ==
    ASSUME TypeOK, NEW p \in Procs,
           \/ SaveDev(p) \/ LoadFails(p) \/ ClaimHoldout(p) \/ ClaimRefused(p)
           \/ Evaluate(p) \/ SaveResults(p) \/ CompleteHoldout(p)
           \/ Crash(p) \/ CrashWriting(p)
    PROVE  TypeOK'
<1>1. /\ tree \in [code : Codes, file : Files]
      /\ dir[p] \in OutDirs
      /\ loaded[p] \in Codes
      /\ frozen[p] \subseteq FreezeDocs
    BY DEF TypeOK
<1>2. CASE SaveDev(p)
  <2>1. {DevDoc(p)} \in SUBSET DocsOf("dev")
      BY <1>1 DEF DevDoc, DocsOf, DevDocs
  <2>2. tree' \in [code : Codes, file : Files]
      BY <1>1, <1>2, <2>1, PutType DEF SaveDev, Kinds
  <2> QED
      BY <1>2, <2>2, ExitType DEF SaveDev, TypeOK
<1>3. CASE LoadFails(p) \/ ClaimRefused(p) \/ Crash(p)
    BY <1>3, ExitType DEF LoadFails, ClaimRefused, Crash, TypeOK
<1>4. CASE ClaimHoldout(p)
  <2>1. StartedMarkers(p) \in SUBSET DocsOf("marker")
      BY <1>1 DEF StartedMarkers, DocsOf, MarkerDocs, FreezeDocs
  <2>2. tree' \in [code : Codes, file : Files]
      BY <1>1, <1>4, <2>1, PutType DEF ClaimHoldout, Kinds
  <2>3. "evaluate" \in Pcs
      BY DEF Pcs
  <2> QED
      BY <1>4, <2>2, <2>3, GotoType DEF ClaimHoldout, TypeOK
<1>5. CASE Evaluate(p)
  <2>1. EvaluationsBy(p) \subseteq Evaluations
      BY <1>1 DEF EvaluationsBy, Evaluations, FreezeDocs
  <2>2. evaluated' \in Seq(Evaluations)
      BY <1>5, <2>1 DEF Evaluate, TypeOK
  <2>3. "save" \in Pcs
      BY DEF Pcs
  <2> QED
      BY <1>5, <2>2, <2>3, GotoType DEF Evaluate, TypeOK
<1>6. CASE SaveResults(p)
  <2>1. {[sel |-> doc.sel, ran |-> loaded[p]] : doc \in frozen[p]} \in SUBSET DocsOf("results")
      BY <1>1 DEF DocsOf, ResultsDocs, FreezeDocs
  <2>2. tree' \in [code : Codes, file : Files]
      BY <1>1, <1>6, <2>1, PutType DEF SaveResults, Kinds
  <2>3. "complete" \in Pcs
      BY DEF Pcs
  <2> QED
      BY <1>6, <2>2, <2>3, GotoType DEF SaveResults, TypeOK
<1>7. CASE CompleteHoldout(p)
  <2>1. {[doc EXCEPT !.status = "completed"] : doc \in Readable(dir[p], "marker")}
            \in SUBSET DocsOf("marker")
      BY <1>1, CompletedType DEF DocsOf
  <2>2. tree' \in [code : Codes, file : Files]
      BY <1>1, <1>7, <2>1, PutType DEF CompleteHoldout, Kinds
  <2> QED
      BY <1>7, <2>2, ExitType DEF CompleteHoldout, TypeOK
<1>8. CASE CrashWriting(p)
  <2>1. PICK kind \in Writes(p) : Put(dir[p], kind, {Torn})
      BY <1>8 DEF CrashWriting
  <2>2. kind \in Kinds
      BY <2>1 DEF Writes, Kinds
  <2>3. {Torn} \in SUBSET DocsOf(kind)
      BY DEF DocsOf
  <2>4. tree' \in [code : Codes, file : Files]
      BY <1>1, <2>1, <2>2, <2>3, PutType
  <2> QED
      BY <1>8, <2>4, ExitType DEF CrashWriting, TypeOK
<1> QED
    BY <1>2, <1>3, <1>4, <1>5, <1>6, <1>7, <1>8

\* The starts of the two runs keep the types.
LEMMA StartTypeOK ==
    ASSUME TypeOK, NEW p \in Procs, NEW d \in OutDirs, StartDev(p, d) \/ StartHoldout(p, d)
    PROVE  TypeOK'
<1>1. {"develop", "loading"} \subseteq Pcs
    BY DEF Pcs
<1>2. CASE StartDev(p, d)
    BY <1>1, <1>2, LaunchType DEF StartDev, TypeOK
<1>3. CASE StartHoldout(p, d)
  <2>1. PICK doc \in Readable(d, "freeze") : frozen' = [frozen EXCEPT ![p] = {doc}]
      BY <1>3 DEF StartHoldout
  <2>2. doc \in FreezeDocs
      BY <2>1, FileType DEF Readable, Kinds, DocsOf
  <2>3. frozen' \in [Procs -> SUBSET FreezeDocs]
      BY <2>1, <2>2 DEF TypeOK
  <2> QED
      BY <1>1, <1>3, <2>3, LaunchType DEF StartHoldout, TypeOK
<1> QED
    BY <1>2, <1>3

\* The freezing of a selection keeps the types.
LEMMA FreezeTypeOK ==
    ASSUME TypeOK, NEW d \in OutDirs, FreezeSelection(d)
    PROVE  TypeOK'
<1>1. PICK doc \in Readable(d, "dev") :
        \/ Put(d, "freeze", {[sel |-> doc.sel, hash |-> tree.code, commit |-> head]})
        \/ Put(d, "freeze", {Torn})
    BY DEF FreezeSelection
<1>2. doc \in DevDocs
    BY FileType DEF Readable, Kinds, DocsOf
<1>3. head \in Nat /\ tree.code \in Codes
    BY DEF TypeOK
<1>4. [sel |-> doc.sel, hash |-> tree.code, commit |-> head] \in DocsOf("freeze")
    BY <1>2, <1>3 DEF DevDocs, FreezeDocs, DocsOf
<1>5. Torn \in DocsOf("freeze")
    BY DEF DocsOf
<1>6. tree' \in [code : Codes, file : Files]
    BY <1>1, <1>4, <1>5, PutType DEF Kinds
<1> QED
    BY <1>6 DEF FreezeSelection, process, TypeOK

\* A commit appends a record of the types, and keeps the earlier ones.
LEMMA CommitType ==
    ASSUME TypeOK, Commit
    PROVE  /\ commits' \in Seq(CommitRecords)
           /\ Len(commits') = Len(commits) + 1
           /\ \A i \in DOMAIN commits : commits'[i] = commits[i]
           /\ LET new == commits'[Len(commits) + 1]
              IN  \A p \in Paths : new.file[p] \in {tree.file[p], commits[head].file[p]}
<1> DEFINE last == commits[head]
           record(ps, code) ==
               [code |-> code,
                file |-> [p \in Paths |-> IF p \in ps THEN tree.file[p] ELSE last.file[p]],
                past |-> last.past \cup {head}]
<1>1. PICK ps \in SUBSET Paths, code \in {tree.code, last.code} :
        commits' = Append(commits, record(ps, code))
    BY DEF Commit
<1>2. commits \in Seq(CommitRecords) /\ last \in CommitRecords /\ head \in Nat
    BY CommitAt DEF TypeOK, CommitRecords
<1>3. code \in Codes
    BY <1>1, <1>2 DEF TypeOK, CommitRecords
<1>4. tree.file \in Files /\ last.file \in Files
    BY <1>2 DEF TypeOK, CommitRecords
<1>5. record(ps, code).file \in Files
  <2>1. /\ tree.file \in [Paths -> SUBSET Docs]
        /\ last.file \in [Paths -> SUBSET Docs]
        /\ \A p \in Paths : tree.file[p] \subseteq DocsOf(p[2]) /\ last.file[p] \subseteq DocsOf(p[2])
      BY <1>4 DEF Files
  <2> QED
      BY <2>1 DEF Files
<1>6. record(ps, code) \in CommitRecords
    BY <1>2, <1>3, <1>5 DEF CommitRecords
<1> HIDE DEF record
<1>7. /\ commits' \in Seq(CommitRecords)
      /\ Len(commits') = Len(commits) + 1
      /\ \A i \in DOMAIN commits : commits'[i] = commits[i]
      /\ commits'[Len(commits) + 1] = record(ps, code)
    BY <1>1, <1>2, <1>6
<1>8. \A p \in Paths : record(ps, code).file[p] \in {tree.file[p], last.file[p]}
    BY DEF record
<1> QED
    BY <1>7, <1>8

\* The operator's steps keep the types.
LEMMA OperatorTypeOK ==
    ASSUME TypeOK, Operator
    PROVE  TypeOK'
<1>1. CASE EditCode
    BY <1>1 DEF EditCode, process, TypeOK
<1>2. CASE Commit
  <2>1. head' \in DOMAIN commits'
      BY <1>2, CommitType DEF Commit, CommitRecords
  <2> QED
      BY <1>2, <2>1, CommitType DEF Commit, process, TypeOK, CommitRecords
<1>3. ASSUME NEW i \in DOMAIN commits, Checkout(i) PROVE TypeOK'
  <2>1. /\ commits[head] \in CommitRecords
        /\ commits[i] \in CommitRecords
      BY CommitAt DEF TypeOK
  <2>2. /\ tree.file \in [Paths -> SUBSET Docs]
        /\ commits[i].file \in [Paths -> SUBSET Docs]
        /\ \A p \in Paths : /\ tree.file[p] \subseteq DocsOf(p[2])
                           /\ commits[i].file[p] \subseteq DocsOf(p[2])
      BY <2>1 DEF TypeOK, CommitRecords, Files
  <2>3. tree' \in [code : Codes, file : Files]
      BY <1>3, <2>1, <2>2 DEF Checkout, TypeOK, CommitRecords, Files
  <2> QED
      BY <1>3, <2>3 DEF Checkout, process, TypeOK
<1>4. ASSUME NEW d \in OutDirs, NEW kind \in {"freeze", "marker"}, Delete(d, kind)
      PROVE  TypeOK'
  <2>1. {} \in SUBSET DocsOf(kind) /\ kind \in Kinds
      BY DEF Kinds
  <2>2. tree' \in [code : Codes, file : Files]
      BY <1>4, <2>1, PutType DEF Delete
  <2>3. lost' \in [OutDirs -> Nat]
      BY <1>4 DEF Delete, TypeOK
  <2> QED
      BY <1>4, <2>2, <2>3 DEF Delete, process, TypeOK
<1> QED
    BY <1>1, <1>2, <1>3, <1>4 DEF Operator

\* Every step keeps the types.
LEMMA NextTypeOK == TypeOK /\ [Next]_vars => TypeOK'
<1> SUFFICES ASSUME TypeOK, [Next]_vars PROVE TypeOK'
    OBVIOUS
<1>1. CASE UNCHANGED vars
    BY <1>1 DEF vars, process, TypeOK
<1>2. CASE Next
    BY <1>2, StartTypeOK, ProcessTypeOK, FreezeTypeOK, OperatorTypeOK DEF Next
<1> QED
    BY <1>1, <1>2

-----------------------------------------------------------------------------
(***************************************************************************)
(* The inductive invariant: every freeze, in the tree, in a commit or in   *)
(* the memory of a process, names a commit that holds its development      *)
(* results and the code it hashes; a process that read it runs that code.  *)
(***************************************************************************)
PreRegistered(d, sel, code, c) ==
    /\ c \in DOMAIN commits
    /\ commits[c].code = code
    /\ \E doc \in commits[c].file[<<d, "dev">>] \ {Torn} : doc.sel = sel

Names(d, doc) == PreRegistered(d, doc.sel, doc.hash, doc.commit)

FreezesIn(file, d) == file[<<d, "freeze">>] \ {Torn}

FreezesNamed ==
    \A d \in OutDirs :
        /\ \A doc \in FreezesIn(tree.file, d) : Names(d, doc)
        /\ \A i \in DOMAIN commits : \A doc \in FreezesIn(commits[i].file, d) : Names(d, doc)

MemoryNamed ==
    \A p \in Procs : \A doc \in frozen[p] :
        /\ pc[p] # "idle"
        /\ Names(dir[p], doc)
        /\ loaded[p] = doc.hash

EvaluatedNamed ==
    \A i \in DOMAIN evaluated :
        PreRegistered(evaluated[i].dir, evaluated[i].sel, evaluated[i].ran, evaluated[i].commit)

PreRegisteredInv == TypeOK /\ FreezesNamed /\ MemoryNamed /\ EvaluatedNamed

\* Commits are never rewritten.
LEMMA CommitsKept ==
    ASSUME TypeOK, [Next]_vars
    PROVE  \A i \in DOMAIN commits : i \in DOMAIN commits' /\ commits'[i] = commits[i]
<1>1. CASE Commit
  <2>1. commits \in Seq(CommitRecords)
      BY DEF TypeOK, CommitRecords
  <2> QED
      BY <1>1, <2>1, CommitType
<1>2. CASE UNCHANGED commits
    BY <1>2
<1>3. Commit \/ UNCHANGED commits
    BY DEF Next, vars, StartDev, StartHoldout, SaveDev, LoadFails, ClaimHoldout, ClaimRefused,
           Evaluate, SaveResults, CompleteHoldout, Crash, CrashWriting, FreezeSelection,
           Operator, EditCode, Checkout, Delete
<1> QED
    BY <1>1, <1>2, <1>3

\* What was pre-registered by a commit is so for good: the history only grows.
LEMMA StaysPreRegistered ==
    ASSUME TypeOK, [Next]_vars, NEW d, NEW sel, NEW code, NEW c, PreRegistered(d, sel, code, c)
    PROVE  PreRegistered(d, sel, code, c)'
BY CommitsKept DEF PreRegistered

\* A write that is not of a freeze adds none to the working tree.
LEMMA PutElsewhere ==
    ASSUME TypeOK, NEW e \in OutDirs, NEW kind \in Kinds, NEW docs, Put(e, kind, docs),
           NEW d \in OutDirs, kind # "freeze" \/ docs \subseteq {Torn}
    PROVE  FreezesIn(tree.file, d)' \subseteq FreezesIn(tree.file, d)
<1>1. tree.file \in [Paths -> SUBSET Docs] /\ tree \in [code : Codes, file : Files]
    BY DEF TypeOK, Files
<1>2. tree'.file = [tree.file EXCEPT ![<<e, kind>>] = docs]
    BY <1>1 DEF Put
<1>3. <<d, "freeze">> \in Paths
    BY DEF Paths, Kinds
<1>4. tree'.file[<<d, "freeze">>] =
        IF <<e, kind>> = <<d, "freeze">> THEN docs ELSE tree.file[<<d, "freeze">>]
    BY <1>1, <1>2, <1>3
<1> QED
    BY <1>4 DEF FreezesIn

\* A freeze in the tree was there, was checked out, or was made just now.
LEMMA FreezeSources ==
    ASSUME TypeOK, [Next]_vars, NEW d \in OutDirs
    PROVE  \/ FreezesIn(tree.file, d)' \subseteq FreezesIn(tree.file, d)
           \/ \E i \in DOMAIN commits :
                 FreezesIn(tree.file, d)' \subseteq FreezesIn(commits[i].file, d)
           \/ FreezeSelection(d)
<1> DEFINE same == FreezesIn(tree.file, d)' \subseteq FreezesIn(tree.file, d)
<1> USE DEF Kinds
<1>1. CASE UNCHANGED tree
    BY <1>1 DEF FreezesIn
<1>2. ASSUME NEW p \in Procs,
             \/ SaveDev(p) \/ ClaimHoldout(p) \/ SaveResults(p) \/ CompleteHoldout(p)
             \/ CrashWriting(p)
      PROVE  same
  <2>1. dir[p] \in OutDirs
      BY DEF TypeOK
  <2>2. CASE CompleteHoldout(p) /\ UNCHANGED tree
      BY <2>2 DEF FreezesIn
  <2>3. \/ CompleteHoldout(p) /\ UNCHANGED tree
        \/ \E kind \in {"dev", "marker", "results"}, docs \in {{DevDoc(p)}, StartedMarkers(p),
                {[sel |-> doc.sel, ran |-> loaded[p]] : doc \in frozen[p]},
                {[doc EXCEPT !.status = "completed"] : doc \in Readable(dir[p], "marker")},
                {Torn}} : Put(dir[p], kind, docs)
      BY <1>2 DEF SaveDev, ClaimHoldout, SaveResults, CompleteHoldout, CrashWriting, Writes
  <2> QED
      BY <2>1, <2>2, <2>3, PutElsewhere
<1>3. ASSUME NEW e \in OutDirs, FreezeSelection(e) PROVE same \/ FreezeSelection(d)
  <2>1. CASE e = d
      BY <1>3, <2>1
  <2>2. CASE e # d
    <3>1. PICK docs : Put(e, "freeze", docs)
        BY <1>3 DEF FreezeSelection
    <3>2. tree.file \in [Paths -> SUBSET Docs] /\ tree \in [code : Codes, file : Files]
        BY DEF TypeOK, Files
    <3>3. tree'.file[<<d, "freeze">>] = tree.file[<<d, "freeze">>]
        BY <2>2, <3>1, <3>2 DEF Put, Paths
    <3> QED
        BY <3>3 DEF FreezesIn
  <2> QED
      BY <2>1, <2>2
<1>4. CASE EditCode
  <2>1. tree \in [code : Codes, file : Files]
      BY DEF TypeOK
  <2>2. tree'.file = tree.file
      BY <1>4, <2>1 DEF EditCode
  <2> QED
      BY <2>2 DEF FreezesIn
<1>5. ASSUME NEW i \in DOMAIN commits, Checkout(i)
      PROVE  same \/ FreezesIn(tree.file, d)' \subseteq FreezesIn(commits[i].file, d)
  <2>1. tree'.file = [p \in Paths |-> IF tree.file[p] = commits[head].file[p]
                                     THEN commits[i].file[p] ELSE tree.file[p]]
      BY <1>5 DEF Checkout
  <2>2. <<d, "freeze">> \in Paths
      BY DEF Paths
  <2> QED
      BY <2>1, <2>2 DEF FreezesIn
<1>6. ASSUME NEW e \in OutDirs, NEW kind \in {"freeze", "marker"}, Delete(e, kind) PROVE same
    BY <1>6, PutElsewhere DEF Delete
<1>7. \/ UNCHANGED tree
      \/ EditCode
      \/ \E p \in Procs : \/ SaveDev(p) \/ ClaimHoldout(p) \/ SaveResults(p)
                           \/ CompleteHoldout(p) \/ CrashWriting(p)
      \/ \E e \in OutDirs : FreezeSelection(e)
      \/ \E i \in DOMAIN commits : Checkout(i)
      \/ \E e \in OutDirs, kind \in {"freeze", "marker"} : Delete(e, kind)
    BY DEF Next, vars, StartDev, StartHoldout, LoadFails, ClaimRefused, Evaluate, Crash,
           Operator, Commit
<1> QED
    BY <1>1, <1>2, <1>3, <1>4, <1>5, <1>6, <1>7

-----------------------------------------------------------------------------
(***************************************************************************)
(* The invariant is inductive.                                             *)
(***************************************************************************)
\* freeze checks that the tree is clean: what it reads is what HEAD holds.
LEMMA NewFreezeNamed ==
    ASSUME TypeOK, NEW d \in OutDirs, FreezeSelection(d)
    PROVE  \A doc \in FreezesIn(tree.file, d)' : Names(d, doc)'
<1>1. PICK dev \in Readable(d, "dev") :
        /\ Clean
        /\ \/ Put(d, "freeze", {[sel |-> dev.sel, hash |-> tree.code, commit |-> head]})
           \/ Put(d, "freeze", {Torn})
    BY DEF FreezeSelection
<1>2. /\ tree.file \in [Paths -> SUBSET Docs]
      /\ tree \in [code : Codes, file : Files]
      /\ <<d, "freeze">> \in Paths
    BY DEF TypeOK, Files, Paths, Kinds
<1>3. SUFFICES ASSUME NEW doc \in FreezesIn(tree.file, d)' PROVE Names(d, doc)'
    OBVIOUS
<1>4. doc \in {[sel |-> dev.sel, hash |-> tree.code, commit |-> head]} \cup {Torn} /\ doc # Torn
    BY <1>1, <1>2 DEF Put, FreezesIn
<1>5. doc.sel = dev.sel /\ doc.hash = tree.code /\ doc.commit = head
    BY <1>4
<1>6. dev \in commits[head].file[<<d, "dev">>] \ {Torn}
    BY <1>1 DEF Clean, Readable, File
<1>7. UNCHANGED commits
    BY DEF FreezeSelection
<1> QED
    BY <1>1, <1>5, <1>6, <1>7 DEF Names, PreRegistered, Clean, TypeOK

\* A freeze in the tree or in a commit keeps naming a commit that holds its selection.
LEMMA FreezesNamedStep ==
    ASSUME TypeOK, FreezesNamed, [Next]_vars
    PROVE  FreezesNamed'
<1>1. ASSUME NEW d \in OutDirs, NEW doc, Names(d, doc) PROVE Names(d, doc)'
    BY <1>1, StaysPreRegistered DEF Names
<1>2. ASSUME NEW d \in OutDirs, NEW doc \in FreezesIn(tree.file, d)' PROVE Names(d, doc)'
  <2>1. CASE FreezeSelection(d)
      BY <2>1, <1>2, NewFreezeNamed
  <2>2. CASE ~FreezeSelection(d)
    <3>1. \/ doc \in FreezesIn(tree.file, d)
          \/ \E i \in DOMAIN commits : doc \in FreezesIn(commits[i].file, d)
        BY <1>2, <2>2, FreezeSources
    <3> QED
        BY <1>1, <3>1 DEF FreezesNamed
  <2> QED
      BY <2>1, <2>2
<1>3. ASSUME NEW d \in OutDirs, NEW i \in DOMAIN commits', NEW doc \in FreezesIn(commits[i].file, d)'
      PROVE  Names(d, doc)'
  <2>1. CASE i \in DOMAIN commits
    <3>1. commits'[i] = commits[i]
        BY <2>1, CommitsKept
    <3>2. doc \in FreezesIn(commits[i].file, d)
        BY <1>3, <3>1 DEF FreezesIn
    <3> QED
        BY <1>1, <2>1, <3>2 DEF FreezesNamed
  <2>2. CASE i \notin DOMAIN commits
    <3>1. Commit
        BY <1>3, <2>2
        DEF Next, vars, StartDev, StartHoldout, SaveDev, LoadFails, ClaimHoldout, ClaimRefused,
            Evaluate, SaveResults, CompleteHoldout, Crash, CrashWriting, FreezeSelection,
            Operator, EditCode, Checkout, Delete
    <3>2. commits \in Seq(CommitRecords)
        BY DEF TypeOK, CommitRecords
    <3>3. i = Len(commits) + 1
        BY <1>3, <2>2, <3>1, <3>2, CommitType
    <3>4. <<d, "freeze">> \in Paths
        BY DEF Paths, Kinds
    <3>5. commits'[i].file[<<d, "freeze">>]
            \in {tree.file[<<d, "freeze">>], commits[head].file[<<d, "freeze">>]}
        BY <3>1, <3>3, <3>4, CommitType
    <3>6. doc \in FreezesIn(tree.file, d) \/ doc \in FreezesIn(commits[head].file, d)
        BY <1>3, <3>5 DEF FreezesIn
    <3> QED
        BY <1>1, <3>6 DEF FreezesNamed, TypeOK
  <2> QED
      BY <2>1, <2>2
<1> QED
    BY <1>2, <1>3 DEF FreezesNamed

\* A process gets its freeze from verify_freeze, which compares the code, or keeps it.
LEMMA MemoryNamedStep ==
    ASSUME TypeOK, FreezesNamed, MemoryNamed, [Next]_vars
    PROVE  MemoryNamed'
<1> SUFFICES ASSUME NEW p \in Procs, NEW doc \in frozen'[p]
             PROVE  pc'[p] # "idle" /\ Names(dir[p], doc)' /\ loaded'[p] = doc.hash
    BY DEF MemoryNamed
<1>1. /\ pc \in [Procs -> Pcs] /\ dir \in [Procs -> OutDirs]
      /\ loaded \in [Procs -> Codes] /\ frozen \in [Procs -> SUBSET FreezeDocs]
    BY DEF TypeOK
<1>2. CASE doc \in frozen[p] /\ dir'[p] = dir[p] /\ loaded'[p] = loaded[p] /\ pc'[p] # "idle"
    BY <1>2, StaysPreRegistered DEF MemoryNamed, Names
<1>3. ASSUME NEW d \in OutDirs, StartHoldout(p, d)
      PROVE  pc'[p] # "idle" /\ Names(dir[p], doc)' /\ loaded'[p] = doc.hash
  <2>1. PICK read \in Readable(d, "freeze") :
          Verified(d, read) /\ frozen' = [frozen EXCEPT ![p] = {read}]
      BY <1>3 DEF StartHoldout
  <2>2. doc = read /\ dir'[p] = d /\ loaded'[p] = tree.code /\ pc'[p] = "loading"
      BY <1>1, <1>3, <2>1 DEF StartHoldout, Launch
  <2>3. Names(d, doc)
      BY <2>2 DEF FreezesNamed, FreezesIn, Readable, File
  <2>4. Names(d, doc)'
      BY <2>3, StaysPreRegistered DEF Names
  <2> QED
      BY <2>1, <2>2, <2>4 DEF Verified
<1>4. ASSUME NEW d \in OutDirs, StartDev(p, d) PROVE FALSE
    BY <1>1, <1>4 DEF StartDev, Launch, MemoryNamed
<1>5. ASSUME NEW q \in Procs, NEW d \in OutDirs, q # p, StartDev(q, d) \/ StartHoldout(q, d)
      PROVE  doc \in frozen[p] /\ dir'[p] = dir[p] /\ loaded'[p] = loaded[p] /\ pc'[p] = pc[p]
    BY <1>1, <1>5 DEF StartDev, StartHoldout, Launch
<1>6. ASSUME NEW q \in Procs, SaveDev(q) \/ LoadFails(q) \/ ClaimRefused(q)
                              \/ CompleteHoldout(q) \/ Crash(q) \/ CrashWriting(q)
      PROVE  doc \in frozen[p] /\ dir'[p] = dir[p] /\ loaded'[p] = loaded[p] /\ pc'[p] = pc[p]
    BY <1>1, <1>6 DEF SaveDev, LoadFails, ClaimRefused, CompleteHoldout, Crash, CrashWriting, Exit
<1>7. ASSUME NEW q \in Procs, ClaimHoldout(q) \/ Evaluate(q) \/ SaveResults(q)
      PROVE  /\ doc \in frozen[p] /\ dir'[p] = dir[p] /\ loaded'[p] = loaded[p]
             /\ pc'[p] \in {pc[p], "evaluate", "save", "complete"}
    BY <1>1, <1>7 DEF ClaimHoldout, Evaluate, SaveResults, Goto
<1>8. CASE UNCHANGED process
    BY <1>8, <1>2 DEF process, MemoryNamed
<1>9. \/ UNCHANGED process
      \/ \E q \in Procs, d \in OutDirs : StartDev(q, d) \/ StartHoldout(q, d)
      \/ \E q \in Procs : \/ SaveDev(q) \/ LoadFails(q) \/ ClaimRefused(q)
                           \/ CompleteHoldout(q) \/ Crash(q) \/ CrashWriting(q)
      \/ \E q \in Procs : ClaimHoldout(q) \/ Evaluate(q) \/ SaveResults(q)
    BY DEF Next, vars, FreezeSelection, Operator, EditCode, Commit, Checkout, Delete
<1> QED
    BY <1>2, <1>3, <1>4, <1>5, <1>6, <1>7, <1>8, <1>9 DEF MemoryNamed

\* Only Evaluate evaluates, with the freeze and the code in its memory.
LEMMA EvaluatedNamedStep ==
    ASSUME TypeOK, MemoryNamed, EvaluatedNamed, [Next]_vars
    PROVE  EvaluatedNamed'
<1>1. evaluated \in Seq(Evaluations)
    BY DEF TypeOK
<1>2. CASE UNCHANGED evaluated
    BY <1>2, StaysPreRegistered DEF EvaluatedNamed
<1>3. ASSUME NEW p \in Procs, Evaluate(p) PROVE EvaluatedNamed'
  <2>1. PICK doc \in frozen[p] :
          evaluated' = Append(evaluated, [dir |-> dir[p], sel |-> doc.sel, ran |-> loaded[p],
                                          commit |-> doc.commit])
      BY <1>3 DEF Evaluate, EvaluationsBy
  <2>2. PreRegistered(dir[p], doc.sel, loaded[p], doc.commit)
      BY <2>1 DEF MemoryNamed, Names
  <2>3. UNCHANGED commits
      BY <1>3 DEF Evaluate
  <2>4. ASSUME NEW i \in DOMAIN evaluated'
        PROVE  PreRegistered(evaluated'[i].dir, evaluated'[i].sel, evaluated'[i].ran,
                             evaluated'[i].commit)
    <3>1. CASE i \in DOMAIN evaluated
      <4>1. evaluated'[i] = evaluated[i]
          BY <1>1, <2>1, <3>1
      <4> QED
          BY <3>1, <4>1 DEF EvaluatedNamed
    <3>2. CASE i \notin DOMAIN evaluated
      <4>1. evaluated'[i] = [dir |-> dir[p], sel |-> doc.sel, ran |-> loaded[p],
                             commit |-> doc.commit]
          BY <1>1, <2>1, <2>4, <3>2
      <4> QED
          BY <2>2, <4>1
    <3> QED
        BY <3>1, <3>2
  <2> QED
      BY <2>3, <2>4 DEF EvaluatedNamed, PreRegistered
<1>4. UNCHANGED evaluated \/ \E p \in Procs : Evaluate(p)
    BY DEF Next, vars, StartDev, StartHoldout, SaveDev, LoadFails, ClaimHoldout, ClaimRefused,
           SaveResults, CompleteHoldout, Crash, CrashWriting, FreezeSelection,
           Operator, EditCode, Commit, Checkout, Delete
<1> QED
    BY <1>2, <1>3, <1>4

\* Nothing is frozen in the first state.
LEMMA PreRegisteredInit == Init => PreRegisteredInv
<1> SUFFICES ASSUME Init PROVE PreRegisteredInv
    OBVIOUS
<1>1. TypeOK
    BY InitTypeOK
<1>2. \A p \in Paths : tree.file[p] = {}
    BY DEF Init
<1>3. \A i \in DOMAIN commits : commits[i].file = tree.file
    BY DEF Init
<1>4. \A d \in OutDirs : FreezesIn(tree.file, d) = {}
    BY <1>2 DEF FreezesIn, Paths, Kinds
<1>5. FreezesNamed
    BY <1>3, <1>4 DEF FreezesNamed
<1> QED
    BY <1>1, <1>5 DEF Init, PreRegisteredInv, MemoryNamed, EvaluatedNamed

\* The invariant of pre-registration holds in every reachable state.
LEMMA Inductive == Spec => []PreRegisteredInv
<1>1. PreRegisteredInv /\ [Next]_vars => PreRegisteredInv'
    BY NextTypeOK, FreezesNamedStep, MemoryNamedStep, EvaluatedNamedStep DEF PreRegisteredInv
<1> QED
    BY PreRegisteredInit, <1>1, PTL DEF Spec

\* Every document is of its kind: a completed marker always names a commit, and an
\* evaluation a selection.
THEOREM HoldoutTypeCorrect == Spec => []TypeOK
<1>1. PreRegisteredInv => TypeOK
    BY DEF PreRegisteredInv
<1> QED
    BY <1>1, Inductive, PTL

\* protocol.py: what is evaluated is the committed selection, by the committed code,
\* whatever is edited, committed, checked out, deleted or crashes meanwhile.
THEOREM OnlyThePreRegisteredIsEvaluated == Spec => []EvaluatedAsFrozen
<1>1. PreRegisteredInv => EvaluatedAsFrozen
    BY DEF PreRegisteredInv, EvaluatedNamed, EvaluatedAsFrozen, PreRegistered
<1> QED
    BY <1>1, Inductive, PTL

-----------------------------------------------------------------------------
(***************************************************************************)
(* What one step does to a file, and to what a process has in memory.      *)
(***************************************************************************)
\* Writing one path leaves the code and the other paths as they were.
LEMMA FileAfterPut ==
    ASSUME TypeOK, NEW e \in OutDirs, NEW k \in Kinds, NEW docs, Put(e, k, docs)
    PROVE  /\ tree'.code = tree.code
           /\ \A d \in OutDirs, kind \in Kinds :
                 File(d, kind)' = IF d = e /\ kind = k THEN docs ELSE File(d, kind)
<1>1. tree.file \in [Paths -> SUBSET Docs] /\ tree \in [code : Codes, file : Files]
    BY DEF TypeOK, Files
<1>2. tree'.file = [tree.file EXCEPT ![<<e, k>>] = docs] /\ tree'.code = tree.code
    BY <1>1 DEF Put
<1>3. ASSUME NEW d \in OutDirs, NEW kind \in Kinds
      PROVE  File(d, kind)' = IF d = e /\ kind = k THEN docs ELSE File(d, kind)
  <2>1. <<d, kind>> \in Paths
      BY DEF Paths
  <2>2. (<<d, kind>> = <<e, k>>) <=> (d = e /\ kind = k)
      OBVIOUS
  <2>3. tree'.file[<<d, kind>>] = IF <<d, kind>> = <<e, k>> THEN docs ELSE tree.file[<<d, kind>>]
      BY ONLY <1>1, <1>2, <2>1
  <2> QED
      BY <2>2, <2>3 DEF File
<1> QED
    BY <1>2, <1>3

\* What a save of the development results, and of the holdout's, puts in the file.
ResultsOf(p) == {[sel |-> doc.sel, ran |-> loaded[p]] : doc \in frozen[p]}

Completed(d) == {[doc EXCEPT !.status = "completed"] : doc \in Readable(d, "marker")}

\* A file changes only by the process that writes its kind, by the step freeze, or
\* by a step of the operator that waits for the processes.
LEMMA FileSources ==
    ASSUME TypeOK, [Next]_vars, NEW d \in OutDirs, NEW kind \in Kinds
    PROVE  \/ File(d, kind)' = File(d, kind)
           \/ \E p \in Procs :
                 /\ SaveDev(p) /\ d = dir[p] /\ kind = "dev"
                 /\ File(d, kind)' = {DevDoc(p)}
           \/ \E p \in Procs :
                 /\ ClaimHoldout(p) /\ d = dir[p] /\ kind = "marker"
                 /\ File(d, kind)' = StartedMarkers(p)
           \/ \E p \in Procs :
                 /\ SaveResults(p) /\ d = dir[p] /\ kind = "results"
                 /\ File(d, kind)' = ResultsOf(p)
           \/ \E p \in Procs :
                 /\ CompleteHoldout(p) /\ d = dir[p] /\ kind = "marker"
                 /\ Readable(d, kind) # {}
                 /\ File(d, kind)' = Completed(d)
           \/ \E p \in Procs :
                 /\ CrashWriting(p) /\ d = dir[p] /\ kind \in Writes(p)
                 /\ File(d, kind)' = {Torn}
           \/ FreezeSelection(d) /\ kind = "freeze"
           \/ \E i \in DOMAIN commits :
                 /\ Checkout(i)
                 /\ File(d, kind) = commits[head].file[<<d, kind>>]
                 /\ File(d, kind)' = commits[i].file[<<d, kind>>]
           \/ Delete(d, kind) /\ kind \in {"freeze", "marker"} /\ File(d, kind)' = {}
<1> DEFINE same == File(d, kind)' = File(d, kind)
<1>k. /\ \A k \in {"dev", "freeze", "marker", "results"} : k \in Kinds
      /\ \A p \in Procs : dir[p] \in OutDirs
    BY DEF Kinds, TypeOK
<1>1. CASE UNCHANGED tree
    BY <1>1 DEF File
<1>2. ASSUME NEW p \in Procs, SaveDev(p)
      PROVE  same \/ (d = dir[p] /\ kind = "dev" /\ File(d, kind)' = {DevDoc(p)})
  <2>1. Put(dir[p], "dev", {DevDoc(p)})
      BY <1>2 DEF SaveDev
  <2> QED
      BY <1>k, <2>1, FileAfterPut
<1>3. ASSUME NEW p \in Procs, ClaimHoldout(p)
      PROVE  same \/ (d = dir[p] /\ kind = "marker" /\ File(d, kind)' = StartedMarkers(p))
  <2>1. Put(dir[p], "marker", StartedMarkers(p))
      BY <1>3 DEF ClaimHoldout
  <2> QED
      BY <1>k, <2>1, FileAfterPut
<1>4. ASSUME NEW p \in Procs, SaveResults(p)
      PROVE  same \/ (d = dir[p] /\ kind = "results" /\ File(d, kind)' = ResultsOf(p))
  <2>1. Put(dir[p], "results", ResultsOf(p))
      BY <1>4 DEF SaveResults, ResultsOf
  <2> QED
      BY <1>k, <2>1, FileAfterPut
<1>5. ASSUME NEW p \in Procs, CompleteHoldout(p)
      PROVE  same \/ (/\ d = dir[p] /\ kind = "marker"
                      /\ Readable(d, kind) # {}
                      /\ File(d, kind)' = Completed(d))
  <2>1. CASE UNCHANGED tree
      BY <2>1 DEF File
  <2>2. CASE Readable(dir[p], "marker") # {} /\ Put(dir[p], "marker", Completed(dir[p]))
      BY <1>k, <2>2, FileAfterPut
  <2> QED
      BY <1>5, <2>1, <2>2 DEF CompleteHoldout, Completed
<1>6. ASSUME NEW p \in Procs, CrashWriting(p)
      PROVE  same \/ (d = dir[p] /\ kind \in Writes(p) /\ File(d, kind)' = {Torn})
  <2>1. PICK k \in Writes(p) : Put(dir[p], k, {Torn})
      BY <1>6 DEF CrashWriting
  <2>2. k \in Kinds
      BY <2>1 DEF Writes, Kinds
  <2> QED
      BY <1>k, <2>1, <2>2, FileAfterPut
<1>7. ASSUME NEW e \in OutDirs, FreezeSelection(e)
      PROVE  same \/ (FreezeSelection(d) /\ kind = "freeze")
  <2>1. PICK docs : Put(e, "freeze", docs)
      BY <1>7 DEF FreezeSelection
  <2> QED
      BY <1>7, <1>k, <2>1, FileAfterPut
<1>8. CASE EditCode
  <2>1. tree \in [code : Codes, file : Files]
      BY DEF TypeOK
  <2>2. tree'.file = tree.file
      BY <1>8, <2>1 DEF EditCode
  <2> QED
      BY <2>2 DEF File
<1>9. ASSUME NEW i \in DOMAIN commits, Checkout(i)
      PROVE  same \/ (/\ File(d, kind) = commits[head].file[<<d, kind>>]
                      /\ File(d, kind)' = commits[i].file[<<d, kind>>])
  <2>1. tree'.file = [p \in Paths |-> IF tree.file[p] = commits[head].file[p]
                                     THEN commits[i].file[p] ELSE tree.file[p]]
      BY <1>9 DEF Checkout
  <2>2. <<d, kind>> \in Paths
      BY DEF Paths
  <2> QED
      BY <2>1, <2>2 DEF File
<1>10. ASSUME NEW e \in OutDirs, NEW k \in {"freeze", "marker"}, Delete(e, k)
       PROVE  same \/ (Delete(d, kind) /\ kind \in {"freeze", "marker"} /\ File(d, kind)' = {})
  <2>1. Put(e, k, {})
      BY <1>10 DEF Delete
  <2> QED
      BY <1>10, <1>k, <2>1, FileAfterPut
<1>11. \/ UNCHANGED tree
       \/ EditCode
       \/ \E p \in Procs : \/ SaveDev(p) \/ ClaimHoldout(p) \/ SaveResults(p)
                            \/ CompleteHoldout(p) \/ CrashWriting(p)
       \/ \E e \in OutDirs : FreezeSelection(e)
       \/ \E i \in DOMAIN commits : Checkout(i)
       \/ \E e \in OutDirs, k \in {"freeze", "marker"} : Delete(e, k)
    BY DEF Next, vars, StartDev, StartHoldout, LoadFails, ClaimRefused, Evaluate, Crash,
           Operator, Commit
<1> QED
    BY <1>1, <1>2, <1>3, <1>4, <1>5, <1>6, <1>7, <1>8, <1>9, <1>10, <1>11

\* A step leaves what a process has in memory alone, or is that process's.
LEMMA MemorySources ==
    ASSUME TypeOK, [Next]_vars, NEW p \in Procs
    PROVE  \/ /\ pc'[p] = pc[p] /\ dir'[p] = dir[p]
              /\ loaded'[p] = loaded[p] /\ frozen'[p] = frozen[p]
           \/ /\ pc[p] = "idle" /\ pc'[p] = "develop"
              /\ loaded'[p] = tree.code /\ tree' = tree
           \/ \E d \in OutDirs : StartHoldout(p, d)
           \/ pc'[p] = "done" /\ frozen'[p] = {}
           \/ /\ ClaimHoldout(p) \/ Evaluate(p) \/ SaveResults(p)
              /\ dir'[p] = dir[p] /\ loaded'[p] = loaded[p] /\ frozen'[p] = frozen[p]
<1>1. /\ pc \in [Procs -> Pcs] /\ dir \in [Procs -> OutDirs]
      /\ loaded \in [Procs -> Codes] /\ frozen \in [Procs -> SUBSET FreezeDocs]
    BY DEF TypeOK
<1> DEFINE same == /\ pc'[p] = pc[p] /\ dir'[p] = dir[p]
                   /\ loaded'[p] = loaded[p] /\ frozen'[p] = frozen[p]
<1>2. CASE UNCHANGED process
    BY <1>2 DEF process
<1>3. ASSUME NEW q \in Procs, NEW d \in OutDirs, StartDev(q, d)
      PROVE  same \/ (/\ pc[p] = "idle" /\ pc'[p] = "develop"
                      /\ loaded'[p] = tree.code /\ tree' = tree)
  <2>1. CASE q = p
      BY <1>1, <1>3, <2>1 DEF StartDev, Launch
  <2>2. CASE q # p
      BY <1>1, <1>3, <2>2 DEF StartDev, Launch
  <2> QED
      BY <2>1, <2>2
<1>4. ASSUME NEW q \in Procs, NEW d \in OutDirs, StartHoldout(q, d)
      PROVE  same \/ StartHoldout(p, d)
  <2>1. CASE q # p
      BY <1>1, <1>4, <2>1 DEF StartHoldout, Launch
  <2> QED
      BY <1>4, <2>1
<1>5. ASSUME NEW q \in Procs, Exit(q) PROVE same \/ (pc'[p] = "done" /\ frozen'[p] = {})
  <2>1. CASE q = p
      BY <1>1, <1>5, <2>1 DEF Exit
  <2>2. CASE q # p
      BY <1>1, <1>5, <2>2 DEF Exit
  <2> QED
      BY <2>1, <2>2
<1>6. ASSUME NEW q \in Procs, ClaimHoldout(q) \/ Evaluate(q) \/ SaveResults(q)
      PROVE  same \/ (/\ ClaimHoldout(p) \/ Evaluate(p) \/ SaveResults(p)
                      /\ dir'[p] = dir[p] /\ loaded'[p] = loaded[p] /\ frozen'[p] = frozen[p])
  <2>1. PICK label : Goto(q, label)
      BY <1>6 DEF ClaimHoldout, Evaluate, SaveResults
  <2>2. CASE q = p
      BY <1>6, <2>1, <2>2 DEF Goto
  <2>3. CASE q # p
      BY <1>1, <2>1, <2>3 DEF Goto
  <2> QED
      BY <2>2, <2>3
<1>7. \/ UNCHANGED process
      \/ \E q \in Procs, d \in OutDirs : StartDev(q, d) \/ StartHoldout(q, d)
      \/ \E q \in Procs : Exit(q)
      \/ \E q \in Procs : ClaimHoldout(q) \/ Evaluate(q) \/ SaveResults(q)
    BY DEF Next, vars, SaveDev, LoadFails, ClaimRefused, CompleteHoldout, Crash, CrashWriting,
           FreezeSelection, Operator, EditCode, Commit, Checkout, Delete
<1> QED
    BY <1>2, <1>3, <1>4, <1>5, <1>6, <1>7

\* A commit holds, at each path, what the tree or the commit before it held.
LEMMA CommittedSources ==
    ASSUME TypeOK, [Next]_vars, NEW d \in OutDirs, NEW kind \in Kinds, NEW i \in DOMAIN commits'
    PROVE  \/ \E j \in DOMAIN commits :
                 commits'[i].file[<<d, kind>>] = commits[j].file[<<d, kind>>]
           \/ Commit /\ commits'[i].file[<<d, kind>>] = File(d, kind)
<1>1. CASE i \in DOMAIN commits
    BY <1>1, CommitsKept
<1>2. CASE i \notin DOMAIN commits
  <2>1. Commit
      BY <1>2
      DEF Next, vars, StartDev, StartHoldout, SaveDev, LoadFails, ClaimHoldout, ClaimRefused,
          Evaluate, SaveResults, CompleteHoldout, Crash, CrashWriting, FreezeSelection,
          Operator, EditCode, Checkout, Delete
  <2>2. commits \in Seq(CommitRecords)
      BY DEF TypeOK, CommitRecords
  <2>3. i = Len(commits) + 1
      BY <1>2, <2>1, <2>2, CommitType
  <2>4. <<d, kind>> \in Paths
      BY DEF Paths
  <2>5. commits'[i].file[<<d, kind>>] \in {tree.file[<<d, kind>>], commits[head].file[<<d, kind>>]}
      BY <2>1, <2>3, <2>4, CommitType
  <2> QED
      BY <2>1, <2>5 DEF File, TypeOK
<1> QED
    BY <1>1, <1>2

-----------------------------------------------------------------------------
(***************************************************************************)
(* A frozen selection was made by the code that is frozen, when the        *)
(* operator leaves the files alone while a development run reads them.     *)
(***************************************************************************)
\* The development results and the freezes of a tree name one version, not two.
OneVersion(file) ==
    \A d \in OutDirs, kind \in {"dev", "freeze"} :
        \A doc \in file[<<d, kind>>] \ {Torn} : doc.sel = doc.hash

RunsTheTree == \A p \in Procs : Running(p) => loaded[p] = tree.code

FrozenInv ==
    /\ TypeOK
    /\ OneVersion(tree.file)
    /\ \A i \in DOMAIN commits : OneVersion(commits[i].file)
    /\ RunsTheTree

\* The code in the tree changes by an edit or a checkout.
LEMMA CodeSources ==
    ASSUME TypeOK, [Next]_vars
    PROVE  tree'.code = tree.code \/ (Undisturbed /\ UNCHANGED process)
<1> DEFINE writes == \E e \in OutDirs, k \in Kinds : \E docs : Put(e, k, docs)
<1>1. ASSUME writes PROVE tree'.code = tree.code
    BY <1>1, FileAfterPut
<1>2. ASSUME NEW p \in Procs,
             \/ SaveDev(p) \/ ClaimHoldout(p) \/ SaveResults(p) \/ CompleteHoldout(p)
             \/ CrashWriting(p)
      PROVE  UNCHANGED tree \/ writes
  <2>1. dir[p] \in OutDirs
      BY DEF TypeOK
  <2>2. \/ UNCHANGED tree
        \/ \E k \in {"dev", "marker", "results"} \cup Writes(p) : \E docs : Put(dir[p], k, docs)
      BY <1>2 DEF SaveDev, ClaimHoldout, SaveResults, CompleteHoldout, CrashWriting
  <2>3. {"dev", "marker", "results"} \cup Writes(p) \subseteq Kinds
      BY DEF Writes, Kinds
  <2> QED
      BY <2>1, <2>2, <2>3
<1>3. ASSUME NEW e \in OutDirs, FreezeSelection(e) PROVE writes
  <2>1. PICK docs : Put(e, "freeze", docs)
      BY <1>3 DEF FreezeSelection
  <2> QED
      BY <2>1 DEF Kinds
<1>4. ASSUME \/ EditCode
             \/ \E i \in DOMAIN commits : Checkout(i)
             \/ \E e \in OutDirs, k \in {"freeze", "marker"} : Delete(e, k)
      PROVE  Undisturbed /\ UNCHANGED process
    BY <1>4 DEF EditCode, Checkout, Delete
<1>5. \/ UNCHANGED tree
      \/ \E p \in Procs : \/ SaveDev(p) \/ ClaimHoldout(p) \/ SaveResults(p)
                           \/ CompleteHoldout(p) \/ CrashWriting(p)
      \/ \E e \in OutDirs : FreezeSelection(e)
      \/ EditCode
      \/ \E i \in DOMAIN commits : Checkout(i)
      \/ \E e \in OutDirs, k \in {"freeze", "marker"} : Delete(e, k)
    BY DEF Next, vars, StartDev, StartHoldout, LoadFails, ClaimRefused, Evaluate, Crash,
           Operator, Commit
<1> QED
    BY <1>1, <1>2, <1>3, <1>4, <1>5

\* The code a process loaded is that of the tree until it exits.
LEMMA RunsTheTreeStep ==
    ASSUME OperatorWaits, TypeOK, RunsTheTree, [Next]_vars
    PROVE  RunsTheTree'
<1> SUFFICES ASSUME NEW p \in Procs, Running(p)' PROVE loaded'[p] = tree'.code
    BY DEF RunsTheTree
<1>1. CASE Undisturbed /\ UNCHANGED process
    BY <1>1 DEF Undisturbed, process, Running
<1>2. CASE tree'.code = tree.code
  <2>1. CASE pc'[p] = pc[p] /\ loaded'[p] = loaded[p]
      BY <1>2, <2>1 DEF RunsTheTree, Running
  <2>2. CASE loaded'[p] = tree.code
      BY <1>2, <2>2
  <2>3. ASSUME NEW d \in OutDirs, StartHoldout(p, d) PROVE loaded'[p] = tree.code
      BY <2>3 DEF StartHoldout, Launch, TypeOK
  <2>4. CASE (ClaimHoldout(p) \/ Evaluate(p) \/ SaveResults(p)) /\ loaded'[p] = loaded[p]
      BY <1>2, <2>4 DEF ClaimHoldout, Evaluate, SaveResults, RunsTheTree, Running
  <2>5. CASE pc'[p] = "done"
      BY <2>5 DEF Running
  <2> QED
      BY <2>1, <2>2, <2>3, <2>4, <2>5, <1>2, MemorySources
<1> QED
    BY <1>1, <1>2, CodeSources

\* dev writes its own version, and freeze compares before it copies.
LEMMA OneVersionStep ==
    ASSUME OperatorWaits, FrozenInv, [Next]_vars
    PROVE  OneVersion(tree.file)'
<1> SUFFICES ASSUME NEW d \in OutDirs, NEW kind \in {"dev", "freeze"},
                    NEW doc \in File(d, kind)', doc # Torn
             PROVE  doc.sel = doc.hash
    BY DEF OneVersion, File
<1>1. TypeOK /\ kind \in Kinds
    BY DEF FrozenInv, Kinds
<1>2. CASE doc \in File(d, kind)
    BY <1>2 DEF FrozenInv, OneVersion, File
<1>3. ASSUME NEW p \in Procs, SaveDev(p), doc \in {DevDoc(p)} PROVE doc.sel = doc.hash
    BY <1>3 DEF FrozenInv, RunsTheTree, Running, SaveDev, DevDoc
<1>4. CASE FreezeSelection(d) /\ kind = "freeze"
  <2>1. PICK dev \in Readable(d, "dev") :
          /\ DevMatches(dev)
          /\ \/ Put(d, "freeze", {[sel |-> dev.sel, hash |-> tree.code, commit |-> head]})
             \/ Put(d, "freeze", {Torn})
      BY <1>4 DEF FreezeSelection
  <2>2. dev.sel = tree.code
      BY <2>1 DEF FrozenInv, OneVersion, Readable, File, DevMatches
  <2>3. doc \in {[sel |-> dev.sel, hash |-> tree.code, commit |-> head], Torn}
      BY <1>1, <1>4, <2>1, FileAfterPut
  <2> QED
      BY <2>2, <2>3
<1>5. ASSUME NEW i \in DOMAIN commits, doc \in commits[i].file[<<d, kind>>]
      PROVE  doc.sel = doc.hash
    BY <1>5 DEF FrozenInv, OneVersion
<1> QED
    BY <1>1, <1>2, <1>3, <1>4, <1>5, FileSources

\* What a development run selects, freezes and commits names one version throughout.
LEMMA FrozenInductive == OperatorWaits => (Spec => []FrozenInv)
<1> SUFFICES ASSUME OperatorWaits PROVE Spec => []FrozenInv
    OBVIOUS
<1>1. Init => FrozenInv
  <2> SUFFICES ASSUME Init PROVE FrozenInv
      OBVIOUS
  <2>1. \A d \in OutDirs, kind \in {"dev", "freeze"} : tree.file[<<d, kind>>] = {}
      BY DEF Init, Paths, Kinds
  <2>2. \A i \in DOMAIN commits : commits[i].file = tree.file
      BY DEF Init
  <2>3. RunsTheTree
      BY DEF Init, RunsTheTree, Running
  <2> QED
      BY <2>1, <2>2, <2>3, InitTypeOK DEF FrozenInv, OneVersion
<1>2. FrozenInv /\ [Next]_vars => FrozenInv'
  <2> SUFFICES ASSUME FrozenInv, [Next]_vars PROVE FrozenInv'
      OBVIOUS
  <2>1. TypeOK /\ TypeOK'
      BY NextTypeOK DEF FrozenInv
  <2>2. ASSUME NEW i \in DOMAIN commits' PROVE OneVersion(commits'[i].file)
    <3> SUFFICES ASSUME NEW d \in OutDirs, NEW kind \in {"dev", "freeze"},
                        NEW doc \in commits'[i].file[<<d, kind>>] \ {Torn}
                 PROVE  doc.sel = doc.hash
        BY DEF OneVersion
    <3>1. kind \in Kinds
        BY DEF Kinds
    <3>2. \/ \E j \in DOMAIN commits :
                 commits'[i].file[<<d, kind>>] = commits[j].file[<<d, kind>>]
          \/ commits'[i].file[<<d, kind>>] = tree.file[<<d, kind>>]
        BY <2>1, <3>1, CommittedSources DEF File
    <3>3. \A j \in DOMAIN commits : \A x \in commits[j].file[<<d, kind>>] \ {Torn} : x.sel = x.hash
        BY DEF FrozenInv, OneVersion
    <3>4. \A x \in tree.file[<<d, kind>>] \ {Torn} : x.sel = x.hash
        BY DEF FrozenInv, OneVersion
    <3> QED
        BY <3>2, <3>3, <3>4
  <2> QED
      BY <2>1, <2>2, OneVersionStep, RunsTheTreeStep DEF FrozenInv
<1> QED
    BY <1>1, <1>2, PTL DEF Spec

\* h2.py: a frozen selection was made by the code the freeze hashes; a checkout in
\* which files are edited under a running development run does not have this.
THEOREM FreezesWhatItRan == OperatorWaits => (Spec => []FrozenByItsCode)
<1> SUFFICES ASSUME OperatorWaits PROVE Spec => []FrozenByItsCode
    OBVIOUS
<1>1. FrozenInv => FrozenByItsCode
    BY DEF FrozenInv, OneVersion, FrozenByItsCode, Readable, File
<1> QED
    BY <1>1, FrozenInductive, PTL

-----------------------------------------------------------------------------
(***************************************************************************)
(* The holder of a claim: the one process of its directory between the     *)
(* exclusive creation of the marker and the completion of it.              *)
(***************************************************************************)
Holds(p) == pc[p] \in {"evaluate", "save", "complete"}

\* Every whole marker of a directory, in the tree or committed.
MarkersEver(d) ==
    Readable(d, "marker")
        \cup UNION {commits[i].file[<<d, "marker">>] \ {Torn} : i \in DOMAIN commits}

\* A process that loads has read a freeze, and a marker that was committed since it
\* looked is still there to refuse it.
LoadingInv ==
    /\ \A p \in Procs : pc[p] = "loading" \/ Holds(p) => frozen[p] # {}
    /\ \A p \in Procs : pc[p] = "loading" =>
            (InHistory(dir[p]) => File(dir[p], "marker") # {})

\* While a process holds the claim, the directory's markers, committed ones too,
\* are the one it made, and nobody else holds one there.
HolderInv ==
    \A p \in Procs : Holds(p) =>
        /\ File(dir[p], "marker") # {}
        /\ MarkersEver(dir[p]) \subseteq StartedMarkers(p)
        /\ \A q \in Procs : Holds(q) /\ dir[q] = dir[p] => q = p

\* Results are saved before the marker is completed.
SavedInv ==
    \A p \in Procs : pc[p] = "complete" => File(dir[p], "results") = ResultsOf(p)

ClaimInv == TypeOK /\ LoadingInv /\ HolderInv /\ SavedInv

\* Whoever may still evaluate: the holder of a claim that has not evaluated yet.
Pending(d) == \E p \in Procs : pc[p] = "evaluate" /\ dir[p] = d

\* An evaluation is paid for by the marker that stands, or by one that was lost.
Paid(d) ==
    /\ Cardinality(EvaluationsIn(d)) <= 1 + lost[d]
    /\ Unclaimed(d) \/ Pending(d) => Cardinality(EvaluationsIn(d)) <= lost[d]

\* Results the code of the marker's freeze made of its selection.
Reported(d, m) == \E r \in ResultsEver(d) : PreRegistered(d, r.sel, r.ran, m.commit)

ReportedInv ==
    \A d \in OutDirs : \A m \in MarkersEver(d) : m.status = "completed" => Reported(d, m)

\* What a crash may cut short, and at which point of a process.
LEMMA CutShort ==
    ASSUME NEW p \in Procs, NEW kind \in Writes(p)
    PROVE  \/ kind = "dev" /\ pc[p] = "develop"
           \/ kind = "results" /\ pc[p] = "save"
           \/ kind = "marker" /\ pc[p] = "loading" /\ File(dir[p], "marker") = {}
           \/ kind = "marker" /\ pc[p] = "complete" /\ Readable(dir[p], "marker") # {}
BY DEF Writes

\* What was committed stays committed; what is newly committed is in the tree.
LEMMA HistoryGrows ==
    ASSUME TypeOK, [Next]_vars, NEW d \in OutDirs
    PROVE  /\ InHistory(d) => InHistory(d)'
           /\ InHistory(d)' => InHistory(d) \/ File(d, "marker") # {}
<1>1. InHistory(d) => InHistory(d)'
    BY CommitsKept DEF InHistory
<1>2. InHistory(d)' => InHistory(d) \/ File(d, "marker") # {}
    BY CommittedSources DEF InHistory, Kinds
<1> QED
    BY <1>1, <1>2

\* A marker is replaced by a marker; only a deletion, or the checkout of a commit
\* from before a committed one, takes it away.
LEMMA MarkerStays ==
    ASSUME TypeOK, LoadingInv, [Next]_vars, NEW d \in OutDirs, File(d, "marker") # {}
    PROVE  \/ File(d, "marker")' # {}
           \/ Undisturbed /\ (InHistory(d) \/ Delete(d, "marker"))
<1>1. "marker" \in Kinds /\ head \in DOMAIN commits
    BY DEF Kinds, TypeOK
<1>2. ASSUME NEW p \in Procs, ClaimHoldout(p) PROVE StartedMarkers(p) # {}
    BY <1>2 DEF LoadingInv, ClaimHoldout, StartedMarkers
<1>3. Readable(d, "marker") # {} => Completed(d) # {}
    BY DEF Completed
<1>4. ASSUME NEW i \in DOMAIN commits, Checkout(i),
             File(d, "marker") = commits[head].file[<<d, "marker">>]
      PROVE  Undisturbed /\ InHistory(d)
    BY <1>1, <1>4 DEF Checkout, InHistory
<1>5. ASSUME Delete(d, "marker") PROVE Undisturbed
    BY <1>5 DEF Delete
<1> QED
    BY <1>1, <1>2, <1>3, <1>4, <1>5, FileSources

\* A process that is loading or holds the claim keeps its freeze, and meets a marker where the history has one.
LEMMA LoadingStep ==
    ASSUME OperatorWaits, TypeOK, LoadingInv, [Next]_vars
    PROVE  LoadingInv'
<1>1. ASSUME NEW p \in Procs, (pc[p] = "loading" \/ Holds(p))' PROVE frozen'[p] # {}
  <2>1. ASSUME NEW d \in OutDirs, StartHoldout(p, d) PROVE frozen'[p] # {}
      BY <2>1 DEF StartHoldout, TypeOK
  <2>2. CASE ClaimHoldout(p) \/ Evaluate(p) \/ SaveResults(p)
      BY <2>2 DEF ClaimHoldout, Evaluate, SaveResults, Goto, LoadingInv, Holds
  <2>3. CASE pc'[p] = pc[p] /\ frozen'[p] = frozen[p]
      BY <1>1, <2>3 DEF LoadingInv, Holds
  <2>4. pc'[p] \notin {"done", "develop"}
      BY <1>1 DEF Holds
  <2> QED
      BY <2>1, <2>2, <2>3, <2>4, MemorySources
<1>2. ASSUME NEW p \in Procs, pc'[p] = "loading", InHistory(dir[p])'
      PROVE  File(dir[p], "marker")' # {}
  <2>1. ASSUME NEW d \in OutDirs, StartHoldout(p, d) PROVE FALSE
    <3>1. ~InHistory(d) /\ UNCHANGED commits /\ dir'[p] = d
        BY <2>1 DEF StartHoldout, Unclaimed, Launch, TypeOK
    <3> QED
        BY <1>2, <3>1 DEF InHistory
  <2>2. CASE pc'[p] = pc[p] /\ dir'[p] = dir[p]
    <3>1. dir[p] \in OutDirs /\ InHistory(dir[p])'
        BY <1>2, <2>2 DEF TypeOK, InHistory
    <3>2. File(dir[p], "marker") # {}
        BY <1>2, <2>2, <3>1, HistoryGrows DEF LoadingInv
    <3>3. ~Undisturbed
        BY <1>2, <2>2 DEF Undisturbed, Running
    <3>4. File(dir[p], "marker")' = tree'.file[<<dir'[p], "marker">>]
        BY DEF File
    <3>5. ASSUME NEW d \in OutDirs, d = dir[p] PROVE tree'.file[<<d, "marker">>] # {}
        BY <3>2, <3>3, <3>5, MarkerStays DEF File
    <3> QED
        BY <2>2, <3>1, <3>4, <3>5
  <2>3. CASE ClaimHoldout(p) \/ Evaluate(p) \/ SaveResults(p)
      BY <1>2, <2>3 DEF ClaimHoldout, Evaluate, SaveResults, Goto, TypeOK
  <2>4. pc'[p] \notin {"done", "develop"}
      BY <1>2
  <2> QED
      BY <2>1, <2>2, <2>3, <2>4, MemorySources
<1> QED
    BY <1>1, <1>2 DEF LoadingInv

\* The markers of a held directory stay the ones its holder made.
LEMMA HeldMarkers ==
    ASSUME OperatorWaits, ClaimInv, [Next]_vars,
           NEW p \in Procs, NEW d \in OutDirs, Holds(p), dir[p] = d, pc'[p] # "done"
    PROVE  File(d, "marker")' # {} /\ MarkersEver(d)' \subseteq StartedMarkers(p)
<1> USE DEF Kinds
<1>1. TypeOK /\ LoadingInv /\ ~Undisturbed /\ File(d, "marker") # {}
    BY DEF ClaimInv, HolderInv, Undisturbed, Running, Holds
<1>2. MarkersEver(d) \subseteq StartedMarkers(p)
    BY DEF ClaimInv, HolderInv
<1>3. ASSUME NEW q \in Procs, CompleteHoldout(q) PROVE dir[q] # d
  <2>1. pc[q] = "complete" /\ pc'[q] = "done"
      BY <1>1, <1>3 DEF CompleteHoldout, Exit, TypeOK
  <2> QED
      BY <2>1 DEF ClaimInv, HolderInv, Holds
<1>4. ASSUME NEW m \in File(d, "marker")', m # Torn PROVE m \in MarkersEver(d)
  <2>1. ASSUME NEW q \in Procs, ClaimHoldout(q) PROVE d # dir[q]
      BY <1>1, <2>1 DEF ClaimHoldout
  <2>2. ASSUME NEW i \in DOMAIN commits, Checkout(i) PROVE FALSE
      BY <1>1, <2>2 DEF Checkout
  <2>3. ASSUME Delete(d, "marker") PROVE FALSE
      BY <1>1, <2>3 DEF Delete
  <2>4. File(d, "marker")' = File(d, "marker") \/ File(d, "marker")' = {Torn}
      BY <1>1, <1>3, <2>1, <2>2, <2>3, FileSources
  <2> QED
      BY <1>4, <2>4 DEF MarkersEver, Readable
<1>5. ASSUME NEW i \in DOMAIN commits', NEW m \in commits'[i].file[<<d, "marker">>], m # Torn
      PROVE  m \in MarkersEver(d)
  <2>1. \/ \E j \in DOMAIN commits : commits'[i].file[<<d, "marker">>] = commits[j].file[<<d, "marker">>]
        \/ commits'[i].file[<<d, "marker">>] = File(d, "marker")
      BY <1>1, CommittedSources
  <2> QED
      BY <1>5, <2>1 DEF MarkersEver, Readable
<1>6. MarkersEver(d)' \subseteq MarkersEver(d)
    BY <1>4, <1>5 DEF MarkersEver, Readable
<1> QED
    BY <1>1, <1>2, <1>6, MarkerStays

\* The exclusive creation of the marker makes its process the only holder.
LEMMA ClaimHolds ==
    ASSUME ClaimInv, NEW p \in Procs, NEW d \in OutDirs, ClaimHoldout(p), dir[p] = d
    PROVE  /\ File(d, "marker")' # {}
           /\ MarkersEver(d)' \subseteq StartedMarkers(p)
           /\ \A q \in Procs : Holds(q) => dir[q] # d
<1>1. TypeOK /\ File(d, "marker") = {} /\ UNCHANGED commits
    BY DEF ClaimInv, ClaimHoldout
<1>2. File(d, "marker")' = StartedMarkers(p)
    BY <1>1, FileAfterPut DEF ClaimHoldout, Kinds
<1>3. StartedMarkers(p) # {} /\ ~InHistory(d)
    BY <1>1 DEF ClaimInv, LoadingInv, ClaimHoldout, StartedMarkers
<1>4. MarkersEver(d)' \subseteq StartedMarkers(p)
    BY <1>1, <1>2, <1>3 DEF MarkersEver, Readable, InHistory
<1> QED
    BY <1>1, <1>2, <1>3, <1>4 DEF ClaimInv, HolderInv

\* Who holds a claim after a step held it before, or has just made it.
LEMMA HolderSources ==
    ASSUME TypeOK, [Next]_vars, NEW p \in Procs, Holds(p)'
    PROVE  /\ dir'[p] = dir[p] /\ frozen'[p] = frozen[p] /\ loaded'[p] = loaded[p]
           /\ pc'[p] # "done"
           /\ Holds(p) \/ ClaimHoldout(p)
<1>1. pc'[p] \notin {"done", "develop"}
    BY DEF Holds
<1>2. ASSUME NEW d \in OutDirs, StartHoldout(p, d) PROVE FALSE
    BY <1>2 DEF StartHoldout, Launch, TypeOK, Holds
<1>3. Evaluate(p) \/ SaveResults(p) => Holds(p)
    BY DEF Evaluate, SaveResults, Holds
<1>4. pc'[p] = pc[p] => Holds(p)
    BY DEF Holds
<1> QED
    BY <1>1, <1>2, <1>3, <1>4, MemorySources

\* Whoever holds a claim keeps it alone, and no marker but its own appears in its directory.
LEMMA HolderStep ==
    ASSUME OperatorWaits, ClaimInv, [Next]_vars
    PROVE  HolderInv'
<1>1. TypeOK
    BY DEF ClaimInv
<1> SUFFICES ASSUME NEW p \in Procs, Holds(p)', NEW d \in OutDirs, d = dir[p]
             PROVE  /\ File(d, "marker")' # {}
                    /\ MarkersEver(d)' \subseteq StartedMarkers(p)'
                    /\ \A q \in Procs : Holds(q)' /\ dir'[q] = dir'[p] => q = p
  <2>1. \A p \in Procs : dir[p] \in OutDirs
      BY <1>1 DEF TypeOK
  <2>2. \A p \in Procs : Holds(p)' => dir'[p] = dir[p]
      BY <1>1, HolderSources
  <2> QED
      BY <2>1, <2>2 DEF HolderInv, File, MarkersEver, Readable
<1>2. StartedMarkers(p)' = StartedMarkers(p) /\ dir'[p] = d
    BY <1>1, HolderSources DEF StartedMarkers
<1>3. CASE Holds(p)
  <2>1. File(d, "marker") # {} /\ pc'[p] # "done"
      BY <1>1, <1>3, HolderSources DEF ClaimInv, HolderInv
  <2>2. ASSUME NEW q \in Procs, Holds(q)', dir'[q] = dir'[p] PROVE q = p
    <3>1. dir[q] = d /\ (Holds(q) \/ ClaimHoldout(q))
        BY <1>1, <1>2, <2>2, HolderSources
    <3>2. ~ClaimHoldout(q)
        BY <2>1, <3>1 DEF ClaimHoldout
    <3> QED
        BY <1>3, <3>1, <3>2 DEF ClaimInv, HolderInv
  <2> QED
      BY <1>2, <1>3, <2>1, <2>2, HeldMarkers
<1>4. CASE ClaimHoldout(p)
  <2>1. ASSUME NEW q \in Procs, Holds(q)', dir'[q] = dir'[p] PROVE q = p
    <3>1. dir[q] = d /\ (Holds(q) \/ ClaimHoldout(q))
        BY <1>1, <1>2, <2>1, HolderSources
    <3>2. ASSUME ClaimHoldout(q), q # p PROVE FALSE
        BY <1>1, <1>4, <3>2 DEF ClaimHoldout, Goto, TypeOK
    <3> QED
        BY <1>4, <3>1, <3>2, ClaimHolds
  <2> QED
      BY <1>2, <1>4, <2>1, ClaimHolds
<1> QED
    BY <1>1, <1>3, <1>4, HolderSources

\* Only the holder of a directory writes results there.
LEMMA ResultsKept ==
    ASSUME OperatorWaits, ClaimInv, [Next]_vars,
           NEW p \in Procs, NEW d \in OutDirs, Holds(p), dir[p] = d, pc[p] # "save"
    PROVE  File(d, "results")' = File(d, "results")
<1> USE DEF Kinds
<1>1. TypeOK /\ ~Undisturbed
    BY DEF ClaimInv, Undisturbed, Running, Holds
<1>2. \A q \in Procs : Holds(q) /\ dir[q] = d => q = p
    BY DEF ClaimInv, HolderInv
<1>3. \A q \in Procs : SaveResults(q) => dir[q] # d
    BY <1>2 DEF SaveResults, Holds
<1>4. \A q \in Procs : "results" \in Writes(q) => dir[q] # d
    BY <1>2, CutShort DEF Holds
<1>5. ASSUME NEW i \in DOMAIN commits, Checkout(i) PROVE FALSE
    BY <1>1, <1>5 DEF Checkout
<1> QED
    BY <1>1, <1>3, <1>4, <1>5, FileSources

\* Nothing changes the results between their saving and the completion of the marker.
LEMMA SavedStep ==
    ASSUME OperatorWaits, ClaimInv, [Next]_vars
    PROVE  SavedInv'
<1>1. TypeOK
    BY DEF ClaimInv
<1> SUFFICES ASSUME NEW p \in Procs, pc'[p] = "complete", NEW d \in OutDirs, d = dir[p]
             PROVE  File(d, "results")' = ResultsOf(p)
  <2>1. \A p \in Procs : dir[p] \in OutDirs
      BY <1>1 DEF TypeOK
  <2>2. \A p \in Procs : pc'[p] = "complete" =>
            dir'[p] = dir[p] /\ ResultsOf(p)' = ResultsOf(p)
      BY <1>1, HolderSources DEF Holds, ResultsOf
  <2> QED
      BY <2>1, <2>2 DEF SavedInv, File
<1>2. CASE pc[p] = "complete"
    BY <1>2, ResultsKept DEF ClaimInv, SavedInv, Holds
<1>3. CASE SaveResults(p)
    BY <1>1, <1>3, FileAfterPut DEF SaveResults, ResultsOf, Kinds
<1>4. pc'[p] = pc[p] \/ SaveResults(p)
  <2>1. ClaimHoldout(p) \/ Evaluate(p) => pc'[p] \in {"evaluate", "save"}
      BY <1>1 DEF ClaimHoldout, Evaluate, Goto, TypeOK
  <2>2. ASSUME NEW e \in OutDirs, StartHoldout(p, e) PROVE FALSE
      BY <1>1, <2>2 DEF StartHoldout, Launch, TypeOK
  <2> QED
      BY <1>1, <2>1, <2>2, MemorySources
<1> QED
    BY <1>2, <1>3, <1>4

\* With an operator that waits, the invariant of the claims holds in every reachable state.
LEMMA ClaimInductive == OperatorWaits => (Spec => []ClaimInv)
<1> SUFFICES ASSUME OperatorWaits PROVE Spec => []ClaimInv
    OBVIOUS
<1>1. Init => ClaimInv
    BY InitTypeOK DEF Init, ClaimInv, LoadingInv, HolderInv, SavedInv, Holds
<1>2. ClaimInv /\ [Next]_vars => ClaimInv'
    BY NextTypeOK, LoadingStep, HolderStep, SavedStep DEF ClaimInv
<1> QED
    BY <1>1, <1>2, PTL DEF Spec

-----------------------------------------------------------------------------
(***************************************************************************)
(* The holdout is evaluated once per claim, and claimed once unless a      *)
(* marker that was never committed is deleted.                             *)
(***************************************************************************)
\* The evaluations of a directory are finitely many, and the next one adds to them.
LEMMA EvaluationAdds ==
    ASSUME TypeOK, NEW d \in OutDirs
    PROVE  /\ Cardinality(EvaluationsIn(d)) \in Nat
           /\ \A e : evaluated' = Append(evaluated, e) =>
                 Cardinality(EvaluationsIn(d)')
                     = Cardinality(EvaluationsIn(d)) + (IF e.dir = d THEN 1 ELSE 0)
<1>1. evaluated \in Seq(Evaluations) /\ Len(evaluated) \in Nat /\ DOMAIN evaluated = 1 .. Len(evaluated)
    BY DEF TypeOK
<1>2. IsFiniteSet(EvaluationsIn(d)) /\ Cardinality(EvaluationsIn(d)) \in Nat
  <2>1. EvaluationsIn(d) \subseteq 1 .. Len(evaluated)
      BY <1>1 DEF EvaluationsIn
  <2>2. IsFiniteSet(1 .. Len(evaluated))
      BY <1>1, FS_Interval
  <2> QED
      BY <2>1, <2>2, FS_Subset, FS_CardinalityType
<1>3. ASSUME NEW e, evaluated' = Append(evaluated, e)
      PROVE  Cardinality(EvaluationsIn(d)')
                 = Cardinality(EvaluationsIn(d)) + (IF e.dir = d THEN 1 ELSE 0)
  <2>1. /\ DOMAIN evaluated' = 1 .. Len(evaluated) + 1
        /\ \A i \in 1 .. Len(evaluated) : evaluated'[i] = evaluated[i]
        /\ evaluated'[Len(evaluated) + 1] = e
      BY <1>1, <1>3
  <2>2. EvaluationsIn(d)' = EvaluationsIn(d) \cup (IF e.dir = d THEN {Len(evaluated) + 1} ELSE {})
      BY <1>1, <2>1 DEF EvaluationsIn
  <2>3. Len(evaluated) + 1 \notin EvaluationsIn(d)
      BY <1>1 DEF EvaluationsIn
  <2>4. CASE e.dir = d
    <3>1. EvaluationsIn(d)' = EvaluationsIn(d) \cup {Len(evaluated) + 1}
        BY <2>2, <2>4
    <3>2. Cardinality(EvaluationsIn(d) \cup {Len(evaluated) + 1}) = Cardinality(EvaluationsIn(d)) + 1
        BY <1>2, <2>3, FS_AddElement
    <3> QED
        BY <2>4, <3>1, <3>2
  <2>5. CASE e.dir # d
      BY <1>2, <2>2, <2>5
  <2> QED
      BY <2>4, <2>5
<1> QED
    BY <1>2, <1>3

\* Evaluate adds one evaluation, in the directory of its process.
LEMMA EvaluationsCounted ==
    ASSUME TypeOK, [Next]_vars, NEW d \in OutDirs
    PROVE  /\ Cardinality(EvaluationsIn(d)) \in Nat
           /\ \/ Cardinality(EvaluationsIn(d)') = Cardinality(EvaluationsIn(d))
              \/ \E p \in Procs :
                    /\ Evaluate(p) /\ dir[p] = d
                    /\ Cardinality(EvaluationsIn(d)') = Cardinality(EvaluationsIn(d)) + 1
<1>1. Cardinality(EvaluationsIn(d)) \in Nat
    BY EvaluationAdds
<1>2. CASE UNCHANGED evaluated
    BY <1>1, <1>2 DEF EvaluationsIn
<1>3. ASSUME NEW p \in Procs, Evaluate(p)
      PROVE  \/ Cardinality(EvaluationsIn(d)') = Cardinality(EvaluationsIn(d))
             \/ /\ dir[p] = d
                /\ Cardinality(EvaluationsIn(d)') = Cardinality(EvaluationsIn(d)) + 1
  <2>1. PICK e : e.dir = dir[p] /\ evaluated' = Append(evaluated, e)
      BY <1>3 DEF Evaluate, EvaluationsBy
  <2> QED
      BY <1>1, <2>1, EvaluationAdds
<1>4. UNCHANGED evaluated \/ \E p \in Procs : Evaluate(p)
    BY DEF Next, vars, StartDev, StartHoldout, SaveDev, LoadFails, ClaimHoldout, ClaimRefused,
           SaveResults, CompleteHoldout, Crash, CrashWriting, FreezeSelection,
           Operator, EditCode, Commit, Checkout, Delete
<1> QED
    BY <1>1, <1>2, <1>3, <1>4

\* The history counts a deleted marker when it had never been committed.
LEMMA LostCounted ==
    ASSUME TypeOK, [Next]_vars, NEW d \in OutDirs
    PROVE  /\ lost[d] \in Nat /\ lost'[d] \in {lost[d], lost[d] + 1}
           /\ Delete(d, "marker") /\ ~InHistory(d) => lost'[d] = lost[d] + 1
           /\ lost'[d] # lost[d] => Undisturbed /\ UNCHANGED <<process, evaluated>>
<1>1. lost \in [OutDirs -> Nat]
    BY DEF TypeOK
<1>2. Delete(d, "marker") /\ ~InHistory(d) => lost'[d] = lost[d] + 1
    BY <1>1 DEF Delete
<1>3. ASSUME NEW e \in OutDirs, NEW kind \in {"freeze", "marker"}, Delete(e, kind)
      PROVE  /\ lost'[d] \in {lost[d], lost[d] + 1}
             /\ Undisturbed /\ UNCHANGED <<process, evaluated>>
    BY <1>1, <1>3 DEF Delete
<1>4. \/ UNCHANGED lost
      \/ \E e \in OutDirs, kind \in {"freeze", "marker"} : Delete(e, kind)
    BY DEF Next, vars, StartDev, StartHoldout, SaveDev, LoadFails, ClaimHoldout, ClaimRefused,
           Evaluate, SaveResults, CompleteHoldout, Crash, CrashWriting, FreezeSelection,
           Operator, EditCode, Commit, Checkout
<1> QED
    BY <1>1, <1>2, <1>3, <1>4

\* A directory is free again, or about to be evaluated, only when it was before, or
\* when its marker got lost.
LEMMA FreeOrPending ==
    ASSUME OperatorWaits, ClaimInv, [Next]_vars, NEW d \in OutDirs,
           (Unclaimed(d) \/ Pending(d))', ~\E p \in Procs : Evaluate(p) /\ dir[p] = d
    PROVE  Unclaimed(d) \/ Pending(d) \/ (Delete(d, "marker") /\ ~InHistory(d))
<1>1. TypeOK /\ LoadingInv
    BY DEF ClaimInv
<1>2. CASE Unclaimed(d)'
  <2>1. ~InHistory(d)
      BY <1>1, <1>2, HistoryGrows DEF Unclaimed
  <2>2. CASE File(d, "marker") = {}
      BY <2>1, <2>2 DEF Unclaimed
  <2>3. CASE File(d, "marker") # {}
      BY <1>1, <1>2, <2>1, <2>3, MarkerStays DEF Unclaimed
  <2> QED
      BY <2>2, <2>3
<1>3. CASE Pending(d)'
  <2>1. PICK p \in Procs : pc'[p] = "evaluate" /\ dir'[p] = d
      BY <1>3 DEF Pending
  <2>2. dir[p] = d /\ (Holds(p) \/ ClaimHoldout(p))
      BY <1>1, <2>1, HolderSources DEF Holds
  <2>3. CASE ClaimHoldout(p)
      BY <2>2, <2>3 DEF LoadingInv, ClaimInv, ClaimHoldout, Unclaimed
  <2>4. CASE pc[p] = "evaluate"
      BY <2>2, <2>4 DEF Pending
  <2>5. ASSUME pc[p] \in {"save", "complete"} PROVE FALSE
    <3>1. ~ClaimHoldout(p) /\ ~Evaluate(p) /\ pc'[p] # pc[p] /\ pc[p] # "idle"
        BY <2>1, <2>5 DEF ClaimHoldout, Evaluate
    <3>2. ~SaveResults(p)
        BY <1>1, <2>1 DEF SaveResults, Goto, TypeOK
    <3>3. ASSUME NEW e \in OutDirs, StartHoldout(p, e) PROVE FALSE
        BY <3>1, <3>3 DEF StartHoldout
    <3> QED
        BY <1>1, <2>1, <3>1, <3>2, <3>3, MemorySources
  <2> QED
      BY <2>2, <2>3, <2>4, <2>5 DEF Holds
<1> QED
    BY <1>2, <1>3

\* A directory's evaluations stay paid for: each has its marker, or one that was lost.
LEMMA PaidStep ==
    ASSUME OperatorWaits, ClaimInv, [Next]_vars, NEW d \in OutDirs, Paid(d)
    PROVE  Paid(d)'
<1> DEFINE n == Cardinality(EvaluationsIn(d))
           m == Cardinality(EvaluationsIn(d)')
<1>1. TypeOK
    BY DEF ClaimInv
<1>2. /\ n \in Nat /\ lost[d] \in Nat /\ lost'[d] \in {lost[d], lost[d] + 1}
      /\ n <= 1 + lost[d]
      /\ Unclaimed(d) \/ Pending(d) => n <= lost[d]
    BY <1>1, EvaluationsCounted, LostCounted DEF Paid
<1> SUFFICES m <= 1 + lost'[d] /\ ((Unclaimed(d) \/ Pending(d))' => m <= lost'[d])
    BY DEF Paid
<1>3. ASSUME NEW p \in Procs, Evaluate(p), dir[p] = d
      PROVE  /\ m <= 1 + lost'[d]
             /\ (Unclaimed(d) \/ Pending(d))' => m <= lost'[d]
  <2>1. Pending(d) /\ Holds(p)
      BY <1>3 DEF Pending, Evaluate, Holds
  <2>2. m <= n + 1
      BY <1>1, <1>2, EvaluationsCounted
  <2>3. File(d, "marker")' # {}
    <3>1. pc'[p] # "done"
        BY <1>1, <1>3 DEF Evaluate, Goto, TypeOK
    <3> QED
        BY <1>3, <2>1, <3>1, HeldMarkers
  <2>4. ~Pending(d)'
    <3> SUFFICES ASSUME NEW q \in Procs, pc'[q] = "evaluate", dir'[q] = d PROVE FALSE
        BY DEF Pending
    <3>1. q # p /\ pc[q] = "evaluate" /\ dir[q] = d
        BY <1>1, <1>3 DEF Evaluate, Goto, TypeOK
    <3> QED
        BY <1>3, <2>1, <3>1 DEF ClaimInv, HolderInv, Holds
  <2> HIDE DEF n, m
  <2>5. m \in Int
      BY <1>1, <2>2, EvaluationsCounted DEF n, m
  <2> QED
      BY <1>2, <2>1, <2>2, <2>3, <2>4, <2>5 DEF Unclaimed
<1>4. CASE ~\E p \in Procs : Evaluate(p) /\ dir[p] = d
  <2>1. m = n
      BY <1>1, <1>4, EvaluationsCounted
  <2>2. (Unclaimed(d) \/ Pending(d))'
            => Unclaimed(d) \/ Pending(d) \/ (Delete(d, "marker") /\ ~InHistory(d))
      BY <1>4, FreeOrPending
  <2>3. Delete(d, "marker") /\ ~InHistory(d) => lost'[d] = lost[d] + 1
      BY <1>1, LostCounted
  <2> HIDE DEF n, m
  <2> QED
      BY <1>2, <2>1, <2>2, <2>3
<1> QED
    BY <1>3, <1>4

\* protocol.py: one evaluation per holdout, whatever crashes, is committed, checked
\* out, frozen again or started at the same time; each further one took the deletion
\* of a marker that no commit had.
THEOREM EvaluatedOnce == OperatorWaits => (Spec => []OneShot)
<1> SUFFICES ASSUME OperatorWaits PROVE Spec => []OneShot
    OBVIOUS
<1> DEFINE AllPaid == \A d \in OutDirs : Paid(d)
<1>1. Init => AllPaid
  <2> SUFFICES ASSUME Init, NEW d \in OutDirs PROVE Paid(d)
      OBVIOUS
  <2>1. EvaluationsIn(d) = {} /\ lost[d] = 0
      BY DEF Init, EvaluationsIn
  <2> QED
      BY <2>1, FS_EmptySet DEF Paid
<1>2. ClaimInv /\ AllPaid /\ [Next]_vars => AllPaid'
    BY PaidStep
<1>3. AllPaid => OneShot
    BY DEF Paid, OneShot
<1> QED
    BY <1>1, <1>2, <1>3, ClaimInductive, PTL DEF Spec

-----------------------------------------------------------------------------
(***************************************************************************)
(* A completed marker stands for results.                                  *)
(***************************************************************************)
\* Results stay known, in the tree or in a commit, while a completed marker stands.
LEMMA ResultsStay ==
    ASSUME OperatorWaits, ClaimInv, [Next]_vars, NEW d \in OutDirs,
           NEW m \in MarkersEver(d), m.status = "completed", NEW r \in ResultsEver(d)
    PROVE  r \in ResultsEver(d)'
<1> USE DEF Kinds
<1>1. TypeOK /\ head \in DOMAIN commits
    BY DEF ClaimInv, TypeOK
<1>2. CASE \E i \in DOMAIN commits : r \in commits[i].file[<<d, "results">>] \ {Torn}
    BY <1>1, <1>2, CommitsKept DEF ResultsEver
<1>3. CASE r \in Readable(d, "results")
  <2>1. ASSUME NEW p \in Procs, Holds(p) PROVE dir[p] # d
    <3> SUFFICES ASSUME dir[p] = d PROVE FALSE
        OBVIOUS
    <3>1. m \in StartedMarkers(p)
        BY <2>1 DEF ClaimInv, HolderInv
    <3> QED
        BY <3>1 DEF StartedMarkers
  <2>2. ASSUME NEW p \in Procs, SaveResults(p) PROVE dir[p] # d
      BY <2>1, <2>2 DEF SaveResults, Holds
  <2>3. ASSUME NEW p \in Procs, "results" \in Writes(p) PROVE dir[p] # d
      BY <2>1, <2>3, CutShort DEF Holds
  <2>4. \/ File(d, "results")' = File(d, "results")
        \/ File(d, "results") = commits[head].file[<<d, "results">>]
      BY <1>1, <2>2, <2>3, FileSources
  <2>5. CASE File(d, "results")' = File(d, "results")
      BY <1>3, <2>5 DEF ResultsEver, Readable
  <2>6. CASE File(d, "results") = commits[head].file[<<d, "results">>]
      BY <1>1, <1>2, <1>3, <2>6 DEF Readable
  <2> QED
      BY <2>4, <2>5, <2>6
<1> QED
    BY <1>2, <1>3 DEF ResultsEver

\* The holder completes its own marker, next to the results of its own freeze.
LEMMA CompletionReports ==
    ASSUME PreRegisteredInv, ClaimInv, NEW p \in Procs, NEW d \in OutDirs, dir[p] = d,
           CompleteHoldout(p), NEW m \in Completed(d)
    PROVE  Reported(d, m)'
<1>1. TypeOK /\ Holds(p) /\ pc[p] = "complete" /\ UNCHANGED commits
    BY DEF ClaimInv, CompleteHoldout, Holds
<1>2. PICK doc \in Readable(d, "marker") : m = [doc EXCEPT !.status = "completed"]
    BY DEF Completed
<1>3. doc \in StartedMarkers(p)
    BY <1>1, <1>2 DEF ClaimInv, HolderInv, MarkersEver
<1>4. PICK read \in frozen[p] : m.commit = read.commit
    BY <1>2, <1>3 DEF StartedMarkers
<1>5. PreRegistered(d, read.sel, loaded[p], m.commit)
    BY <1>4 DEF PreRegisteredInv, MemoryNamed, Names
<1>r. PICK r : r = [sel |-> read.sel, ran |-> loaded[p]]
    OBVIOUS
<1>6. r \in File(d, "results") /\ r # Torn
  <2>1. r \in File(d, "results")
      BY <1>1, <1>r DEF ClaimInv, SavedInv, ResultsOf
  <2>2. DOMAIN r = {"sel", "ran"} /\ DOMAIN Torn = {"torn"}
      BY <1>r DEF Torn
  <2> QED
      BY <2>1, <2>2
<1>7. File(d, "results")' = File(d, "results")
  <2>1. UNCHANGED tree \/ Put(d, "marker", Completed(d))
      BY DEF CompleteHoldout, Completed
  <2> QED
      BY <1>1, <2>1, FileAfterPut DEF File, Kinds
<1>8. r \in ResultsEver(d)'
    BY <1>6, <1>7 DEF ResultsEver, Readable
<1>9. r.sel = read.sel /\ r.ran = loaded[p]
    BY <1>r
<1>10. PreRegistered(d, r.sel, r.ran, m.commit)'
    BY <1>1, <1>5, <1>9 DEF PreRegistered
<1> QED
    BY <1>8, <1>10 DEF Reported

\* A marker is completed only beside results of its own freeze, and they stay known.
LEMMA ReportedStep ==
    ASSUME OperatorWaits, PreRegisteredInv, ClaimInv, ReportedInv, [Next]_vars
    PROVE  ReportedInv'
<1> USE DEF Kinds
<1>1. TypeOK
    BY DEF ClaimInv
<1> SUFFICES ASSUME NEW d \in OutDirs, NEW m \in MarkersEver(d)', m.status = "completed"
             PROVE  Reported(d, m)'
    BY DEF ReportedInv
<1>2. CASE m \in MarkersEver(d)
  <2>1. PICK r \in ResultsEver(d) : PreRegistered(d, r.sel, r.ran, m.commit)
      BY <1>2 DEF ReportedInv, Reported
  <2>2. r \in ResultsEver(d)'
      BY <1>2, ResultsStay
  <2>3. PreRegistered(d, r.sel, r.ran, m.commit)'
      BY <1>1, <2>1, StaysPreRegistered
  <2> QED
      BY <2>2, <2>3 DEF Reported
<1>3. ASSUME NEW i \in DOMAIN commits', m \in commits'[i].file[<<d, "marker">>], m # Torn
      PROVE  m \in MarkersEver(d)
  <2>1. \/ \E j \in DOMAIN commits : commits'[i].file[<<d, "marker">>] = commits[j].file[<<d, "marker">>]
        \/ commits'[i].file[<<d, "marker">>] = File(d, "marker")
      BY <1>1, CommittedSources
  <2> QED
      BY <1>3, <2>1 DEF MarkersEver, Readable
<1>4. ASSUME m \in File(d, "marker")', m # Torn
      PROVE  m \in MarkersEver(d) \/ Reported(d, m)'
  <2>1. ASSUME NEW p \in Procs, m \in StartedMarkers(p) PROVE FALSE
      BY <2>1 DEF StartedMarkers
  <2>2. ASSUME NEW p \in Procs, CompleteHoldout(p), d = dir[p], m \in Completed(d)
        PROVE  Reported(d, m)'
      BY <2>2, CompletionReports
  <2>3. CASE \E i \in DOMAIN commits : m \in commits[i].file[<<d, "marker">>]
      BY <1>4, <2>3 DEF MarkersEver
  <2>4. CASE m \in File(d, "marker")
      BY <1>4, <2>4 DEF MarkersEver, Readable
  <2>5. \/ File(d, "marker")' \in {File(d, "marker"), {Torn}, {}}
        \/ \E p \in Procs : File(d, "marker")' = StartedMarkers(p)
        \/ \E p \in Procs : CompleteHoldout(p) /\ d = dir[p] /\ File(d, "marker")' = Completed(d)
        \/ \E i \in DOMAIN commits : File(d, "marker")' = commits[i].file[<<d, "marker">>]
      BY <1>1, FileSources
  <2> QED
      BY <1>4, <2>1, <2>2, <2>3, <2>4, <2>5
<1> QED
    BY <1>2, <1>3, <1>4 DEF MarkersEver, Readable

\* complete_holdout runs last: a completed marker, in the tree, always has the results
\* of the freeze it names, in the tree or committed.
THEOREM CompletedMeansReported == OperatorWaits => (Spec => []CompletedIsReported)
<1> SUFFICES ASSUME OperatorWaits PROVE Spec => []CompletedIsReported
    OBVIOUS
<1>1. Init => ReportedInv
  <2> SUFFICES ASSUME Init, NEW d \in OutDirs PROVE MarkersEver(d) = {}
      BY DEF ReportedInv
  <2>1. <<d, "marker">> \in Paths
      BY DEF Paths, Kinds
  <2> QED
      BY <2>1 DEF Init, MarkersEver, Readable, File
<1>2. PreRegisteredInv /\ ClaimInv /\ ReportedInv /\ [Next]_vars => ReportedInv'
    BY ReportedStep
<1>3. ReportedInv => CompletedIsReported
    BY DEF ReportedInv, Reported, MarkersEver, CompletedIsReported, PreRegistered
<1> QED
    BY <1>1, <1>2, <1>3, ClaimInductive, Inductive, PTL DEF Spec

-----------------------------------------------------------------------------
(***************************************************************************)
(* The holdout step implements OneShotClaim, step by step.                 *)
(***************************************************************************)
Closing(p) == ClaimHoldout(p) \/ (CrashWriting(p) /\ pc[p] = "loading")

Leaving(p) == Crash(p) /\ pc[p] = "evaluate"

Forgetting(d) == Delete(d, "marker") /\ ~InHistory(d)

\* The step is none of those that OneShotClaim sees.
Unseen ==
    /\ \A p \in Procs : ~Closing(p) /\ ~Evaluate(p) /\ ~Leaving(p)
    /\ \A d \in OutDirs : ~Forgetting(d)

\* A directory is spent by a process that creates its marker, whole or torn, and is
\* free again only when its marker is forgotten.
LEMMA ClaimedSources ==
    ASSUME OperatorWaits, ClaimInv, [Next]_vars, NEW d \in OutDirs
    PROVE  /\ d \in Claimed /\ d \notin Claimed' => Forgetting(d)
           /\ d \notin Claimed /\ d \in Claimed' => \E p \in Procs : Closing(p) /\ dir[p] = d
<1>1. TypeOK /\ LoadingInv /\ "marker" \in Kinds
    BY DEF ClaimInv, Kinds
<1>2. ASSUME d \in Claimed, d \notin Claimed' PROVE Forgetting(d)
  <2>1. File(d, "marker")' = {} /\ ~InHistory(d)'
      BY <1>2 DEF Claimed, Unclaimed
  <2>2. ~InHistory(d)
      BY <1>1, <2>1, HistoryGrows
  <2>3. File(d, "marker") # {}
      BY <1>2, <2>2 DEF Claimed, Unclaimed
  <2> QED
      BY <1>1, <2>1, <2>2, <2>3, MarkerStays DEF Forgetting
<1>3. ASSUME d \notin Claimed, d \in Claimed'
      PROVE  \E p \in Procs : Closing(p) /\ dir[p] = d
  <2>1. File(d, "marker") = {} /\ ~InHistory(d)
      BY <1>3 DEF Claimed, Unclaimed
  <2>2. ~InHistory(d)'
      BY <1>1, <2>1, HistoryGrows
  <2>3. File(d, "marker")' # {}
      BY <1>3, <2>2 DEF Claimed, Unclaimed
  <2>4. Readable(d, "marker") = {}
      BY <2>1 DEF Readable
  <2>5. ASSUME NEW p \in Procs, CrashWriting(p), d = dir[p], "marker" \in Writes(p)
        PROVE  Closing(p)
      BY <2>4, <2>5, CutShort DEF Closing
  <2>6. ASSUME NEW i \in DOMAIN commits PROVE commits[i].file[<<d, "marker">>] = {}
      BY <2>1 DEF InHistory
  <2> QED
      BY <1>1, <2>1, <2>3, <2>4, <2>5, <2>6, FileSources DEF Closing
<1> QED
    BY <1>2, <1>3

\* A process is about to evaluate when it was before, or has just made its claim.
LEMMA EvaluatingSources ==
    ASSUME TypeOK, [Next]_vars, NEW p \in Procs
    PROVE  /\ pc[p] = "evaluate" =>
                 \/ pc'[p] = "evaluate" /\ dir'[p] = dir[p]
                 \/ pc'[p] # "evaluate" /\ (Evaluate(p) \/ Leaving(p))
           /\ pc[p] # "evaluate" /\ pc'[p] = "evaluate" => ClaimHoldout(p)
<1>1. pc \in [Procs -> Pcs]
    BY DEF TypeOK
<1>2. ASSUME pc[p] # "evaluate", pc'[p] = "evaluate" PROVE ClaimHoldout(p)
  <2>1. ASSUME NEW d \in OutDirs, StartHoldout(p, d) PROVE FALSE
      BY <1>1, <1>2, <2>1 DEF StartHoldout, Launch
  <2>2. ASSUME SaveResults(p) PROVE FALSE
      BY <1>1, <1>2, <2>2 DEF SaveResults, Goto
  <2>3. ~Evaluate(p)
      BY <1>2 DEF Evaluate
  <2> QED
      BY <1>2, <2>1, <2>2, <2>3, MemorySources
<1>3. ASSUME pc[p] = "evaluate"
      PROVE  \/ pc'[p] = "evaluate" /\ dir'[p] = dir[p]
             \/ pc'[p] # "evaluate" /\ (Evaluate(p) \/ Leaving(p))
  <2>1. CASE pc'[p] = pc[p] /\ dir'[p] = dir[p]
      BY <1>3, <2>1
  <2>2. CASE pc'[p] = "done"
    <3>1. Writes(p) = {}
        BY <1>3 DEF Writes
    <3>2. ASSUME NEW q \in Procs, Exit(q) PROVE q = p
        BY <1>1, <1>3, <2>2, <3>2 DEF Exit
    <3>3. ASSUME NEW q \in Procs, NEW label, Goto(q, label), label # "done" PROVE FALSE
        BY <1>1, <1>3, <2>2, <3>3 DEF Goto
    <3>4. ASSUME NEW q \in Procs, NEW d \in OutDirs, NEW label, Launch(q, label, d), label # "done"
          PROVE  FALSE
        BY <1>1, <1>3, <2>2, <3>4 DEF Launch
    <3>5. ~UNCHANGED pc
        BY <1>3, <2>2
    <3>6. \E q \in Procs : \/ SaveDev(q) \/ LoadFails(q) \/ ClaimRefused(q) \/ CompleteHoldout(q)
                            \/ Crash(q) \/ CrashWriting(q)
        BY <3>3, <3>4, <3>5
        DEF Next, vars, process, StartDev, StartHoldout, ClaimHoldout, Evaluate, SaveResults,
            FreezeSelection, Operator, EditCode, Commit, Checkout, Delete
    <3>7. ASSUME NEW q \in Procs,
                 SaveDev(q) \/ LoadFails(q) \/ ClaimRefused(q) \/ CompleteHoldout(q)
          PROVE  FALSE
        BY <1>3, <3>2, <3>7 DEF SaveDev, LoadFails, ClaimRefused, CompleteHoldout
    <3>8. ASSUME NEW q \in Procs, Crash(q) \/ CrashWriting(q)
          PROVE  Leaving(p)
        BY <1>3, <3>1, <3>2, <3>8 DEF Crash, CrashWriting, Leaving
    <3> QED
        BY <2>2, <3>6, <3>7, <3>8
  <2>3. CASE Evaluate(p)
      BY <1>1, <1>3, <2>3 DEF Evaluate, Goto
  <2>4. ~(ClaimHoldout(p) \/ SaveResults(p)) /\ pc[p] # "idle"
      BY <1>3 DEF ClaimHoldout, SaveResults
  <2>5. ASSUME NEW d \in OutDirs PROVE ~StartHoldout(p, d)
      BY <1>3 DEF StartHoldout
  <2> QED
      BY <2>1, <2>2, <2>3, <2>4, <2>5, MemorySources
<1> QED
    BY <1>2, <1>3

\* Whoever is about to evaluate is alone in its directory.
LEMMA EvaluatesAlone ==
    ASSUME ClaimInv, NEW p \in Procs, NEW q \in Procs,
           pc[p] = "evaluate", pc[q] = "evaluate", dir[p] = dir[q]
    PROVE  p = q
BY DEF ClaimInv, HolderInv, Holds

\* A process that stops being about to evaluate takes its directory with it.
LEMMA EvaluatingShrinks ==
    ASSUME ClaimInv, [Next]_vars, NEW p \in Procs, pc[p] = "evaluate", pc'[p] # "evaluate",
           \A q \in Procs : q # p => pc'[q] = pc[q] /\ dir'[q] = dir[q]
    PROVE  dir[p] \in Evaluating /\ Evaluating' = Evaluating \ {dir[p]}
<1>1. dir[p] \in Evaluating
    BY DEF Evaluating
<1>2. ASSUME NEW d \in Evaluating' PROVE d \in Evaluating \ {dir[p]}
  <2>1. PICK q \in Procs : pc'[q] = "evaluate" /\ dir'[q] = d
      BY <1>2 DEF Evaluating
  <2>2. q # p /\ pc[q] = "evaluate" /\ dir[q] = d
      BY <2>1
  <2> QED
      BY <2>2, EvaluatesAlone DEF Evaluating
<1>3. ASSUME NEW d \in Evaluating, d # dir[p] PROVE d \in Evaluating'
  <2>1. PICK q \in Procs : pc[q] = "evaluate" /\ dir[q] = d
      BY <1>3 DEF Evaluating
  <2> QED
      BY <1>3, <2>1 DEF Evaluating
<1> QED
    BY <1>1, <1>2, <1>3

\* What a step writes to one marker leaves the other directories as they were.
LEMMA OthersClaimed ==
    ASSUME TypeOK, NEW d \in OutDirs, NEW docs, Put(d, "marker", docs), UNCHANGED commits
    PROVE  \A e \in OutDirs : e # d => (e \in Claimed' <=> e \in Claimed)
<1>1. \A e \in OutDirs : e # d => File(e, "marker")' = File(e, "marker")
    BY FileAfterPut DEF Kinds
<1>2. \A e \in OutDirs : InHistory(e)' <=> InHistory(e)
    BY DEF InHistory
<1> QED
    BY <1>1, <1>2 DEF Claimed, Unclaimed

\* The creation of the marker, whole or torn, claims the directory.
LEMMA ClosingClaims ==
    ASSUME OperatorWaits, ClaimInv, [Next]_vars, NEW p \in Procs, Closing(p),
           NEW d \in OutDirs, d = dir[p]
    PROVE  Claims!Claim(d)
<1>1. TypeOK /\ d \in OutDirs /\ pc \in [Procs -> Pcs] /\ pc[p] = "loading" /\ "marker" \in Kinds
    BY DEF ClaimInv, TypeOK, Closing, ClaimHoldout, Kinds
<1>2. File(d, "marker") = {} /\ UNCHANGED <<commits, evaluated, lost>>
  <2>1. CASE ClaimHoldout(p)
      BY <2>1 DEF ClaimHoldout
  <2>2. CASE CrashWriting(p)
      BY <1>1, <2>2 DEF CrashWriting, Writes
  <2> QED
      BY <2>1, <2>2 DEF Closing
<1>3. PICK docs : Put(d, "marker", docs) /\ docs # {}
  <2>1. CASE ClaimHoldout(p)
    <3>1. StartedMarkers(p) # {}
        BY <1>1 DEF ClaimInv, LoadingInv, StartedMarkers
    <3> QED
        BY <2>1, <3>1 DEF ClaimHoldout
  <2>2. CASE CrashWriting(p)
    <3>1. PICK kind \in Writes(p) : Put(d, kind, {Torn})
        BY <2>2 DEF CrashWriting
    <3>2. kind = "marker"
        BY <1>1 DEF Writes
    <3> QED
        BY <3>1, <3>2
  <2> QED
      BY <2>1, <2>2 DEF Closing
<1>4. d \notin Claimed
    BY <1>1, <1>2 DEF Claimed, Unclaimed, ClaimInv, LoadingInv
<1>5. File(d, "marker")' # {}
    BY <1>1, <1>3, FileAfterPut
<1>6. Claimed' = Claimed \cup {d}
  <2>1. d \in Claimed'
      BY <1>5 DEF Claimed, Unclaimed
  <2>2. \A e \in OutDirs : e # d => (e \in Claimed' <=> e \in Claimed)
      BY <1>1, <1>2, <1>3, OthersClaimed
  <2>3. Claimed \subseteq OutDirs /\ Claimed' \subseteq OutDirs
      BY DEF Claimed
  <2> QED
      BY <2>1, <2>2, <2>3
<1>7. Evaluating' \in {Evaluating, Evaluating \cup {d}}
  <2>1. CASE ClaimHoldout(p)
    <3>1. pc' = [pc EXCEPT ![p] = "evaluate"] /\ dir' = dir
        BY <2>1 DEF ClaimHoldout, Goto
    <3>2. \A q \in Procs : pc'[q] = "evaluate" <=> (pc[q] = "evaluate" \/ q = p)
        BY <1>1, <3>1
    <3> QED
        BY <3>1, <3>2 DEF Evaluating
  <2>2. CASE CrashWriting(p)
    <3>1. \A q \in Procs : pc'[q] = "evaluate" <=> pc[q] = "evaluate"
        BY <1>1, <2>2 DEF CrashWriting, Exit
    <3>2. \A q \in Procs : pc[q] = "evaluate" => dir'[q] = dir[q]
        BY <1>1, <2>2 DEF CrashWriting, Exit, TypeOK
    <3> QED
        BY <3>1, <3>2 DEF Evaluating
  <2> QED
      BY <2>1, <2>2 DEF Closing
<1>8. (\A e \in OutDirs : EvaluationsIn(e)' = EvaluationsIn(e)) /\ UNCHANGED lost
    BY <1>2 DEF EvaluationsIn
<1> QED
    BY <1>4, <1>6, <1>7, <1>8 DEF Claims!Claim

\* An evaluation, and the death of a process that would have evaluated.
LEMMA EvaluationCounts ==
    ASSUME ClaimInv, [Next]_vars, NEW p \in Procs, Evaluate(p) \/ Leaving(p)
    PROVE  Claims!Evaluate(dir[p]) \/ Claims!Abandon(dir[p])
<1> DEFINE d == dir[p]
           count == [e \in OutDirs |-> Cardinality(EvaluationsIn(e))]
<1>1. TypeOK /\ d \in OutDirs /\ pc \in [Procs -> Pcs] /\ pc[p] = "evaluate"
    BY DEF ClaimInv, TypeOK, Evaluate, Leaving
<1>2. UNCHANGED <<tree, commits, lost>>
    BY DEF Evaluate, Leaving, Crash
<1>3. Claimed' = Claimed
    BY <1>2 DEF Claimed, Unclaimed, File, InHistory
<1>4. d \in Evaluating /\ Evaluating' = Evaluating \ {d}
  <2>1. pc'[p] # "evaluate" /\ \A q \in Procs : q # p => pc'[q] = pc[q] /\ dir'[q] = dir[q]
    <3>1. CASE Evaluate(p)
        BY <1>1, <3>1 DEF Evaluate, Goto
    <3>2. CASE Leaving(p)
        BY <1>1, <3>2 DEF Leaving, Crash, Exit, TypeOK
    <3> QED
        BY <3>1, <3>2
  <2> QED
      BY <1>1, <2>1, EvaluatingShrinks
<1>5. CASE Leaving(p)
  <2>1. \A e \in OutDirs : EvaluationsIn(e)' = EvaluationsIn(e)
      BY <1>5 DEF Leaving, Crash, EvaluationsIn
  <2> QED
      BY <1>2, <1>3, <1>4, <2>1 DEF Claims!Abandon
<1>6. CASE Evaluate(p)
  <2>1. ASSUME NEW q \in Procs, Evaluate(q) PROVE q = p
      BY <1>1, <1>6, <2>1 DEF Evaluate, Goto
  <2>2. ASSUME NEW e \in OutDirs
        PROVE  Cardinality(EvaluationsIn(e)')
                   = IF e = d THEN Cardinality(EvaluationsIn(e)) + 1
                              ELSE Cardinality(EvaluationsIn(e))
    <3>1. CASE e # d
        BY <1>1, <2>1, <3>1, EvaluationsCounted
    <3>2. CASE e = d
      <4>1. PICK x : x.dir = d /\ evaluated' = Append(evaluated, x)
          BY <1>6 DEF Evaluate, EvaluationsBy
      <4> QED
          BY <1>1, <3>2, <4>1, EvaluationAdds
    <3> QED
        BY <3>1, <3>2
  <2>3. count' = [count EXCEPT ![d] = @ + 1]
      BY <1>1, <2>2
  <2> QED
      BY <1>2, <1>3, <1>4, <2>3 DEF Claims!Evaluate
<1> QED
    BY <1>5, <1>6

\* A marker that is deleted before it was committed is a claim forgotten.
LEMMA ForgettingForgets ==
    ASSUME OperatorWaits, ClaimInv, NEW d \in OutDirs, Forgetting(d)
    PROVE  Claims!Forget(d)
<1>1. TypeOK /\ "marker" \in Kinds
    BY DEF ClaimInv, Kinds
<1>2. /\ File(d, "marker") # {} /\ ~InHistory(d) /\ Put(d, "marker", {})
      /\ UNCHANGED <<commits, process, evaluated>>
    BY DEF Forgetting, Delete
<1>3. d \in Claimed
    BY <1>2 DEF Claimed, Unclaimed
<1>4. d \notin Evaluating
    BY DEF Forgetting, Delete, Undisturbed, Running, Evaluating
<1>5. Claimed' = Claimed \ {d}
  <2>1. d \notin Claimed'
    <3>1. File(d, "marker")' = {}
        BY <1>1, <1>2, FileAfterPut
    <3> QED
        BY <1>2, <3>1 DEF Claimed, Unclaimed, InHistory
  <2>2. \A e \in OutDirs : e # d => (e \in Claimed' <=> e \in Claimed)
      BY <1>1, <1>2, OthersClaimed
  <2>3. Claimed \subseteq OutDirs /\ Claimed' \subseteq OutDirs
      BY DEF Claimed
  <2> QED
      BY <2>1, <2>2, <2>3
<1>6. Evaluating' = Evaluating /\ \A e \in OutDirs : EvaluationsIn(e)' = EvaluationsIn(e)
    BY <1>2 DEF process, Evaluating, EvaluationsIn
<1>7. lost' = [lost EXCEPT ![d] = @ + 1]
    BY DEF Forgetting, Delete
<1> QED
    BY <1>3, <1>4, <1>5, <1>6, <1>7 DEF Claims!Forget

\* Every other step is none of OneShotClaim's business.
LEMMA UnseenStutters ==
    ASSUME OperatorWaits, ClaimInv, [Next]_vars, Unseen
    PROVE  /\ Claimed' = Claimed /\ Evaluating' = Evaluating /\ lost' = lost
           /\ \A d \in OutDirs : EvaluationsIn(d)' = EvaluationsIn(d)
<1>1. TypeOK
    BY DEF ClaimInv
<1>2. Claimed' = Claimed
    BY ClaimedSources DEF Unseen, Claimed
<1>3. Evaluating' = Evaluating
  <2>1. ASSUME NEW p \in Procs
        PROVE  /\ pc[p] = "evaluate" <=> pc'[p] = "evaluate"
               /\ pc[p] = "evaluate" => dir'[p] = dir[p]
      BY <1>1, EvaluatingSources DEF Unseen, Closing
  <2>2. ASSUME NEW d \in Evaluating PROVE d \in Evaluating'
    <3>1. PICK p \in Procs : pc[p] = "evaluate" /\ dir[p] = d
        BY <2>2 DEF Evaluating
    <3> QED
        BY <2>1, <3>1 DEF Evaluating
  <2>3. ASSUME NEW d \in Evaluating' PROVE d \in Evaluating
    <3>1. PICK p \in Procs : pc'[p] = "evaluate" /\ dir'[p] = d
        BY <2>3 DEF Evaluating
    <3> QED
        BY <2>1, <3>1 DEF Evaluating
  <2> QED
      BY <2>2, <2>3
<1>4. lost' = lost
  <2>1. ASSUME NEW e \in OutDirs, NEW kind \in {"freeze", "marker"}, Delete(e, kind)
        PROVE  lost' = lost
      BY <2>1 DEF Delete, Unseen, Forgetting
  <2> QED
      BY <2>1
      DEF Next, vars, StartDev, StartHoldout, SaveDev, LoadFails, ClaimHoldout, ClaimRefused,
          Evaluate, SaveResults, CompleteHoldout, Crash, CrashWriting, FreezeSelection,
          Operator, EditCode, Commit, Checkout
<1>5. evaluated' = evaluated
    BY DEF Unseen, Next, vars, StartDev, StartHoldout, SaveDev, LoadFails, ClaimHoldout,
           ClaimRefused, SaveResults, CompleteHoldout, Crash, CrashWriting, FreezeSelection,
           Operator, EditCode, Commit, Checkout, Delete
<1> QED
    BY <1>2, <1>3, <1>4, <1>5 DEF EvaluationsIn

\* protocol.py: "the holdout is evaluated exactly once".  Past its own files, its
\* processes and git, the holdout step is the claim of OneShotClaim: who evaluates holds
\* the directory's one claim, and a claim is undone only by a marker that is forgotten.
THEOREM HoldoutImplementsOneShot == OperatorWaits => (Spec => ImplementsOneShot)
<1> SUFFICES ASSUME OperatorWaits PROVE Spec => ImplementsOneShot
    OBVIOUS
<1>1. Init => Claims!Init
  <2> SUFFICES ASSUME Init PROVE Claims!Init
      OBVIOUS
  <2>1. ASSUME NEW d \in OutDirs PROVE Unclaimed(d)
    <3>1. <<d, "marker">> \in Paths
        BY DEF Paths, Kinds
    <3> QED
        BY <3>1 DEF Init, Unclaimed, File, InHistory
  <2>2. \A d \in OutDirs : EvaluationsIn(d) = {}
      BY DEF Init, EvaluationsIn
  <2>3. Evaluating = {}
      BY DEF Init, Evaluating
  <2> QED
      BY <2>1, <2>2, <2>3, FS_EmptySet DEF Init, Claims!Init, Claimed
<1>2. ClaimInv /\ [Next]_vars
      => [Claims!Next]_<<Claimed, Evaluating,
                         [d \in OutDirs |-> Cardinality(EvaluationsIn(d))], lost>>
  <2> SUFFICES ASSUME ClaimInv, [Next]_vars
               PROVE  \/ Claims!Next
                      \/ UNCHANGED <<Claimed, Evaluating,
                                     [d \in OutDirs |-> Cardinality(EvaluationsIn(d))], lost>>
      OBVIOUS
  <2>0. \A p \in Procs : dir[p] \in OutDirs
      BY DEF ClaimInv, TypeOK
  <2>1. ASSUME NEW p \in Procs, Closing(p) PROVE Claims!Next
      BY <2>0, <2>1, ClosingClaims DEF Claims!Next
  <2>2. ASSUME NEW p \in Procs, Evaluate(p) \/ Leaving(p) PROVE Claims!Next
      BY <2>0, <2>2, EvaluationCounts DEF Claims!Next
  <2>3. ASSUME NEW d \in OutDirs, Forgetting(d) PROVE Claims!Next
      BY <2>3, ForgettingForgets DEF Claims!Next
  <2>4. CASE Unseen
      BY <2>4, UnseenStutters
  <2> QED
      BY <2>1, <2>2, <2>3, <2>4 DEF Unseen
<1>3. Spec => []ClaimInv
    BY ClaimInductive
<1> QED
    BY <1>1, <1>2, <1>3, PTL DEF Spec, ImplementsOneShot, Claims!Spec
=============================================================================
