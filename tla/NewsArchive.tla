---------------------------- MODULE NewsArchive ----------------------------
(***************************************************************************)
(* The news archive and its score caches: scripts/build_news_archive.py    *)
(* writes one file per ticker and day; score_archive, merge_caches and the *)
(* point-in-time reader fill one score cache per ticker.  Processes run at *)
(* the same time, are interrupted, fail to write, or are killed.           *)
(*                                                                         *)
(* An article stands for its URL and its text: articles that share a URL   *)
(* and differ in text are not modelled.  A score is "fits" when it is the  *)
(* one FinBERT gives that text, within the tolerance, and "differs" when   *)
(* it is not.  A read of a ticker's files is one step; opening a file,     *)
(* filling it and renaming it are three, so that two writers may meet.     *)
(***************************************************************************)
EXTENDS Integers, FiniteSets

CONSTANTS
    Tickers,
    Articles,
    TaggedWith,         \* the tickers an article is tagged with
    DayOf,              \* the UTC day it is published on
    Incoming,           \* caches made elsewhere, that --merge-from may name
    BatchSize,
    FlushTexts,
    Procs,              \* processes, each started once
    WritersApart,       \* is there one writer of a ticker's files at a time?
    MaxInterrupts,      \* bound on interrupts and failing writes
    MaxCrashes          \* bound on processes killed

Days == {DayOf[a] : a \in Articles}

Scores == {"fits", "differs"}

\* A cache in memory: the articles scored, and their scores.
Caches == UNION {[S -> Scores] : S \in SUBSET Articles}

NoScores == [a \in {} |-> "fits"]

\* A cache made elsewhere may hold what is no score, and one that is corrupt holds only that.
ForeignCaches == UNION {[S -> Scores \cup {"invalid"}] : S \in SUBSET Articles}

ASSUME ArchiveAssumption ==
    /\ IsFiniteSet(Articles)
    /\ TaggedWith \in [Articles -> SUBSET Tickers]
    /\ DayOf \in [Articles -> Nat]
    /\ Incoming \subseteq [Tickers -> ForeignCaches]
    /\ WritersApart \in BOOLEAN
    /\ BatchSize \in Nat \ {0} /\ FlushTexts \in Nat \ {0}
    /\ MaxInterrupts \in Nat /\ MaxCrashes \in Nat

(***************************************************************************)
(* A file is a set: empty when there is none, else its one document, which *)
(* is Torn from the open that truncates it until it is written.  Text that *)
(* is written over another writer's may leave the end of that behind.      *)
(***************************************************************************)
Torn == [torn |-> TRUE]

Dumped(old, doc) == IF old = {Torn} THEN {{doc}} ELSE {{doc}, {Torn}}

DayDocs == [articles : SUBSET Articles]
CacheDocs == [scores : Caches]

VARIABLES
    published,          \* articles the news source has by now
    raw,                \* data/raw/news: a file per ticker and day
    cache,              \* data/processed/news_scores: a file per ticker
    tmp,                \* the temporary file a cache is written to
    proc,               \* what each process has in memory
    interrupts,
    crashes

files == <<raw, cache, tmp>>
bounds == <<interrupts, crashes>>
vars == <<published, files, proc, bounds>>

Off == [pc |-> "idle", job |-> "none", tickers |-> {}, left |-> {},
        mem |-> [t \in Tickers |-> NoScores], seen |-> [t \in Tickers |-> {}],
        todo |-> {}, scores |-> {}, since |-> 0, saving |-> {}, file |-> "tmp", final |-> "no",
        source |-> [t \in Tickers |-> NoScores]]

Ended == {"idle", "done", "failed", "cut"}

\* The files of a build that has run to its end.
Built(known) ==
    [t \in Tickers |-> [d \in Days |->
        LET found == {a \in known : t \in TaggedWith[a] /\ DayOf[a] = d}
        IN  IF found = {} THEN {} ELSE {[articles |-> found]}]]

\* Nothing yet, or the archive as an earlier build left it.
Init ==
    /\ published \in SUBSET Articles
    /\ \A a \in published, b \in Articles \ published : DayOf[a] <= DayOf[b]
    /\ raw \in {Built({}), Built(published)}
    /\ cache = [t \in Tickers |-> {}]
    /\ tmp = [t \in Tickers |-> {}]
    /\ proc = [p \in Procs |-> Off]
    /\ interrupts = 0
    /\ crashes = 0

\* The processes that write a ticker's raw files, and those that write its cache.
Builds(q, t) == proc[q].job = "build" /\ proc[q].pc \notin Ended /\ t \in proc[q].tickers
Fills(q, t) == proc[q].job \in {"score", "merge", "read"} /\ proc[q].pc \notin Ended /\ t \in proc[q].tickers

(***************************************************************************)
(* Nothing in the code keeps two writers of one ticker's files apart.  An  *)
(* operator who does so (WritersApart) still runs writers of different     *)
(* tickers, and a builder beside a scorer, at the same time.               *)
(***************************************************************************)
Starts(p, record) ==
    /\ proc[p].pc = "idle"
    /\ WritersApart =>
          \A t \in record.tickers, q \in Procs :
             IF record.job = "build" THEN ~Builds(q, t) ELSE ~Fills(q, t)
    /\ proc' = [proc EXCEPT ![p] = record]
    /\ UNCHANGED <<published, files, bounds>>

\* What a process that ended still tells: why, what it scored and for whom.
Over(p, why) == [Off EXCEPT !.pc = why, !.job = proc[p].job, !.seen = proc[p].seen, !.scores = proc[p].scores]

Ends(p, why) == proc' = [proc EXCEPT ![p] = Over(p, why)]

Archived(t) == UNION {UNION {doc.articles : doc \in raw[t][d]} : d \in Days}

\* read_all and _load_score_cache raise on a torn file.
Unreadable(t) == Torn \in cache[t] \cup UNION {raw[t][d] : d \in Days}

OnDisk(t) == IF cache[t] = {} THEN NoScores ELSE (CHOOSE doc \in cache[t] : TRUE).scores

\* `f` with the entries of `g` it lacks.
Extended(f, g) == [a \in DOMAIN f \cup DOMAIN g |-> IF a \in DOMAIN f THEN f[a] ELSE g[a]]

-----------------------------------------------------------------------------
(***************************************************************************)
(* scripts/build_news_archive.py.                                          *)
(***************************************************************************)
Publish ==
    /\ \E a \in Articles \ published :
          /\ \A b \in published : DayOf[b] <= DayOf[a]
          /\ published' = published \cup {a}
    /\ UNCHANGED <<files, proc, bounds>>

\* What the source returns lies between --start and --end.
StartBuild(p) ==
    \E t \in Tickers, from, to \in Days :
        LET fetched == {a \in published : t \in TaggedWith[a] /\ from <= DayOf[a] /\ DayOf[a] <= to}
        IN  Starts(p, [Off EXCEPT !.pc = "days", !.job = "build", !.tickers = {t}, !.seen[t] = fetched])

FetchedOn(p, t, d) == {a \in proc[p].seen[t] : DayOf[a] = d}

IsNextDay(p, t, d) ==
    /\ t \in proc[p].tickers
    /\ FetchedOn(p, t, d) # {}
    /\ \A a \in proc[p].seen[t] : d <= DayOf[a]

\* A mutation: a day that exists is written again.
Exists_Rewritten(t, d) == FALSE

Exists(t, d) == raw[t][d] # {}

NextDay(p, t, d) == [proc[p] EXCEPT !.pc = "days", !.seen[t] = @ \ FetchedOn(p, t, d)]

SkipDay(p) ==
    /\ proc[p].pc = "days"
    /\ \E t \in Tickers, d \in Days :
          /\ IsNextDay(p, t, d) /\ Exists(t, d)
          /\ proc' = [proc EXCEPT ![p] = NextDay(p, t, d)]
    /\ UNCHANGED <<published, files, bounds>>

\* The day's file is looked for, then opened: another build may come between.
CheckDay(p) ==
    /\ proc[p].pc = "days"
    /\ \E t \in Tickers, d \in Days : IsNextDay(p, t, d) /\ ~Exists(t, d)
    /\ proc' = [proc EXCEPT ![p].pc = "open"]
    /\ UNCHANGED <<published, files, bounds>>

OpenDay(p) ==
    /\ proc[p].pc = "open"
    /\ \E t \in Tickers, d \in Days :
          IsNextDay(p, t, d) /\ raw' = [raw EXCEPT ![t][d] = {Torn}]
    /\ proc' = [proc EXCEPT ![p].pc = "writing"]
    /\ UNCHANGED <<published, cache, tmp, bounds>>

DumpDay(p) ==
    /\ proc[p].pc = "writing"
    /\ \E t \in Tickers, d \in Days :
          /\ IsNextDay(p, t, d)
          /\ \E text \in Dumped(raw[t][d], [articles |-> FetchedOn(p, t, d)]) :
                raw' = [raw EXCEPT ![t][d] = text]
          /\ proc' = [proc EXCEPT ![p] = NextDay(p, t, d)]
    /\ UNCHANGED <<published, cache, tmp, bounds>>

EndBuild(p) ==
    /\ proc[p].pc = "days" /\ \A t \in proc[p].tickers : proc[p].seen[t] = {}
    /\ Ends(p, "done")
    /\ UNCHANGED <<published, files, bounds>>

-----------------------------------------------------------------------------
(***************************************************************************)
(* How a run ends that is interrupted, or in which a call raises: a        *)
(* scoring run goes through its last flush, unless it is in it; everything *)
(* else just ends.                                                         *)
(***************************************************************************)
\* flush is entered: "no" when it is a periodic one, else how the run ends after it.
EnterFlush(p, final) == [proc[p] EXCEPT !.pc = "flush", !.left = proc[p].tickers, !.saving = {}, !.final = final]

Breaks(p) ==
    IF proc[p].job = "score" /\ proc[p].pc # "load" /\ proc[p].final = "no"
    THEN proc' = [proc EXCEPT ![p] = EnterFlush(p, "failed")]
    ELSE Ends(p, "cut")

(***************************************************************************)
(* _save_score_cache: open the temporary file, dump and fsync, replace.    *)
(* Every process names a ticker's temporary file alike.  A file that is    *)
(* open stays the same when its name changes, so a dump goes to where that *)
(* file is by then: still "tmp", the "cache" itself, or "lost".            *)
(***************************************************************************)
Saves(p, t, mem) == [proc[p] EXCEPT !.pc = "save", !.mem[t] = mem, !.saving = {t}, !.left = @ \ {t}]

\* A mutation: the cache is opened itself.
OpenTmp_InPlace(p) ==
    /\ proc[p].pc = "save"
    /\ \E t \in proc[p].saving : cache' = [cache EXCEPT ![t] = {Torn}]
    /\ proc' = [proc EXCEPT ![p].pc = "dump", ![p].file = "cache"]
    /\ UNCHANGED <<published, raw, tmp, bounds>>

OpenTmp(p) ==
    /\ proc[p].pc = "save"
    /\ \E t \in proc[p].saving : tmp' = [tmp EXCEPT ![t] = {Torn}]
    /\ proc' = [proc EXCEPT ![p].pc = "dump", ![p].file = "tmp"]
    /\ UNCHANGED <<published, raw, cache, bounds>>

DumpTmp(p) ==
    /\ proc[p].pc = "dump"
    /\ \E t \in proc[p].saving :
          LET doc == [scores |-> proc[p].mem[t]]
          IN  \/ /\ proc[p].file = "tmp"
                 /\ \E text \in Dumped(tmp[t], doc) : tmp' = [tmp EXCEPT ![t] = text]
                 /\ UNCHANGED cache
              \/ /\ proc[p].file = "cache"
                 /\ \E text \in Dumped(cache[t], doc) : cache' = [cache EXCEPT ![t] = text]
                 /\ UNCHANGED tmp
              \/ /\ proc[p].file = "lost"
                 /\ UNCHANGED <<cache, tmp>>
    /\ proc' = [proc EXCEPT ![p].pc = "replace"]
    /\ UNCHANGED <<published, raw, bounds>>

\* Where the save was called from.
Caller(job) == CASE job = "score" -> "flush" [] job = "merge" -> "merge" [] job = "read" -> "serve"

\* What a process has open for a ticker when the temporary file gets the cache's name.
Renamed(q, t) ==
    IF proc[q].pc = "dump" /\ t \in proc[q].saving
    THEN [proc[q] EXCEPT !.file = IF @ = "tmp" THEN "cache" ELSE "lost"]
    ELSE proc[q]

Replace(p) ==
    /\ proc[p].pc = "replace"
    /\ \E t \in proc[p].saving :
          /\ cache' = [cache EXCEPT ![t] = tmp[t]]
          /\ tmp' = [tmp EXCEPT ![t] = {}]
          /\ proc' = [q \in Procs |->
                        IF q = p
                        THEN [proc[p] EXCEPT !.pc = Caller(proc[p].job), !.saving = {}]
                        ELSE Renamed(q, t)]
    /\ UNCHANGED <<published, raw, bounds>>

ReplaceFails(p) ==
    /\ proc[p].pc = "replace"
    /\ Breaks(p)
    /\ UNCHANGED <<published, files, bounds>>

\* os.replace raises when another process has renamed the temporary file.
Rename(p) == IF \A t \in proc[p].saving : tmp[t] = {} THEN ReplaceFails(p) ELSE Replace(p)

-----------------------------------------------------------------------------
(***************************************************************************)
(* score_archive, without --since and --max-articles.                      *)
(***************************************************************************)
StartScore(p) ==
    \E T \in (SUBSET Tickers) \ {{}} :
        Starts(p, [Off EXCEPT !.pc = "load", !.job = "score", !.tickers = T, !.left = T])

Load(p) ==
    /\ proc[p].pc = "load"
    /\ \E t \in proc[p].left :
          IF Unreadable(t)
          THEN Ends(p, "failed")
          ELSE proc' = [proc EXCEPT ![p].left = @ \ {t}, ![p].mem[t] = OnDisk(t), ![p].seen[t] = Archived(t)]
    /\ UNCHANGED <<published, files, bounds>>

\* What some ticker's cache held when the run started, or got in it since.
Known(p) == UNION {DOMAIN proc[p].mem[t] : t \in proc[p].tickers}

Todo(p) ==
    /\ proc[p].pc = "load" /\ proc[p].left = {}
    /\ proc' = [proc EXCEPT ![p].pc = "score",
                            ![p].todo = (UNION {proc[p].seen[t] : t \in proc[p].tickers}) \ Known(p)]
    /\ UNCHANGED <<published, files, bounds>>

\* A mutation: the counter is not reset after a flush.
ScoreBatch_Counts(p) ==
    /\ proc[p].pc = "score"
    /\ \E batch \in (SUBSET proc[p].todo) \ {{}} :
          /\ Cardinality(batch) <= BatchSize
          /\ proc' = [proc EXCEPT ![p].todo = @ \ batch, ![p].scores = @ \cup batch,
                                  ![p].since = @ + Cardinality(batch),
                                  ![p].pc = IF proc[p].since + Cardinality(batch) >= FlushTexts THEN "flush" ELSE "score",
                                  ![p].left = proc[p].tickers]
    /\ UNCHANGED <<published, files, bounds>>

\* The batches follow the texts' lengths, which may be in any order.
ScoreBatch(p) ==
    /\ proc[p].pc = "score"
    /\ \E batch \in (SUBSET proc[p].todo) \ {{}} :
          /\ Cardinality(batch) <= BatchSize
          /\ proc[p].todo = batch \/ Cardinality(batch) = BatchSize
          /\ LET since == proc[p].since + Cardinality(batch)
                 scored == [proc[p] EXCEPT !.todo = @ \ batch, !.scores = @ \cup batch]
             IN  proc' = [proc EXCEPT ![p] =
                            IF since >= FlushTexts
                            THEN [scored EXCEPT !.pc = "flush", !.left = proc[p].tickers, !.since = 0]
                            ELSE [scored EXCEPT !.since = since]]
    /\ UNCHANGED <<published, files, bounds>>

ScoredAll(p) ==
    /\ proc[p].pc = "score" /\ proc[p].todo = {}
    /\ proc' = [proc EXCEPT ![p] = EnterFlush(p, "done")]
    /\ UNCHANGED <<published, files, bounds>>

\* score_fn raises, or returns a wrong number of scores or one out of range.
ScoreFails(p) ==
    /\ proc[p].pc = "score" /\ proc[p].todo # {}
    /\ proc' = [proc EXCEPT ![p] = EnterFlush(p, "failed")]
    /\ UNCHANGED <<published, files, bounds>>

\* A mutation: a score known under another ticker is not copied.
New_Fresh(p, t) == (proc[p].seen[t] \ DOMAIN proc[p].mem[t]) \cap proc[p].scores

\* What a flush has for a ticker: fresh scores, and scores known under another ticker.
New(p, t) == (proc[p].seen[t] \ DOMAIN proc[p].mem[t]) \cap (proc[p].scores \cup Known(p))

\* What score_fn makes of an article's text.
Fresh(a) == {"fits"}

Flush(p) ==
    /\ proc[p].pc = "flush"
    /\ \E t \in proc[p].left :
          IF New(p, t) = {}
          THEN proc' = [proc EXCEPT ![p].left = @ \ {t}]
          ELSE \E got \in [New(p, t) -> Scores] :
                  /\ \A a \in New(p, t) :
                        IF a \in proc[p].scores
                        THEN got[a] \in Fresh(a)
                        ELSE \E u \in proc[p].tickers : a \in DOMAIN proc[p].mem[u] /\ got[a] = proc[p].mem[u][a]
                  /\ proc' = [proc EXCEPT ![p] = Saves(p, t, Extended(proc[p].mem[t], got))]
    /\ UNCHANGED <<published, files, bounds>>

EndFlush(p) ==
    /\ proc[p].pc = "flush" /\ proc[p].left = {}
    /\ IF proc[p].final = "no" THEN proc' = [proc EXCEPT ![p].pc = "score"] ELSE Ends(p, proc[p].final)
    /\ UNCHANGED <<published, files, bounds>>

-----------------------------------------------------------------------------
(***************************************************************************)
(* merge_caches, and the reader a dataset is built with.                   *)
(***************************************************************************)
StartMerge(p) ==
    \E T \in (SUBSET Tickers) \ {{}}, source \in Incoming :
        Starts(p, [Off EXCEPT !.pc = "merge", !.job = "merge", !.tickers = T, !.left = T, !.source = source])

Merged(local, incoming) == Extended(local, incoming)

IsValid(incoming) == \A a \in DOMAIN incoming : incoming[a] \in Scores

Agrees(local, incoming) == \A a \in DOMAIN local \cap DOMAIN incoming : local[a] = incoming[a]

MergeTicker(p) ==
    /\ proc[p].pc = "merge"
    /\ \E t \in proc[p].left :
          LET incoming == proc[p].source[t]
          IN  IF incoming = NoScores
              THEN proc' = [proc EXCEPT ![p].left = @ \ {t}]
              ELSE IF ~IsValid(incoming) \/ Torn \in cache[t] \/ ~Agrees(OnDisk(t), incoming)
              THEN Ends(p, "failed")
              ELSE proc' = [proc EXCEPT ![p] = Saves(p, t, Merged(OnDisk(t), incoming))]
    /\ UNCHANGED <<published, files, bounds>>

EndMerge(p) ==
    /\ proc[p].pc = "merge" /\ proc[p].left = {}
    /\ Ends(p, "done")
    /\ UNCHANGED <<published, files, bounds>>

StartRead(p) ==
    \E t \in Tickers :
        IF Unreadable(t)
        THEN Starts(p, [Off EXCEPT !.pc = "failed", !.job = "read"])
        ELSE Starts(p, [Off EXCEPT !.pc = "serve", !.job = "read", !.tickers = {t},
                                   !.mem[t] = OnDisk(t), !.seen[t] = Archived(t)])

\* reader(as_of) scores what its lookback window lacks.
Serve(p) ==
    /\ proc[p].pc = "serve"
    /\ \E t \in proc[p].tickers, from, to \in Days :
          LET missing == {a \in proc[p].seen[t] : from <= DayOf[a] /\ DayOf[a] <= to} \ DOMAIN proc[p].mem[t]
          IN  /\ missing # {}
              /\ proc' = [proc EXCEPT ![p] = Saves(p, t, Extended(proc[p].mem[t], [a \in missing |-> "fits"]))]
    /\ UNCHANGED <<published, files, bounds>>

EndRead(p) ==
    /\ proc[p].pc = "serve"
    /\ Ends(p, "done")
    /\ UNCHANGED <<published, files, bounds>>

-----------------------------------------------------------------------------
(***************************************************************************)
(* Ctrl-C or a write that fails, anywhere, and a kill.                     *)
(***************************************************************************)
Interrupt(p) ==
    /\ proc[p].pc \notin Ended
    /\ interrupts < MaxInterrupts /\ interrupts' = interrupts + 1
    /\ Breaks(p)
    /\ UNCHANGED <<published, files, crashes>>

\* Killed: nothing runs after it.
Crash(p) ==
    /\ proc[p].pc \notin Ended
    /\ crashes < MaxCrashes /\ crashes' = crashes + 1
    /\ proc' = [proc EXCEPT ![p] = [Off EXCEPT !.pc = "cut"]]
    /\ UNCHANGED <<published, files, interrupts>>

Build(p) == StartBuild(p) \/ SkipDay(p) \/ CheckDay(p) \/ OpenDay(p) \/ DumpDay(p) \/ EndBuild(p)
Save(p) == OpenTmp(p) \/ DumpTmp(p) \/ Rename(p)
Score(p) ==
    \/ StartScore(p) \/ Load(p) \/ Todo(p) \/ ScoreBatch(p) \/ ScoredAll(p) \/ ScoreFails(p)
    \/ Flush(p) \/ EndFlush(p)
Merge(p) == StartMerge(p) \/ MergeTicker(p) \/ EndMerge(p)
Read(p) == StartRead(p) \/ Serve(p) \/ EndRead(p)

Next ==
    \/ Publish
    \/ \E p \in Procs : Build(p) \/ Save(p) \/ Score(p) \/ Merge(p) \/ Read(p) \/ Interrupt(p) \/ Crash(p)

Spec == Init /\ [][Next]_vars

-----------------------------------------------------------------------------
Files(docs) == {{}, {Torn}} \cup {{doc} : doc \in docs}

\* The types of the variables.
TypeOK ==
    /\ published \subseteq Articles
    /\ raw \in [Tickers -> [Days -> Files(DayDocs)]]
    /\ cache \in [Tickers -> Files(CacheDocs)]
    /\ tmp \in [Tickers -> Files(CacheDocs)]
    /\ interrupts \in 0..MaxInterrupts
    /\ crashes \in 0..MaxCrashes
    /\ \A p \in Procs :
          /\ proc[p].tickers \subseteq Tickers /\ proc[p].left \subseteq proc[p].tickers
          /\ \A t \in Tickers : proc[p].mem[t] \in Caches \cup {NoScores}
          /\ proc[p].scores \subseteq Articles
          /\ proc[p].since \in 0..(FlushTexts - 1)

\* What an article's score may be: FinBERT's, or one of a cache that may be merged in.
GivenTo(a) ==
    {"fits"} \cup UNION {{source[u][a] : u \in {v \in Tickers : a \in DOMAIN source[v]}} \cap Scores :
                            source \in Incoming}

(***************************************************************************)
(* Whatever is interrupted, fails or is killed between any two steps of    *)
(* the processes, a score cache on disk is never half written, as          *)
(* _save_score_cache says: no later run is refused because of it.  It      *)
(* needs WritersApart: two writers of a cache share its temporary file.    *)
(***************************************************************************)
CachesWhole == \A t \in Tickers : Torn \notin cache[t]

(***************************************************************************)
(* No step of a scorer, a merge or a reader loses a score that is on disk  *)
(* or puts another in its place, though each writes a whole cache from     *)
(* what it read earlier ("local entries are never lost").  It needs        *)
(* WritersApart: that a cache is not extended by another in between.       *)
(***************************************************************************)
ScoresKept ==
    [][\A t \in Tickers : \A old \in cache[t] \ {Torn}, new \in cache'[t] \ {Torn} :
          \A a \in DOMAIN old.scores : a \in DOMAIN new.scores /\ new.scores[a] = old.scores[a]]_vars

(***************************************************************************)
(* write_day: "data/raw is never overwritten".  The file of a day that was *)
(* written is never written again.  It needs WritersApart, since the file  *)
(* is opened some time after it was looked for.                            *)
(***************************************************************************)
RawWrittenOnce ==
    [][\A t \in Tickers, d \in Days : raw[t][d] \ {Torn} # {} => raw'[t][d] = raw[t][d]]_vars

(***************************************************************************)
(* cron_news_archive.sh: "re-running is safe".  What a build fetched is in *)
(* the archive once the build is past its day.                             *)
(***************************************************************************)
FetchedIsArchived ==
    [][\A p \in Procs, t \in Tickers : proc[p].job = "build" /\ proc'[p].job = "build" =>
          \A a \in proc[p].seen[t] \ proc'[p].seen[t] :
              \E doc \in raw'[t][DayOf[a]] \ {Torn} : a \in doc.articles]_vars

(***************************************************************************)
(* A scoring run that reports success has left a score on disk for every   *)
(* article it read, under every ticker that carries it, also when another  *)
(* ticker's cache already had it.                                          *)
(***************************************************************************)
DoneIsScored ==
    \A p \in Procs : proc[p].job = "score" /\ proc[p].pc = "done" =>
        \A t \in Tickers : proc[p].seen[t] \subseteq DOMAIN OnDisk(t)

(***************************************************************************)
(* The processes together implement the store that ScoreStore specifies:   *)
(* each score on disk is FinBERT's or that of a cache merged in, for good, *)
(* and a scoring run that reports success promises all it read.  What that *)
(* comes to here is ScoresKept and DoneIsScored.                           *)
(***************************************************************************)
Store == [k \in {i \in Tickers \X Articles : i[2] \in DOMAIN OnDisk(i[1])} |-> OnDisk(k[1])[k[2]]]

Promised ==
    {k \in Tickers \X Articles :
        \E p \in Procs : proc[p].job = "score" /\ proc[p].pc = "done" /\ k[2] \in proc[p].seen[k[1]]}

Contract == INSTANCE ScoreStore
    WITH Keys <- Tickers \X Articles, Given <- [k \in Tickers \X Articles |-> GivenTo(k[2])],
         store <- Store, promised <- Promised

ImplementsStore == Contract!Spec

(***************************************************************************)
(* archive_scoring.py, of the last flush: "an interrupt or error keeps     *)
(* every score computed so far".  A scoring run that failed or was         *)
(* interrupted, and then went through its last flush undisturbed, has left *)
(* every score it computed on disk.                                        *)
(***************************************************************************)
InterruptKeepsScores ==
    \A p \in Procs : proc[p].job = "score" /\ proc[p].pc = "failed" =>
        \A t \in Tickers : proc[p].seen[t] \cap proc[p].scores \subseteq DOMAIN OnDisk(t)
=============================================================================
