------------------------- MODULE NewsArchive_proofs -------------------------
(***************************************************************************)
(* Why a score cache on disk is whole, never loses a score, and holds what *)
(* a successful scoring run read, for every number of tickers, articles,   *)
(* processes, interrupts and crashes; and why a day is written once.       *)
(***************************************************************************)
EXTENDS NewsArchive, FiniteSetTheorems, TLAPS

-----------------------------------------------------------------------------
(***************************************************************************)
(* What a process may have in memory.                                      *)
(***************************************************************************)
Saving == {"save", "dump", "replace"}

Fillers == {"score", "merge", "read"}

Memory ==
    [pc : Ended \cup Saving \cup {"days", "open", "writing", "load", "score", "flush", "merge", "serve"},
     job : Fillers \cup {"none", "build"},
     tickers : SUBSET Tickers,
     left : SUBSET Tickers,
     mem : [Tickers -> Caches],
     seen : [Tickers -> SUBSET Articles],
     todo : SUBSET Articles,
     scores : SUBSET Articles,
     since : 0..(FlushTexts - 1),
     saving : SUBSET Tickers,
     file : {"tmp", "cache", "lost"},
     final : {"no", "done", "failed"},
     source : [Tickers -> ForeignCaches]]

\* Each point of the program belongs to a job, and a save is of one ticker.
AtItsJob(r) ==
    /\ r.pc \in {"days", "open", "writing"} => r.job = "build"
    /\ r.pc \in {"load", "score", "flush"} => r.job = "score"
    /\ r.pc = "merge" => r.job = "merge"
    /\ r.pc = "serve" => r.job = "read"
    /\ r.pc \in Saving => r.job \in Fillers
    /\ r.pc \notin Saving => r.saving = {}
    /\ r.left \subseteq r.tickers
    /\ r.saving \subseteq r.tickers
    /\ \A t, u \in r.saving : t = u
    /\ r.job = "build" => \A t, u \in r.tickers : t = u

Alive(r) == r.pc \notin Ended

\* Past the loading of a ticker, what a process knows of its cache is what was read.
HasLoaded(r, t) ==
    CASE r.job = "score" -> ~(r.pc = "load" /\ t \in r.left)
      [] r.job = "read"  -> TRUE
      [] r.job = "merge" -> t \in r.saving
      [] OTHER           -> FALSE

\* `f` has every score of `g`.
Keeps(f, g) == \A a \in DOMAIN g : a \in DOMAIN f /\ f[a] = g[a]

(***************************************************************************)
(* A scoring run accounts for every article it read: scored, to be scored, *)
(* or known under some ticker; before its last flush nothing is lost of it *)
(* and after a flush that ends it well, nothing is missing.                *)
(***************************************************************************)
Accounted(r) ==
    r.job = "score" /\ Alive(r) =>
        /\ \A t \in Tickers \ r.tickers : r.seen[t] = {}
        /\ r.pc \in {"load", "score"} => r.final = "no"
        /\ r.pc # "load" => \A t \in r.tickers : \A a \in r.seen[t] :
              \/ a \in r.scores \cup r.todo
              \/ \E u \in r.tickers : a \in DOMAIN r.mem[u]
        /\ r.final = "done" =>
              /\ r.todo = {}
              /\ \A t \in r.tickers \ r.left : r.seen[t] \subseteq DOMAIN r.mem[t]

\* What is in memory is on disk, or about to be; what is open is the temporary file.
CacheLinked(r) ==
    Alive(r) =>
        /\ r.pc = "dump" => r.file = "tmp" /\ \A t \in r.saving : tmp[t] = {Torn}
        /\ r.pc = "replace" => \A t \in r.saving : tmp[t] = {[scores |-> r.mem[t]]}
        /\ \A t \in r.tickers : HasLoaded(r, t) => Keeps(r.mem[t], OnDisk(t))
        /\ r.job = "score" /\ r.final # "failed" =>
              \A t \in r.tickers \ r.saving : HasLoaded(r, t) => r.mem[t] = OnDisk(t)

\* The next day of a builder that found no file has none yet, and a torn one once it is open.
RawLinked(r) ==
    r.pc \in {"open", "writing"} => \A t \in r.tickers, d \in Days :
        (\E a \in r.seen[t] : DayOf[a] = d) /\ (\A a \in r.seen[t] : d <= DayOf[a])
            => raw[t][d] = IF r.pc = "open" THEN {} ELSE {Torn}

SuccessScored(r) ==
    r.job = "score" /\ r.pc = "done" => \A t \in Tickers : r.seen[t] \subseteq DOMAIN OnDisk(t)

\* The operator keeps the writers of one ticker apart.
OneWriter ==
    \A p, q \in Procs, t \in Tickers :
        (Builds(p, t) /\ Builds(q, t)) \/ (Fills(p, t) /\ Fills(q, t)) => p = q

FilesType ==
    /\ published \subseteq Articles
    /\ raw \in [Tickers -> [Days -> Files(DayDocs)]]
    /\ cache \in [Tickers -> Files(CacheDocs)]
    /\ tmp \in [Tickers -> Files(CacheDocs)]
    /\ interrupts \in 0..MaxInterrupts
    /\ crashes \in 0..MaxCrashes

ArchiveInv ==
    /\ WritersApart
    /\ FilesType
    /\ proc \in [Procs -> Memory]
    /\ CachesWhole
    /\ OneWriter
    /\ \A p \in Procs :
          /\ AtItsJob(proc[p])
          /\ Accounted(proc[p])
          /\ CacheLinked(proc[p])
          /\ RawLinked(proc[p])
          /\ SuccessScored(proc[p])

-----------------------------------------------------------------------------
(***************************************************************************)
(* Caches.                                                                 *)
(***************************************************************************)
LEMMA NoScoresIsCache == NoScores \in Caches /\ DOMAIN NoScores = {}
<1>1. NoScores \in [{} -> Scores] /\ {} \in SUBSET Articles
    BY DEF NoScores, Scores
<1> QED
    BY <1>1 DEF Caches

\* A cache is a function on some of the articles.
LEMMA CacheIs ==
    ASSUME NEW f
    PROVE  f \in Caches <=> \E S \in SUBSET Articles : f \in [S -> Scores]
BY DEF Caches

\* Extending a cache keeps what it has.
LEMMA ExtendedCache ==
    ASSUME NEW f \in Caches, NEW g \in Caches
    PROVE  /\ Extended(f, g) \in Caches
           /\ DOMAIN Extended(f, g) = DOMAIN f \cup DOMAIN g
           /\ Keeps(Extended(f, g), f)
<1>1. PICK S \in SUBSET Articles : f \in [S -> Scores]
    BY CacheIs
<1>2. PICK T \in SUBSET Articles : g \in [T -> Scores]
    BY CacheIs
<1>3. Extended(f, g) \in [S \cup T -> Scores]
    BY <1>1, <1>2 DEF Extended
<1>4. S \cup T \in SUBSET Articles
    OBVIOUS
<1> QED
    BY <1>1, <1>2, <1>3, <1>4, CacheIs DEF Extended, Keeps

\* A cache made elsewhere that a merge does not refuse.
LEMMA ValidIsCache ==
    ASSUME NEW f \in ForeignCaches, IsValid(f)
    PROVE  f \in Caches
<1>1. PICK S \in SUBSET Articles : f \in [S -> Scores \cup {"invalid"}]
    BY DEF ForeignCaches
<1>2. f \in [S -> Scores]
    BY <1>1 DEF IsValid
<1> QED
    BY <1>1, <1>2, CacheIs

\* Keeping scores is transitive.
LEMMA KeepsTransitive ==
    ASSUME NEW f, NEW g, NEW h, Keeps(f, g), Keeps(g, h)
    PROVE  Keeps(f, h)
BY DEF Keeps

\* A cache keeps its own scores.
LEMMA KeepsItself == ASSUME NEW f PROVE Keeps(f, f)
BY DEF Keeps

\* What a cache file says, as a function of the file.
ScoresIn(file) == IF file = {} THEN NoScores ELSE (CHOOSE doc \in file : TRUE).scores

\* The scores on disk depend on the ticker's own file alone.
LEMMA OnDiskIs == \A t : OnDisk(t) = ScoresIn(cache[t]) /\ OnDisk(t)' = ScoresIn(cache'[t])
BY DEF OnDisk, ScoresIn

\* What a file of one document says.
LEMMA ScoresInOne == ASSUME NEW doc PROVE ScoresIn({doc}) = doc.scores
BY DEF ScoresIn

\* What the one document of a whole cache file says.
LEMMA OnDiskCache ==
    ASSUME FilesType, CachesWhole, NEW t \in Tickers
    PROVE  /\ OnDisk(t) \in Caches
           /\ cache[t] = {} \/ cache[t] = {[scores |-> OnDisk(t)]}
<1>1. cache[t] \in Files(CacheDocs) /\ Torn \notin cache[t]
    BY DEF FilesType, CachesWhole
<1>2. CASE cache[t] = {}
    BY <1>2, NoScoresIsCache DEF OnDisk
<1>3. ASSUME NEW doc \in CacheDocs, cache[t] = {doc}
      PROVE  OnDisk(t) \in Caches /\ cache[t] = {[scores |-> OnDisk(t)]}
  <2>1. OnDisk(t) = doc.scores
      BY <1>3 DEF OnDisk
  <2> QED
      BY <1>3, <2>1 DEF CacheDocs
<1> QED
    BY <1>1, <1>2, <1>3 DEF Files

-----------------------------------------------------------------------------
(***************************************************************************)
(* A step that leaves the files alone: what the process has in memory      *)
(* afterwards is all there is to check.                                    *)
(***************************************************************************)
Sound(r) ==
    /\ r \in Memory
    /\ AtItsJob(r)
    /\ Accounted(r)
    /\ CacheLinked(r)
    /\ RawLinked(r)
    /\ SuccessScored(r)

\* What the invariant says of one process.
LEMMA SoundNow ==
    ASSUME ArchiveInv, NEW p \in Procs
    PROVE  Sound(proc[p])
BY DEF ArchiveInv, Sound

\* Nobody else writes what the process p, with r in memory, may write.
Alone(p, r) ==
    \A q \in Procs \ {p}, t \in r.tickers :
        Alive(r) => /\ r.job = "build" => ~Builds(q, t)
                    /\ r.job \in Fillers => ~Fills(q, t)

\* A process that goes on with its job and its tickers, or ends, meets no new rival.
LEMMA StaysAlone ==
    ASSUME ArchiveInv, NEW p \in Procs, NEW r,
           Alive(r) => /\ Alive(proc[p])
                       /\ r.job = proc[p].job
                       /\ r.tickers = proc[p].tickers
    PROVE  Alone(p, r)
<1>1. proc[p].tickers \subseteq Tickers
    BY DEF ArchiveInv, Memory
<1> QED
    BY <1>1 DEF ArchiveInv, OneWriter, Alone, Builds, Fills, Alive, Fillers

\* A step of one process that stays alone leaves one writer to each ticker.
LEMMA OneWriterStep ==
    ASSUME ArchiveInv, NEW p \in Procs, NEW s \in Memory,
           proc' = [proc EXCEPT ![p] = s], Alone(p, s)
    PROVE  OneWriter'
<1>1. proc \in [Procs -> Memory] /\ OneWriter
    BY DEF ArchiveInv
<1>2. proc'[p] = s /\ \A q \in Procs \ {p} : proc'[q] = proc[q]
    BY <1>1
<1> SUFFICES ASSUME NEW q \in Procs, NEW u \in Procs, NEW t \in Tickers,
                    (Builds(q, t) /\ Builds(u, t))' \/ (Fills(q, t) /\ Fills(u, t))', q # u
             PROVE  FALSE
    BY DEF OneWriter
<1>3. ASSUME NEW v \in Procs \ {p}
      PROVE  (Builds(v, t)' => Builds(v, t)) /\ (Fills(v, t)' => Fills(v, t))
    BY <1>2 DEF Builds, Fills
<1>4. ASSUME NEW v \in Procs \ {p}
      PROVE  ~(Builds(p, t)' /\ Builds(v, t)) /\ ~(Fills(p, t)' /\ Fills(v, t))
    BY <1>2 DEF Alone, Builds, Fills, Alive, Fillers
<1> QED
    BY <1>1, <1>3, <1>4 DEF OneWriter

\* The invariant is kept by a step that writes no file and leaves its process sound and alone.
LEMMA QuietStep ==
    ASSUME ArchiveInv, FilesType', UNCHANGED files, NEW p \in Procs, NEW s,
           proc' = [proc EXCEPT ![p] = s], Sound(s), Alone(p, s)
    PROVE  ArchiveInv'
<1>1. proc \in [Procs -> Memory] /\ s \in Memory
    BY DEF ArchiveInv, Sound
<1>2. proc' \in [Procs -> Memory] /\ proc'[p] = s /\ \A q \in Procs \ {p} : proc'[q] = proc[q]
    BY <1>1
<1>3. \A r \in Memory : /\ CacheLinked(r) => CacheLinked(r)'
                        /\ RawLinked(r) => RawLinked(r)'
                        /\ SuccessScored(r) => SuccessScored(r)'
    BY DEF files, CacheLinked, RawLinked, SuccessScored, OnDisk
<1>4. CachesWhole'
    BY DEF ArchiveInv, CachesWhole, files
<1>5. OneWriter'
    BY <1>1, OneWriterStep
<1>6. ASSUME NEW q \in Procs
      PROVE  (/\ AtItsJob(proc[q])
              /\ Accounted(proc[q])
              /\ CacheLinked(proc[q])
              /\ RawLinked(proc[q])
              /\ SuccessScored(proc[q]))'
  <2>1. PICK r \in Memory : r = proc'[q]
      BY <1>2
  <2>2. Sound(r)
      BY <1>2, <2>1, SoundNow
  <2> QED
      BY <1>3, <2>1, <2>2 DEF Sound
<1> QED
    BY <1>2, <1>4, <1>5, <1>6 DEF ArchiveInv

\* A process that has not started has a memory of the right type.
LEMMA OffIsMemory == Off \in Memory
<1>1. [t \in Tickers |-> NoScores] \in [Tickers -> Caches]
    BY NoScoresIsCache
<1>2. [t \in Tickers |-> {}] \in [Tickers -> SUBSET Articles]
    OBVIOUS
<1>3. 0 \in 0..(FlushTexts - 1)
    BY ArchiveAssumption
<1>4. NoScores \in ForeignCaches
  <2>1. NoScores \in [{} -> Scores \cup {"invalid"}] /\ {} \in SUBSET Articles
      BY DEF NoScores, Scores
  <2> QED
      BY <2>1 DEF ForeignCaches
<1>5. [t \in Tickers |-> NoScores] \in [Tickers -> ForeignCaches]
    BY <1>4
<1> QED
    BY <1>1, <1>2, <1>3, <1>5 DEF Off, Memory, Ended

\* A process that ends tells only what it scored, and for whom.
LEMMA EndStep ==
    ASSUME ArchiveInv, FilesType', UNCHANGED files, NEW p \in Procs,
           NEW why \in {"done", "failed", "cut"}, Ends(p, why),
           why = "done" /\ proc[p].job = "score" =>
               \A t \in Tickers : proc[p].seen[t] \subseteq DOMAIN OnDisk(t)
    PROVE  ArchiveInv'
<1>1. PICK s : s = Over(p, why)
    OBVIOUS
<1>2. proc[p] \in Memory
    BY SoundNow DEF Sound
<1>3. /\ s \in Memory
      /\ s.pc = why /\ s.job = proc[p].job /\ s.seen = proc[p].seen
      /\ s.tickers = {} /\ s.left = {} /\ s.saving = {}
    BY <1>1, <1>2, OffIsMemory DEF Over, Memory, Ended, Off
<1>4. ~Alive(s)
    BY <1>3 DEF Alive, Ended
<1>5. AtItsJob(s)
    BY <1>3 DEF AtItsJob, Saving
<1>6. Accounted(s) /\ CacheLinked(s) /\ RawLinked(s) /\ SuccessScored(s)
    BY <1>3, <1>4 DEF Accounted, CacheLinked, RawLinked, SuccessScored
<1>7. Alone(p, s)
    BY <1>4, StaysAlone
<1> QED
    BY <1>1, <1>3, <1>5, <1>6, <1>7, QuietStep DEF Ends, Sound

\* A crash leaves nothing in memory.
LEMMA CrashStep ==
    ASSUME ArchiveInv, FilesType', NEW p \in Procs, Crash(p)
    PROVE  ArchiveInv'
<1>1. PICK s : s = [Off EXCEPT !.pc = "cut"]
    OBVIOUS
<1>2. /\ s \in Memory /\ s.pc = "cut" /\ s.job = "none"
      /\ s.tickers = {} /\ s.left = {} /\ s.saving = {}
    BY <1>1, OffIsMemory DEF Memory, Ended, Off
<1>3. ~Alive(s)
    BY <1>2 DEF Alive, Ended
<1>4. AtItsJob(s)
    BY <1>2 DEF AtItsJob, Saving
<1>5. Accounted(s) /\ CacheLinked(s) /\ RawLinked(s) /\ SuccessScored(s)
    BY <1>2, <1>3 DEF Accounted, CacheLinked, RawLinked, SuccessScored
<1>6. Alone(p, s)
    BY <1>3, StaysAlone
<1> QED
    BY <1>1, <1>2, <1>4, <1>5, <1>6, QuietStep DEF Crash, Sound

-----------------------------------------------------------------------------
(***************************************************************************)
(* The starts.                                                             *)
(***************************************************************************)
LEMMA StartStep ==
    ASSUME ArchiveInv, FilesType', NEW p \in Procs, NEW s, Starts(p, s), Sound(s)
    PROVE  ArchiveInv'
<1>1. proc[p].pc = "idle" /\ proc' = [proc EXCEPT ![p] = s] /\ UNCHANGED files
    BY DEF Starts
<1>2. Alone(p, s)
    BY DEF ArchiveInv, Starts, Alone, Fillers
<1> QED
    BY <1>1, <1>2, QuietStep

\* A build starts with what the source returned.
LEMMA StartBuildStep ==
    ASSUME ArchiveInv, FilesType', NEW p \in Procs, StartBuild(p)
    PROVE  ArchiveInv'
<1>1. PICK t \in Tickers, S \in SUBSET Articles :
        Starts(p, [Off EXCEPT !.pc = "days", !.job = "build", !.tickers = {t}, !.seen[t] = S])
  <2>1. published \subseteq Articles
      BY DEF ArchiveInv, FilesType
  <2>2. PICK t \in Tickers, from \in Days, to \in Days :
          Starts(p, [Off EXCEPT !.pc = "days", !.job = "build", !.tickers = {t},
              !.seen[t] = {a \in published : t \in TaggedWith[a] /\ from <= DayOf[a] /\ DayOf[a] <= to}])
      BY DEF StartBuild
  <2>3. {a \in published : t \in TaggedWith[a] /\ from <= DayOf[a] /\ DayOf[a] <= to}
            \in SUBSET Articles
      BY <2>1
  <2> QED
      BY <2>2, <2>3
<1>2. PICK s : s = [Off EXCEPT !.pc = "days", !.job = "build", !.tickers = {t}, !.seen[t] = S]
    OBVIOUS
<1>3. /\ s \in Memory /\ s.pc = "days" /\ s.job = "build"
      /\ s.tickers = {t} /\ s.left = {} /\ s.saving = {}
    BY <1>2, OffIsMemory DEF Memory, Off, Fillers
<1>4. AtItsJob(s)
    BY <1>3 DEF AtItsJob, Saving
<1>5. Accounted(s) /\ CacheLinked(s) /\ RawLinked(s) /\ SuccessScored(s)
    BY <1>3 DEF Accounted, CacheLinked, HasLoaded, RawLinked, SuccessScored
<1> QED
    BY <1>1, <1>2, <1>3, <1>4, <1>5, StartStep DEF Sound

\* A scoring run starts with everything to load.
LEMMA StartScoreStep ==
    ASSUME ArchiveInv, FilesType', NEW p \in Procs, StartScore(p)
    PROVE  ArchiveInv'
<1>1. PICK T \in SUBSET Tickers :
        Starts(p, [Off EXCEPT !.pc = "load", !.job = "score", !.tickers = T, !.left = T])
    BY DEF StartScore
<1>2. PICK s : s = [Off EXCEPT !.pc = "load", !.job = "score", !.tickers = T, !.left = T]
    OBVIOUS
<1>3. /\ s \in Memory /\ s.pc = "load" /\ s.job = "score" /\ s.final = "no"
      /\ s.tickers = T /\ s.left = T /\ s.saving = {}
      /\ \A t \in Tickers : s.seen[t] = {}
    BY <1>2, OffIsMemory DEF Memory, Off, Fillers
<1>4. AtItsJob(s)
    BY <1>3 DEF AtItsJob, Saving
<1>5. Accounted(s) /\ CacheLinked(s) /\ RawLinked(s) /\ SuccessScored(s)
    BY <1>3 DEF Accounted, CacheLinked, HasLoaded, RawLinked, SuccessScored
<1> QED
    BY <1>1, <1>2, <1>3, <1>4, <1>5, StartStep DEF Sound

\* A merge starts with its tickers and what it merges from.
LEMMA StartMergeStep ==
    ASSUME ArchiveInv, FilesType', NEW p \in Procs, StartMerge(p)
    PROVE  ArchiveInv'
<1>1. PICK T \in SUBSET Tickers, source \in Incoming :
        Starts(p, [Off EXCEPT !.pc = "merge", !.job = "merge", !.tickers = T, !.left = T, !.source = source])
    BY DEF StartMerge
<1>2. source \in [Tickers -> ForeignCaches]
    BY ArchiveAssumption
<1>3. PICK s : s = [Off EXCEPT !.pc = "merge", !.job = "merge", !.tickers = T, !.left = T, !.source = source]
    OBVIOUS
<1>4. /\ s \in Memory /\ s.pc = "merge" /\ s.job = "merge"
      /\ s.tickers = T /\ s.left = T /\ s.saving = {}
    BY <1>2, <1>3, OffIsMemory DEF Memory, Off, Fillers
<1>5. AtItsJob(s)
    BY <1>4 DEF AtItsJob, Saving
<1>6. Accounted(s) /\ CacheLinked(s) /\ RawLinked(s) /\ SuccessScored(s)
    BY <1>4 DEF Accounted, CacheLinked, HasLoaded, RawLinked, SuccessScored
<1> QED
    BY <1>1, <1>3, <1>4, <1>5, <1>6, StartStep DEF Sound

\* What the files of a ticker hold.
LEMMA ArchivedType ==
    ASSUME FilesType, NEW t \in Tickers, ~Unreadable(t)
    PROVE  Archived(t) \in SUBSET Articles
<1>1. ASSUME NEW d \in Days, NEW doc \in raw[t][d] PROVE doc.articles \subseteq Articles
  <2>1. raw[t][d] \in Files(DayDocs) /\ doc # Torn
      BY <1>1 DEF FilesType, Unreadable
  <2>2. doc \in DayDocs
      BY <1>1, <2>1 DEF Files
  <2> QED
      BY <2>2 DEF DayDocs
<1> QED
    BY <1>1 DEF Archived

\* A reader starts with a ticker's archive and cache as they are, or fails on a torn file.
LEMMA StartReadStep ==
    ASSUME ArchiveInv, FilesType', NEW p \in Procs, StartRead(p)
    PROVE  ArchiveInv'
<1>1. PICK t \in Tickers :
        IF Unreadable(t)
        THEN Starts(p, [Off EXCEPT !.pc = "failed", !.job = "read"])
        ELSE Starts(p, [Off EXCEPT !.pc = "serve", !.job = "read", !.tickers = {t},
                                   !.mem[t] = OnDisk(t), !.seen[t] = Archived(t)])
    BY DEF StartRead
<1>2. CASE Unreadable(t)
  <2>1. PICK s : s = [Off EXCEPT !.pc = "failed", !.job = "read"]
      OBVIOUS
  <2>2. /\ s \in Memory /\ s.pc = "failed" /\ s.job = "read"
        /\ s.tickers = {} /\ s.left = {} /\ s.saving = {}
      BY <2>1, OffIsMemory DEF Memory, Off, Fillers, Ended
  <2>3. AtItsJob(s)
      BY <2>2 DEF AtItsJob, Saving
  <2>4. Accounted(s) /\ CacheLinked(s) /\ RawLinked(s) /\ SuccessScored(s)
      BY <2>2 DEF Accounted, CacheLinked, RawLinked, SuccessScored, Alive, Ended
  <2> QED
      BY <1>1, <1>2, <2>1, <2>2, <2>3, <2>4, StartStep DEF Sound
<1>3. CASE ~Unreadable(t)
  <2>1. FilesType /\ CachesWhole
      BY DEF ArchiveInv
  <2>2. Archived(t) \in SUBSET Articles /\ OnDisk(t) \in Caches
      BY <1>3, <2>1, ArchivedType, OnDiskCache
  <2>3. PICK s : s = [Off EXCEPT !.pc = "serve", !.job = "read", !.tickers = {t},
                                 !.mem[t] = OnDisk(t), !.seen[t] = Archived(t)]
      OBVIOUS
  <2>4. /\ s \in Memory /\ s.pc = "serve" /\ s.job = "read"
        /\ s.tickers = {t} /\ s.left = {} /\ s.saving = {}
        /\ s.mem[t] = OnDisk(t)
    <3>1. Off.mem \in [Tickers -> Caches] /\ Off.seen \in [Tickers -> SUBSET Articles]
        BY OffIsMemory DEF Memory
    <3>2. [Off.mem EXCEPT ![t] = OnDisk(t)] \in [Tickers -> Caches]
          /\ [Off.mem EXCEPT ![t] = OnDisk(t)][t] = OnDisk(t)
          /\ [Off.seen EXCEPT ![t] = Archived(t)] \in [Tickers -> SUBSET Articles]
        BY <2>2, <3>1
    <3>3. s = [Off EXCEPT !.pc = "serve", !.job = "read", !.tickers = {t},
                          !.mem = [Off.mem EXCEPT ![t] = OnDisk(t)],
                          !.seen = [Off.seen EXCEPT ![t] = Archived(t)]]
        BY <2>3, OffIsMemory DEF Memory
    <3>4. s.left = {} /\ s.saving = {}
        BY <3>3 DEF Off
    <3> QED
        BY <3>2, <3>3, <3>4, OffIsMemory DEF Memory, Fillers
  <2>5. AtItsJob(s)
      BY <2>4 DEF AtItsJob, Saving
  <2>6. Accounted(s) /\ CacheLinked(s) /\ RawLinked(s) /\ SuccessScored(s)
      BY <2>4, KeepsItself DEF Accounted, CacheLinked, RawLinked, SuccessScored
  <2> QED
      BY <1>1, <1>3, <2>3, <2>4, <2>5, <2>6, StartStep DEF Sound
<1> QED
    BY <1>2, <1>3

-----------------------------------------------------------------------------
(***************************************************************************)
(* A scorer, a merge and a reader, between their saves.                    *)
(***************************************************************************)
\* The step into a save: what is about to be written has all that is on disk.
LEMMA SavesStep ==
    ASSUME ArchiveInv, FilesType', UNCHANGED files, NEW p \in Procs,
           proc[p].pc \in {"flush", "merge", "serve"},
           NEW t \in proc[p].tickers, NEW m \in Caches, proc' = [proc EXCEPT ![p] = Saves(p, t, m)],
           Keeps(m, OnDisk(t)),
           proc[p].job = "score" =>
               /\ DOMAIN proc[p].mem[t] \subseteq DOMAIN m
               /\ proc[p].final = "done" => proc[p].seen[t] \subseteq DOMAIN m
    PROVE  ArchiveInv'
<1>1. PICK r : r = proc[p]
    OBVIOUS
<1>2. PICK s : s = Saves(p, t, m)
    OBVIOUS
<1>3. Sound(r)
    BY <1>1, SoundNow
<1>4. r \in Memory /\ t \in Tickers
    BY <1>1, <1>3 DEF Sound, Memory
<1>5. /\ s \in Memory /\ s.pc = "save" /\ s.job = r.job /\ s.tickers = r.tickers
      /\ s.left = r.left \ {t} /\ s.saving = {t} /\ s.final = r.final /\ s.seen = r.seen
      /\ s.todo = r.todo /\ s.scores = r.scores
      /\ s.mem = [r.mem EXCEPT ![t] = m]
    BY <1>1, <1>2, <1>4 DEF Saves, Memory, Saving
<1>6. r.pc \in {"flush", "merge", "serve"} /\ r.saving = {} /\ r.job \in Fillers
      /\ (r.pc = "flush" <=> r.job = "score")
    BY <1>1, <1>3 DEF Sound, AtItsJob, Saving, Fillers
<1>7. AtItsJob(s)
    BY <1>1, <1>3, <1>5, <1>6 DEF AtItsJob, Saving, Sound
<1>8. s.mem[t] = m /\ \A u \in Tickers \ {t} : s.mem[u] = r.mem[u]
    BY <1>4, <1>5 DEF Memory
<1>9. Alive(r) /\ Alive(s)
    BY <1>5, <1>6 DEF Alive, Ended
<1>10. Accounted(s)
  <2> SUFFICES ASSUME s.job = "score" PROVE Accounted(s)
      BY DEF Accounted
  <2>1. r.tickers \subseteq Tickers /\ r.job = "score"
      BY <1>4, <1>5 DEF Memory
  <2>2. \A u \in r.tickers : DOMAIN r.mem[u] \subseteq DOMAIN s.mem[u]
      BY <1>1, <1>8, <2>1
  <2>3. /\ \A u \in Tickers \ r.tickers : r.seen[u] = {}
        /\ \A u \in r.tickers : \A a \in r.seen[u] :
              \/ a \in r.scores \cup r.todo
              \/ \E v \in r.tickers : a \in DOMAIN r.mem[v]
        /\ r.final = "done" =>
              /\ r.todo = {}
              /\ \A u \in r.tickers \ r.left : r.seen[u] \subseteq DOMAIN r.mem[u]
      BY <1>3, <1>6, <1>9, <2>1 DEF Sound, Accounted
  <2>4. s.final = "done" => \A u \in s.tickers \ s.left : s.seen[u] \subseteq DOMAIN s.mem[u]
    <3> SUFFICES ASSUME r.final = "done", NEW u \in r.tickers, u \notin r.left \ {t}
                 PROVE  r.seen[u] \subseteq DOMAIN s.mem[u]
        BY <1>5
    <3> QED
        BY <1>1, <1>8, <2>1, <2>2, <2>3
  <2> QED
      BY <1>5, <2>2, <2>3, <2>4 DEF Accounted
<1>11. CacheLinked(s)
  <2>1. ASSUME NEW u \in s.tickers, HasLoaded(s, u) PROVE Keeps(s.mem[u], OnDisk(u))
    <3>1. CASE u = t
        BY <1>8, <3>1
    <3>2. CASE u # t
      <4>1. HasLoaded(r, u) /\ u \in Tickers
          BY <1>4, <1>5, <1>6, <2>1, <3>2 DEF HasLoaded, Memory, Fillers
      <4> QED
          BY <1>3, <1>5, <1>8, <1>9, <3>2, <4>1 DEF Sound, CacheLinked
    <3> QED
        BY <3>1, <3>2
  <2>2. ASSUME s.job = "score", s.final # "failed", NEW u \in s.tickers \ s.saving
        PROVE  s.mem[u] = OnDisk(u)
    <3>1. HasLoaded(r, u) /\ u \in Tickers /\ u # t
        BY <1>4, <1>5, <1>6, <2>2 DEF HasLoaded, Memory
    <3> QED
        BY <1>3, <1>5, <1>6, <1>8, <1>9, <2>2, <3>1 DEF Sound, CacheLinked
  <2> QED
      BY <1>5, <2>1, <2>2 DEF CacheLinked
<1>12. RawLinked(s) /\ SuccessScored(s)
    BY <1>5 DEF RawLinked, SuccessScored
<1>13. Alone(p, s)
    BY <1>1, <1>5, <1>9, StaysAlone
<1> QED
    BY <1>2, <1>5, <1>7, <1>10, <1>11, <1>12, <1>13, QuietStep DEF Sound

\* The step into a flush, from anywhere in a scoring run that has loaded.
LEMMA EnterFlushStep ==
    ASSUME ArchiveInv, FilesType', UNCHANGED files, NEW p \in Procs,
           Alive(proc[p]), proc[p].job = "score", proc[p].pc # "load",
           NEW final \in {"done", "failed"}, proc' = [proc EXCEPT ![p] = EnterFlush(p, final)],
           final = "done" => proc[p].pc = "score" /\ proc[p].todo = {}
    PROVE  ArchiveInv'
<1>1. PICK r : r = proc[p]
    OBVIOUS
<1>2. PICK s : s = EnterFlush(p, final)
    OBVIOUS
<1>3. Sound(r) /\ r \in Memory
    BY <1>1, SoundNow DEF Sound
<1>4. /\ s \in Memory /\ s.pc = "flush" /\ s.job = "score" /\ s.tickers = r.tickers
      /\ s.left = r.tickers /\ s.saving = {} /\ s.final = final /\ s.seen = r.seen
      /\ s.todo = r.todo /\ s.scores = r.scores /\ s.mem = r.mem
    BY <1>1, <1>2, <1>3 DEF EnterFlush, Memory
<1>5. AtItsJob(s)
    BY <1>4 DEF AtItsJob, Saving
<1>6. Alive(r) /\ Alive(s) /\ r.job = "score" /\ r.pc # "load"
    BY <1>1, <1>4 DEF Alive, Ended
<1>7. Accounted(s)
    BY <1>1, <1>3, <1>4, <1>6 DEF Sound, Accounted
<1>8. \A u \in r.tickers : HasLoaded(r, u)
    BY <1>6 DEF HasLoaded
<1>9. final = "done" => r.saving = {} /\ r.final = "no"
    BY <1>1, <1>3, <1>6 DEF Sound, AtItsJob, Saving, Accounted
<1>10. CacheLinked(s)
    BY <1>3, <1>4, <1>6, <1>8, <1>9 DEF Sound, CacheLinked
<1>11. RawLinked(s) /\ SuccessScored(s)
    BY <1>4 DEF RawLinked, SuccessScored
<1>12. Alone(p, s)
    BY <1>1, <1>4, <1>6, StaysAlone
<1> QED
    BY <1>2, <1>4, <1>5, <1>7, <1>10, <1>11, <1>12, QuietStep DEF Sound

\* A scoring run loads one ticker, or fails on a torn file.
LEMMA LoadStep ==
    ASSUME ArchiveInv, FilesType', NEW p \in Procs, Load(p)
    PROVE  ArchiveInv'
<1>1. PICK r : r = proc[p]
    OBVIOUS
<1>2. Sound(r) /\ r \in Memory /\ r.pc = "load" /\ r.job = "score" /\ Alive(r) /\ r.final = "no"
      /\ r.saving = {}
    BY <1>1, SoundNow DEF Sound, Load, AtItsJob, Alive, Ended, Accounted, Saving
<1>3. PICK t \in r.left :
        IF Unreadable(t)
        THEN Ends(p, "failed")
        ELSE proc' = [proc EXCEPT ![p].left = @ \ {t}, ![p].mem[t] = OnDisk(t), ![p].seen[t] = Archived(t)]
    BY <1>1 DEF Load
<1>4. UNCHANGED files /\ t \in Tickers /\ t \in r.tickers /\ FilesType /\ CachesWhole
    BY <1>2 DEF Load, Memory, Sound, AtItsJob, ArchiveInv
<1>5. CASE Unreadable(t)
    BY <1>3, <1>4, <1>5, EndStep
<1>6. CASE ~Unreadable(t)
  <2>1. PICK s : s = [r EXCEPT !.left = @ \ {t}, !.mem[t] = OnDisk(t), !.seen[t] = Archived(t)]
      OBVIOUS
  <2>2. proc' = [proc EXCEPT ![p] = s]
      BY <1>1, <1>3, <1>6, <2>1 DEF ArchiveInv, Memory
  <2>3. OnDisk(t) \in Caches /\ Archived(t) \in SUBSET Articles
      BY <1>4, <1>6, OnDiskCache, ArchivedType
  <2>4. /\ s \in Memory /\ s.pc = "load" /\ s.job = "score" /\ s.final = "no"
        /\ s.tickers = r.tickers /\ s.left = r.left \ {t} /\ s.saving = {}
        /\ s.mem[t] = OnDisk(t)
        /\ \A u \in Tickers \ {t} : s.mem[u] = r.mem[u] /\ s.seen[u] = r.seen[u]
      BY <1>2, <1>4, <2>1, <2>3 DEF Memory
  <2>5. AtItsJob(s)
      BY <1>2, <2>4 DEF Sound, AtItsJob, Saving
  <2>6. Alive(s) /\ r.tickers \subseteq Tickers
      BY <1>2, <2>4 DEF Alive, Ended, Memory
  <2>7. Accounted(s)
      BY <1>2, <1>4, <2>4 DEF Sound, Accounted
  <2>8. ASSUME NEW u \in s.tickers, HasLoaded(s, u) PROVE s.mem[u] = OnDisk(u)
    <3>1. CASE u = t
        BY <2>4, <3>1
    <3>2. CASE u # t
      <4>1. HasLoaded(r, u) /\ u \in Tickers
          BY <1>2, <2>4, <2>6, <2>8, <3>2 DEF HasLoaded
      <4> QED
          BY <1>2, <2>4, <3>2, <4>1 DEF Sound, CacheLinked
    <3> QED
        BY <3>1, <3>2
  <2>9. CacheLinked(s)
      BY <2>4, <2>8, KeepsItself DEF CacheLinked
  <2>10. RawLinked(s) /\ SuccessScored(s)
      BY <2>4 DEF RawLinked, SuccessScored
  <2>11. Alone(p, s)
      BY <1>1, <1>2, <2>4, StaysAlone
  <2> QED
      BY <1>4, <2>2, <2>4, <2>5, <2>7, <2>9, <2>10, <2>11, QuietStep DEF Sound
<1> QED
    BY <1>5, <1>6

\* A scoring run goes on: its memory of the caches stays as it was.
LEMMA ScoringStep ==
    ASSUME ArchiveInv, FilesType', UNCHANGED files, NEW p \in Procs, NEW s \in Memory,
           proc' = [proc EXCEPT ![p] = s],
           Alive(proc[p]), proc[p].job = "score", proc[p].saving = {},
           proc[p].pc = "load" => proc[p].left = {},
           s.pc \in {"score", "flush"}, s.job = "score", s.tickers = proc[p].tickers,
           s.left \subseteq s.tickers, s.saving = {}, s.mem = proc[p].mem, s.final = proc[p].final,
           Accounted(s)
    PROVE  ArchiveInv'
<1>1. PICK r : r = proc[p]
    OBVIOUS
<1>2. Sound(r) /\ Alive(s)
    BY <1>1, SoundNow DEF Alive, Ended
<1>3. AtItsJob(s)
    BY DEF AtItsJob, Saving
<1>4. \A u \in r.tickers : HasLoaded(r, u)
    BY <1>1 DEF HasLoaded
<1>5. CacheLinked(s)
    BY <1>1, <1>2, <1>4 DEF Sound, CacheLinked
<1>6. RawLinked(s) /\ SuccessScored(s)
    BY DEF RawLinked, SuccessScored
<1>7. Alone(p, s)
    BY <1>2, StaysAlone
<1> QED
    BY <1>3, <1>5, <1>6, <1>7, QuietStep DEF Sound

\* What no ticker's cache knows is what is to be scored: every article is accounted for.
LEMMA TodoStep ==
    ASSUME ArchiveInv, FilesType', NEW p \in Procs, Todo(p)
    PROVE  ArchiveInv'
<1>1. PICK r : r = proc[p]
    OBVIOUS
<1>2. /\ Sound(r) /\ r \in Memory /\ r.pc = "load" /\ r.job = "score" /\ Alive(r) /\ r.final = "no"
      /\ r.saving = {} /\ r.left = {} /\ r.tickers \subseteq Tickers
    BY <1>1, SoundNow DEF Sound, Todo, AtItsJob, Alive, Ended, Accounted, Saving, Memory
<1> DEFINE todo == (UNION {proc[p].seen[t] : t \in proc[p].tickers}) \ Known(p)
<1>3. proc' = [proc EXCEPT ![p].pc = "score", ![p].todo = todo]
    BY DEF Todo
<1>4. PICK s : s = [r EXCEPT !.pc = "score", !.todo = todo]
    OBVIOUS
<1>5. proc' = [proc EXCEPT ![p] = s]
  <2> HIDE DEF todo
  <2> QED
      BY <1>1, <1>3, <1>4 DEF ArchiveInv, Memory
<1>6. todo \subseteq Articles
    BY <1>1, <1>2 DEF Memory
<1>7. /\ s \in Memory /\ s.pc = "score" /\ s.job = "score" /\ s.final = "no"
      /\ s.tickers = r.tickers /\ s.left = {} /\ s.saving = {} /\ s.mem = r.mem
      /\ s.seen = r.seen /\ s.todo = todo /\ s.scores = r.scores
  <2> HIDE DEF todo
  <2> QED
      BY <1>2, <1>4, <1>6 DEF Memory
<1>8. Accounted(s)
  <2>1. \A t \in r.tickers : \A a \in r.seen[t] :
            a \in todo \/ \E u \in r.tickers : a \in DOMAIN r.mem[u]
    <3> SUFFICES ASSUME NEW t \in r.tickers, NEW a \in r.seen[t], a \notin todo
                 PROVE  \E u \in r.tickers : a \in DOMAIN r.mem[u]
        OBVIOUS
    <3>1. a \in UNION {proc[p].seen[u] : u \in proc[p].tickers}
        BY <1>1
    <3>2. a \in Known(p)
        BY <3>1
    <3> QED
        BY <1>1, <3>2 DEF Known
  <2> QED
      BY <1>2, <1>7, <2>1 DEF Sound, Accounted
<1> QED
    BY <1>1, <1>2, <1>5, <1>7, <1>8, ScoringStep DEF Todo

\* A batch goes from what is to be scored to what is; the counter stays below its bound.
LEMMA ScoreBatchStep ==
    ASSUME ArchiveInv, FilesType', NEW p \in Procs, ScoreBatch(p)
    PROVE  ArchiveInv'
<1>1. PICK r : r = proc[p]
    OBVIOUS
<1>2. /\ Sound(r) /\ r \in Memory /\ r.pc = "score" /\ r.job = "score" /\ Alive(r) /\ r.final = "no"
      /\ r.saving = {} /\ r.left \subseteq r.tickers
    BY <1>1, SoundNow DEF Sound, ScoreBatch, AtItsJob, Alive, Ended, Accounted, Saving
<1>3. PICK batch \in SUBSET r.todo :
        LET since == r.since + Cardinality(batch)
            scored == [r EXCEPT !.todo = @ \ batch, !.scores = @ \cup batch]
        IN  proc' = [proc EXCEPT ![p] =
                        IF since >= FlushTexts
                        THEN [scored EXCEPT !.pc = "flush", !.left = r.tickers, !.since = 0]
                        ELSE [scored EXCEPT !.since = since]]
    BY <1>1 DEF ScoreBatch
<1>4. r.since \in Nat /\ FlushTexts \in Nat \ {0} /\ batch \subseteq Articles
    BY <1>2, ArchiveAssumption DEF Memory
<1>5. Cardinality(batch) \in Nat
    BY <1>4, FS_Subset, FS_CardinalityType, ArchiveAssumption
<1>6. PICK n : n = r.since + Cardinality(batch)
    OBVIOUS
<1>7. PICK left \in {r.tickers, r.left}, pc \in {"score", "flush"}, since \in 0..(FlushTexts - 1) :
        proc' = [proc EXCEPT ![p] = [r EXCEPT !.todo = @ \ batch, !.scores = @ \cup batch,
                                              !.pc = pc, !.left = left, !.since = since]]
  <2>1. CASE n >= FlushTexts
    <3>1. proc' = [proc EXCEPT ![p] = [r EXCEPT !.todo = @ \ batch, !.scores = @ \cup batch,
                                                !.pc = "flush", !.left = r.tickers, !.since = 0]]
        BY <1>3, <1>6, <2>1
    <3>2. 0 \in 0..(FlushTexts - 1)
        BY <1>4
    <3> QED
        BY <3>1, <3>2
  <2>2. CASE ~(n >= FlushTexts)
    <3>1. n \in 0..(FlushTexts - 1)
        BY <1>4, <1>5, <1>6, <2>2
    <3>2. [r EXCEPT !.todo = @ \ batch, !.scores = @ \cup batch, !.since = n]
            = [r EXCEPT !.todo = @ \ batch, !.scores = @ \cup batch,
                        !.pc = "score", !.left = r.left, !.since = n]
        BY <1>2 DEF Memory
    <3>3. proc' = [proc EXCEPT ![p] = [r EXCEPT !.todo = @ \ batch, !.scores = @ \cup batch,
                                                !.since = n]]
        BY <1>3, <1>6, <2>2
    <3> QED
        BY <3>1, <3>2, <3>3
  <2> QED
      BY <2>1, <2>2
<1>8. PICK s : s = [r EXCEPT !.todo = @ \ batch, !.scores = @ \cup batch,
                             !.pc = pc, !.left = left, !.since = since]
    OBVIOUS
<1>9. /\ s \in Memory /\ s.pc = pc /\ s.job = "score" /\ s.final = "no"
      /\ s.tickers = r.tickers /\ s.left = left /\ s.saving = {} /\ s.mem = r.mem
      /\ s.seen = r.seen /\ s.todo = r.todo \ batch /\ s.scores = r.scores \cup batch
    BY <1>2, <1>4, <1>7, <1>8 DEF Memory
<1>10. Accounted(s)
  <2>1. /\ \A t \in Tickers \ r.tickers : r.seen[t] = {}
        /\ \A t \in r.tickers : \A a \in r.seen[t] :
              \/ a \in r.scores \cup r.todo
              \/ \E u \in r.tickers : a \in DOMAIN r.mem[u]
      BY <1>2 DEF Sound, Accounted
  <2> QED
      BY <1>9, <2>1 DEF Accounted
<1>11. UNCHANGED files
    BY DEF ScoreBatch
<1> QED
    BY <1>1, <1>2, <1>7, <1>8, <1>9, <1>10, <1>11, ScoringStep

\* A flush passes over a ticker that lacks nothing, or starts to save what it lacks.
LEMMA FlushStep ==
    ASSUME ArchiveInv, FilesType', NEW p \in Procs, Flush(p)
    PROVE  ArchiveInv'
<1>1. PICK r : r = proc[p]
    OBVIOUS
<1>2. /\ Sound(r) /\ r \in Memory /\ r.pc = "flush" /\ r.job = "score" /\ Alive(r)
      /\ r.saving = {} /\ r.left \subseteq r.tickers /\ r.tickers \subseteq Tickers
    BY <1>1, SoundNow DEF Sound, Flush, AtItsJob, Alive, Ended, Saving, Memory
<1>3. UNCHANGED files
    BY DEF Flush
<1>4. PICK t \in r.left :
        IF New(p, t) = {}
        THEN proc' = [proc EXCEPT ![p].left = @ \ {t}]
        ELSE \E got \in [New(p, t) -> Scores] :
                proc' = [proc EXCEPT ![p] = Saves(p, t, Extended(r.mem[t], got))]
    BY <1>1 DEF Flush
<1>5. t \in r.tickers /\ t \in Tickers /\ r.mem[t] \in Caches /\ r.seen[t] \subseteq Articles
    BY <1>2, <1>4 DEF Memory
<1>6. New(p, t) \subseteq Articles
    BY <1>1, <1>5 DEF New
\* Once all is scored, what a ticker carries is in its cache or new for it.
<1>7. r.final = "done" => r.seen[t] \subseteq DOMAIN r.mem[t] \cup New(p, t)
  <2> SUFFICES ASSUME r.final = "done", NEW a \in r.seen[t], a \notin DOMAIN r.mem[t]
               PROVE  a \in New(p, t)
      OBVIOUS
  <2>1. a \in r.scores \/ \E u \in r.tickers : a \in DOMAIN r.mem[u]
      BY <1>2, <1>5 DEF Sound, Accounted
  <2> QED
      BY <1>1, <2>1 DEF New, Known
<1>8. CASE New(p, t) = {}
  <2>1. PICK s : s = [r EXCEPT !.left = @ \ {t}]
      OBVIOUS
  <2>2. proc' = [proc EXCEPT ![p] = s]
      BY <1>1, <1>4, <1>8, <2>1 DEF ArchiveInv, Memory
  <2>3. /\ s \in Memory /\ s.pc = "flush" /\ s.job = "score" /\ s.final = r.final
        /\ s.tickers = r.tickers /\ s.left = r.left \ {t} /\ s.saving = {} /\ s.mem = r.mem
        /\ s.seen = r.seen /\ s.todo = r.todo /\ s.scores = r.scores
      BY <1>2, <2>1 DEF Memory
  <2>4. Accounted(s)
    <3>1. Accounted(r)
        BY <1>2 DEF Sound
    <3> QED
        BY <1>2, <1>7, <1>8, <2>3, <3>1 DEF Accounted
  <2> QED
      BY <1>1, <1>2, <1>3, <2>2, <2>3, <2>4, ScoringStep
<1>9. CASE New(p, t) # {}
  <2>1. PICK got \in [New(p, t) -> Scores] :
          proc' = [proc EXCEPT ![p] = Saves(p, t, Extended(r.mem[t], got))]
      BY <1>4, <1>9
  <2>2. got \in Caches
      BY <1>6, CacheIs
  <2>3. PICK m : m = Extended(r.mem[t], got)
      OBVIOUS
  <2>4. m \in Caches /\ DOMAIN m = DOMAIN r.mem[t] \cup New(p, t) /\ Keeps(m, r.mem[t])
    <3>1. DOMAIN got = New(p, t)
        OBVIOUS
    <3>2. /\ Extended(r.mem[t], got) \in Caches
          /\ DOMAIN Extended(r.mem[t], got) = DOMAIN r.mem[t] \cup DOMAIN got
          /\ Keeps(Extended(r.mem[t], got), r.mem[t])
        BY <1>5, <2>2, ExtendedCache
    <3> QED
        BY <2>3, <3>1, <3>2
  <2>5. Keeps(r.mem[t], OnDisk(t))
      BY <1>2, <1>5 DEF Sound, CacheLinked, HasLoaded
  <2>6. Keeps(m, OnDisk(t))
      BY <2>4, <2>5, KeepsTransitive
  <2> QED
      BY <1>1, <1>2, <1>3, <1>5, <1>7, <2>1, <2>3, <2>4, <2>6, SavesStep
<1> QED
    BY <1>8, <1>9

\* A flush that is through goes back to scoring or ends the run: done means all is on disk.
LEMMA EndFlushStep ==
    ASSUME ArchiveInv, FilesType', NEW p \in Procs, EndFlush(p)
    PROVE  ArchiveInv'
<1>1. PICK r : r = proc[p]
    OBVIOUS
<1>2. /\ Sound(r) /\ r \in Memory /\ r.pc = "flush" /\ r.job = "score" /\ Alive(r)
      /\ r.saving = {} /\ r.left = {} /\ r.tickers \subseteq Tickers
    BY <1>1, SoundNow DEF Sound, EndFlush, AtItsJob, Alive, Ended, Saving, Memory
<1>3. UNCHANGED files /\ r.final \in {"no", "done", "failed"}
    BY <1>2 DEF EndFlush, Memory
<1>4. CASE r.final = "no"
  <2>1. PICK s : s = [r EXCEPT !.pc = "score"]
      OBVIOUS
  <2>2. proc' = [proc EXCEPT ![p] = s]
      BY <1>1, <1>4, <2>1 DEF ArchiveInv, Memory, EndFlush
  <2>3. /\ s \in Memory /\ s.pc = "score" /\ s.job = "score" /\ s.final = r.final
        /\ s.tickers = r.tickers /\ s.left = {} /\ s.saving = {} /\ s.mem = r.mem
        /\ s.seen = r.seen /\ s.todo = r.todo /\ s.scores = r.scores
      BY <1>2, <2>1 DEF Memory
  <2>4. Accounted(r)
      BY <1>2 DEF Sound
  <2>5. Accounted(s)
      BY <1>2, <1>4, <2>3, <2>4 DEF Accounted
  <2> QED
      BY <1>1, <1>2, <1>3, <2>2, <2>3, <2>5, ScoringStep
<1>5. CASE r.final # "no"
  <2>1. Ends(p, r.final)
      BY <1>1, <1>5 DEF EndFlush
  <2>2. ASSUME r.final = "done", NEW t \in Tickers PROVE r.seen[t] \subseteq DOMAIN OnDisk(t)
    <3>1. CASE t \in r.tickers
      <4>1. r.seen[t] \subseteq DOMAIN r.mem[t]
          BY <1>2, <2>2, <3>1 DEF Sound, Accounted
      <4>2. r.mem[t] = OnDisk(t)
          BY <1>2, <2>2, <3>1 DEF Sound, CacheLinked, HasLoaded
      <4> QED
          BY <4>1, <4>2
    <3>2. CASE t \notin r.tickers
        BY <1>2, <3>2 DEF Sound, Accounted
    <3> QED
        BY <3>1, <3>2
  <2> QED
      BY <1>1, <1>3, <1>5, <2>1, <2>2, EndStep
<1> QED
    BY <1>4, <1>5

\* A merge reads a cache again before it extends it.
LEMMA MergeStep ==
    ASSUME ArchiveInv, FilesType', NEW p \in Procs, MergeTicker(p)
    PROVE  ArchiveInv'
<1>1. PICK r : r = proc[p]
    OBVIOUS
<1>2. /\ Sound(r) /\ r \in Memory /\ r.pc = "merge" /\ r.job = "merge" /\ Alive(r)
      /\ r.saving = {} /\ r.left \subseteq r.tickers /\ r.tickers \subseteq Tickers
    BY <1>1, SoundNow DEF Sound, MergeTicker, AtItsJob, Alive, Ended, Saving, Memory
<1>3. UNCHANGED files /\ FilesType /\ CachesWhole
    BY DEF MergeTicker, ArchiveInv
<1>4. PICK t \in r.left :
        \/ proc' = [proc EXCEPT ![p].left = @ \ {t}]
        \/ Ends(p, "failed")
        \/ /\ IsValid(r.source[t])
           /\ proc' = [proc EXCEPT ![p] = Saves(p, t, Merged(OnDisk(t), r.source[t]))]
    BY <1>1 DEF MergeTicker
<1>5. t \in r.tickers /\ t \in Tickers /\ r.source[t] \in ForeignCaches /\ OnDisk(t) \in Caches
    BY <1>2, <1>3, <1>4, OnDiskCache DEF Memory
<1>6. CASE proc' = [proc EXCEPT ![p].left = @ \ {t}]
  <2>1. PICK s : s = [r EXCEPT !.left = @ \ {t}]
      OBVIOUS
  <2>2. proc' = [proc EXCEPT ![p] = s]
      BY <1>1, <1>6, <2>1 DEF ArchiveInv, Memory
  <2>3. /\ s \in Memory /\ s.pc = "merge" /\ s.job = "merge"
        /\ s.tickers = r.tickers /\ s.left = r.left \ {t} /\ s.saving = {}
      BY <1>2, <2>1 DEF Memory
  <2>4. AtItsJob(s)
      BY <1>2, <2>3 DEF Sound, AtItsJob, Saving
  <2>5. Accounted(s) /\ CacheLinked(s) /\ RawLinked(s) /\ SuccessScored(s)
      BY <2>3 DEF Accounted, CacheLinked, HasLoaded, RawLinked, SuccessScored
  <2>6. Alone(p, s)
      BY <1>1, <1>2, <2>3, StaysAlone
  <2> QED
      BY <1>3, <2>2, <2>3, <2>4, <2>5, <2>6, QuietStep DEF Sound
<1>7. CASE Ends(p, "failed")
    BY <1>3, <1>7, EndStep
<1>8. CASE /\ IsValid(r.source[t])
           /\ proc' = [proc EXCEPT ![p] = Saves(p, t, Merged(OnDisk(t), r.source[t]))]
  <2>1. PICK m : m = Merged(OnDisk(t), r.source[t])
      OBVIOUS
  <2>2. r.source[t] \in Caches
      BY <1>5, <1>8, ValidIsCache
  <2>3. m \in Caches /\ Keeps(m, OnDisk(t))
      BY <1>5, <2>1, <2>2, ExtendedCache DEF Merged
  <2> QED
      BY <1>1, <1>2, <1>3, <1>5, <1>8, <2>1, <2>3, SavesStep
<1> QED
    BY <1>4, <1>6, <1>7, <1>8

\* A reader scores what its window lacks and saves it.
LEMMA ServeStep ==
    ASSUME ArchiveInv, FilesType', NEW p \in Procs, Serve(p)
    PROVE  ArchiveInv'
<1>1. PICK r : r = proc[p]
    OBVIOUS
<1>2. /\ Sound(r) /\ r \in Memory /\ r.pc = "serve" /\ r.job = "read" /\ Alive(r)
      /\ r.tickers \subseteq Tickers
    BY <1>1, SoundNow DEF Sound, Serve, AtItsJob, Alive, Ended, Memory
<1>3. PICK t \in r.tickers, missing \in SUBSET Articles :
        proc' = [proc EXCEPT ![p] = Saves(p, t, Extended(r.mem[t], [a \in missing |-> "fits"]))]
  <2>1. PICK t \in r.tickers, from \in Days, to \in Days :
          LET missing == {a \in r.seen[t] : from <= DayOf[a] /\ DayOf[a] <= to} \ DOMAIN r.mem[t]
          IN  proc' = [proc EXCEPT ![p] = Saves(p, t, Extended(r.mem[t], [a \in missing |-> "fits"]))]
      BY <1>1 DEF Serve
  <2>2. {a \in r.seen[t] : from <= DayOf[a] /\ DayOf[a] <= to} \ DOMAIN r.mem[t]
            \in SUBSET Articles
      BY <1>2 DEF Memory
  <2> QED
      BY <2>1, <2>2
<1>4. t \in Tickers /\ r.mem[t] \in Caches /\ missing \subseteq Articles
    BY <1>2 DEF Memory
<1>5. PICK fresh : fresh = [a \in missing |-> "fits"]
    OBVIOUS
<1>6. fresh \in Caches
  <2>1. fresh \in [missing -> Scores]
      BY <1>5 DEF Scores
  <2> QED
      BY <1>4, <2>1, CacheIs
<1>7. PICK m : m = Extended(r.mem[t], fresh)
    OBVIOUS
<1>8. m \in Caches /\ Keeps(m, r.mem[t])
    BY <1>4, <1>6, <1>7, ExtendedCache
<1>9. Keeps(r.mem[t], OnDisk(t))
    BY <1>2 DEF Sound, CacheLinked, HasLoaded
<1>10. Keeps(m, OnDisk(t))
    BY <1>8, <1>9, KeepsTransitive
<1>11. UNCHANGED files
    BY DEF Serve
<1> QED
    BY <1>1, <1>2, <1>3, <1>5, <1>7, <1>8, <1>10, <1>11, SavesStep

\* A scoring run that breaks off enters its last flush; everything else ends.
LEMMA BreaksStep ==
    ASSUME ArchiveInv, FilesType', UNCHANGED files, NEW p \in Procs, Alive(proc[p]), Breaks(p)
    PROVE  ArchiveInv'
<1>1. CASE Ends(p, "cut")
    BY <1>1, EndStep
<1>2. CASE /\ proc[p].job = "score" /\ proc[p].pc # "load"
           /\ proc' = [proc EXCEPT ![p] = EnterFlush(p, "failed")]
    BY <1>2, EnterFlushStep
<1> QED
    BY <1>1, <1>2 DEF Breaks

\* An interrupt, or a temporary file that is not there, breaks a run off.
LEMMA InterruptStep ==
    ASSUME ArchiveInv, FilesType', NEW p \in Procs, Interrupt(p) \/ ReplaceFails(p)
    PROVE  ArchiveInv'
<1>1. UNCHANGED files /\ Alive(proc[p]) /\ Breaks(p)
    BY DEF Interrupt, ReplaceFails, Alive, Ended
<1> QED
    BY <1>1, BreaksStep

-----------------------------------------------------------------------------
(***************************************************************************)
(* Saves: the temporary file, and the cache it replaces.                   *)
(***************************************************************************)
\* Other processes' tickers are other tickers: a save of `t` does not touch them.
LEMMA OthersApart ==
    ASSUME ArchiveInv, NEW p \in Procs, NEW t \in Tickers, Fills(p, t), NEW q \in Procs \ {p},
           NEW r, r = proc[q], \A u \in Tickers \ {t} : cache'[u] = cache[u] /\ tmp'[u] = tmp[u]
    PROVE  CacheLinked(r)'
<1>1. Sound(r) /\ r \in Memory
    BY SoundNow DEF Sound
<1> SUFFICES ASSUME Alive(r), r.job \in Fillers PROVE CacheLinked(r)'
    BY <1>1 DEF CacheLinked, Sound, AtItsJob, HasLoaded, Saving, Fillers
<1>2. t \notin r.tickers
    BY DEF ArchiveInv, OneWriter, Fills, Alive, Fillers
<1>3. r.tickers \subseteq Tickers /\ r.saving \subseteq r.tickers
    BY <1>1 DEF Memory, Sound, AtItsJob
<1>4. \A u \in r.tickers : OnDisk(u)' = OnDisk(u) /\ tmp'[u] = tmp[u]
    BY <1>2, <1>3, OnDiskIs
<1> QED
    BY <1>1, <1>3, <1>4 DEF Sound, CacheLinked

\* What a process that fills a ticker's cache dumps is in the temporary file.
LEMMA DumpTmpIs ==
    ASSUME ArchiveInv, NEW p \in Procs, DumpTmp(p)
    PROVE  /\ proc' = [proc EXCEPT ![p].pc = "replace"]
           /\ UNCHANGED cache
           /\ \E t \in proc[p].saving : tmp' = [tmp EXCEPT ![t] = {[scores |-> proc[p].mem[t]]}]
<1>1. PICK r : r = proc[p]
    OBVIOUS
<1>2. Sound(r) /\ r.pc = "dump" /\ Alive(r)
    BY <1>1, SoundNow DEF DumpTmp, Alive, Ended
<1>3. r.file = "tmp" /\ \A t \in r.saving : tmp[t] = {Torn}
    BY <1>2 DEF Sound, CacheLinked
<1>4. PICK t \in r.saving :
        /\ UNCHANGED cache
        /\ \E text \in Dumped(tmp[t], [scores |-> r.mem[t]]) : tmp' = [tmp EXCEPT ![t] = text]
    BY <1>1, <1>3 DEF DumpTmp
<1>5. Dumped(tmp[t], [scores |-> r.mem[t]]) = {{[scores |-> r.mem[t]]}}
    BY <1>3 DEF Dumped
<1> QED
    BY <1>1, <1>4, <1>5 DEF DumpTmp

\* Nobody else has the file open that takes the cache's name.
LEMMA ReplaceIs ==
    ASSUME ArchiveInv, NEW p \in Procs, Replace(p)
    PROVE  /\ proc' = [proc EXCEPT ![p].pc = Caller(proc[p].job), ![p].saving = {}]
           /\ \E s : /\ s = [proc[p] EXCEPT !.pc = Caller(proc[p].job), !.saving = {}]
                     /\ proc' = [proc EXCEPT ![p] = s]
           /\ \E t \in proc[p].saving : /\ cache' = [cache EXCEPT ![t] = tmp[t]]
                                         /\ tmp' = [tmp EXCEPT ![t] = {}]
<1>1. PICK t \in proc[p].saving :
        /\ cache' = [cache EXCEPT ![t] = tmp[t]]
        /\ tmp' = [tmp EXCEPT ![t] = {}]
        /\ proc' = [q \in Procs |->
                      IF q = p
                      THEN [proc[p] EXCEPT !.pc = Caller(proc[p].job), !.saving = {}]
                      ELSE Renamed(q, t)]
    BY DEF Replace
<1>2. proc \in [Procs -> Memory]
    BY DEF ArchiveInv
<1>3. ASSUME NEW q \in Procs, proc[q].pc \in {"dump", "replace"}, t \in proc[q].saving
      PROVE  t \in Tickers /\ Fills(q, t)
  <2>1. PICK r : r = proc[q]
      OBVIOUS
  <2>2. Sound(r)
      BY <2>1, SoundNow
  <2> QED
      BY <1>3, <2>1, <2>2 DEF Sound, Memory, AtItsJob, Saving, Fillers, Fills, Ended
<1>4. ASSUME NEW q \in Procs \ {p} PROVE Renamed(q, t) = proc[q]
  <2>1. ~(proc[q].pc = "dump" /\ t \in proc[q].saving)
      BY <1>3 DEF ArchiveInv, OneWriter, Replace
  <2> QED
      BY <2>1 DEF Renamed
<1>5. proc' = [proc EXCEPT ![p] = [proc[p] EXCEPT !.pc = Caller(proc[p].job), !.saving = {}]]
    BY <1>1, <1>2, <1>4
<1>6. proc' = [proc EXCEPT ![p].pc = Caller(proc[p].job), ![p].saving = {}]
    BY <1>5
<1> QED
    BY <1>1, <1>5, <1>6

\* A step of a save: the temporary file is opened, dumped, or takes the cache's place.
LEMMA SaveStep ==
    ASSUME ArchiveInv, FilesType', NEW p \in Procs, OpenTmp(p) \/ DumpTmp(p) \/ Replace(p)
    PROVE  ArchiveInv'
<1>1. PICK r : r = proc[p]
    OBVIOUS
<1>2. Sound(r) /\ r \in Memory /\ r.pc \in Saving /\ r.job \in Fillers /\ Alive(r)
    BY <1>1, SoundNow DEF Sound, OpenTmp, DumpTmp, Replace, AtItsJob, Alive, Ended, Saving
<1>3. PICK t \in r.saving :
        \/ /\ r.pc = "save" /\ proc' = [proc EXCEPT ![p].pc = "dump", ![p].file = "tmp"]
           /\ UNCHANGED cache /\ tmp' = [tmp EXCEPT ![t] = {Torn}]
        \/ /\ r.pc = "dump" /\ proc' = [proc EXCEPT ![p].pc = "replace"]
           /\ UNCHANGED cache /\ tmp' = [tmp EXCEPT ![t] = {[scores |-> r.mem[t]]}]
        \/ /\ r.pc = "replace" /\ proc' = [proc EXCEPT ![p].pc = Caller(r.job), ![p].saving = {}]
           /\ cache' = [cache EXCEPT ![t] = tmp[t]] /\ tmp' = [tmp EXCEPT ![t] = {}]
    BY <1>1, DumpTmpIs, ReplaceIs DEF OpenTmp, DumpTmp, Replace
<1>4. /\ r.saving = {t} /\ t \in Tickers /\ t \in r.tickers /\ r.tickers \subseteq Tickers
      /\ r.mem[t] \in Caches /\ Fills(p, t)
    BY <1>1, <1>2, <1>3 DEF Sound, AtItsJob, Memory, Fills, Alive, Fillers
<1>5. /\ cache \in [Tickers -> Files(CacheDocs)] /\ tmp \in [Tickers -> Files(CacheDocs)]
      /\ FilesType /\ CachesWhole /\ UNCHANGED raw /\ proc \in [Procs -> Memory]
    BY DEF ArchiveInv, FilesType, OpenTmp, DumpTmp, Replace
<1>6. \A u \in Tickers \ {t} : cache'[u] = cache[u] /\ tmp'[u] = tmp[u]
    BY <1>3, <1>5
<1>7. Keeps(r.mem[t], OnDisk(t))
    BY <1>2, <1>3, <1>4 DEF Sound, CacheLinked, HasLoaded, Fillers, Saving
\* The cache afterwards: as before, or what the process has in memory.
<1>8. /\ CachesWhole'
      /\ Keeps(OnDisk(t)', OnDisk(t))
      /\ r.pc = "replace" => OnDisk(t)' = r.mem[t]
      /\ r.pc # "replace" => OnDisk(t)' = OnDisk(t)
  <2>1. CASE r.pc # "replace"
      BY <1>3, <1>5, <2>1, KeepsItself, OnDiskIs DEF CachesWhole
  <2>2. CASE r.pc = "replace"
    <3>1. tmp[t] = {[scores |-> r.mem[t]]}
        BY <1>2, <1>4, <2>2 DEF Sound, CacheLinked
    <3>2. cache'[t] = {[scores |-> r.mem[t]]}
        BY <1>3, <1>4, <1>5, <2>2, <3>1
    <3>3. [scores |-> r.mem[t]] # Torn
      <4>1. DOMAIN [scores |-> r.mem[t]] = {"scores"} /\ DOMAIN Torn = {"torn"}
          BY DEF Torn
      <4> QED
          BY <4>1
    <3>4. OnDisk(t)' = r.mem[t]
        BY <3>2, OnDiskIs, ScoresInOne
    <3> QED
        BY <1>5, <1>6, <1>7, <2>2, <3>2, <3>3, <3>4 DEF CachesWhole
  <2> QED
      BY <2>1, <2>2
<1>9. \A u \in Tickers \ {t} : OnDisk(u)' = OnDisk(u)
    BY <1>6, OnDiskIs
<1>10. \A u \in Tickers : Keeps(OnDisk(u)', OnDisk(u))
    BY <1>8, <1>9, KeepsItself
<1>11. PICK s : s = proc'[p]
    OBVIOUS
<1>12. /\ s \in Memory /\ s.job = r.job /\ s.tickers = r.tickers /\ s.left = r.left
       /\ s.mem = r.mem /\ s.seen = r.seen /\ s.todo = r.todo /\ s.scores = r.scores
       /\ s.final = r.final /\ proc' = [proc EXCEPT ![p] = s]
       /\ \/ r.pc = "save" /\ s.pc = "dump" /\ s.saving = {t} /\ s.file = "tmp"
          \/ r.pc = "dump" /\ s.pc = "replace" /\ s.saving = {t}
          \/ r.pc = "replace" /\ s.pc = Caller(r.job) /\ s.saving = {}
  <2>1. Caller(r.job) \in {"flush", "merge", "serve"}
      BY <1>2 DEF Caller, Fillers
  <2> QED
      BY SMTT(30), <1>1, <1>2, <1>3, <1>4, <1>5, <1>11, <2>1 DEF Memory, Saving
<1>13. Alive(s) /\ AtItsJob(s)
    BY <1>2, <1>4, <1>12 DEF Alive, Ended, AtItsJob, Sound, Saving, Fillers, Caller
<1>14. Accounted(s)
  <2>1. s.job = "score" => s.pc \notin {"load", "score"} /\ r.pc \notin {"load", "score"}
      BY <1>2, <1>12 DEF Caller, Saving
  <2>2. Accounted(r)
      BY <1>2 DEF Sound
  <2> QED
      BY <1>2, <1>12, <2>1, <2>2 DEF Accounted
<1>15. CacheLinked(s)'
  <2>1. /\ s.pc = "replace" => tmp'[t] = {[scores |-> s.mem[t]]} /\ s.saving = {t}
        /\ s.pc = "dump" => s.file = "tmp" /\ tmp'[t] = {Torn} /\ s.saving = {t}
      BY <1>2, <1>3, <1>4, <1>5, <1>12 DEF Caller, Fillers, Saving
  <2>2. ASSUME NEW u \in s.tickers, HasLoaded(s, u) PROVE Keeps(s.mem[u], OnDisk(u)')
    <3>1. CASE u = t
        BY <1>7, <1>8, <1>12, <3>1, KeepsItself
    <3>2. CASE u # t
      <4>1. HasLoaded(r, u)
          BY <1>2, <1>4, <1>12, <2>2, <3>2 DEF HasLoaded, Saving
      <4> QED
          BY <1>2, <1>4, <1>9, <1>12, <3>2, <4>1 DEF Sound, CacheLinked
    <3> QED
        BY <3>1, <3>2
  <2>3. ASSUME s.job = "score", s.final # "failed", NEW u \in s.tickers \ s.saving
        PROVE  s.mem[u] = OnDisk(u)'
    <3>1. CASE u = t
        BY <1>8, <1>12, <2>3, <3>1
    <3>2. CASE u # t
      <4>1. HasLoaded(r, u)
          BY <1>2, <1>12, <2>3 DEF HasLoaded, Saving
      <4> QED
          BY <1>2, <1>4, <1>9, <1>12, <2>3, <3>2, <4>1 DEF Sound, CacheLinked
    <3> QED
        BY <3>1, <3>2
  <2> QED
      BY <2>1, <2>2, <2>3 DEF CacheLinked
<1>16. RawLinked(s)' /\ SuccessScored(s)'
    BY <1>2, <1>12 DEF RawLinked, SuccessScored, Caller, Fillers, Saving
<1>17. OneWriter'
  <2>1. Alone(p, s)
      BY <1>1, <1>2, <1>12, StaysAlone
  <2> QED
      BY <1>12, <2>1, OneWriterStep
<1>18. ASSUME NEW q \in Procs
       PROVE  (/\ AtItsJob(proc[q])
               /\ Accounted(proc[q])
               /\ CacheLinked(proc[q])
               /\ RawLinked(proc[q])
               /\ SuccessScored(proc[q]))'
  <2>1. CASE q = p
      BY <1>11, <1>13, <1>14, <1>15, <1>16, <2>1
  <2>2. CASE q # p
    <3>1. PICK x \in Memory : x = proc[q] /\ x = proc'[q] /\ Sound(x)
        BY <1>5, <1>12, <2>2, SoundNow
    <3>2. CacheLinked(x)'
        BY <1>4, <1>6, <2>2, <3>1, OthersApart
    <3>3. RawLinked(x)'
        BY <1>5, <3>1 DEF Sound, RawLinked
    <3>4. SuccessScored(x)'
        BY <1>10, <3>1 DEF Sound, SuccessScored, Keeps
    <3> QED
        BY <3>1, <3>2, <3>3, <3>4 DEF Sound
  <2> QED
      BY <2>1, <2>2
<1>19. proc' \in [Procs -> Memory]
    BY <1>5, <1>12
<1> QED
    BY <1>8, <1>17, <1>18, <1>19 DEF ArchiveInv

-----------------------------------------------------------------------------
(***************************************************************************)
(* The builder.                                                            *)
(***************************************************************************)
\* A step of a builder: only it writes the files of its ticker.
LEMMA BuilderStep ==
    ASSUME ArchiveInv, FilesType', UNCHANGED <<cache, tmp>>, NEW p \in Procs,
           proc[p].job = "build", Alive(proc[p]), NEW t \in proc[p].tickers, NEW s \in Memory,
           proc' = [proc EXCEPT ![p] = s], s.pc \in {"days", "open", "writing"}, s.job = "build",
           s.tickers = proc[p].tickers, s.left = proc[p].left, s.saving = proc[p].saving,
           RawLinked(s)', \A u \in Tickers \ {t} : raw'[u] = raw[u]
    PROVE  ArchiveInv'
<1>1. Sound(proc[p]) /\ proc \in [Procs -> Memory] /\ t \in Tickers
    BY SoundNow DEF Sound, ArchiveInv, Memory
<1>2. AtItsJob(s)
    BY <1>1 DEF Sound, AtItsJob, Saving, Fillers
<1>3. Alive(s)
    BY DEF Alive, Ended
<1>4. \A r \in Memory : /\ CacheLinked(r) => CacheLinked(r)'
                        /\ SuccessScored(r) => SuccessScored(r)'
    BY DEF CacheLinked, SuccessScored, OnDisk
<1>5. Accounted(s) /\ CacheLinked(s)' /\ SuccessScored(s)'
    BY DEF Accounted, CacheLinked, HasLoaded, SuccessScored
<1>6. OneWriter'
  <2>1. Alone(p, s)
      BY <1>3, StaysAlone
  <2> QED
      BY <2>1, OneWriterStep
<1>7. CachesWhole'
    BY DEF ArchiveInv, CachesWhole
<1>8. ASSUME NEW q \in Procs
      PROVE  (/\ AtItsJob(proc[q])
              /\ Accounted(proc[q])
              /\ CacheLinked(proc[q])
              /\ RawLinked(proc[q])
              /\ SuccessScored(proc[q]))'
  <2>1. CASE q = p
      BY <1>1, <1>2, <1>5, <2>1
  <2>2. CASE q # p
    <3>1. PICK x \in Memory : x = proc[q] /\ x = proc'[q] /\ Sound(x)
        BY <1>1, <2>2, SoundNow
    <3>2. x.tickers \subseteq Tickers
        BY <3>1 DEF Memory
    <3>3. ASSUME x.pc \in {"open", "writing"} PROVE t \notin x.tickers
      <4>1. x.job = "build" /\ Alive(x)
          BY <3>1, <3>3 DEF Sound, AtItsJob, Alive, Ended
      <4>2. t \in x.tickers => Builds(p, t) /\ Builds(q, t)
          BY <3>1, <4>1 DEF Builds, Alive
      <4> QED
          BY <1>1, <2>2, <4>2 DEF ArchiveInv, OneWriter
    <3>4. RawLinked(x)'
        BY <3>1, <3>2, <3>3 DEF Sound, RawLinked
    <3> QED
        BY <1>4, <3>1, <3>4 DEF Sound
  <2> QED
      BY <2>1, <2>2
<1>9. proc' \in [Procs -> Memory]
    BY <1>1
<1> QED
    BY <1>6, <1>7, <1>8, <1>9 DEF ArchiveInv

\* The next day of a builder's ticker is one day.
LEMMA NextDayIsOne ==
    ASSUME ArchiveInv, NEW p \in Procs, NEW t \in Tickers, NEW d \in Days, IsNextDay(p, t, d),
           proc[p].job = "build", NEW u \in proc[p].tickers, NEW e \in Days,
           \E a \in proc[p].seen[u] : DayOf[a] = e, \A a \in proc[p].seen[u] : e <= DayOf[a]
    PROVE  u = t /\ e = d
<1>1. PICK r : r = proc[p]
    OBVIOUS
<1>2. Sound(r) /\ r \in Memory
    BY <1>1, SoundNow DEF Sound
<1>3. u = t
    BY <1>1, <1>2 DEF IsNextDay, Sound, AtItsJob
<1>4. (\E a \in r.seen[t] : DayOf[a] = d) /\ (\A a \in r.seen[t] : d <= DayOf[a])
    BY <1>1 DEF IsNextDay, FetchedOn
<1>5. \A a \in r.seen[t] : DayOf[a] \in Nat
    BY <1>2, ArchiveAssumption DEF Memory
<1>6. d <= e /\ e <= d /\ d \in Nat /\ e \in Nat
    BY <1>1, <1>3, <1>4, <1>5
<1> QED
    BY <1>3, <1>6

\* A day that exists is passed over.
LEMMA SkipDayStep ==
    ASSUME ArchiveInv, FilesType', NEW p \in Procs, SkipDay(p)
    PROVE  ArchiveInv'
<1>1. PICK t \in Tickers, d \in Days :
        IsNextDay(p, t, d) /\ proc' = [proc EXCEPT ![p] = NextDay(p, t, d)]
    BY DEF SkipDay
<1>2. Sound(proc[p]) /\ proc[p] \in Memory /\ proc[p].pc = "days" /\ t \in proc[p].tickers
      /\ proc[p].job = "build" /\ Alive(proc[p]) /\ UNCHANGED files
    BY <1>1, SoundNow DEF Sound, SkipDay, IsNextDay, AtItsJob, Alive, Ended
<1>3. PICK s : s = NextDay(p, t, d)
    OBVIOUS
<1>4. /\ s \in Memory /\ s.pc = "days" /\ s.job = "build" /\ s.tickers = proc[p].tickers
      /\ s.left = proc[p].left /\ s.saving = proc[p].saving
    BY <1>2, <1>3 DEF NextDay, Memory, FetchedOn
<1>5. RawLinked(s)'
    BY <1>4 DEF RawLinked
<1> QED
    BY <1>1, <1>2, <1>3, <1>4, <1>5, BuilderStep DEF files

\* A builder that goes on to a file that is not there, or to one it opened.
LEMMA AtDayStep ==
    ASSUME ArchiveInv, FilesType', UNCHANGED <<cache, tmp>>, NEW p \in Procs,
           proc[p].job = "build", Alive(proc[p]),
           NEW label \in {"open", "writing"}, proc' = [proc EXCEPT ![p].pc = label],
           NEW t \in Tickers, NEW d \in Days, IsNextDay(p, t, d),
           raw'[t][d] = IF label = "open" THEN {} ELSE {Torn},
           \A u \in Tickers \ {t} : raw'[u] = raw[u]
    PROVE  ArchiveInv'
<1>1. PICK r : r = proc[p]
    OBVIOUS
<1>2. Sound(r) /\ r \in Memory /\ t \in r.tickers /\ proc \in [Procs -> Memory]
    BY <1>1, SoundNow DEF Sound, IsNextDay, ArchiveInv
<1>3. PICK s : s = [r EXCEPT !.pc = label]
    OBVIOUS
<1>4. /\ s \in Memory /\ s.pc = label /\ s.job = "build" /\ s.tickers = r.tickers
      /\ s.left = r.left /\ s.saving = r.saving /\ s.seen = r.seen
      /\ proc' = [proc EXCEPT ![p] = s]
    BY <1>1, <1>2, <1>3 DEF Memory
<1>5. RawLinked(s)'
  <2> SUFFICES ASSUME NEW u \in s.tickers, NEW e \in Days,
                      \E a \in s.seen[u] : DayOf[a] = e, \A a \in s.seen[u] : e <= DayOf[a]
               PROVE  raw'[u][e] = IF label = "open" THEN {} ELSE {Torn}
      BY <1>4 DEF RawLinked
  <2>1. u = t /\ e = d
      BY <1>1, <1>4, NextDayIsOne
  <2> QED
      BY <2>1
<1> QED
    BY <1>1, <1>2, <1>4, <1>5, BuilderStep

\* The day's file is not there, and nobody else makes it before it is opened.
LEMMA CheckDayStep ==
    ASSUME ArchiveInv, FilesType', NEW p \in Procs, CheckDay(p)
    PROVE  ArchiveInv'
<1>1. PICK t \in Tickers, d \in Days : IsNextDay(p, t, d) /\ ~Exists(t, d)
    BY DEF CheckDay
<1>2. /\ proc[p].job = "build" /\ Alive(proc[p]) /\ UNCHANGED <<raw, cache, tmp>>
      /\ proc' = [proc EXCEPT ![p].pc = "open"]
    BY SoundNow DEF Sound, CheckDay, AtItsJob, Alive, Ended, files
<1> QED
    BY <1>1, <1>2, AtDayStep DEF Exists

\* Before the dump the day's file, and only that, is torn.
LEMMA OpenDayStep ==
    ASSUME ArchiveInv, FilesType', NEW p \in Procs, OpenDay(p)
    PROVE  ArchiveInv'
<1>1. PICK t \in Tickers, d \in Days : IsNextDay(p, t, d) /\ raw' = [raw EXCEPT ![t][d] = {Torn}]
    BY DEF OpenDay
<1>2. /\ proc[p].job = "build" /\ Alive(proc[p]) /\ UNCHANGED <<cache, tmp>>
      /\ proc' = [proc EXCEPT ![p].pc = "writing"]
      /\ raw \in [Tickers -> [Days -> Files(DayDocs)]]
    BY SoundNow DEF Sound, OpenDay, AtItsJob, Alive, Ended, ArchiveInv, FilesType
<1>3. raw'[t][d] = {Torn} /\ \A u \in Tickers \ {t} : raw'[u] = raw[u]
    BY <1>1, <1>2
<1> QED
    BY <1>1, <1>2, <1>3, AtDayStep

\* What a builder dumps is all there is in the file it opened.
LEMMA DumpDayIs ==
    ASSUME ArchiveInv, NEW p \in Procs, DumpDay(p)
    PROVE  \E t \in Tickers, d \in Days :
              /\ IsNextDay(p, t, d) /\ raw[t][d] = {Torn}
              /\ raw' = [raw EXCEPT ![t][d] = {[articles |-> FetchedOn(p, t, d)]}]
              /\ proc' = [proc EXCEPT ![p] = NextDay(p, t, d)]
<1>1. PICK t \in Tickers, d \in Days :
        /\ IsNextDay(p, t, d)
        /\ \E text \in Dumped(raw[t][d], [articles |-> FetchedOn(p, t, d)]) :
              raw' = [raw EXCEPT ![t][d] = text]
        /\ proc' = [proc EXCEPT ![p] = NextDay(p, t, d)]
    BY DEF DumpDay
<1>2. PICK r : r = proc[p]
    OBVIOUS
<1>3. RawLinked(r) /\ r.pc = "writing"
    BY <1>2, SoundNow DEF Sound, DumpDay
<1>4. raw[t][d] = {Torn}
    BY <1>1, <1>2, <1>3 DEF RawLinked, IsNextDay, FetchedOn
<1>5. Dumped(raw[t][d], [articles |-> FetchedOn(p, t, d)]) = {{[articles |-> FetchedOn(p, t, d)]}}
    BY <1>4 DEF Dumped
<1> QED
    BY <1>1, <1>4, <1>5

\* The dump completes the day, and the builder goes on to the next.
LEMMA DumpDayStep ==
    ASSUME ArchiveInv, FilesType', NEW p \in Procs, DumpDay(p)
    PROVE  ArchiveInv'
<1>1. PICK t \in Tickers, d \in Days :
        /\ IsNextDay(p, t, d)
        /\ raw' = [raw EXCEPT ![t][d] = {[articles |-> FetchedOn(p, t, d)]}]
        /\ proc' = [proc EXCEPT ![p] = NextDay(p, t, d)]
    BY DumpDayIs
<1>2. Sound(proc[p]) /\ proc[p] \in Memory /\ proc[p].pc = "writing" /\ t \in proc[p].tickers
      /\ proc[p].job = "build" /\ Alive(proc[p]) /\ UNCHANGED <<cache, tmp>>
      /\ raw \in [Tickers -> [Days -> Files(DayDocs)]]
    BY <1>1, SoundNow DEF Sound, DumpDay, IsNextDay, AtItsJob, Alive, Ended, ArchiveInv, FilesType
<1>3. PICK s : s = NextDay(p, t, d)
    OBVIOUS
<1>4. /\ s \in Memory /\ s.pc = "days" /\ s.job = "build" /\ s.tickers = proc[p].tickers
      /\ s.left = proc[p].left /\ s.saving = proc[p].saving
    BY <1>2, <1>3 DEF NextDay, Memory, FetchedOn
<1>5. RawLinked(s)'
    BY <1>4 DEF RawLinked
<1>6. \A u \in Tickers \ {t} : raw'[u] = raw[u]
    BY <1>1, <1>2
<1> QED
    BY <1>1, <1>2, <1>3, <1>4, <1>5, <1>6, BuilderStep

-----------------------------------------------------------------------------
(***************************************************************************)
(* The files keep their types, and all together.                           *)
(***************************************************************************)
LEMMA FilesTypeStep ==
    ASSUME ArchiveInv, [Next]_vars
    PROVE  FilesType'
<1>1. /\ raw \in [Tickers -> [Days -> Files(DayDocs)]]
      /\ cache \in [Tickers -> Files(CacheDocs)]
      /\ tmp \in [Tickers -> Files(CacheDocs)]
      /\ interrupts \in 0..MaxInterrupts /\ crashes \in 0..MaxCrashes
      /\ published \subseteq Articles
    BY DEF ArchiveInv, FilesType
<1>2. {Torn} \in Files(DayDocs) /\ {Torn} \in Files(CacheDocs) /\ {} \in Files(CacheDocs)
    BY DEF Files
<1>3. ASSUME NEW p \in Procs, NEW t \in Tickers, NEW d \in Days
      PROVE  {[articles |-> FetchedOn(p, t, d)]} \in Files(DayDocs)
  <2>1. FetchedOn(p, t, d) \in SUBSET Articles
      BY DEF FetchedOn, ArchiveInv, Memory
  <2> QED
      BY <2>1 DEF Files, DayDocs
<1>4. ASSUME NEW p \in Procs, NEW t \in Tickers
      PROVE  {[scores |-> proc[p].mem[t]]} \in Files(CacheDocs)
  <2>1. proc[p].mem[t] \in Caches
      BY DEF ArchiveInv, Memory
  <2> QED
      BY <2>1 DEF Files, CacheDocs
<1>5. \A p \in Procs : proc[p].tickers \subseteq Tickers /\ proc[p].saving \subseteq Tickers
    BY DEF ArchiveInv, Memory
<1>6. ASSUME NEW p \in Procs, OpenDay(p) PROVE FilesType'
  <2>1. PICK t \in Tickers, d \in Days : raw' = [raw EXCEPT ![t][d] = {Torn}]
      BY <1>6 DEF OpenDay
  <2>2. raw' \in [Tickers -> [Days -> Files(DayDocs)]]
      BY <1>1, <1>2, <2>1
  <2> QED
      BY <1>1, <1>6, <2>2 DEF OpenDay, FilesType, bounds
<1>7. ASSUME NEW p \in Procs, DumpDay(p) PROVE FilesType'
  <2>1. PICK t \in Tickers, d \in Days :
          raw' = [raw EXCEPT ![t][d] = {[articles |-> FetchedOn(p, t, d)]}]
      BY <1>7, DumpDayIs
  <2>2. raw' \in [Tickers -> [Days -> Files(DayDocs)]]
      BY <1>1, <1>3, <2>1
  <2> QED
      BY <1>1, <1>7, <2>2 DEF DumpDay, FilesType, bounds
<1>8. ASSUME NEW p \in Procs, OpenTmp(p) PROVE FilesType'
  <2>1. PICK t \in Tickers : tmp' = [tmp EXCEPT ![t] = {Torn}]
      BY <1>5, <1>8 DEF OpenTmp
  <2>2. tmp' \in [Tickers -> Files(CacheDocs)]
      BY <1>1, <1>2, <2>1
  <2> QED
      BY <1>1, <1>8, <2>2 DEF OpenTmp, FilesType, bounds
<1>9. ASSUME NEW p \in Procs, DumpTmp(p) PROVE FilesType'
  <2>1. PICK t \in Tickers : tmp' = [tmp EXCEPT ![t] = {[scores |-> proc[p].mem[t]]}]
      BY <1>5, <1>9, DumpTmpIs
  <2>2. tmp' \in [Tickers -> Files(CacheDocs)] /\ UNCHANGED cache
      BY <1>1, <1>4, <1>9, <2>1, DumpTmpIs
  <2> QED
      BY <1>1, <1>9, <2>2 DEF DumpTmp, FilesType, bounds
<1>10. ASSUME NEW p \in Procs, Replace(p) PROVE FilesType'
  <2>1. PICK t \in Tickers : /\ cache' = [cache EXCEPT ![t] = tmp[t]]
                             /\ tmp' = [tmp EXCEPT ![t] = {}]
      BY <1>5, <1>10, ReplaceIs
  <2>2. cache' \in [Tickers -> Files(CacheDocs)] /\ tmp' \in [Tickers -> Files(CacheDocs)]
      BY <1>1, <1>2, <2>1
  <2> QED
      BY <1>1, <1>10, <2>2 DEF Replace, FilesType, bounds
<1>11. CASE Publish
    BY <1>1, <1>11 DEF Publish, FilesType, files, bounds
<1>12. ASSUME NEW p \in Procs, Interrupt(p) \/ Crash(p) PROVE FilesType'
    BY <1>1, <1>12, ArchiveAssumption DEF Interrupt, Crash, FilesType, files
<1>13. CASE UNCHANGED <<published, files, bounds>>
    BY <1>1, <1>13 DEF FilesType, files, bounds
<1>14. ASSUME NEW p \in Procs,
              \/ StartBuild(p) \/ SkipDay(p) \/ CheckDay(p) \/ EndBuild(p) \/ ReplaceFails(p)
              \/ Score(p) \/ Merge(p) \/ Read(p)
       PROVE  UNCHANGED <<published, files, bounds>>
  <2>1. CASE StartBuild(p) \/ SkipDay(p) \/ CheckDay(p) \/ EndBuild(p) \/ ReplaceFails(p)
      BY <2>1 DEF StartBuild, SkipDay, CheckDay, EndBuild, ReplaceFails, Starts
  <2>2. CASE Score(p)
      BY <2>2 DEF Score, StartScore, Starts, Load, Todo, ScoreBatch, ScoredAll, ScoreFails, Flush, EndFlush
  <2>3. CASE Merge(p) \/ Read(p)
      BY <2>3 DEF Merge, Read, StartMerge, MergeTicker, EndMerge, StartRead, Serve, EndRead, Starts
  <2> QED
      BY <1>14, <2>1, <2>2, <2>3
<1> QED
    BY <1>6, <1>7, <1>8, <1>9, <1>10, <1>11, <1>12, <1>13, <1>14 DEF Next, Build, Save, Rename, vars

\* Which steps leave which files alone.
LEMMA QuietActions ==
    ASSUME NEW p \in Procs,
           \/ StartBuild(p) \/ SkipDay(p) \/ CheckDay(p) \/ EndBuild(p) \/ ReplaceFails(p)
           \/ Score(p) \/ Merge(p) \/ Read(p) \/ Interrupt(p) \/ Crash(p)
    PROVE  UNCHANGED files
<1>1. CASE \/ StartBuild(p) \/ SkipDay(p) \/ CheckDay(p) \/ EndBuild(p) \/ ReplaceFails(p)
           \/ Interrupt(p) \/ Crash(p)
    BY <1>1 DEF StartBuild, SkipDay, CheckDay, EndBuild, ReplaceFails, Starts, Interrupt, Crash
<1>2. CASE Score(p)
    BY <1>2 DEF Score, StartScore, Starts, Load, Todo, ScoreBatch, ScoredAll, ScoreFails, Flush, EndFlush
<1>3. CASE Merge(p) \/ Read(p)
    BY <1>3 DEF Merge, Read, StartMerge, MergeTicker, EndMerge, StartRead, Serve, EndRead, Starts
<1> QED
    BY <1>1, <1>2, <1>3

\* Only a save puts a file in a cache's place.
LEMMA OnlyReplaceWritesCaches ==
    ASSUME ArchiveInv, [Next]_vars
    PROVE  UNCHANGED cache \/ \E p \in Procs : Replace(p)
<1>1. ASSUME NEW p \in Procs, OpenDay(p) \/ DumpDay(p) \/ OpenTmp(p) \/ DumpTmp(p)
      PROVE  UNCHANGED cache
    BY <1>1, DumpTmpIs DEF OpenDay, DumpDay, OpenTmp
<1>2. Publish \/ UNCHANGED vars => UNCHANGED cache
    BY DEF Publish, vars, files
<1> QED
    BY <1>1, <1>2, QuietActions DEF Next, Build, Save, Rename, files

\* Only a builder writes the files of the days.
LEMMA OnlyBuildersWriteDays ==
    ASSUME [Next]_vars
    PROVE  UNCHANGED raw \/ \E p \in Procs : OpenDay(p) \/ DumpDay(p)
<1>1. ASSUME NEW p \in Procs, OpenTmp(p) \/ DumpTmp(p) \/ Replace(p)
      PROVE  UNCHANGED raw
    BY <1>1 DEF OpenTmp, DumpTmp, Replace
<1>2. Publish \/ UNCHANGED vars => UNCHANGED raw
    BY DEF Publish, vars, files
<1> QED
    BY <1>1, <1>2, QuietActions DEF Next, Build, Save, Rename, files

-----------------------------------------------------------------------------
(***************************************************************************)
(* The invariant is inductive.                                             *)
(***************************************************************************)
\* The first state: an archive that a build left whole, or none, and nobody at work.
LEMMA ArchiveInit ==
    ASSUME WritersApart, Init
    PROVE  ArchiveInv
<1>1. ASSUME NEW K \in SUBSET Articles PROVE Built(K) \in [Tickers -> [Days -> Files(DayDocs)]]
  <2>1. ASSUME NEW t \in Tickers, NEW d \in Days PROVE Built(K)[t][d] \in Files(DayDocs)
    <3>1. PICK found : found = {a \in K : t \in TaggedWith[a] /\ DayOf[a] = d}
        OBVIOUS
    <3>2. Built(K)[t][d] = IF found = {} THEN {} ELSE {[articles |-> found]}
        BY <3>1 DEF Built
    <3>3. [articles |-> found] \in DayDocs
        BY <3>1 DEF DayDocs
    <3> QED
        BY <3>2, <3>3 DEF Files
  <2> QED
      BY <2>1 DEF Built
<1>2. {} \in SUBSET Articles /\ published \in SUBSET Articles
    BY DEF Init
<1>3. raw \in [Tickers -> [Days -> Files(DayDocs)]]
    BY <1>1, <1>2 DEF Init
<1>4. FilesType
    BY <1>2, <1>3, ArchiveAssumption DEF Init, FilesType, Files
<1>5. CachesWhole
    BY DEF Init, CachesWhole
<1>6. proc \in [Procs -> Memory] /\ \A p \in Procs : proc[p] = Off
    BY OffIsMemory DEF Init
<1>7. /\ Off.pc = "idle" /\ Off.job = "none" /\ Off.tickers = {} /\ Off.left = {} /\ Off.saving = {}
    BY DEF Off
<1>8. OneWriter
    BY <1>6, <1>7 DEF OneWriter, Builds, Fills
<1>9. AtItsJob(Off) /\ Accounted(Off) /\ CacheLinked(Off) /\ RawLinked(Off) /\ SuccessScored(Off)
    BY <1>7 DEF AtItsJob, Accounted, CacheLinked, RawLinked, SuccessScored, Saving, Alive, Ended
<1> QED
    BY <1>4, <1>5, <1>6, <1>8, <1>9 DEF ArchiveInv

\* The orderly ends of a build, a merge and a reader.
LEMMA EndsStep ==
    ASSUME ArchiveInv, FilesType', NEW p \in Procs, EndBuild(p) \/ EndMerge(p) \/ EndRead(p)
    PROVE  ArchiveInv'
<1>1. Sound(proc[p]) /\ UNCHANGED files /\ Ends(p, "done") /\ proc[p].pc \in {"days", "merge", "serve"}
    BY SoundNow DEF EndBuild, EndMerge, EndRead
<1>2. proc[p].job # "score"
    BY <1>1 DEF Sound, AtItsJob
<1> QED
    BY <1>1, <1>2, EndStep

\* The two ways into the last flush but an interrupt.
LEMMA LastFlushStep ==
    ASSUME ArchiveInv, FilesType', NEW p \in Procs, ScoredAll(p) \/ ScoreFails(p)
    PROVE  ArchiveInv'
<1>1. Sound(proc[p]) /\ UNCHANGED files /\ proc[p].pc = "score"
    BY SoundNow DEF ScoredAll, ScoreFails
<1>2. Alive(proc[p]) /\ proc[p].job = "score" /\ proc[p].pc # "load"
    BY <1>1 DEF Sound, AtItsJob, Alive, Ended
<1>3. CASE ScoredAll(p)
    BY <1>1, <1>2, <1>3, EnterFlushStep DEF ScoredAll
<1>4. CASE ScoreFails(p)
    BY <1>1, <1>2, <1>4, EnterFlushStep DEF ScoreFails
<1> QED
    BY <1>3, <1>4

\* News that is published, and a step of somebody else.
LEMMA StutterStep ==
    ASSUME ArchiveInv, FilesType', UNCHANGED <<files, proc>>
    PROVE  ArchiveInv'
<1>1. \A r : /\ CacheLinked(r) => CacheLinked(r)'
             /\ RawLinked(r) => RawLinked(r)'
             /\ SuccessScored(r) => SuccessScored(r)'
    BY DEF files, CacheLinked, RawLinked, SuccessScored, OnDisk
<1>2. CachesWhole' /\ OneWriter' /\ proc' \in [Procs -> Memory]
    BY DEF ArchiveInv, files, CachesWhole, OneWriter, Builds, Fills
<1>3. ASSUME NEW q \in Procs
      PROVE  (/\ AtItsJob(proc[q])
              /\ Accounted(proc[q])
              /\ CacheLinked(proc[q])
              /\ RawLinked(proc[q])
              /\ SuccessScored(proc[q]))'
  <2>1. PICK r : r = proc[q] /\ r = proc'[q]
      OBVIOUS
  <2> QED
      BY <1>1, <2>1, SoundNow DEF Sound
<1> QED
    BY <1>2, <1>3 DEF ArchiveInv

\* No step leads out of the invariant.
LEMMA ArchiveNext ==
    ASSUME ArchiveInv, [Next]_vars
    PROVE  ArchiveInv'
<1>1. FilesType'
    BY FilesTypeStep
<1>2. ASSUME NEW p \in Procs, Build(p) PROVE ArchiveInv'
    BY <1>1, <1>2, StartBuildStep, SkipDayStep, CheckDayStep, OpenDayStep, DumpDayStep, EndsStep
    DEF Build
<1>3. ASSUME NEW p \in Procs, Save(p) PROVE ArchiveInv'
    BY <1>1, <1>3, SaveStep, InterruptStep DEF Save, Rename
<1>4. ASSUME NEW p \in Procs, Score(p) PROVE ArchiveInv'
    BY <1>1, <1>4, StartScoreStep, LoadStep, TodoStep, ScoreBatchStep, LastFlushStep, FlushStep, EndFlushStep
    DEF Score
<1>5. ASSUME NEW p \in Procs, Merge(p) PROVE ArchiveInv'
    BY <1>1, <1>5, StartMergeStep, MergeStep, EndsStep DEF Merge
<1>6. ASSUME NEW p \in Procs, Read(p) PROVE ArchiveInv'
    BY <1>1, <1>6, StartReadStep, ServeStep, EndsStep DEF Read
<1>7. ASSUME NEW p \in Procs, Interrupt(p) \/ Crash(p) PROVE ArchiveInv'
    BY <1>1, <1>7, InterruptStep, CrashStep
<1>8. CASE Publish \/ UNCHANGED vars
  <2>1. UNCHANGED <<files, proc>>
      BY <1>8 DEF Publish, vars
  <2> QED
      BY <1>1, <2>1, StutterStep
<1> QED
    BY <1>2, <1>3, <1>4, <1>5, <1>6, <1>7, <1>8 DEF Next

\* Every reachable state of the archive satisfies the invariant.
LEMMA ArchiveInductive == WritersApart => (Spec => []ArchiveInv)
<1> SUFFICES ASSUME WritersApart PROVE Spec => []ArchiveInv
    OBVIOUS
<1>1. Init => ArchiveInv
    BY ArchiveInit
<1>2. ArchiveInv /\ [Next]_vars => ArchiveInv'
    BY ArchiveNext
<1> QED
    BY <1>1, <1>2, PTL DEF Spec

-----------------------------------------------------------------------------
(***************************************************************************)
(* The state of the archive, its caches and the processes at work on them  *)
(* is well typed: among others, every file is absent, torn or one whole    *)
(* document, and what a process still has to load is among its tickers.    *)
(***************************************************************************)
THEOREM ArchiveTypeCorrect == WritersApart => (Spec => []TypeOK)
<1> SUFFICES ASSUME WritersApart PROVE Spec => []TypeOK
    OBVIOUS
<1>1. ArchiveInv => TypeOK
  <2> SUFFICES ASSUME ArchiveInv PROVE TypeOK
      OBVIOUS
  <2>1. FilesType
      BY DEF ArchiveInv
  <2>2. ASSUME NEW p \in Procs
        PROVE  /\ proc[p].tickers \subseteq Tickers /\ proc[p].left \subseteq proc[p].tickers
               /\ \A t \in Tickers : proc[p].mem[t] \in Caches \cup {NoScores}
               /\ proc[p].scores \subseteq Articles
               /\ proc[p].since \in 0..(FlushTexts - 1)
    <3>1. PICK r : r = proc[p]
        OBVIOUS
    <3>2. r \in Memory /\ AtItsJob(r)
        BY <3>1, SoundNow DEF Sound
    <3> QED
        BY <3>1, <3>2 DEF Memory, AtItsJob
  <2> QED
      BY <2>1, <2>2 DEF FilesType, TypeOK
<1> QED
    BY <1>1, ArchiveInductive, PTL

(***************************************************************************)
(* Whatever processes run, are interrupted or are killed between any two   *)
(* steps, no score cache on disk is ever half written.                     *)
(***************************************************************************)
THEOREM CachesStayWhole == WritersApart => (Spec => []CachesWhole)
<1> SUFFICES ASSUME WritersApart PROVE Spec => []CachesWhole
    OBVIOUS
<1>1. ArchiveInv => CachesWhole
    BY DEF ArchiveInv
<1> QED
    BY <1>1, ArchiveInductive, PTL

(***************************************************************************)
(* A scoring run that reports success has left a score on disk for every   *)
(* article it read, under every ticker that carries it, though other       *)
(* processes may have come and gone since.                                 *)
(***************************************************************************)
THEOREM SuccessIsScored == WritersApart => (Spec => []DoneIsScored)
<1> SUFFICES ASSUME WritersApart PROVE Spec => []DoneIsScored
    OBVIOUS
<1>1. ArchiveInv => DoneIsScored
    BY DEF ArchiveInv, DoneIsScored, SuccessScored
<1> QED
    BY <1>1, ArchiveInductive, PTL

\* What a cache file says, it says after every step.
LEMMA ScoresKeptStep ==
    ASSUME ArchiveInv, [Next]_vars, NEW t \in Tickers,
           NEW old \in cache[t] \ {Torn}, NEW new \in cache'[t] \ {Torn}
    PROVE  Keeps(new.scores, old.scores)
<1>1. FilesType /\ CachesWhole
    BY DEF ArchiveInv
<1>2. old = [scores |-> OnDisk(t)]
    BY <1>1, OnDiskCache
<1>3. CASE UNCHANGED cache
  <2>1. new = old
      BY <1>1, <1>2, <1>3, OnDiskCache
  <2> QED
      BY <2>1, KeepsItself
<1>4. ASSUME NEW p \in Procs, Replace(p) PROVE Keeps(new.scores, old.scores)
  <2>1. PICK r : r = proc[p]
      OBVIOUS
  <2>2. PICK u \in r.saving : cache' = [cache EXCEPT ![u] = tmp[u]]
      BY <1>4, <2>1, ReplaceIs
  <2>3. Sound(r) /\ r.pc = "replace" /\ cache \in [Tickers -> Files(CacheDocs)]
      BY <1>1, <1>4, <2>1, SoundNow DEF Replace, FilesType
  <2>4. CASE u # t
    <3>1. new = old
        BY <1>1, <1>2, <2>2, <2>3, <2>4, OnDiskCache
    <3> QED
        BY <3>1, KeepsItself
  <2>5. CASE u = t
    <3>1. Alive(r) /\ t \in r.tickers /\ HasLoaded(r, t)
        BY <2>2, <2>3, <2>5 DEF Sound, Alive, Ended, AtItsJob, Saving, Fillers, HasLoaded
    <3>2. tmp[t] = {[scores |-> r.mem[t]]} /\ Keeps(r.mem[t], OnDisk(t))
        BY <2>2, <2>3, <2>5, <3>1 DEF Sound, CacheLinked
    <3>3. new = [scores |-> r.mem[t]]
        BY <2>2, <2>3, <2>5, <3>2
    <3> QED
        BY <1>2, <3>2, <3>3
  <2> QED
      BY <2>4, <2>5
<1> QED
    BY <1>3, <1>4, OnlyReplaceWritesCaches

(***************************************************************************)
(* No step loses a score that is on disk or puts another in its place,     *)
(* though every save writes a whole cache from what was read earlier.      *)
(***************************************************************************)
THEOREM NoScoreIsLost == WritersApart => (Spec => ScoresKept)
<1> SUFFICES ASSUME WritersApart PROVE Spec => ScoresKept
    OBVIOUS
<1>1. ArchiveInv /\ [Next]_vars =>
        [\A t \in Tickers : \A old \in cache[t] \ {Torn}, new \in cache'[t] \ {Torn} :
            \A a \in DOMAIN old.scores : a \in DOMAIN new.scores /\ new.scores[a] = old.scores[a]]_vars
    BY ScoresKeptStep DEF Keeps
<1> QED
    BY <1>1, ArchiveInductive, PTL DEF Spec, ScoresKept

\* A day that has a document keeps it, at every step.
LEMMA DayKeptStep ==
    ASSUME ArchiveInv, [Next]_vars, NEW t \in Tickers, NEW d \in Days, raw[t][d] \ {Torn} # {}
    PROVE  raw'[t][d] = raw[t][d]
<1>1. raw \in [Tickers -> [Days -> Files(DayDocs)]]
    BY DEF ArchiveInv, FilesType
<1>2. ASSUME NEW p \in Procs, OpenDay(p) PROVE raw'[t][d] = raw[t][d]
  <2>1. PICK u \in Tickers, e \in Days : IsNextDay(p, u, e) /\ raw' = [raw EXCEPT ![u][e] = {Torn}]
      BY <1>2 DEF OpenDay
  <2>2. PICK r : r = proc[p]
      OBVIOUS
  <2>3. RawLinked(r) /\ r.pc = "open"
      BY <1>2, <2>2, SoundNow DEF Sound, OpenDay
  <2>4. raw[u][e] = {}
      BY <2>1, <2>2, <2>3 DEF RawLinked, IsNextDay, FetchedOn
  <2>5. ~(u = t /\ e = d)
      BY <2>4
  <2> QED
      BY <1>1, <2>1, <2>5
<1>3. ASSUME NEW p \in Procs, DumpDay(p) PROVE raw'[t][d] = raw[t][d]
  <2>1. PICK u \in Tickers, e \in Days :
          raw[u][e] = {Torn} /\ raw' = [raw EXCEPT ![u][e] = {[articles |-> FetchedOn(p, u, e)]}]
      BY <1>3, DumpDayIs
  <2>2. ~(u = t /\ e = d)
      BY <2>1
  <2> QED
      BY <1>1, <2>1, <2>2
<1> QED
    BY <1>2, <1>3, OnlyBuildersWriteDays

(***************************************************************************)
(* The file of a day that was written is never written again, by whatever  *)
(* build.                                                                  *)
(***************************************************************************)
THEOREM DaysWrittenOnce == WritersApart => (Spec => RawWrittenOnce)
<1> SUFFICES ASSUME WritersApart PROVE Spec => RawWrittenOnce
    OBVIOUS
<1>1. ArchiveInv /\ [Next]_vars =>
        [\A t \in Tickers, d \in Days : raw[t][d] \ {Torn} # {} => raw'[t][d] = raw[t][d]]_vars
    BY DayKeptStep
<1> QED
    BY <1>1, ArchiveInductive, PTL DEF Spec, RawWrittenOnce

-----------------------------------------------------------------------------
(***************************************************************************)
(* Where the scores come from: beside the invariant, all that is in a file *)
(* or in memory was given by FinBERT or by a cache merged in.              *)
(***************************************************************************)
Admitted(f) == \A a \in DOMAIN f : f[a] \in GivenTo(a)

\* A cache made elsewhere: a merge refuses what is no score.
Offered(f) == \A a \in DOMAIN f : f[a] \in Scores => f[a] \in GivenTo(a)

Provenant(r) == \A t \in Tickers : Admitted(r.mem[t]) /\ Offered(r.source[t])

Provenance ==
    /\ \A t \in Tickers : Admitted(OnDisk(t))
    /\ \A p \in Procs : Provenant(proc[p])

\* Where there is no score, there is none of another origin.
LEMMA NoScoresAdmitted == Admitted(NoScores)
BY NoScoresIsCache DEF Admitted

\* The entries of an extended cache come from the two it is made of.
LEMMA ExtendedAdmitted ==
    ASSUME NEW f, NEW g, Admitted(f), Admitted(g)
    PROVE  Admitted(Extended(f, g))
BY DEF Admitted, Extended

\* A fresh score is FinBERT's.
LEMMA FreshAdmitted ==
    ASSUME NEW g, \A a \in DOMAIN g : g[a] = "fits"
    PROVE  Admitted(g)
BY DEF Admitted, GivenTo

\* The caches that may be merged in are among the origins.
LEMMA IncomingAdmitted ==
    ASSUME NEW source \in Incoming, NEW t \in Tickers
    PROVE  Offered(source[t])
<1> SUFFICES ASSUME NEW a \in DOMAIN source[t], source[t][a] \in Scores PROVE source[t][a] \in GivenTo(a)
    BY DEF Offered
<1>1. source[t][a] \in {source[u][a] : u \in {v \in Tickers : a \in DOMAIN source[v]}}
    OBVIOUS
<1> QED
    BY <1>1 DEF GivenTo

\* A process with an empty memory has no score of another origin.
LEMMA OffProvenant ==
    ASSUME NEW r, r.mem = Off.mem, r.source = Off.source
    PROVE  Provenant(r)
<1>1. \A t \in Tickers : r.mem[t] = NoScores /\ r.source[t] = NoScores
    BY DEF Off
<1> QED
    BY <1>1, NoScoresAdmitted DEF Provenant, Admitted, Offered

\* What one process has in memory after a step that leaves the caches alone is all
\* there is to check.
LEMMA ProvenanceStep ==
    ASSUME ArchiveInv, Provenance, NEW p \in Procs, NEW s,
           proc' = [proc EXCEPT ![p] = s], Provenant(s),
           \A t \in Tickers : Admitted(OnDisk(t)')
    PROVE  Provenance'
<1>1. proc'[p] = s /\ \A q \in Procs \ {p} : proc'[q] = proc[q]
    BY DEF ArchiveInv
<1>2. \A q \in Procs : Provenant(proc'[q])
    BY <1>1 DEF Provenance
<1> QED
    BY <1>2 DEF Provenance

\* A step that leaves the caches alone.
LEMMA QuietProvenance ==
    ASSUME ArchiveInv, Provenance, UNCHANGED cache, NEW p \in Procs, NEW s,
           proc' = [proc EXCEPT ![p] = s], Provenant(s)
    PROVE  Provenance'
<1>1. \A t \in Tickers : Admitted(OnDisk(t)')
    BY OnDiskIs DEF Provenance
<1> QED
    BY <1>1, ProvenanceStep

\* The steps that leave the scores in a process's memory as they are.
LEMMA SameScores ==
    ASSUME ArchiveInv, NEW p \in Procs,
           \/ SkipDay(p) \/ CheckDay(p) \/ OpenDay(p) \/ DumpDay(p)
           \/ OpenTmp(p) \/ DumpTmp(p) \/ Replace(p)
           \/ Todo(p) \/ ScoreBatch(p) \/ ScoredAll(p) \/ ScoreFails(p)
    PROVE  /\ proc' = [proc EXCEPT ![p] = proc'[p]]
           /\ proc'[p].mem = proc[p].mem /\ proc'[p].source = proc[p].source
<1>1. proc \in [Procs -> Memory] /\ proc[p] \in Memory
    BY DEF ArchiveInv
<1>2. ASSUME NEW s, proc' = [proc EXCEPT ![p] = s], s.mem = proc[p].mem, s.source = proc[p].source
      PROVE  /\ proc' = [proc EXCEPT ![p] = proc'[p]]
             /\ proc'[p].mem = proc[p].mem /\ proc'[p].source = proc[p].source
    BY <1>1, <1>2
<1>3. CASE SkipDay(p) \/ DumpDay(p)
  <2>1. PICK t, d : proc' = [proc EXCEPT ![p] = NextDay(p, t, d)]
      BY <1>3 DEF SkipDay, DumpDay
  <2>2. NextDay(p, t, d).mem = proc[p].mem /\ NextDay(p, t, d).source = proc[p].source
      BY <1>1 DEF NextDay, Memory
  <2> QED
      BY <1>2, <2>1, <2>2
<1>4. CASE CheckDay(p) \/ OpenDay(p) \/ DumpTmp(p)
  <2>1. PICK label : proc' = [proc EXCEPT ![p].pc = label]
      BY <1>4 DEF CheckDay, OpenDay, DumpTmp
  <2> QED
      BY <1>1, <2>1 DEF Memory
<1>5. CASE OpenTmp(p)
    BY <1>1, <1>5 DEF OpenTmp, Memory
<1>9. CASE Replace(p)
  <2>1. PICK s : /\ s = [proc[p] EXCEPT !.pc = Caller(proc[p].job), !.saving = {}]
                 /\ proc' = [proc EXCEPT ![p] = s]
      BY <1>9, ReplaceIs
  <2>2. s.mem = proc[p].mem /\ s.source = proc[p].source
      BY <1>1, <2>1 DEF Memory
  <2> QED
      BY <1>2, <2>1, <2>2
<1>6. CASE Todo(p)
    BY <1>1, <1>6 DEF Todo, Memory
<1>7. CASE ScoreBatch(p)
  <2>1. PICK batch, since :
          LET scored == [proc[p] EXCEPT !.todo = @ \ batch, !.scores = @ \cup batch]
          IN  proc' = [proc EXCEPT ![p] =
                         IF since >= FlushTexts
                         THEN [scored EXCEPT !.pc = "flush", !.left = proc[p].tickers, !.since = 0]
                         ELSE [scored EXCEPT !.since = since]]
      BY <1>7 DEF ScoreBatch
  <2> QED
      BY <1>1, <2>1 DEF Memory
<1>8. CASE ScoredAll(p) \/ ScoreFails(p)
  <2>1. PICK final : proc' = [proc EXCEPT ![p] = EnterFlush(p, final)]
      BY <1>8 DEF ScoredAll, ScoreFails
  <2>2. EnterFlush(p, final).mem = proc[p].mem /\ EnterFlush(p, final).source = proc[p].source
      BY <1>1 DEF EnterFlush, Memory
  <2> QED
      BY <1>2, <2>1, <2>2
<1> QED
    BY <1>3, <1>4, <1>5, <1>6, <1>7, <1>8, <1>9

\* A process that ends, is cut or is killed has nothing in memory.
LEMMA EndsProvenant ==
    ASSUME ArchiveInv, Provenance, UNCHANGED cache, NEW p \in Procs, NEW why,
           Ends(p, why) \/ proc' = [proc EXCEPT ![p] = [Off EXCEPT !.pc = why]]
    PROVE  Provenance'
<1>1. PICK s \in {Over(p, why), [Off EXCEPT !.pc = why]} : proc' = [proc EXCEPT ![p] = s]
    BY DEF Ends
<1>2. s.mem = Off.mem /\ s.source = Off.source
    BY <1>1 DEF Over, Off
<1> QED
    BY <1>1, <1>2, OffProvenant, QuietProvenance

\* What is saved was in memory, or is of the same origins.
LEMMA SavesProvenant ==
    ASSUME ArchiveInv, Provenance, UNCHANGED cache, NEW p \in Procs, NEW t \in Tickers,
           NEW m, Admitted(m), proc' = [proc EXCEPT ![p] = Saves(p, t, m)]
    PROVE  Provenance'
<1>1. PICK r : r = proc[p]
    OBVIOUS
<1>2. r \in Memory /\ Provenant(r)
    BY <1>1 DEF ArchiveInv, Provenance
<1>3. Saves(p, t, m).mem = [r.mem EXCEPT ![t] = m] /\ Saves(p, t, m).source = r.source
    BY <1>1, <1>2 DEF Saves, Memory
<1>4. Provenant(Saves(p, t, m))
    BY <1>2, <1>3 DEF Provenant, Memory
<1> QED
    BY <1>4, QuietProvenance

\* What a process reads of the caches is of the origins they are of.
LEMMA LoadProvenant ==
    ASSUME ArchiveInv, Provenance, NEW p \in Procs, Load(p)
    PROVE  Provenance'
<1>1. PICK r : r = proc[p]
    OBVIOUS
<1>2. r \in Memory /\ Provenant(r) /\ UNCHANGED cache
    BY <1>1 DEF ArchiveInv, Provenance, Load, files
<1>3. PICK t \in r.left :
        \/ Ends(p, "failed")
        \/ proc' = [proc EXCEPT ![p].left = @ \ {t}, ![p].mem[t] = OnDisk(t), ![p].seen[t] = Archived(t)]
    BY <1>1 DEF Load
<1>4. CASE Ends(p, "failed")
    BY <1>2, <1>4, EndsProvenant
<1>5. CASE proc' = [proc EXCEPT ![p].left = @ \ {t}, ![p].mem[t] = OnDisk(t), ![p].seen[t] = Archived(t)]
  <2>1. PICK s : s = [r EXCEPT !.left = @ \ {t}, !.mem[t] = OnDisk(t), !.seen[t] = Archived(t)]
      OBVIOUS
  <2>2. proc' = [proc EXCEPT ![p] = s]
      BY <1>1, <1>2, <1>5, <2>1 DEF Memory
  <2>3. s.mem = [r.mem EXCEPT ![t] = OnDisk(t)] /\ s.source = r.source /\ t \in Tickers
      BY <1>2, <2>1 DEF Memory
  <2>4. Provenant(s)
      BY <1>2, <2>3 DEF Provenant, Provenance, Memory
  <2> QED
      BY <1>2, <2>2, <2>4, QuietProvenance
<1> QED
    BY <1>3, <1>4, <1>5

\* A flush saves fresh scores, and scores known under another of its tickers.
LEMMA FlushProvenant ==
    ASSUME ArchiveInv, Provenance, NEW p \in Procs, Flush(p)
    PROVE  Provenance'
<1>1. PICK r : r = proc[p]
    OBVIOUS
<1>2. r \in Memory /\ Provenant(r) /\ UNCHANGED cache
    BY <1>1 DEF ArchiveInv, Provenance, Flush, files
<1>3. PICK t \in r.left :
        \/ proc' = [proc EXCEPT ![p].left = @ \ {t}]
        \/ \E got \in [New(p, t) -> Scores] :
              /\ \A a \in New(p, t) :
                    IF a \in r.scores
                    THEN got[a] = "fits"
                    ELSE \E u \in r.tickers : a \in DOMAIN r.mem[u] /\ got[a] = r.mem[u][a]
              /\ proc' = [proc EXCEPT ![p] = Saves(p, t, Extended(r.mem[t], got))]
    BY <1>1 DEF Flush, Fresh
<1>4. t \in Tickers /\ r.tickers \subseteq Tickers
    BY <1>2, <1>3 DEF Memory
<1>5. CASE proc' = [proc EXCEPT ![p].left = @ \ {t}]
  <2>1. PICK s : s = [r EXCEPT !.left = @ \ {t}]
      OBVIOUS
  <2>2. proc' = [proc EXCEPT ![p] = s] /\ s.mem = r.mem /\ s.source = r.source
      BY <1>1, <1>2, <1>5, <2>1 DEF ArchiveInv, Memory
  <2> QED
      BY <1>2, <2>2, QuietProvenance DEF Provenant
<1>6. ASSUME NEW got \in [New(p, t) -> Scores],
             \A a \in New(p, t) :
                IF a \in r.scores
                THEN got[a] = "fits"
                ELSE \E u \in r.tickers : a \in DOMAIN r.mem[u] /\ got[a] = r.mem[u][a],
             proc' = [proc EXCEPT ![p] = Saves(p, t, Extended(r.mem[t], got))]
      PROVE  Provenance'
  <2>1. ASSUME NEW a \in DOMAIN got PROVE got[a] \in GivenTo(a)
    <3>1. CASE got[a] = "fits"
        BY <3>1 DEF GivenTo
    <3>2. CASE \E u \in r.tickers : a \in DOMAIN r.mem[u] /\ got[a] = r.mem[u][a]
        BY <1>2, <1>4, <3>2 DEF Provenant, Admitted
    <3> QED
        BY <1>6, <2>1, <3>1, <3>2
  <2>2. Admitted(got) /\ Admitted(r.mem[t])
      BY <1>2, <1>4, <2>1 DEF Admitted, Provenant
  <2> QED
      BY <1>2, <1>4, <1>6, <2>2, ExtendedAdmitted, SavesProvenant
<1> QED
    BY <1>3, <1>5, <1>6

\* A merge saves what is on disk and what comes in; a reader what it lacks, fresh.
LEMMA MergeReadProvenant ==
    ASSUME ArchiveInv, Provenance, NEW p \in Procs, MergeTicker(p) \/ Serve(p)
    PROVE  Provenance'
<1>1. PICK r : r = proc[p]
    OBVIOUS
<1>2. r \in Memory /\ Provenant(r) /\ UNCHANGED cache
    BY <1>1 DEF ArchiveInv, Provenance, MergeTicker, Serve, files
<1>3. CASE MergeTicker(p)
  <2>1. PICK t \in r.left :
          \/ proc' = [proc EXCEPT ![p].left = @ \ {t}]
          \/ Ends(p, "failed")
          \/ /\ IsValid(r.source[t])
             /\ proc' = [proc EXCEPT ![p] = Saves(p, t, Extended(OnDisk(t), r.source[t]))]
      BY <1>1, <1>3 DEF MergeTicker, Merged
  <2>2. t \in Tickers
      BY <1>2, <2>1 DEF Memory
  <2>3. CASE proc' = [proc EXCEPT ![p].left = @ \ {t}]
    <3>1. PICK s : s = [r EXCEPT !.left = @ \ {t}]
        OBVIOUS
    <3>2. proc' = [proc EXCEPT ![p] = s] /\ s.mem = r.mem /\ s.source = r.source
        BY <1>1, <1>2, <2>3, <3>1 DEF ArchiveInv, Memory
    <3> QED
        BY <1>2, <3>2, QuietProvenance DEF Provenant
  <2>4. CASE Ends(p, "failed")
      BY <1>2, <2>4, EndsProvenant
  <2>5. CASE /\ IsValid(r.source[t])
             /\ proc' = [proc EXCEPT ![p] = Saves(p, t, Extended(OnDisk(t), r.source[t]))]
    <3>1. Admitted(OnDisk(t)) /\ Admitted(r.source[t])
        BY <1>2, <2>2, <2>5 DEF Provenance, Provenant, Offered, IsValid, Admitted
    <3> QED
        BY <1>2, <2>2, <2>5, <3>1, ExtendedAdmitted, SavesProvenant
  <2> QED
      BY <2>1, <2>3, <2>4, <2>5
<1>4. CASE Serve(p)
  <2>1. PICK t \in r.tickers : \E missing :
          proc' = [proc EXCEPT ![p] = Saves(p, t, Extended(r.mem[t], [a \in missing |-> "fits"]))]
      BY <1>1, <1>4 DEF Serve
  <2>2. t \in Tickers
      BY <1>2, <2>1 DEF Memory
  <2>3. PICK missing : proc' = [proc EXCEPT ![p] = Saves(p, t, Extended(r.mem[t], [a \in missing |-> "fits"]))]
      BY <2>1
  <2>4. Admitted(r.mem[t]) /\ Admitted([a \in missing |-> "fits"])
      BY <1>2, <2>2, FreshAdmitted DEF Provenant
  <2> QED
      BY <1>2, <2>2, <2>3, <2>4, ExtendedAdmitted, SavesProvenant
<1> QED
    BY <1>3, <1>4

\* A process starts with nothing, with a cache to merge in, or with what it reads.
LEMMA StartProvenant ==
    ASSUME ArchiveInv, Provenance, NEW p \in Procs,
           StartBuild(p) \/ StartScore(p) \/ StartMerge(p) \/ StartRead(p)
    PROVE  Provenance'
<1>1. ASSUME NEW s, Starts(p, s), Provenant(s) PROVE Provenance'
    BY <1>1, QuietProvenance DEF Starts, files
<1>2. CASE StartBuild(p)
  <2>1. PICK t, fetched :
          Starts(p, [Off EXCEPT !.pc = "days", !.job = "build", !.tickers = {t}, !.seen[t] = fetched])
      BY <1>2 DEF StartBuild
  <2>2. PICK s : s = [Off EXCEPT !.pc = "days", !.job = "build", !.tickers = {t}, !.seen[t] = fetched]
      OBVIOUS
  <2>3. s.mem = Off.mem /\ s.source = Off.source
      BY <2>2 DEF Off
  <2> QED
      BY <1>1, <2>1, <2>2, <2>3, OffProvenant
<1>3. CASE StartScore(p)
  <2>1. PICK T : Starts(p, [Off EXCEPT !.pc = "load", !.job = "score", !.tickers = T, !.left = T])
      BY <1>3 DEF StartScore
  <2>2. PICK s : s = [Off EXCEPT !.pc = "load", !.job = "score", !.tickers = T, !.left = T]
      OBVIOUS
  <2>3. s.mem = Off.mem /\ s.source = Off.source
      BY <2>2 DEF Off
  <2> QED
      BY <1>1, <2>1, <2>2, <2>3, OffProvenant
<1>4. CASE StartMerge(p)
  <2>1. PICK T \in SUBSET Tickers, source \in Incoming :
          Starts(p, [Off EXCEPT !.pc = "merge", !.job = "merge", !.tickers = T, !.left = T, !.source = source])
      BY <1>4 DEF StartMerge
  <2>2. PICK s : s = [Off EXCEPT !.pc = "merge", !.job = "merge", !.tickers = T, !.left = T, !.source = source]
      OBVIOUS
  <2>3. s.mem = Off.mem /\ s.source = source
      BY <2>2 DEF Off
  <2>4. Provenant(Off)
      BY OffProvenant
  <2>5. Provenant(s)
      BY <2>3, <2>4, IncomingAdmitted DEF Provenant
  <2> QED
      BY <1>1, <2>1, <2>2, <2>5
<1>5. CASE StartRead(p)
  <2>1. PICK t \in Tickers :
          \/ Starts(p, [Off EXCEPT !.pc = "failed", !.job = "read"])
          \/ Starts(p, [Off EXCEPT !.pc = "serve", !.job = "read", !.tickers = {t},
                                   !.mem[t] = OnDisk(t), !.seen[t] = Archived(t)])
      BY <1>5 DEF StartRead
  <2>2. PICK none : none = [Off EXCEPT !.pc = "failed", !.job = "read"]
      OBVIOUS
  <2>3. PICK s : s = [Off EXCEPT !.pc = "serve", !.job = "read", !.tickers = {t},
                                 !.mem[t] = OnDisk(t), !.seen[t] = Archived(t)]
      OBVIOUS
  <2>4. Provenant(none)
    <3>1. none.mem = Off.mem /\ none.source = Off.source
        BY <2>2 DEF Off
    <3> QED
        BY <3>1, OffProvenant
  <2>5. Provenant(s)
    <3>1. s.mem = [Off.mem EXCEPT ![t] = OnDisk(t)] /\ s.source = Off.source
        BY <2>3 DEF Off
    <3>2. Off.mem = [u \in Tickers |-> NoScores]
        BY DEF Off
    <3>3. Provenant(Off) /\ Admitted(OnDisk(t))
        BY OffProvenant DEF Provenance
    <3>4. \A u \in Tickers : s.mem[u] = IF u = t THEN OnDisk(t) ELSE Off.mem[u]
        BY <3>1, <3>2
    <3> QED
        BY <3>1, <3>3, <3>4 DEF Provenant
  <2> QED
      BY <1>1, <2>1, <2>2, <2>3, <2>4, <2>5
<1> QED
    BY <1>2, <1>3, <1>4, <1>5

\* What a save puts in a cache's place is what the process has in memory, and has all
\* that was there.
LEMMA ReplacePuts ==
    ASSUME ArchiveInv, NEW p \in Procs, Replace(p)
    PROVE  \E u \in Tickers : /\ OnDisk(u)' = proc[p].mem[u]
                              /\ Keeps(proc[p].mem[u], OnDisk(u))
                              /\ \A t \in Tickers \ {u} : OnDisk(t)' = OnDisk(t)
<1>1. PICK r : r = proc[p]
    OBVIOUS
<1>2. Sound(r) /\ r.pc = "replace" /\ Alive(r) /\ r.saving \subseteq Tickers
      /\ cache \in [Tickers -> Files(CacheDocs)]
    BY <1>1, SoundNow DEF Sound, Replace, Alive, Ended, ArchiveInv, FilesType, Memory
<1>3. PICK u \in r.saving : cache' = [cache EXCEPT ![u] = tmp[u]]
    BY <1>1, ReplaceIs
<1>4. u \in r.tickers /\ HasLoaded(r, u) /\ u \in Tickers
    BY <1>2, <1>3 DEF Sound, AtItsJob, Saving, Fillers, HasLoaded
<1>5. tmp[u] = {[scores |-> r.mem[u]]} /\ Keeps(r.mem[u], OnDisk(u))
    BY <1>2, <1>3, <1>4 DEF Sound, CacheLinked
<1>6. cache'[u] = {[scores |-> r.mem[u]]} /\ \A t \in Tickers \ {u} : cache'[t] = cache[t]
    BY <1>2, <1>3, <1>4, <1>5
<1>7. OnDisk(u)' = r.mem[u] /\ \A t \in Tickers \ {u} : OnDisk(t)' = OnDisk(t)
    BY <1>6, OnDiskIs, ScoresInOne
<1> QED
    BY <1>1, <1>4, <1>5, <1>7

\* No step brings in a score of another origin.
LEMMA ProvenanceNext ==
    ASSUME ArchiveInv, Provenance, [Next]_vars
    PROVE  Provenance'
<1>1. ASSUME NEW p \in Procs, StartBuild(p) \/ StartScore(p) \/ StartMerge(p) \/ StartRead(p)
      PROVE  Provenance'
    BY <1>1, StartProvenant
<1>2. ASSUME NEW p \in Procs,
             \/ SkipDay(p) \/ CheckDay(p) \/ OpenDay(p) \/ DumpDay(p)
             \/ OpenTmp(p) \/ DumpTmp(p) \/ Replace(p)
             \/ Todo(p) \/ ScoreBatch(p) \/ ScoredAll(p) \/ ScoreFails(p)
      PROVE  Provenance'
  <2>1. /\ proc' = [proc EXCEPT ![p] = proc'[p]]
        /\ proc'[p].mem = proc[p].mem /\ proc'[p].source = proc[p].source
      BY <1>2, SameScores
  <2>2. Provenant(proc[p])
      BY DEF Provenance
  <2>3. Provenant(proc'[p])
      BY <2>1, <2>2 DEF Provenant
  <2>4. \A t \in Tickers : Admitted(OnDisk(t)')
    <3>1. CASE Replace(p)
        BY <2>2, <3>1, ReplacePuts DEF Provenance, Provenant
    <3>2. CASE ~Replace(p)
      <4>1. UNCHANGED cache
          BY <1>2, <3>2, DumpTmpIs
             DEF SkipDay, CheckDay, OpenDay, DumpDay, OpenTmp, Todo, ScoreBatch, ScoredAll, ScoreFails, files
      <4> QED
          BY <4>1, OnDiskIs DEF Provenance
    <3> QED
        BY <3>1, <3>2
  <2> QED
      BY <2>1, <2>3, <2>4, ProvenanceStep
<1>3. ASSUME NEW p \in Procs, EndBuild(p) \/ EndMerge(p) \/ EndRead(p) PROVE Provenance'
  <2>1. Ends(p, "done") /\ UNCHANGED cache
      BY <1>3 DEF EndBuild, EndMerge, EndRead, files
  <2> QED
      BY <2>1, EndsProvenant
<1>4. ASSUME NEW p \in Procs, EndFlush(p) PROVE Provenance'
  <2>1. UNCHANGED cache /\ proc \in [Procs -> Memory] /\ Provenant(proc[p])
      BY <1>4 DEF EndFlush, files, ArchiveInv, Provenance
  <2>2. CASE Ends(p, proc[p].final)
      BY <2>1, <2>2, EndsProvenant
  <2>3. CASE proc' = [proc EXCEPT ![p].pc = "score"]
    <3>1. PICK s : s = [proc[p] EXCEPT !.pc = "score"]
        OBVIOUS
    <3>2. proc' = [proc EXCEPT ![p] = s] /\ s.mem = proc[p].mem /\ s.source = proc[p].source
        BY <2>1, <2>3, <3>1 DEF Memory
    <3> QED
        BY <2>1, <3>2, QuietProvenance DEF Provenant
  <2> QED
      BY <1>4, <2>2, <2>3 DEF EndFlush
<1>5. ASSUME NEW p \in Procs, Load(p) \/ Flush(p) \/ MergeTicker(p) \/ Serve(p) PROVE Provenance'
    BY <1>5, LoadProvenant, FlushProvenant, MergeReadProvenant
<1>6. ASSUME NEW p \in Procs, ReplaceFails(p) \/ Interrupt(p) \/ Crash(p) PROVE Provenance'
  <2>1. UNCHANGED cache /\ proc[p] \in Memory /\ Provenant(proc[p])
      BY <1>6 DEF ReplaceFails, Interrupt, Crash, files, ArchiveInv, Provenance
  <2>2. CASE proc' = [proc EXCEPT ![p] = EnterFlush(p, "failed")]
    <3>1. EnterFlush(p, "failed").mem = proc[p].mem /\ EnterFlush(p, "failed").source = proc[p].source
        BY <2>1 DEF EnterFlush, Memory
    <3>2. Provenant(EnterFlush(p, "failed"))
        BY <2>1, <3>1 DEF Provenant
    <3> QED
        BY <2>1, <2>2, <3>2, QuietProvenance
  <2>3. CASE Ends(p, "cut") \/ proc' = [proc EXCEPT ![p] = [Off EXCEPT !.pc = "cut"]]
      BY <2>1, <2>3, EndsProvenant
  <2> QED
      BY <1>6, <2>2, <2>3 DEF ReplaceFails, Interrupt, Crash, Breaks
<1>7. CASE Publish \/ UNCHANGED vars
  <2>1. UNCHANGED <<cache, proc>>
      BY <1>7 DEF Publish, vars, files
  <2> QED
      BY <2>1, OnDiskIs DEF Provenance
<1> QED
    BY <1>1, <1>2, <1>3, <1>4, <1>5, <1>6, <1>7 DEF Next, Build, Save, Rename, Score, Merge, Read

-----------------------------------------------------------------------------
(***************************************************************************)
(* The store.                                                              *)
(***************************************************************************)
Disk == [t \in Tickers |-> OnDisk(t)]

\* The store as a function of what is on disk.
StoreOf(disk) ==
    [k \in {i \in Tickers \X Articles : i[2] \in DOMAIN disk[i[1]]} |-> disk[k[1]][k[2]]]

\* The store follows the caches.
LEMMA StoreIs == Store = StoreOf(Disk) /\ Store' = StoreOf(Disk')
<1>1. Store = StoreOf(Disk)
  <2>1. \A t \in Tickers : Disk[t] = OnDisk(t)
      BY DEF Disk
  <2>2. {i \in Tickers \X Articles : i[2] \in DOMAIN OnDisk(i[1])}
        = {i \in Tickers \X Articles : i[2] \in DOMAIN Disk[i[1]]}
      BY <2>1
  <2>3. \A k \in {i \in Tickers \X Articles : i[2] \in DOMAIN OnDisk(i[1])} :
            OnDisk(k[1])[k[2]] = Disk[k[1]][k[2]]
      BY <2>1
  <2> QED
      BY <2>2, <2>3 DEF Store, StoreOf
<1>2. Store' = StoreOf(Disk')
  <2>1. \A t \in Tickers : Disk'[t] = OnDisk(t)'
      BY DEF Disk
  <2>2. {i \in Tickers \X Articles : i[2] \in DOMAIN OnDisk(i[1])'}
        = {i \in Tickers \X Articles : i[2] \in DOMAIN Disk'[i[1]]}
      BY <2>1
  <2>3. \A k \in {i \in Tickers \X Articles : i[2] \in DOMAIN OnDisk(i[1])'} :
            OnDisk(k[1])'[k[2]] = Disk'[k[1]][k[2]]
      BY <2>1
  <2> QED
      BY <2>2, <2>3 DEF Store, StoreOf
<1> QED
    BY <1>1, <1>2

\* A store of scores of the right origins is one that ScoreStore admits.
LEMMA StoreAdmitted ==
    ASSUME NEW disk, \A t \in Tickers : Admitted(disk[t])
    PROVE  Contract!Admissible(StoreOf(disk))
<1>1. DOMAIN StoreOf(disk) = {i \in Tickers \X Articles : i[2] \in DOMAIN disk[i[1]]}
    BY DEF StoreOf
<1>2. ASSUME NEW k \in DOMAIN StoreOf(disk)
      PROVE  StoreOf(disk)[k] \in [i \in Tickers \X Articles |-> GivenTo(i[2])][k]
  <2>1. k \in Tickers \X Articles /\ k[1] \in Tickers /\ k[2] \in DOMAIN disk[k[1]]
      BY <1>1, <1>2
  <2>2. StoreOf(disk)[k] = disk[k[1]][k[2]]
      BY <1>1, <1>2 DEF StoreOf
  <2> QED
      BY <2>1, <2>2 DEF Admitted
<1> QED
    BY <1>1, <1>2 DEF Contract!Admissible

\* A store of caches that keep their scores keeps its own.
LEMMA StoreKeeps ==
    ASSUME NEW disk, NEW later, \A t \in Tickers : Keeps(later[t], disk[t])
    PROVE  Keeps(StoreOf(later), StoreOf(disk))
<1>1. /\ DOMAIN StoreOf(disk) = {i \in Tickers \X Articles : i[2] \in DOMAIN disk[i[1]]}
      /\ DOMAIN StoreOf(later) = {i \in Tickers \X Articles : i[2] \in DOMAIN later[i[1]]}
    BY DEF StoreOf
<1>2. ASSUME NEW k \in DOMAIN StoreOf(disk)
      PROVE  k \in DOMAIN StoreOf(later) /\ StoreOf(later)[k] = StoreOf(disk)[k]
  <2>1. k \in Tickers \X Articles /\ k[1] \in Tickers /\ k[2] \in DOMAIN disk[k[1]]
      BY <1>1, <1>2
  <2>2. k[2] \in DOMAIN later[k[1]] /\ later[k[1]][k[2]] = disk[k[1]][k[2]]
      BY <2>1 DEF Keeps
  <2>3. k \in DOMAIN StoreOf(later)
      BY <1>1, <2>1, <2>2
  <2>4. StoreOf(disk)[k] = disk[k[1]][k[2]] /\ StoreOf(later)[k] = later[k[1]][k[2]]
      BY <1>1, <1>2, <2>3 DEF StoreOf
  <2> QED
      BY <2>2, <2>3, <2>4
<1> QED
    BY <1>2 DEF Keeps

\* A run that is done tells what it told.
LEMMA DoneStays ==
    ASSUME ArchiveInv, [Next]_vars, NEW p \in Procs, proc[p].pc = "done"
    PROVE  proc'[p] = proc[p]
<1>1. proc \in [Procs -> Memory]
    BY DEF ArchiveInv
<1> SUFFICES ASSUME NEW q \in Procs,
                    Build(q) \/ Save(q) \/ Score(q) \/ Merge(q) \/ Read(q) \/ Interrupt(q) \/ Crash(q)
             PROVE  q # p /\ \E s : proc' = [proc EXCEPT ![q] = s]
    BY <1>1 DEF Next, Publish, vars
<1>2. CASE Build(q)
    BY <1>2 DEF Build, StartBuild, Starts, SkipDay, CheckDay, OpenDay, DumpDay, EndBuild, Ends
<1>6. CASE OpenTmp(q) \/ DumpTmp(q) \/ ReplaceFails(q)
    BY <1>6 DEF OpenTmp, DumpTmp, ReplaceFails, Breaks, Ends
<1>7. CASE Replace(q)
  <2>1. q # p
      BY <1>7 DEF Replace
  <2> QED
      BY <1>7, <2>1, ReplaceIs
<1>3. CASE Score(q)
    BY <1>3 DEF Score, StartScore, Starts, Load, Todo, ScoreBatch, ScoredAll, ScoreFails, Flush, EndFlush, Ends
<1>4. CASE Merge(q) \/ Read(q)
    BY <1>4 DEF Merge, Read, StartMerge, MergeTicker, EndMerge, StartRead, Serve, EndRead, Starts, Ends
<1>5. CASE Interrupt(q) \/ Crash(q)
    BY <1>5 DEF Interrupt, Breaks, Crash, Ends, Ended
<1> QED
    BY <1>2, <1>3, <1>4, <1>5, <1>6, <1>7 DEF Save, Rename

\* What is promised stays promised.
LEMMA PromisesStay ==
    ASSUME ArchiveInv, [Next]_vars
    PROVE  Promised \subseteq Promised'
<1> SUFFICES ASSUME NEW k \in Promised PROVE k \in Promised'
    OBVIOUS
<1>1. PICK p \in Procs : proc[p].job = "score" /\ proc[p].pc = "done" /\ k[2] \in proc[p].seen[k[1]]
    BY DEF Promised
<1>2. proc'[p] = proc[p]
    BY <1>1, DoneStays
<1>3. k \in Tickers \X Articles
    BY DEF Promised
<1> QED
    BY <1>1, <1>2, <1>3 DEF Promised

\* A save promises nothing new.
LEMMA ReplacePromisesNothing ==
    ASSUME ArchiveInv, NEW p \in Procs, Replace(p)
    PROVE  Promised' \subseteq Promised
<1>1. proc[p] \in Memory /\ proc \in [Procs -> Memory] /\ AtItsJob(proc[p])
    BY DEF ArchiveInv
<1>2. proc[p].job \in Fillers
    BY <1>1 DEF Replace, AtItsJob, Saving
<1>3. Caller(proc[p].job) # "done"
    BY <1>2 DEF Caller, Fillers
<1>4. proc'[p].pc # "done" /\ \A q \in Procs \ {p} : proc'[q] = proc[q]
  <2>1. PICK s : /\ s = [proc[p] EXCEPT !.pc = Caller(proc[p].job), !.saving = {}]
                 /\ proc' = [proc EXCEPT ![p] = s]
      BY ReplaceIs
  <2>2. s.pc = Caller(proc[p].job)
      BY <1>1, <2>1 DEF Memory
  <2> QED
      BY <1>1, <1>3, <2>1, <2>2
<1> SUFFICES ASSUME NEW k \in Promised' PROVE k \in Promised
    OBVIOUS
<1>5. k \in Tickers \X Articles
    BY DEF Promised
<1>6. PICK q \in Procs : proc'[q].job = "score" /\ proc'[q].pc = "done" /\ k[2] \in proc'[q].seen[k[1]]
    BY DEF Promised
<1> QED
    BY <1>4, <1>5, <1>6 DEF Promised

(***************************************************************************)
(* archive_scoring.py: "Local entries are never lost".  Whatever scorers,  *)
(* merges and readers do together, and however they end, the caches are    *)
(* the store that ScoreStore specifies: each score is FinBERT's or a       *)
(* merged cache's, for good, and success promises all that was read.       *)
(***************************************************************************)
THEOREM ArchiveImplementsStore == WritersApart => (Spec => ImplementsStore)
<1> SUFFICES ASSUME WritersApart PROVE Spec => ImplementsStore
    OBVIOUS
<1>1. Init => Provenance /\ Contract!Init
  <2> SUFFICES ASSUME Init PROVE Provenance /\ Contract!Init
      OBVIOUS
  <2>1. \A t \in Tickers : OnDisk(t) = NoScores
      BY DEF Init, OnDisk
  <2>2. \A p \in Procs : proc[p] = Off
      BY DEF Init
  <2>3. Provenance
      BY <2>1, <2>2, NoScoresAdmitted, OffProvenant DEF Provenance
  <2>4. \A t \in Tickers : Admitted(Disk[t])
      BY <2>1, NoScoresAdmitted DEF Disk
  <2>5. Contract!Admissible(Store)
      BY <2>4, StoreIs, StoreAdmitted
  <2>6. Promised = {}
      BY <2>2 DEF Promised, Off
  <2> QED
      BY <2>3, <2>5, <2>6 DEF Contract!Init
<1>2. ArchiveInv /\ Provenance /\ [Next]_vars => Provenance' /\ [Contract!Next]_<<Store, Promised>>
  <2> SUFFICES ASSUME ArchiveInv, Provenance, [Next]_vars PROVE Provenance' /\ Contract!Next
      OBVIOUS
  <2>1. Provenance' /\ ArchiveInv'
      BY ProvenanceNext, ArchiveNext
  <2>2. Promised \subseteq Promised'
      BY PromisesStay
  <2>3. CASE UNCHANGED cache
    <3>1. Disk' = Disk
        BY <2>3, OnDiskIs DEF Disk
    <3>2. Store' = Store
        BY <3>1, StoreIs
    <3>3. ASSUME NEW k \in Promised' PROVE k \in DOMAIN Store
      <4>1. k \in Tickers \X Articles
          BY <3>3 DEF Promised
      <4>2. PICK p \in Procs : proc'[p].job = "score" /\ proc'[p].pc = "done" /\ k[2] \in proc'[p].seen[k[1]]
          BY <3>3 DEF Promised
      <4>3. k[2] \in DOMAIN OnDisk(k[1])'
          BY <2>1, <4>1, <4>2 DEF ArchiveInv, SuccessScored
      <4>4. OnDisk(k[1])' = OnDisk(k[1])
          BY <2>3, OnDiskIs
      <4> QED
          BY <4>1, <4>3, <4>4 DEF Store
    <3> QED
        BY <2>1, <2>2, <3>2, <3>3 DEF Contract!Next, Contract!Promise
  <2>4. ASSUME NEW p \in Procs, Replace(p) PROVE Contract!Next
    <3>1. \A t \in Tickers : Keeps(OnDisk(t)', OnDisk(t)) /\ Admitted(OnDisk(t)')
      <4>1. \A t \in Tickers : Admitted(OnDisk(t)')
          BY <2>1 DEF Provenance
      <4> QED
          BY <2>4, <4>1, ReplacePuts, KeepsItself
    <3>2. \A t \in Tickers : Disk[t] = OnDisk(t) /\ Disk'[t] = OnDisk(t)'
        BY DEF Disk
    <3>3. Keeps(StoreOf(Disk'), StoreOf(Disk)) /\ Contract!Admissible(StoreOf(Disk'))
        BY <3>1, <3>2, StoreKeeps, StoreAdmitted
    <3>4. Promised' = Promised
        BY <2>2, <2>4, ReplacePromisesNothing
    <3> QED
        BY <3>3, <3>4, StoreIs DEF Contract!Next, Contract!Write, Keeps
  <2> QED
      BY <2>1, <2>3, <2>4, OnlyReplaceWritesCaches
<1> QED
    BY <1>1, <1>2, ArchiveInductive, PTL DEF Spec, ImplementsStore, Contract!Spec
=============================================================================
