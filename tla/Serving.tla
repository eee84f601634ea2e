------------------------------ MODULE Serving ------------------------------
(***************************************************************************)
(* The serving process: pipeline/api.py answers POST /predict by running   *)
(* pipeline/run.py with the model it loaded at startup.  A request is      *)
(* answered in a thread: it asks each source in turn, scores the texts     *)
(* with the one FinBERT the threads share, and predicts the horizons it    *)
(* was asked for, interval by interval.  scripts/train_model.py writes the *)
(* artifact beside it.                                                     *)
(*                                                                         *)
(* The answers of the sources are external.  A request keeps one time      *)
(* (as_of), here Now; a bar is the observation of its stamp.               *)
(***************************************************************************)
EXTENDS Features, Sequences

CONSTANTS
    Requests,
    Asked,              \* the lists of horizons a request may name
    Answers,            \* what each source may answer to a request
    Filings,            \* the filings EDGAR holds: form, stamp, whether the date parses and shares were traded
    FilingLimit,        \* 10 for 8-K, 50 for form 4: one limit here
    Lookback,           \* 7 days
    Now,
    FullHistory,        \* bars of a complete answer
    ShortHistory,       \* bars of a short one
    PriceAttempts,      \* 3
    SafeAttempts,       \* 2
    Gpu,                \* FinBERT is moved to a GPU
    MaxRows,            \* bound on the rows a training run has
    MaxTrains,          \* bound on training runs
    MaxStarts,          \* bound on starts of the server
    NoFile, Torn, None  \* no artifact, a torn one; nothing

Horizons == {"1h", "1d", "5d"}

HorizonSpecs == [h \in Horizons |-> CASE h = "1h" -> [interval |-> "1h", steps |-> 1]
                                      [] h = "1d" -> [interval |-> "1d", steps |-> 1]
                                      [] h = "5d" -> [interval |-> "1d", steps |-> 5]]

Interval(h) == HorizonSpecs[h].interval

Sources == <<"prices", "returns", "news", "social", "filings", "trends", "form4">>
SourceNames == {Sources[k] : k \in DOMAIN Sources}
Essential == {"prices", "returns"}

ASSUME ServingAssumption ==
    /\ None \notin Requests
    /\ Asked \subseteq Seq(STRING)
    /\ Answers \in [Requests -> [SourceNames -> SUBSET {"fails", "short", "full"}]]
    /\ Filings \subseteq [form : {"8-K", "4"}, at : 0..Now, dated : BOOLEAN, traded : BOOLEAN]
    /\ {FilingLimit, PriceAttempts, SafeAttempts} \subseteq Nat \ {0}
    /\ {MaxRows, MaxTrains, MaxStarts, Now, Lookback, ShortHistory, FullHistory} \subseteq Nat
    /\ Gpu \in BOOLEAN

VARIABLES
    artifact,           \* MODEL_PATH: no file, a torn one, or the horizons it can predict
    trainer,            \* a training run: None, or what it is about to save
    server,             \* the model the process serves, None when it is down
    tok,                \* inference._tokenizer is set
    bert,               \* inference._model: which request loaded it
    moved,              \* the loaded models that are on their device
    stuck,              \* history: a move of the global model failed
    folder,             \* the downloaded filings, which no request removes
    req,
    trains, starts

training == <<artifact, trainer, trains>>
globals == <<tok, bert, moved, stuck>>
vars == <<training, server, starts, globals, folder, req>>

Fresh == [pc |-> "idle", asked |-> <<>>, model |-> {}, left |-> <<>>, at |-> 1, tries |-> 0,
          got |-> [s \in SourceNames |-> NoSource], using |-> None,
          preds |-> [h \in {} |-> {}], lag |-> {}, status |-> "none"]

Init ==
    /\ artifact = NoFile
    /\ trainer = None
    /\ server = None
    /\ tok = FALSE /\ bert = None /\ moved = {} /\ stuck = FALSE
    /\ folder = {}
    /\ req = [r \in Requests |-> Fresh]
    /\ trains = 0 /\ starts = 0

-----------------------------------------------------------------------------
(* The artifact.                                                           *)

\* train() builds daily bars only, and refuses horizons of another interval.
Trainable == {h \in Horizons : Interval(h) = "1d"}

\* A mutation: a horizon is trained on whatever bars there are.
Fitted_Any(rows) == {h \in Horizons : rows > HorizonSpecs[h].steps}

\* The horizons with a usable row: the last rows have no target yet.
Fitted(rows) == {h \in Trainable : rows > HorizonSpecs[h].steps}

Train ==
    /\ trainer = None /\ trains < MaxTrains
    /\ \E rows \in 1..MaxRows : trainer' = Fitted(rows)
    /\ trains' = trains + 1
    /\ UNCHANGED <<artifact, server, starts, globals, folder, req>>

\* joblib.dump truncates the file and then writes it.
SaveModel ==
    /\ trainer # None
    /\ \/ artifact # Torn /\ artifact' = Torn /\ UNCHANGED trainer
       \/ artifact = Torn /\ artifact' = trainer /\ trainer' = None
    /\ UNCHANGED <<trains, server, starts, globals, folder, req>>

TrainerDies ==
    /\ trainer # None
    /\ trainer' = None
    /\ UNCHANGED <<artifact, trains, server, starts, globals, folder, req>>

\* The lifespan: a missing or unloadable artifact refuses to start.
Start ==
    /\ server = None /\ starts < MaxStarts
    /\ starts' = starts + 1
    /\ server' = IF artifact \in {NoFile, Torn} THEN None ELSE artifact
    /\ UNCHANGED <<training, globals, folder, req>>

Running(r) == req[r].pc \notin {"idle", "done"}

\* The process is killed: its requests get no answer and its globals go with it.
Killed ==
    /\ server # None
    /\ server' = None
    /\ tok' = FALSE /\ bert' = None /\ moved' = {} /\ stuck' = FALSE
    /\ req' = [r \in Requests |->
                 IF Running(r) THEN [Fresh EXCEPT !.pc = "done", !.status = "lost"] ELSE req[r]]
    /\ UNCHANGED <<training, starts, folder>>

-----------------------------------------------------------------------------
(* A request.                                                              *)

Steps(r, record) == req' = [req EXCEPT ![r] = record]

Fails(r) == Steps(r, [req[r] EXCEPT !.pc = "done", !.status = "failed"])

NamesOf(asked) == {asked[k] : k \in DOMAIN asked}

\* The intervals of the horizons, in the order they are first asked for.
ByInterval(asked) ==
    LET first == {k \in DOMAIN asked : \A j \in 1..(k - 1) : Interval(asked[j]) # Interval(asked[k])}
    IN  [n \in 1..Cardinality(first) |->
            Interval(asked[CHOOSE k \in first : Cardinality({j \in first : j <= k}) = n])]

Ask(r) ==
    /\ server # None
    /\ req[r].pc = "idle"
    /\ \E asked \in Asked :
          IF asked = <<>> \/ ~(NamesOf(asked) \subseteq Horizons)
          THEN Steps(r, [Fresh EXCEPT !.pc = "done", !.asked = asked, !.status = "invalid"])
          ELSE Steps(r, [Fresh EXCEPT !.pc = "fetch", !.asked = asked, !.model = server,
                                      !.left = ByInterval(asked)])
    /\ UNCHANGED <<training, server, starts, globals, folder>>

Bars(src, n) == {Seen(src, k, k) : k \in (Now - n + 1)..Now}

\* The first bar has a volume and no return.
FetchPrices(i, n) == [ret |-> Bars(<<"ret", i>>, n - 1), vol |-> Bars(<<"vol", i>>, n)]

FetchReturnsMatrix(i, n) == Bars(<<"returns", i>>, n - 1)

FetchTrends(n) == Bars(<<"trends">>, n)

FetchNews(kind) == IF kind = "full" THEN {Seen(<<"news">>, Now, Now)} ELSE {}

FetchReddit(kind) == IF kind = "full" THEN {Seen(<<"social">>, Now, Now)} ELSE {}

Since == Now - Lookback

\* Form 4 is asked for since the lookback, 8-K without a start.
Offered(form) == Newest({f \in Filings : f.form = form /\ (form = "4" => f.at >= Since)}, FilingLimit)

\* The newest dated filings in the folder, whichever request downloaded them.
FetchFilings(form, files) == Newest({f \in files : f.form = form /\ f.dated}, FilingLimit)

\* Their open-market purchases and sales; a filing may have none.
FetchForm4(files) == {Seen(<<"4">>, f.at, f.at) : f \in {g \in FetchFilings("4", files) : g.traded}}

\* The 8-K filings that make the company the origin of the news.
OriginHint(files) == {Seen(<<"8-K">>, f.at, f.at) : f \in {g \in FetchFilings("8-K", files) : g.at >= Since}}

\* A complete or a short answer of source s for bars of interval i.
Answer(s, i, kind, files) ==
    LET n == IF kind = "full" THEN FullHistory ELSE ShortHistory
    IN  CASE s = "prices"  -> FetchPrices(i, n)
          [] s = "returns" -> FetchReturnsMatrix(i, n)
          [] s = "trends"  -> FetchTrends(n)
          [] s = "news"    -> FetchNews(kind)
          [] s = "social"  -> FetchReddit(kind)
          [] s = "filings" -> OriginHint(files)
          [] s = "form4"   -> FetchForm4(files)

SourceOf(r) == Sources[req[r].at]
Form(s) == IF s = "form4" THEN "4" ELSE "8-K"

Attempts(s) == IF s \in Essential THEN PriceAttempts ELSE SafeAttempts

Articles(got) == UNION {got[s] : s \in {x \in {"news", "social"} : got[x] # NoSource}}

\* The source is done with; after the last one the texts are scored, if any.
Takes(r, value) ==
    LET got == [req[r].got EXCEPT ![SourceOf(r)] = value]
        next == [req[r] EXCEPT !.got = got, !.tries = 0, !.at = @ + 1]
    IN  IF req[r].at < Len(Sources) THEN Steps(r, next)
        ELSE Steps(r, [next EXCEPT !.pc = IF Articles(got) = {} THEN "predict" ELSE "check",
                                   !.at = 1])

\* A mutation: an optional source raises like a price source.
GivesUp_Raises(r) == Fails(r)

\* The attempts are used up: a price source raises, an optional one is left out.
GivesUp(r) == IF SourceOf(r) \in Essential THEN Fails(r) ELSE Takes(r, NoSource)

\* A mutation: a failed attempt is not counted.
Attempted_Forever(r) == Steps(r, [req[r] EXCEPT !.tries = (@ + 1) % Attempts(SourceOf(r))])

Attempted(r) ==
    IF req[r].tries + 1 < Attempts(SourceOf(r))
    THEN Steps(r, [req[r] EXCEPT !.tries = @ + 1])
    ELSE GivesUp(r)

\* One attempt at a source.  A download that fails may have stored some filings.
Fetch(r) ==
    /\ req[r].pc = "fetch"
    /\ LET s == SourceOf(r)
           new == IF s \in {"filings", "form4"} THEN Offered(Form(s)) ELSE {}
       IN  \E kind \in Answers[r][s] :
             IF kind = "fails"
             THEN /\ \E part \in SUBSET new : folder' = folder \cup part
                  /\ Attempted(r)
             ELSE /\ folder' = folder \cup new
                  /\ LET value == Answer(s, req[r].left[1], kind, folder')
                     IN  IF s = "form4" /\ value = {} THEN Attempted(r) ELSE Takes(r, value)
    /\ UNCHANGED <<training, server, starts, globals>>

-----------------------------------------------------------------------------
(* FinBERT: two globals, set by whichever threads find either of them      *)
(* missing, without a lock.                                                *)

Goes(r, pc) == Steps(r, [req[r] EXCEPT !.pc = pc])

Check(r) ==
    /\ req[r].pc = "check"
    /\ Goes(r, IF tok /\ bert # None THEN "loaded" ELSE "tokenizer")
    /\ UNCHANGED globals

LoadTokenizer(r) ==
    /\ req[r].pc = "tokenizer"
    /\ \/ tok' = TRUE /\ Goes(r, "model")
       \/ Fails(r) /\ UNCHANGED tok
    /\ UNCHANGED <<bert, moved, stuck>>

LoadModel(r) ==
    /\ req[r].pc = "model"
    /\ \/ bert' = r /\ Goes(r, "move")
       \/ Fails(r) /\ UNCHANGED bert
    /\ UNCHANGED <<tok, moved, stuck>>

\* `_model.to`: the global of now, whoever loaded it.  A GPU may have no room.
MoveModel(r) ==
    /\ req[r].pc = "move"
    /\ \/ moved' = moved \cup {bert} /\ Goes(r, "loaded") /\ UNCHANGED stuck
       \/ Gpu /\ stuck' = TRUE /\ Fails(r) /\ UNCHANGED moved
    /\ UNCHANGED <<tok, bert>>

ReturnModel(r) ==
    /\ req[r].pc = "loaded"
    /\ Steps(r, [req[r] EXCEPT !.pc = "forward", !.using = bert])
    /\ UNCHANGED globals

\* The inputs go to the device: a model that is not there fails on them.
Forward(r) ==
    /\ req[r].pc = "forward"
    /\ IF Gpu /\ req[r].using \notin moved THEN Fails(r) ELSE Goes(r, "predict")
    /\ UNCHANGED globals

Score(r) ==
    /\ \/ Check(r) \/ LoadTokenizer(r) \/ LoadModel(r)
       \/ MoveModel(r) \/ ReturnModel(r) \/ Forward(r)
    /\ UNCHANGED <<training, server, starts, folder>>

-----------------------------------------------------------------------------
\* The features of an interval: no regime classifier is passed.
Vector(got) ==
    LET hint == IF got["filings"] = NoSource THEN {} ELSE got["filings"]
    IN  FeatureVector(Now, Articles(got), got["prices"], got["returns"], hint,
                      RegimeLabel(NoSource, VixAsOf(NoSource, Now)), got["trends"], got["form4"])

\* A mutation: every horizon is predicted from the bars at hand.
Served_Any(r, i) == NamesOf(req[r].asked) \cap req[r].model

\* The horizons of interval i that were asked for and trained.
Served(r, i) == {h \in NamesOf(req[r].asked) : Interval(h) = i} \cap req[r].model

\* The estimators raise on a missing feature; without estimators nothing does.
Predict(r) ==
    /\ req[r].pc = "predict"
    /\ LET i == req[r].left[1]
           vector == Vector(req[r].got)
           new == [h \in Served(r, i) |-> vector]
           preds == [h \in DOMAIN req[r].preds \cup DOMAIN new |->
                        IF h \in DOMAIN new THEN new[h] ELSE req[r].preds[h]]
           next == [req[r] EXCEPT !.preds = preds, !.lag = vector.estimated_lag_hours,
                                  !.left = Tail(@), !.using = None,
                                  !.got = [s \in SourceNames |-> NoSource]]
       IN  IF req[r].model # {} /\ ~Complete(vector) THEN Fails(r)
           ELSE IF Len(req[r].left) > 1 THEN Steps(r, [next EXCEPT !.pc = "fetch"])
           ELSE Steps(r, [next EXCEPT !.pc = "done", !.status = "answered"])
    /\ UNCHANGED <<training, server, starts, globals, folder>>

Step(r) == Fetch(r) \/ Score(r) \/ Predict(r)

Next ==
    \/ Train \/ SaveModel \/ TrainerDies \/ Start \/ Killed
    \/ \E r \in Requests : Ask(r) \/ Step(r)

Spec == Init /\ [][Next]_vars

(***************************************************************************)
(* A thread of the pool runs until its request is answered.  A step of the *)
(* request is enabled as long as it runs, so weak fairness says that it    *)
(* stops running or keeps taking steps.                                    *)
(***************************************************************************)
KeepsRunning(r) == []<>~Running(r) \/ []<><<req'[r] # req[r]>>_req

FairSpec == Spec /\ \A r \in Requests : KeepsRunning(r)

-----------------------------------------------------------------------------
(* Properties.                                                             *)

\* The types: request records, and a global model that some request loaded.
TypeOK ==
    /\ artifact \in {NoFile, Torn} \cup SUBSET Trainable
    /\ trainer \in {None} \cup SUBSET Trainable
    /\ server \in {None} \cup SUBSET Trainable
    /\ tok \in BOOLEAN /\ stuck \in BOOLEAN
    /\ bert \in Requests \cup {None} /\ moved \subseteq Requests
    /\ folder \subseteq Filings
    /\ trains \in 0..MaxTrains /\ starts \in 0..MaxStarts
    /\ \A r \in Requests :
          /\ req[r].pc \in {"idle", "fetch", "check", "tokenizer", "model", "move", "loaded",
                            "forward", "predict", "done"}
          /\ req[r].at \in DOMAIN Sources
          /\ req[r].tries \in 0..(Attempts(SourceOf(r)) - 1)
          /\ req[r].using \in Requests \cup {None}
          /\ DOMAIN req[r].preds \subseteq Trainable
          /\ req[r].status \in {"none", "lost", "answered", "invalid", "failed"}

\* A request fails (status 502) only because a price source failed on its last
\* attempt, FinBERT could not be loaded, its own answers leave a feature
\* undefined, or it uses a FinBERT that is not on its device, and then another
\* thread was loading one, or a move had failed.  An optional source that is
\* down never fails a request (docs/deploy.md, "degrade gracefully").
FailsForCause ==
    [][\A r \in Requests : req[r].status = "none" /\ req'[r].status = "failed" =>
         \/ /\ req[r].pc = "fetch"
            /\ SourceOf(r) \in Essential
            /\ req[r].tries = PriceAttempts - 1
         \/ req[r].pc \in {"tokenizer", "model", "move"}
         \/ req[r].pc = "predict" /\ ~Complete(Vector(req[r].got))
         \/ /\ req[r].pc = "forward"
            /\ req[r].using = bert => stuck \/ \E q \in Requests : req[q].pc = "move"]_vars

\* The observations a forecast of interval i may use.
Own(i) == {<<"ret", i>>, <<"vol", i>>, <<"returns", i>>,
           <<"trends">>, <<"news">>, <<"social">>, <<"8-K">>, <<"4">>}

\* An answer has a forecast for every horizon that was asked for and trained,
\* each from a complete row, made of its own interval's bars up to the time of
\* the request, however many intervals and sources the request went through.
AnswersWhatItCan ==
    \A r \in Requests : req[r].status = "answered" =>
        /\ DOMAIN req[r].preds = NamesOf(req[r].asked) \cap req[r].model
        /\ \A h \in DOMAIN req[r].preds :
              /\ Complete(req[r].preds[h])
              /\ \A o \in Reads(req[r].preds[h]) : o.src \in Own(Interval(h)) /\ o.known <= Now

\* Every request is answered, or lost with the process: retries end, and no
\* thread waits for another.
EveryRequestEnds == \A r \in Requests : Running(r) ~> ~Running(r)
=============================================================================
