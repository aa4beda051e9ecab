---------------------------- MODULE ModelRegistry ----------------------------
(***************************************************************************)
(* Model versions on disk and the predictor in memory: ml/artifacts.py,    *)
(* ml/predictor.py, services/prediction_service.py, ml/train_one.py and    *)
(* the part of scripts/train_v1_model.py that writes to models/.           *)
(*                                                                         *)
(* Detectors are worker threads that classify flows.  "loop" is the event  *)
(* loop, which serves one administrator's request at a time.  "trainer" is *)
(* the background thread of the training run, if there is one.  All of     *)
(* them call get_predictor().  A step is a section under _predictor_lock,  *)
(* a look at the disk and the cache without it, or one file operation.     *)
(* Nothing under the lock waits for another thread, so that loading is one *)
(* step; a deletion that overlaps it has the outcomes of the same deletion *)
(* before or after it.                                                     *)
(***************************************************************************)
EXTENDS Integers, Sequences

CONSTANTS
    Detectors,     \* worker threads that classify
    Installed,     \* versions found at startup
    MaxVersion,    \* bound: the highest version number
    MaxRuns,       \* bound: training runs
    Requests       \* the kinds of request the administrator makes

ASSUME RegistryConstants ==
    /\ MaxVersion \in Nat
    /\ Installed \subseteq 1..MaxVersion
    /\ MaxRuns \in Nat
    /\ "loop" \notin Detectors /\ "trainer" \notin Detectors
    /\ MaxRuns <= MaxVersion
    /\ \A v \in Installed : v + MaxRuns <= MaxVersion

Versions == 1..MaxVersion
Callers  == Detectors \cup {"loop", "trainer"}

\* scaler.pkl, then the optional files (imputer, label and category encoders),
\* then model.pkl, feature_names.json and metadata.json.
Files     == {"scaler", "extras", "model"}
FaultySaveOrder == <<"scaler", "model", "extras">>
SaveOrder == <<"scaler", "extras", "model">>

\* A predictor: the version and the training run it was loaded from, and
\* whether with the files that prepare its input.
NoModel == [version |-> 0, run |-> 0, prepared |-> FALSE]

VARIABLES
    dirs,       \* version directories
    files,      \* the files of each
    run,        \* the training run that made each, 0 for an installed one
    cached,     \* _predictor
    loaded,     \* _loaded_version_dir, 0 for None
    call,       \* where each thread is in get_predictor(), and its result
    op,         \* the request the loop serves
    at,         \* where it is in it
    doomed,     \* version directories it has still to remove
    listed,     \* files of the first of them it has listed and not unlinked
    active,     \* delete_model's was_active
    trainer,    \* where the training thread is
    target,     \* the directory it made
    unsaved,    \* files it has still to write
    training,   \* _training
    asked,      \* _cancel_requested
    runs        \* training runs begun

diskVars  == <<dirs, files, run>>
cacheVars == <<cached, loaded>>
loopVars  == <<op, at, doomed, listed, active>>
trainVars == <<trainer, target, unsaved, training, asked, runs>>
vars == <<diskVars, cacheVars, call, loopVars, trainVars>>

Newest(V) == CHOOSE v \in V : \A u \in V : u <= v
Oldest(V) == CHOOSE v \in V : \A u \in V : v <= u

\* What load_model_bundle insists on.
Loadable(v) == v \in dirs /\ {"scaler", "model"} \subseteq files[v]

ModelOf(v) == [version |-> v, run |-> run[v], prepared |-> "extras" \in files[v]]

Idle == [at |-> "idle", want |-> 0, got |-> NoModel]

Init ==
    /\ dirs = Installed
    /\ files = [v \in Versions |-> IF v \in Installed THEN Files ELSE {}]
    /\ run = [v \in Versions |-> 0]
    /\ loaded = IF Installed = {} THEN 0 ELSE Newest(Installed)
    /\ cached = IF Installed = {} THEN NoModel ELSE ModelOf(Newest(Installed))
    /\ call = [c \in Callers |-> Idle]
    /\ op = "none"
    /\ at = "idle"
    /\ doomed = {}
    /\ listed = {}
    /\ active = FALSE
    /\ trainer = "none"
    /\ target = 0
    /\ unsaved = <<>>
    /\ training = FALSE
    /\ asked = FALSE
    /\ runs = 0

-----------------------------------------------------------------------------
(* get_predictor()                                                         *)

FaultyHit(v) == cached # NoModel
Hit(v) == cached # NoModel /\ loaded = v

\* Resolve the newest directory and compare it with the cache, without the
\* lock.  A cache that fills between the two is found under the lock.
AskNewest(c) ==
    call' = [call EXCEPT ![c] =
        IF dirs = {} THEN [Idle EXCEPT !.at = "failed"]
        ELSE [Idle EXCEPT !.at = IF Hit(Newest(dirs)) THEN "take" ELSE "load",
                          !.want = Newest(dirs)]]

Returns(c, model) == call' = [call EXCEPT ![c] = [@ EXCEPT !.at = "got", !.got = model]]

\* The fast path reads the cache a second time.
Take(c) ==
    /\ call[c].at = "take"
    /\ Returns(c, cached)
    /\ UNCHANGED <<diskVars, cacheVars, loopVars, trainVars>>

\* The section under the lock.  A load that raises leaves the cache alone.
Load(c) ==
    LET v == call[c].want
    IN /\ call[c].at = "load"
       /\ \/ Hit(v) /\ Returns(c, cached) /\ UNCHANGED cacheVars
          \/ /\ ~Hit(v) /\ Loadable(v)
             /\ cached' = ModelOf(v)
             /\ loaded' = v
             /\ Returns(c, ModelOf(v))
          \/ /\ ~Hit(v) /\ ~Loadable(v)
             /\ call' = [call EXCEPT ![c].at = "failed"]
             /\ UNCHANGED cacheVars
       /\ UNCHANGED <<diskVars, loopVars, trainVars>>

\* reset_predictor(), and the first half of reload_predictor().
FaultyResetCache == UNCHANGED cacheVars
ResetCache == cached' = NoModel /\ loaded' = 0

\* reload_predictor(version_dir): the cache is empty by then or, if another
\* thread has filled it again, found under the lock.
Reload(c, v) ==
    /\ ResetCache
    /\ call' = [call EXCEPT ![c] = [Idle EXCEPT !.at = "load", !.want = v]]

Returned(c) == call[c].at \in {"got", "failed"}
Found(c)    == call[c].at = "got"
EndCall(c)  == call' = [call EXCEPT ![c] = Idle]

-----------------------------------------------------------------------------
(* Classification                                                          *)

\* classify_flow asks for the feature names and then predicts: two calls, of
\* which only whether they answer matters here.
Classify(d) ==
    /\ call[d].at = "idle"
    /\ AskNewest(d)
    /\ UNCHANGED <<diskVars, cacheVars, loopVars, trainVars>>

\* The answer is used, or the flow is dropped: no model, or None.
Classified(d) ==
    /\ Returned(d)
    /\ EndCall(d)
    /\ UNCHANGED <<diskVars, cacheVars, loopVars, trainVars>>

-----------------------------------------------------------------------------
(* Requests to switch, delete and reset                                    *)

Request(kind) == kind \in Requests /\ at = "idle"

FaultyEndRequest ==
    /\ op' = "none" /\ at' = "idle"
    /\ UNCHANGED <<doomed, listed, active>>
EndRequest ==
    /\ op' = "none" /\ at' = "idle"
    /\ doomed' = {} /\ listed' = {} /\ active' = FALSE

\* GET /model/info, GET /model/versions and POST /predict all ask as well.
ModelInfo ==
    /\ Request("info")
    /\ AskNewest("loop")
    /\ op' = "info" /\ at' = "asking"
    /\ UNCHANGED <<diskVars, cacheVars, doomed, listed, active, trainVars>>

SwitchModel(v) ==
    /\ Request("switch")
    /\ v \in dirs
    /\ Reload("loop", v)
    /\ op' = "switch" /\ at' = "asking"
    /\ UNCHANGED <<diskVars, doomed, listed, active, trainVars>>

\* delete_model asks first which model is active.
DeleteModel(v) ==
    /\ Request("delete")
    /\ v \in dirs
    /\ AskNewest("loop")
    /\ op' = "delete" /\ at' = "asking"
    /\ doomed' = {v}
    /\ UNCHANGED <<diskVars, cacheVars, listed, active, trainVars>>

ResetModels ==
    /\ Request("reset")
    /\ op' = "reset" /\ at' = IF dirs = {} THEN "unloading" ELSE "listing"
    /\ doomed' = dirs
    /\ UNCHANGED <<diskVars, cacheVars, call, listed, active, trainVars>>

\* The loop has the answer of get_predictor().  A fast path that returned None
\* makes delete_model raise; an activation that fails is answered with 404.
Answered ==
    /\ at = "asking"
    /\ Returned("loop")
    /\ EndCall("loop")
    /\ IF op = "delete" /\ ~(Found("loop") /\ call["loop"].got = NoModel)
       THEN /\ at' = "listing"
            /\ active' = (Found("loop") /\ call["loop"].got.version \in doomed)
            /\ UNCHANGED <<op, doomed, listed>>
       ELSE EndRequest
    /\ UNCHANGED <<diskVars, cacheVars, trainVars>>

\* list(version_dir.iterdir()), file.unlink() for each, version_dir.rmdir().
ListFiles ==
    /\ at = "listing"
    /\ at' = "unlinking"
    /\ listed' = files[Oldest(doomed)]
    /\ UNCHANGED <<diskVars, cacheVars, call, op, doomed, active, trainVars>>

Unlink(f) ==
    /\ at = "unlinking"
    /\ f \in listed
    /\ listed' = listed \ {f}
    /\ files' = [files EXCEPT ![Oldest(doomed)] = @ \ {f}]
    /\ UNCHANGED <<dirs, run, cacheVars, call, op, at, doomed, active, trainVars>>

\* A file written after the listing makes rmdir, and the request, fail.
RemoveDirectory ==
    LET v == Oldest(doomed)
    IN /\ at = "unlinking"
       /\ listed = {}
       /\ IF files[v] = {}
          THEN /\ dirs' = dirs \ {v}
               /\ doomed' = doomed \ {v}
               /\ at' = IF doomed # {v} THEN "listing" ELSE "unloading"
               /\ UNCHANGED <<op, listed, active>>
          ELSE EndRequest /\ UNCHANGED dirs
       /\ UNCHANGED <<files, run, cacheVars, call, trainVars>>

\* After a reset the cache is cleared.  After the deletion of the active model
\* the newest remaining one is loaded instead, if there is one.
Unload ==
    /\ at = "unloading"
    /\ IF op = "delete" /\ active /\ dirs # {}
       THEN /\ Reload("loop", Newest(dirs))
            /\ op' = "reload" /\ at' = "asking"
            /\ UNCHANGED <<doomed, listed, active>>
       ELSE /\ IF op = "reset" \/ active THEN ResetCache ELSE UNCHANGED cacheVars
            /\ EndRequest
            /\ UNCHANGED call
    /\ UNCHANGED <<diskVars, trainVars>>

-----------------------------------------------------------------------------
(* Training                                                                *)

\* POST /model/train: refused while a run is in progress.
TrainModel ==
    /\ Request("train")
    /\ ~training
    /\ runs < MaxRuns
    /\ training' = TRUE
    /\ asked' = FALSE
    /\ trainer' = "starting"
    /\ runs' = runs + 1
    /\ UNCHANGED <<diskVars, cacheVars, call, op, at, doomed, listed, active,
                   target, unsaved>>

CancelTraining ==
    /\ Request("cancel")
    /\ training
    /\ asked' = TRUE
    /\ UNCHANGED <<diskVars, cacheVars, call, loopVars, trainer, target,
                   unsaved, training, runs>>

\* The finally clause of _run_training, which is also the end of a run that was
\* cancelled at a checkpoint or raised.
FaultyTrainingFlag == training
TrainingFlag == FALSE

EndTraining ==
    /\ trainer' = "none"
    /\ target' = 0
    /\ unsaved' = <<>>
    /\ training' = TrainingFlag
    /\ asked' = FALSE
    /\ UNCHANGED runs

\* next_version_dir numbers after the newest directory there is.
FaultyNextVersion == IF dirs = {} THEN 1 ELSE Newest(dirs)
NextVersion == IF dirs = {} THEN 1 ELSE Newest(dirs) + 1

\* run_family: a checkpoint, and then the directory, before there is a model.
MakeDirectory ==
    /\ trainer = "starting"
    /\ IF asked
       THEN EndTraining /\ UNCHANGED diskVars
       ELSE /\ dirs' = dirs \cup {NextVersion}
            /\ run' = [run EXCEPT ![NextVersion] = runs]
            /\ target' = NextVersion
            /\ unsaved' = SaveOrder
            /\ trainer' = "working"
            /\ UNCHANGED <<files, training, asked, runs>>
    /\ UNCHANGED <<cacheVars, call, loopVars>>

\* The data is missing, the fit raises, or a file cannot be written.
TrainingFails ==
    /\ trainer = "working"
    /\ EndTraining
    /\ UNCHANGED <<diskVars, cacheVars, call, loopVars>>

\* joblib.dump and json.dump, one file after the other, into the directory if it
\* is still there.
Save ==
    /\ trainer = "working"
    /\ unsaved # <<>>
    /\ IF target \in dirs
       THEN /\ files' = [files EXCEPT ![target] = @ \cup {Head(unsaved)}]
            /\ unsaved' = Tail(unsaved)
            /\ UNCHANGED <<trainer, target, training, asked, runs>>
       ELSE EndTraining /\ UNCHANGED files
    /\ UNCHANGED <<dirs, run, cacheVars, call, loopVars>>

\* The checkpoint after training, then is_model_loaded().
AskLoaded ==
    /\ trainer = "working"
    /\ unsaved = <<>>
    /\ IF asked
       THEN EndTraining /\ UNCHANGED call
       ELSE /\ AskNewest("trainer")
            /\ target' = IF dirs = {} THEN 1 ELSE Newest(dirs)
            /\ trainer' = "asking"
            /\ UNCHANGED <<unsaved, training, asked, runs>>
    /\ UNCHANGED <<diskVars, cacheVars, loopVars>>

\* If no model answers, the directory that was newest is activated.
Activate ==
    /\ trainer = "asking"
    /\ Returned("trainer")
    /\ IF Found("trainer") \/ target \notin dirs
       THEN EndTraining /\ EndCall("trainer") /\ UNCHANGED cacheVars
       ELSE /\ Reload("trainer", target)
            /\ trainer' = "activating"
            /\ UNCHANGED <<target, unsaved, training, asked, runs>>
    /\ UNCHANGED <<diskVars, loopVars>>

Activated ==
    /\ trainer = "activating"
    /\ Returned("trainer")
    /\ EndCall("trainer")
    /\ EndTraining
    /\ UNCHANGED <<diskVars, cacheVars, loopVars>>

-----------------------------------------------------------------------------
GetPredictor(c) == Take(c) \/ Load(c)

Detector(d) == Classify(d) \/ Classified(d) \/ GetPredictor(d)

LoopStep ==
    \/ GetPredictor("loop") \/ Answered
    \/ ListFiles \/ (\E f \in Files : Unlink(f)) \/ RemoveDirectory \/ Unload

Administrator ==
    \/ ModelInfo \/ ResetModels \/ TrainModel \/ CancelTraining
    \/ \E v \in Versions : SwitchModel(v) \/ DeleteModel(v)

TrainerStep ==
    \/ MakeDirectory \/ Save \/ AskLoaded \/ Activate \/ Activated
    \/ GetPredictor("trainer")

Next ==
    \/ \E d \in Detectors : Detector(d)
    \/ LoopStep
    \/ Administrator
    \/ TrainerStep
    \/ TrainingFails

Spec == Init /\ [][Next]_vars

\* Threads run, and flows keep coming to be classified.  Nobody is obliged to
\* make a request, and no training is obliged to fail.
Fairness ==
    /\ WF_vars(TrainerStep)
    /\ WF_vars(LoopStep)
    /\ \A d \in Detectors : WF_vars(Detector(d))

FairSpec == Spec /\ Fairness

-----------------------------------------------------------------------------
(* Properties                                                              *)

Models == [version: Versions, run: 0..MaxRuns, prepared: BOOLEAN] \cup {NoModel}

CallType == [at: {"idle", "take", "load", "got", "failed"},
             want: Versions \cup {0}, got: Models]

TypeOK ==
    /\ dirs \in SUBSET Versions
    /\ files \in [Versions -> SUBSET Files]
    /\ run \in [Versions -> 0..MaxRuns]
    /\ cached \in Models
    /\ loaded \in Versions \cup {0}
    /\ call \in [Callers -> CallType]
    /\ op \in {"none", "info", "switch", "delete", "reset", "reload"}
    /\ at \in {"idle", "asking", "listing", "unlinking", "unloading"}
    /\ doomed \in SUBSET dirs
    /\ listed \in SUBSET Files
    /\ active \in BOOLEAN
    /\ trainer \in {"none", "starting", "working", "asking", "activating"}
    /\ target \in Versions \cup {0}
    /\ unsaved \in Seq(Files)
    /\ training \in BOOLEAN
    /\ asked \in BOOLEAN
    /\ runs \in 0..MaxRuns
    /\ at = "idle" <=> op = "none"
    /\ at = "idle" => doomed = {} /\ listed = {} /\ ~active
    /\ at \in {"listing", "unlinking"} => doomed # {}

\* "Nothing is ever overwritten in place" (artifacts.py): while a version
\* directory exists it belongs to the run that made it, and once its metadata is
\* written nothing is added to it, whatever is deleted, reset, cancelled or
\* trained meanwhile and although numbers are used again.
NothingOverwritten ==
    [][\A v \in dirs \cap dirs' :
          /\ run'[v] = run[v]
          /\ Loadable(v) => files'[v] \subseteq files[v]]_vars

\* A version that is being saved is never served half: a predictor without its
\* imputer and encoders can only come from a directory that was losing files to
\* a deletion, because metadata.json is written last and load_model_bundle
\* insists on it.
HalfSavedIsNotServed ==
    (cached # NoModel /\ ~cached.prepared) =>
        ~(/\ cached.version \in dirs
          /\ run[cached.version] = cached.run
          /\ "extras" \in files[cached.version])

\* A reset that succeeds leaves no predictor, and none comes back before there
\* is a directory again, also from loads that were under way: the next call
\* "reports a clean ArtifactNotFoundError instead of serving a deleted version
\* from memory" (reset_predictor).
ResetUnloads ==
    /\ [][op = "reset" /\ doomed = {} /\ op' = "none" => cached' = NoModel]_vars
    /\ [][dirs = {} /\ cached = NoModel => cached' = NoModel]_vars

\* A complete version that stays the newest comes into service, and comes back
\* into service after whatever requests are made: detectors need no switch.
\* Like the cache itself, this tells versions apart by their numbers.
NewestIsServed ==
    \A v \in Versions :
        <>[](v \in dirs /\ v = Newest(dirs) /\ Loadable(v)) => []<>(loaded = v)

\* A training run ends, however it goes, and another can be started: 409 is not
\* the answer for ever.
TrainingEnds == training ~> ~training
=============================================================================
