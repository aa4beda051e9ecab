------------------------- MODULE ModelRegistryProofs -------------------------
(***************************************************************************)
(* Theorems about model versions and the predictor in memory: the safety   *)
(* properties of ModelRegistry, for any number of detectors, installed     *)
(* versions and training runs.                                             *)
(***************************************************************************)
EXTENDS ModelRegistry, WellFoundedInduction, TLAPS

-----------------------------------------------------------------------------
(* The oldest and the newest of some version directories.                  *)

LEMMA LeastExists ==
    ASSUME NEW T, T \subseteq Nat, T # {}
    PROVE  \E x \in T : \A y \in T : x <= y
<1>1. IsWellFoundedOn(OpToRel(<, Nat), Nat)
  BY NatLessThanWellFounded
<1>2. PICK x \in T : \A y \in T : ~(<<y, x>> \in OpToRel(<, Nat))
  BY <1>1, WFMin, Zenon
<1>3. \A y \in T : ~(y < x)
  <2>1. SUFFICES ASSUME NEW y \in T, y < x PROVE FALSE
    OBVIOUS
  <2>2. <<y, x>> \in Nat \X Nat /\ <<y, x>>[1] = y /\ <<y, x>>[2] = x
    OBVIOUS
  <2>3. <<y, x>> \in OpToRel(<, Nat)
    BY <2>1, <2>2, Zenon DEF OpToRel
  <2>. QED
    BY <1>2, <2>3
<1>4. \A y \in T : x <= y
  <2>1. SUFFICES ASSUME NEW y \in T PROVE x <= y
    OBVIOUS
  <2>2. x \in Nat /\ y \in Nat /\ ~(y < x)
    BY <1>3
  <2>. QED
    BY <2>2
<1>. QED
  BY <1>2, <1>4, Zenon

LEMMA OldestIs ==
    ASSUME NEW V, V \subseteq Versions, V # {}
    PROVE  Oldest(V) \in V
<1>1. V \subseteq Nat
  BY DEF Versions
<1>2. \E v \in V : \A u \in V : v <= u
  BY <1>1, LeastExists
<1>. QED
  BY <1>2 DEF Oldest

LEMMA NewestIs ==
    ASSUME NEW V, V \subseteq Versions, V # {}
    PROVE  Newest(V) \in V /\ \A u \in V : u <= Newest(V)
<1>. DEFINE T == {n \in Nat : \E v \in V : n = MaxVersion - v}
<1>1. T \subseteq Nat /\ T # {}
  <2>1. PICK v \in V : TRUE
    OBVIOUS
  <2>2. MaxVersion - v \in Nat
    BY RegistryConstants DEF Versions
  <2>. QED
    BY <2>1, <2>2
<1>2. PICK t \in T : \A y \in T : t <= y
  BY <1>1, LeastExists
<1>3. PICK v \in V : t = MaxVersion - v
  OBVIOUS
<1>4. \A u \in V : u <= v
  <2>1. SUFFICES ASSUME NEW u \in V PROVE u <= v
    OBVIOUS
  <2>2. t <= MaxVersion - u
    <3>1. MaxVersion - u \in Nat
      BY RegistryConstants DEF Versions
    <3>. QED
      BY <1>2, <3>1
  <2>3. u \in Nat /\ v \in Nat /\ MaxVersion \in Nat
    BY RegistryConstants DEF Versions
  <2>. QED
    BY <2>2, <2>3, <1>3
<1>. QED
  BY <1>4 DEF Newest

LEMMA NextVersionIs ==
    ASSUME dirs \subseteq Versions
    PROVE  NextVersion \in Nat \ {0} /\ NextVersion \notin dirs
<1>1. CASE dirs = {}
  BY <1>1 DEF NextVersion
<1>2. CASE dirs # {}
  <2>0. Newest(dirs) \in dirs /\ \A u \in dirs : u <= Newest(dirs)
    BY <1>2, NewestIs, Zenon
  <2>1. Newest(dirs) \in Nat /\ Newest(dirs) # 0
    <3>1. Newest(dirs) \in Versions
      BY <2>0, Zenon
    <3>. QED
      BY <3>1, RegistryConstants DEF Versions
  <2>2. NextVersion = Newest(dirs) + 1
    BY <1>2 DEF NextVersion
  <2>3. ~(Newest(dirs) + 1 <= Newest(dirs))
    BY <2>1
  <2>. QED
    BY <2>0, <2>1, <2>2, <2>3
<1>. QED
  BY <1>1, <1>2

-----------------------------------------------------------------------------
(* Which actions change what.                                              *)

LEMMA DiskFrame ==
    ASSUME [Next]_vars
    PROVE  \/ UNCHANGED diskVars
           \/ \E f \in Files : Unlink(f)
           \/ RemoveDirectory \/ MakeDirectory \/ Save
<1>1. ASSUME NEW d \in Detectors, Detector(d) PROVE UNCHANGED diskVars
  BY <1>1 DEF Detector, Classify, Classified, GetPredictor, Take, Load
<1>2. CASE GetPredictor("loop") \/ GetPredictor("trainer")
  BY <1>2 DEF GetPredictor, Take, Load
<1>3. CASE Answered \/ ListFiles \/ Unload
  BY <1>3 DEF Answered, ListFiles, Unload
<1>4. CASE Administrator
  BY <1>4 DEF Administrator, ModelInfo, ResetModels, TrainModel, CancelTraining,
     SwitchModel, DeleteModel
<1>5. CASE AskLoaded \/ Activate \/ Activated \/ TrainingFails
  BY <1>5 DEF AskLoaded, Activate, Activated, TrainingFails
<1>6. CASE UNCHANGED vars
  BY <1>6 DEF vars
<1>. QED
  BY <1>1, <1>2, <1>3, <1>4, <1>5, <1>6 DEF Next, LoopStep, TrainerStep

LEMMA CacheFrame ==
    ASSUME [Next]_vars
    PROVE  UNCHANGED cacheVars \/ ResetCache \/ \E c \in Callers : Load(c)
<1>1. ASSUME NEW d \in Detectors, Detector(d) PROVE UNCHANGED cacheVars \/ Load(d)
  BY <1>1 DEF Detector, Classify, Classified, GetPredictor, Take
<1>2. CASE GetPredictor("loop") \/ GetPredictor("trainer")
  BY <1>2 DEF GetPredictor, Take, Callers
<1>3. CASE Answered \/ ListFiles \/ (\E f \in Files : Unlink(f)) \/ RemoveDirectory
  BY <1>3 DEF Answered, ListFiles, Unlink, RemoveDirectory
<1>4. CASE Unload \/ Activate
  BY <1>4 DEF Unload, Activate, Reload
<1>5. CASE Administrator
  BY <1>5 DEF Administrator, ModelInfo, ResetModels, TrainModel, CancelTraining,
     SwitchModel, DeleteModel, Reload
<1>6. CASE MakeDirectory \/ Save \/ AskLoaded \/ Activated \/ TrainingFails
  BY <1>6 DEF MakeDirectory, Save, AskLoaded, Activated, TrainingFails
<1>7. CASE UNCHANGED vars
  BY <1>7 DEF vars
<1>. QED
  BY <1>1, <1>2, <1>3, <1>4, <1>5, <1>6, <1>7
     DEF Next, LoopStep, TrainerStep, Callers

LEMMA CallFrame ==
    ASSUME [Next]_vars, dirs \subseteq Versions
    PROVE  \/ UNCHANGED call
           \/ \E c \in Callers :
                 \/ Take(c) \/ Load(c) \/ AskNewest(c) \/ EndCall(c)
                 \/ \E v \in dirs : Reload(c, v)
<1>1. ASSUME NEW d \in Detectors, Detector(d)
      PROVE  Take(d) \/ Load(d) \/ AskNewest(d) \/ EndCall(d)
  BY <1>1 DEF Detector, Classify, Classified, GetPredictor
<1>2. CASE GetPredictor("loop") \/ GetPredictor("trainer")
  BY <1>2 DEF GetPredictor, Callers
<1>3. CASE ListFiles \/ (\E f \in Files : Unlink(f)) \/ RemoveDirectory
  BY <1>3 DEF ListFiles, Unlink, RemoveDirectory
<1>4. CASE Answered \/ Activated
  BY <1>4 DEF Answered, Activated, Callers
<1>5. CASE Unload
  <2>1. dirs # {} => Newest(dirs) \in dirs
    BY NewestIs
  <2>. QED
    BY <1>5, <2>1 DEF Unload, Callers
<1>6. CASE Activate
  BY <1>6 DEF Activate, Callers
<1>7. CASE Administrator
  BY <1>7 DEF Administrator, ModelInfo, ResetModels, TrainModel, CancelTraining,
     SwitchModel, DeleteModel, Callers
<1>8. CASE MakeDirectory \/ Save \/ AskLoaded \/ TrainingFails
  BY <1>8 DEF MakeDirectory, Save, AskLoaded, TrainingFails, Callers
<1>9. CASE UNCHANGED vars
  BY <1>9 DEF vars
<1>. QED
  BY <1>1, <1>2, <1>3, <1>4, <1>5, <1>6, <1>7, <1>8, <1>9
     DEF Next, LoopStep, TrainerStep, Callers

LEMMA LoopFrame ==
    ASSUME [Next]_vars
    PROVE  \/ UNCHANGED <<op, at, doomed, listed, active>>
           \/ Answered \/ ListFiles \/ RemoveDirectory \/ Unload
           \/ \E f \in Files : Unlink(f)
           \/ ModelInfo \/ ResetModels
           \/ \E v \in Versions : SwitchModel(v) \/ DeleteModel(v)
<1>1. ASSUME NEW d \in Detectors, Detector(d) PROVE UNCHANGED loopVars
  BY <1>1 DEF Detector, Classify, Classified, GetPredictor, Take, Load
<1>2. CASE GetPredictor("loop") \/ GetPredictor("trainer")
  BY <1>2 DEF GetPredictor, Take, Load, loopVars
<1>3. CASE TrainModel \/ CancelTraining
  BY <1>3 DEF TrainModel, CancelTraining, loopVars
<1>4. CASE MakeDirectory \/ Save \/ AskLoaded \/ Activate \/ Activated \/ TrainingFails
  BY <1>4 DEF MakeDirectory, Save, AskLoaded, Activate, Activated, TrainingFails,
     loopVars
<1>5. CASE UNCHANGED vars
  BY <1>5 DEF vars, loopVars
<1>. QED
  BY <1>1, <1>2, <1>3, <1>4, <1>5
     DEF Next, LoopStep, Administrator, TrainerStep, loopVars

LEMMA TrainFrame ==
    ASSUME [Next]_vars
    PROVE  \/ UNCHANGED trainVars
           \/ TrainModel \/ CancelTraining \/ EndTraining
           \/ MakeDirectory \/ Save \/ AskLoaded \/ Activate
<1>1. ASSUME NEW d \in Detectors, Detector(d) PROVE UNCHANGED trainVars
  BY <1>1 DEF Detector, Classify, Classified, GetPredictor, Take, Load
<1>2. CASE GetPredictor("loop") \/ GetPredictor("trainer")
  BY <1>2 DEF GetPredictor, Take, Load
<1>3. CASE \/ Answered \/ ListFiles \/ Unload \/ RemoveDirectory
           \/ \E f \in Files : Unlink(f)
  BY <1>3 DEF Answered, ListFiles, Unload, RemoveDirectory, Unlink
<1>4. CASE \/ ModelInfo \/ ResetModels
           \/ \E v \in Versions : SwitchModel(v) \/ DeleteModel(v)
  BY <1>4 DEF ModelInfo, ResetModels, SwitchModel, DeleteModel
<1>5. CASE Activated \/ TrainingFails
  BY <1>5 DEF Activated, TrainingFails
<1>6. CASE UNCHANGED vars
  BY <1>6 DEF vars
<1>. QED
  BY <1>1, <1>2, <1>3, <1>4, <1>5, <1>6
     DEF Next, LoopStep, Administrator, TrainerStep

-----------------------------------------------------------------------------
(* Types, with what they rest on.                                          *)

DiskType ==
    /\ dirs \in SUBSET Versions
    /\ files \in [Versions -> SUBSET Files]
    /\ run \in [Versions -> 0..MaxRuns]

CacheType == cached \in Models /\ loaded \in Versions \cup {0}

LoopType ==
    /\ op \in {"none", "info", "switch", "delete", "reset", "reload"}
    /\ at \in {"idle", "asking", "listing", "unlinking", "unloading"}
    /\ doomed \in SUBSET dirs
    /\ listed \in SUBSET Files
    /\ active \in BOOLEAN
    /\ at = "idle" <=> op = "none"
    /\ at = "idle" => doomed = {} /\ listed = {} /\ ~active
    /\ at \in {"listing", "unlinking"} => doomed # {}

TrainType ==
    /\ trainer \in {"none", "starting", "working", "asking", "activating"}
    /\ target \in Versions \cup {0}
    /\ unsaved \in Seq(Files)
    /\ training \in BOOLEAN
    /\ asked \in BOOLEAN
    /\ runs \in 0..MaxRuns

\* Only delete_model waits for an answer with a directory in mind, and a reset
\* asks nothing.
AskingInv == /\ op = "delete" /\ at = "asking" => doomed # {}
             /\ op = "reset" => at # "asking"

\* Every directory leaves a number for each training run that may still make one.
RunsLeft == MaxRuns - runs + (IF trainer = "starting" THEN 1 ELSE 0)

RoomInv == /\ \A v \in dirs : v + RunsLeft <= MaxVersion
           /\ trainer # "none" => runs # 0

\* The files a training run has still to write.
Unsaved == {SaveOrder, <<"extras", "model">>, <<"model">>, <<>>}

LEMMA UnsavedIs ==
    /\ Unsaved \subseteq Seq(Files)
    /\ SaveOrder \in Unsaved /\ <<>> \in Unsaved
    /\ \A s \in Unsaved :
          s # <<>> => /\ Head(s) \in Files /\ Tail(s) \in Unsaved
                      /\ Tail(s) # <<>> => Head(s) # "model"
<1>1. Unsaved \subseteq Seq(Files)
  BY DEF Unsaved, SaveOrder, Files
<1>2. SaveOrder \in Unsaved /\ <<>> \in Unsaved
  BY DEF Unsaved
<1>3. Head(SaveOrder) = "scaler" /\ Tail(SaveOrder) = <<"extras", "model">>
  BY DEF SaveOrder
<1>4. /\ Head(<<"extras", "model">>) = "extras"
      /\ Tail(<<"extras", "model">>) = <<"model">>
  OBVIOUS
<1>5. Head(<<"model">>) = "model" /\ Tail(<<"model">>) = <<>>
  OBVIOUS
<1>. QED
  BY <1>1, <1>2, <1>3, <1>4, <1>5 DEF Unsaved, Files

TypeInv == /\ DiskType /\ CacheType /\ call \in [Callers -> CallType]
           /\ LoopType /\ TrainType
           /\ unsaved \in Unsaved
           /\ AskingInv /\ RoomInv

LEMMA TypeParts == TypeInv => TypeOK
  BY DEF TypeInv, TypeOK, DiskType, CacheType, LoopType, TrainType

LEMMA ModelOfType ==
    ASSUME DiskType, NEW v \in Versions
    PROVE  ModelOf(v) \in Models /\ ModelOf(v).run = run[v]
<1>1. run[v] \in 0..MaxRuns /\ ("extras" \in files[v]) \in BOOLEAN
  BY DEF DiskType
<1>. QED
  BY <1>1 DEF ModelOf, Models

LEMMA NextVersionFits ==
    ASSUME TypeInv, trainer = "starting"
    PROVE  NextVersion \in Versions /\ NextVersion + (MaxRuns - runs) <= MaxVersion
<1>0. /\ MaxRuns \in Nat /\ MaxVersion \in Nat /\ MaxRuns <= MaxVersion
      /\ runs \in 0..MaxRuns /\ runs # 0
  BY RegistryConstants DEF TypeInv, TrainType, RoomInv
<1>1. CASE dirs = {}
  <2>1. NextVersion = 1
    BY <1>1 DEF NextVersion
  <2>. QED
    BY <1>0, <2>1 DEF Versions
<1>2. CASE dirs # {}
  <2>1. Newest(dirs) \in dirs
    BY <1>2, NewestIs, Zenon DEF TypeInv, DiskType
  <2>2. Newest(dirs) + RunsLeft <= MaxVersion
    BY <2>1 DEF TypeInv, RoomInv
  <2>3. RunsLeft = MaxRuns - runs + 1
    BY DEF RunsLeft
  <2>4. Newest(dirs) \in 1..MaxVersion
    BY <2>1 DEF TypeInv, DiskType, Versions
  <2>5. NextVersion = Newest(dirs) + 1
    BY <1>2 DEF NextVersion
  <2>. QED
    BY <1>0, <2>2, <2>3, <2>4, <2>5 DEF Versions
<1>. QED
  BY <1>1, <1>2

LEMMA TypeInit == Init => TypeInv
<1> SUFFICES ASSUME Init PROVE TypeInv
  OBVIOUS
<1>0. Installed \subseteq Versions /\ 0 \in 0..MaxRuns
  BY RegistryConstants DEF Versions
<1>1. DiskType
  BY <1>0 DEF Init, DiskType, Files
<1>2. CacheType
  <2>1. Installed # {} => Newest(Installed) \in Versions
    BY <1>0, NewestIs
  <2>. QED
    BY <1>1, <2>1, ModelOfType DEF Init, CacheType, Models
<1>3. call \in [Callers -> CallType]
  BY DEF Init, Idle, CallType, Models
<1>4. LoopType /\ AskingInv
  BY DEF Init, LoopType, AskingInv
<1>5. TrainType /\ unsaved \in Unsaved
  BY <1>0, UnsavedIs DEF Init, TrainType
<1>6. RoomInv
  BY <1>0, RegistryConstants DEF Init, RoomInv, RunsLeft, Versions
<1>. QED
  BY <1>1, <1>2, <1>3, <1>4, <1>5, <1>6 DEF TypeInv, Init

LEMMA DiskTypeStep ==
    ASSUME TypeInv, [Next]_vars
    PROVE  DiskType'
<1>. USE DEF DiskType
<1>0. DiskType /\ dirs \subseteq Versions /\ runs \in 0..MaxRuns
  BY DEF TypeInv, TrainType
<1>1. CASE UNCHANGED diskVars
  BY <1>0, <1>1 DEF diskVars
<1>2. ASSUME NEW f \in Files, Unlink(f) PROVE DiskType'
  BY <1>0, <1>2 DEF Unlink
<1>3. CASE RemoveDirectory
  BY <1>0, <1>3 DEF RemoveDirectory
<1>4. CASE MakeDirectory
  <2>1. CASE UNCHANGED diskVars
    BY <1>0, <2>1 DEF diskVars
  <2>2. CASE ~UNCHANGED diskVars
    <3>1. /\ trainer = "starting"
          /\ dirs' = dirs \cup {NextVersion}
          /\ run' = [run EXCEPT ![NextVersion] = runs]
          /\ files' = files
      BY <1>4, <2>2 DEF MakeDirectory
    <3>. QED
      BY <1>0, <3>1, NextVersionFits
  <2>. QED
    BY <2>1, <2>2
<1>5. CASE Save
  <2>1. unsaved # <<>> => Head(unsaved) \in Files
    BY UnsavedIs DEF TypeInv
  <2>. QED
    BY <1>0, <1>5, <2>1 DEF Save
<1>. QED
  BY <1>1, <1>2, <1>3, <1>4, <1>5, DiskFrame

LEMMA CacheTypeStep ==
    ASSUME TypeInv, [Next]_vars
    PROVE  CacheType'
<1>. USE DEF CacheType
<1>0. CacheType /\ DiskType /\ dirs \subseteq Versions
  BY DEF TypeInv, DiskType
<1>1. CASE UNCHANGED cacheVars
  BY <1>0, <1>1 DEF cacheVars
<1>2. CASE ResetCache
  BY <1>2 DEF ResetCache, Models
<1>3. ASSUME NEW c \in Callers, Load(c) PROVE CacheType'
  <2>1. CASE UNCHANGED cacheVars
    BY <1>0, <2>1 DEF cacheVars
  <2>2. CASE ~UNCHANGED cacheVars
    <3>. DEFINE v == call[c].want
    <3>1. v \in Versions /\ cached' = ModelOf(v) /\ loaded' = v
      BY <1>0, <1>3, <2>2 DEF Load, Loadable
    <3>2. ModelOf(v) \in Models
      BY <1>0, <3>1, ModelOfType
    <3>. QED
      BY <3>1, <3>2
  <2>. QED
    BY <2>1, <2>2
<1>. QED
  BY <1>1, <1>2, <1>3, CacheFrame

LEMMA IdleType == Idle \in CallType
  BY DEF Idle, CallType, Models

LEMMA CallTypeStep ==
    ASSUME TypeInv, [Next]_vars
    PROVE  (call \in [Callers -> CallType])'
<1>0. /\ call \in [Callers -> CallType] /\ CacheType /\ DiskType
      /\ dirs \subseteq Versions
  BY DEF TypeInv, DiskType
<1>1. CASE UNCHANGED call
  BY <1>0, <1>1
<1>2. ASSUME NEW c \in Callers, NEW k \in CallType,
             call' = [call EXCEPT ![c] = k]
      PROVE  (call \in [Callers -> CallType])'
  BY <1>0, <1>2
<1>3. ASSUME NEW c \in Callers, NEW m \in Models, Returns(c, m)
      PROVE  (call \in [Callers -> CallType])'
  <2>1. [call[c] EXCEPT !.at = "got", !.got = m] \in CallType
    BY <1>0 DEF CallType
  <2>2. call' = [call EXCEPT ![c] = [call[c] EXCEPT !.at = "got", !.got = m]]
    BY <1>3 DEF Returns
  <2>. QED
    BY <1>2, <2>1, <2>2
<1>4. ASSUME NEW c \in Callers, Take(c) PROVE (call \in [Callers -> CallType])'
  BY <1>0, <1>3, <1>4 DEF Take, CacheType
<1>5. ASSUME NEW c \in Callers, Load(c) PROVE (call \in [Callers -> CallType])'
  <2>1. CASE Returns(c, cached)
    BY <1>0, <1>3, <2>1 DEF CacheType
  <2>2. CASE Loadable(call[c].want) /\ Returns(c, ModelOf(call[c].want))
    <3>1. call[c].want \in Versions
      BY <1>0, <2>2 DEF Loadable
    <3>2. ModelOf(call[c].want) \in Models
      BY <1>0, <3>1, ModelOfType
    <3>. QED
      BY <1>3, <2>2, <3>2
  <2>3. CASE call' = [call EXCEPT ![c].at = "failed"]
    <3>1. [call[c] EXCEPT !.at = "failed"] \in CallType
      BY <1>0 DEF CallType
    <3>2. call' = [call EXCEPT ![c] = [call[c] EXCEPT !.at = "failed"]]
      BY <2>3
    <3>. QED
      BY <1>2, <3>1, <3>2
  <2>. QED
    BY <1>5, <2>1, <2>2, <2>3 DEF Load
<1>6. ASSUME NEW c \in Callers, AskNewest(c) PROVE (call \in [Callers -> CallType])'
  <2>1. CASE dirs = {}
    <3>1. [Idle EXCEPT !.at = "failed"] \in CallType
      BY IdleType DEF CallType
    <3>. QED
      BY <1>2, <1>6, <2>1, <3>1 DEF AskNewest
  <2>2. CASE dirs # {}
    <3>1. Newest(dirs) \in Versions
      BY <1>0, <2>2, NewestIs
    <3>2. ASSUME NEW a \in {"take", "load"}
          PROVE  [Idle EXCEPT !.at = a, !.want = Newest(dirs)] \in CallType
      BY <3>1, IdleType DEF CallType
    <3>3. (IF Hit(Newest(dirs)) THEN "take" ELSE "load") \in {"take", "load"}
      OBVIOUS
    <3>. QED
      BY <1>2, <1>6, <2>2, <3>2, <3>3 DEF AskNewest
  <2>. QED
    BY <2>1, <2>2
<1>7. ASSUME NEW c \in Callers, EndCall(c) PROVE (call \in [Callers -> CallType])'
  BY <1>2, <1>7, IdleType DEF EndCall
<1>8. ASSUME NEW c \in Callers, NEW v \in dirs, Reload(c, v)
      PROVE  (call \in [Callers -> CallType])'
  <2>1. [Idle EXCEPT !.at = "load", !.want = v] \in CallType
    BY <1>0, IdleType DEF CallType
  <2>. QED
    BY <1>2, <1>8, <2>1 DEF Reload
<1>. QED
  BY <1>0, <1>1, <1>4, <1>5, <1>6, <1>7, <1>8, CallFrame

LEMMA OnlyRemoved ==
    ASSUME [Next]_vars, ~RemoveDirectory
    PROVE  dirs \subseteq dirs'
<1>1. ASSUME NEW f \in Files, Unlink(f) PROVE dirs' = dirs
  BY <1>1 DEF Unlink
<1>2. CASE MakeDirectory
  BY <1>2 DEF MakeDirectory, diskVars
<1>3. CASE Save
  BY <1>3 DEF Save
<1>4. CASE UNCHANGED diskVars
  BY <1>4 DEF diskVars
<1>. QED
  BY <1>1, <1>2, <1>3, <1>4, DiskFrame

LEMMA LoopTypeStep ==
    ASSUME TypeInv, [Next]_vars
    PROVE  LoopType' /\ AskingInv'
<1>. USE DEF LoopType, AskingInv
<1>0. LoopType /\ AskingInv /\ DiskType
  BY DEF TypeInv
<1>1. CASE RemoveDirectory
  <2>. DEFINE v == Oldest(doomed)
  <2>1. CASE files[v] = {}
    BY <1>0, <1>1, <2>1 DEF RemoveDirectory
  <2>2. CASE files[v] # {}
    BY <1>0, <1>1, <2>2 DEF RemoveDirectory, EndRequest
  <2>. QED
    BY <2>1, <2>2
<1>2. CASE ~RemoveDirectory
  <2>0. dirs \subseteq dirs'
    BY <1>2, OnlyRemoved
  <2>1. CASE UNCHANGED <<op, at, doomed, listed, active>>
    BY <1>0, <2>0, <2>1
  <2>2. CASE Answered
    BY <1>0, <2>0, <2>2 DEF Answered, EndRequest
  <2>3. CASE ListFiles
    <3>1. Oldest(doomed) \in Versions
      BY <1>0, <2>3, OldestIs DEF ListFiles, DiskType
    <3>2. files[Oldest(doomed)] \in SUBSET Files
      BY <1>0, <3>1 DEF DiskType
    <3>. QED
      BY <1>0, <2>0, <2>3, <3>2 DEF ListFiles
  <2>4. CASE Unload
    BY <1>0, <2>0, <2>4 DEF Unload, EndRequest
  <2>5. ASSUME NEW f \in Files, Unlink(f) PROVE LoopType' /\ AskingInv'
    BY <1>0, <2>0, <2>5 DEF Unlink
  <2>6. CASE ModelInfo
    BY <1>0, <2>0, <2>6 DEF ModelInfo, Request
  <2>7. CASE ResetModels
    BY <1>0, <2>0, <2>7 DEF ResetModels, Request
  <2>8. ASSUME NEW v \in Versions, SwitchModel(v) PROVE LoopType' /\ AskingInv'
    BY <1>0, <2>0, <2>8 DEF SwitchModel, Request
  <2>9. ASSUME NEW v \in Versions, DeleteModel(v) PROVE LoopType' /\ AskingInv'
    BY <1>0, <2>0, <2>9 DEF DeleteModel, Request
  <2>. QED
    BY <1>2, <2>1, <2>2, <2>3, <2>4, <2>5, <2>6, <2>7, <2>8, <2>9, LoopFrame
<1>. QED
  BY <1>1, <1>2

LEMMA TrainTypeStep ==
    ASSUME TypeInv, [Next]_vars
    PROVE  TrainType' /\ (unsaved \in Unsaved)'
<1>. USE DEF TrainType
<1>0. TrainType /\ unsaved \in Unsaved /\ dirs \subseteq Versions
  BY DEF TypeInv, DiskType
<1>1. CASE UNCHANGED trainVars
  BY <1>0, <1>1 DEF trainVars
<1>2. CASE TrainModel
  <2>1. runs' \in 0..MaxRuns
    BY <1>0, <1>2, RegistryConstants DEF TrainModel
  <2>2. /\ trainer' = "starting" /\ training' = TRUE /\ asked' = FALSE
        /\ UNCHANGED <<target, unsaved>>
    BY <1>2 DEF TrainModel
  <2>. QED
    BY <1>0, <2>1, <2>2
<1>3. CASE CancelTraining
  BY <1>0, <1>3 DEF CancelTraining
<1>4. ASSUME EndTraining PROVE TrainType' /\ (unsaved \in Unsaved)'
  BY <1>0, <1>4, UnsavedIs DEF EndTraining, TrainingFlag
<1>5. CASE MakeDirectory
  <2>1. CASE ~EndTraining
    <3>1. NextVersion \in Versions
      BY <1>5, NextVersionFits DEF MakeDirectory
    <3>. QED
      BY <1>0, <1>5, <2>1, <3>1, UnsavedIs DEF MakeDirectory
  <2>. QED
    BY <1>4, <2>1
<1>6. CASE Save
  <2>1. CASE ~EndTraining
    <3>1. unsaved # <<>> /\ unsaved' = Tail(unsaved)
          /\ UNCHANGED <<trainer, target, training, asked, runs>>
      BY <1>6, <2>1 DEF Save
    <3>2. unsaved' \in Unsaved
      BY <1>0, <3>1, UnsavedIs
    <3>. QED
      BY <1>0, <3>1, <3>2, UnsavedIs
  <2>. QED
    BY <1>4, <2>1
<1>7. CASE AskLoaded
  <2>1. CASE ~EndTraining
    <3>1. dirs # {} => Newest(dirs) \in Versions
      BY <1>0, NewestIs
    <3>3. trainer' = "asking" /\ UNCHANGED <<unsaved, training, asked, runs>>
      BY <1>7, <2>1 DEF AskLoaded
    <3>4. 1 \in Versions
      BY <1>0, <1>7, RegistryConstants DEF AskLoaded, TypeInv, RoomInv, Versions
    <3>. QED
      BY <1>0, <1>7, <2>1, <3>1, <3>3, <3>4 DEF AskLoaded
  <2>. QED
    BY <1>4, <2>1
<1>8. CASE Activate
  <2>1. CASE ~EndTraining
    BY <1>0, <1>8, <2>1 DEF Activate
  <2>. QED
    BY <1>4, <2>1
<1>. QED
  BY <1>1, <1>2, <1>3, <1>4, <1>5, <1>6, <1>7, <1>8, TrainFrame

LEMMA RoomStep ==
    ASSUME TypeInv, [Next]_vars
    PROVE  RoomInv'
<1>. USE DEF RoomInv
<1>0. /\ RoomInv /\ dirs \subseteq Versions /\ dirs' \subseteq Versions
      /\ runs \in 0..MaxRuns /\ runs' \in 0..MaxRuns
  BY DiskTypeStep, TrainTypeStep DEF TypeInv, DiskType, TrainType
<1>1. MaxRuns \in Nat /\ MaxVersion \in Nat
  BY RegistryConstants
<1>2. RunsLeft \in Nat /\ RunsLeft' \in Nat
  <2>1. \A r \in 0..MaxRuns : MaxRuns - r \in Nat /\ MaxRuns - r + 0 \in Nat
                                               /\ MaxRuns - r + 1 \in Nat
    BY <1>1
  <2>. QED
    BY <1>0, <2>1, Zenon DEF RunsLeft
<1>3. ASSUME dirs' \subseteq dirs, RunsLeft' <= RunsLeft,
             trainer' # "none" => runs' # 0
      PROVE  RoomInv'
  <2>1. ASSUME NEW v \in dirs' PROVE v + RunsLeft' <= MaxVersion
    <3>1. v \in dirs
      BY <1>3, <2>1
    <3>2. v \in Nat
      BY <1>0, <3>1 DEF Versions
    <3>3. v + RunsLeft <= MaxVersion
      BY <1>0, <3>1
    <3>4. \A m, n \in Nat : m <= n => v + m <= v + n
      BY <3>2
    <3>5. \A a, b, c \in Nat : a <= b /\ b <= c => a <= c
      OBVIOUS
    <3>6. \A n \in Nat : v + n \in Nat
      BY <3>2
    <3>. QED
      BY <1>1, <1>2, <1>3, <3>3, <3>4, <3>5, <3>6, Zenon
  <2>. QED
    BY <1>3, <2>1
<1>4. dirs' \subseteq dirs \/ MakeDirectory
  <2>1. ASSUME NEW f \in Files, Unlink(f) PROVE dirs' = dirs
    BY <2>1 DEF Unlink
  <2>. QED
    BY <2>1, DiskFrame DEF diskVars, RemoveDirectory, Save
<1>5. CASE MakeDirectory /\ ~EndTraining
  <2>1. /\ trainer = "starting" /\ trainer' = "working"
        /\ dirs' = dirs \cup {NextVersion} /\ runs' = runs
    BY <1>5 DEF MakeDirectory
  <2>2. RunsLeft' = MaxRuns - runs /\ RunsLeft = MaxRuns - runs + 1
    <3>1. MaxRuns - runs + 0 = MaxRuns - runs
      BY <1>0, <1>1
    <3>2. RunsLeft' = MaxRuns - runs + 0
      BY <2>1, Zenon DEF RunsLeft
    <3>3. RunsLeft = MaxRuns - runs + 1
      BY <2>1, Zenon DEF RunsLeft
    <3>. QED
      BY <3>1, <3>2, <3>3
  <2>3. NextVersion + RunsLeft' <= MaxVersion
    BY <2>1, <2>2, NextVersionFits
  <2>4. ASSUME NEW v \in dirs PROVE v + RunsLeft' <= MaxVersion
    <3>1. v \in Nat /\ v + RunsLeft <= MaxVersion
      BY <1>0, <2>4 DEF Versions
    <3>. QED
      BY <1>0, <1>1, <2>2, <3>1
  <2>. QED
    BY <1>0, <2>1, <2>3, <2>4
<1>6. CASE EndTraining
  <2>1. RunsLeft' <= RunsLeft
    BY <1>0, <1>1, <1>6 DEF EndTraining, RunsLeft
  <2>2. dirs' \subseteq dirs
    <3>1. CASE MakeDirectory
      BY <1>6, <3>1 DEF MakeDirectory, EndTraining, diskVars
    <3>. QED
      BY <1>4, <3>1
  <2>. QED
    BY <1>3, <1>6, <2>1, <2>2 DEF EndTraining
<1>7. CASE ~MakeDirectory
  <2>1. CASE UNCHANGED trainVars
    BY <1>0, <1>1, <1>2, <1>3, <1>4, <1>7, <2>1 DEF trainVars, RunsLeft
  <2>2. CASE TrainModel
    <3>1. RunsLeft' = MaxRuns - (runs + 1) + 1 /\ runs' = runs + 1
      BY <2>2 DEF TrainModel, RunsLeft
    <3>2. RunsLeft' <= RunsLeft /\ runs' # 0
      BY <1>0, <1>1, <3>1 DEF RunsLeft
    <3>. QED
      BY <1>3, <1>4, <1>7, <3>2
  <2>3. CASE CancelTraining
    BY <1>0, <1>1, <1>2, <1>3, <1>4, <1>7, <2>3 DEF CancelTraining, RunsLeft
  <2>4. CASE (Save \/ AskLoaded \/ Activate) /\ ~EndTraining
    <3>1. trainer # "none" /\ trainer # "starting" /\ trainer' # "starting" /\ runs' = runs
      BY <2>4 DEF Save, AskLoaded, Activate
    <3>2. RunsLeft' <= RunsLeft
      BY <1>0, <1>1, <3>1 DEF RunsLeft
    <3>. QED
      BY <1>0, <1>3, <1>4, <1>7, <3>1, <3>2
  <2>. QED
    BY <1>6, <1>7, <2>1, <2>2, <2>3, <2>4, TrainFrame
<1>. QED
  BY <1>5, <1>6, <1>7

LEMMA TypeStep == TypeInv /\ [Next]_vars => TypeInv'
  BY DiskTypeStep, CacheTypeStep, CallTypeStep, LoopTypeStep,
     TrainTypeStep, RoomStep DEF TypeInv

LEMMA AlwaysTypeInv == Spec => []TypeInv
  BY TypeInit, TypeStep, PTL DEF Spec

\* Every variable keeps its type; in particular a training run always finds a
\* version number, and only existing directories wait to be removed.
THEOREM RegistryTypeCorrect == Spec => []TypeOK
  BY AlwaysTypeInv, TypeParts, PTL

-----------------------------------------------------------------------------
(* What the disk says of training runs.                                    *)

\* Only a version directory has files.
EmptyInv == \A v \in Versions : v \notin dirs => files[v] = {}

\* No directory and no predictor is of a later run, and until a run has made its
\* directory none is of that run.
RunInv ==
    /\ \A v \in Versions : run[v] <= runs
    /\ cached.run <= runs
    /\ trainer = "starting" => /\ \A v \in Versions : run[v] < runs
                               /\ cached.run < runs

\* While a run has files to write, its directory is the only one of that run, has
\* no metadata and has never been loaded.
SaveInv ==
    trainer = "working" /\ unsaved # <<>> =>
        /\ target \in Versions
        /\ run[target] = runs
        /\ \A v \in Versions : v # target => run[v] < runs
        /\ "model" \notin files[target]
        /\ cached.run < runs

RegistryInv == TypeInv /\ EmptyInv /\ RunInv /\ SaveInv /\ HalfSavedIsNotServed

LEMMA RunsAreNumbers ==
    TypeInv => /\ runs \in Nat /\ cached.run \in Nat
               /\ \A v \in Versions : run[v] \in Nat
<1> SUFFICES ASSUME TypeInv PROVE /\ runs \in Nat /\ cached.run \in Nat
                                  /\ \A v \in Versions : run[v] \in Nat
  OBVIOUS
<1>1. \A r \in 0..MaxRuns : r \in Nat
  BY RegistryConstants
<1>2. runs \in 0..MaxRuns /\ \A v \in Versions : run[v] \in 0..MaxRuns
  BY DEF TypeInv, TrainType, DiskType
<1>3. cached.run \in 0..MaxRuns
  <2>1. cached \in Models /\ 0 \in 0..MaxRuns
    BY RegistryConstants DEF TypeInv, CacheType
  <2>. QED
    BY <2>1 DEF Models, NoModel
<1>. QED
  BY <1>1, <1>2, <1>3

LEMMA RegistryInit == Init => RegistryInv
<1> SUFFICES ASSUME Init PROVE RegistryInv
  OBVIOUS
<1>1. TypeInv
  BY TypeInit
<1>2. EmptyInv
  BY DEF Init, EmptyInv
<1>3. cached.run = 0 /\ (cached # NoModel => cached.prepared)
  <2>1. CASE Installed = {}
    BY <2>1 DEF Init, NoModel
  <2>2. CASE Installed # {}
    <3>1. Newest(Installed) \in Installed /\ Newest(Installed) \in Versions
      BY <2>2, NewestIs, RegistryConstants DEF Versions
    <3>. QED
      BY <2>2, <3>1 DEF Init, ModelOf, Files
  <2>. QED
    BY <2>1, <2>2
<1>4. RunInv /\ SaveInv /\ HalfSavedIsNotServed
  BY <1>3 DEF Init, RunInv, SaveInv, HalfSavedIsNotServed
<1>. QED
  BY <1>1, <1>2, <1>4 DEF RegistryInv

LEMMA EmptyStep ==
    ASSUME RegistryInv, [Next]_vars
    PROVE  EmptyInv'
<1>. USE DEF EmptyInv
<1>0. EmptyInv /\ DiskType /\ DiskType'
  BY DiskTypeStep DEF RegistryInv, TypeInv
<1>1. CASE UNCHANGED diskVars
  BY <1>0, <1>1 DEF diskVars
<1>2. ASSUME NEW f \in Files, Unlink(f) PROVE EmptyInv'
  BY <1>0, <1>2 DEF Unlink, DiskType
<1>3. CASE RemoveDirectory
  BY <1>0, <1>3 DEF RemoveDirectory
<1>4. CASE MakeDirectory
  BY <1>0, <1>4 DEF MakeDirectory, diskVars
<1>5. CASE Save
  BY <1>0, <1>5 DEF Save, DiskType
<1>. QED
  BY <1>1, <1>2, <1>3, <1>4, <1>5, DiskFrame

\* A step of the disk, of the cache and of the training run, seen from RunInv.
LEMMA RunStep ==
    ASSUME RegistryInv, [Next]_vars
    PROVE  RunInv'
<1>. USE DEF RunInv
<1>0. /\ RunInv /\ DiskType /\ dirs \subseteq Versions
      /\ runs \in Nat /\ cached.run \in Nat /\ \A v \in Versions : run[v] \in Nat
  BY RunsAreNumbers DEF RegistryInv, TypeInv, DiskType
<1>1. cached'.run = cached.run \/ cached'.run = 0 \/ \E v \in dirs : cached'.run = run[v]
  <2>1. ASSUME NEW c \in Callers, Load(c)
        PROVE  cached' = cached \/ \E v \in dirs : cached'.run = run[v]
    BY <1>0, <2>1, ModelOfType DEF Load, Loadable, cacheVars
  <2>2. ResetCache => cached'.run = 0
    BY DEF ResetCache, NoModel
  <2>. QED
    BY <2>1, <2>2, CacheFrame DEF cacheVars
<1>2. CASE TrainModel
  <2>1. runs' = runs + 1 /\ UNCHANGED <<run, cached>>
    BY <1>2 DEF TrainModel, diskVars, cacheVars
  <2>2. \A r \in Nat : r <= runs => r < runs + 1 /\ r <= runs + 1
    BY <1>0
  <2>. QED
    BY <1>0, <2>1, <2>2
<1>3. CASE MakeDirectory /\ ~EndTraining
  <2>1. /\ trainer' = "working" /\ runs' = runs /\ UNCHANGED cached
        /\ run' = [run EXCEPT ![NextVersion] = runs]
    BY <1>3 DEF MakeDirectory, cacheVars
  <2>2. \A v \in Versions : run'[v] = run[v] \/ run'[v] = runs
    BY <1>0, <2>1 DEF DiskType
  <2>. QED
    BY <1>0, <2>1, <2>2
<1>4. ASSUME run' = run, runs' = runs, trainer' = trainer \/ trainer' # "starting"
      PROVE  RunInv'
  <2>1. cached'.run <= runs /\ (trainer = "starting" => cached'.run < runs)
    <3>1. CASE cached'.run = 0
      <4>1. trainer = "starting" => 0 < runs
        BY <1>0
      <4>. QED
        BY <1>0, <3>1, <4>1
    <3>2. CASE \E v \in dirs : cached'.run = run[v]
      BY <1>0, <3>2
    <3>. QED
      BY <1>0, <1>1, <3>1, <3>2
  <2>. QED
    BY <1>0, <1>4, <2>1
<1>5. \/ TrainModel
      \/ MakeDirectory /\ ~EndTraining
      \/ run' = run /\ runs' = runs /\ (trainer' = trainer \/ trainer' # "starting")
  <2>1. run' = run \/ (MakeDirectory /\ ~EndTraining)
    <3>1. ASSUME NEW f \in Files, Unlink(f) PROVE run' = run
      BY <3>1 DEF Unlink
    <3>2. MakeDirectory => run' = run \/ ~EndTraining
      BY DEF MakeDirectory, EndTraining, diskVars
    <3>. QED
      BY <3>1, <3>2, DiskFrame DEF diskVars, RemoveDirectory, Save
  <2>2. \/ TrainModel
        \/ MakeDirectory /\ ~EndTraining
        \/ runs' = runs /\ (trainer' = trainer \/ trainer' # "starting")
    BY TrainFrame DEF trainVars, CancelTraining, EndTraining, Save, AskLoaded, Activate
  <2>. QED
    BY <2>1, <2>2
<1>. QED
  BY <1>2, <1>3, <1>4, <1>5

LEMMA SaveStep ==
    ASSUME RegistryInv, [Next]_vars
    PROVE  SaveInv'
<1>. USE DEF SaveInv
<1>0. /\ SaveInv /\ RunInv /\ EmptyInv /\ DiskType /\ dirs \subseteq Versions
      /\ unsaved \in Unsaved
      /\ runs \in Nat /\ cached.run \in Nat /\ \A v \in Versions : run[v] \in Nat
  BY RunsAreNumbers DEF RegistryInv, TypeInv, DiskType
<1>1. SUFFICES ASSUME trainer' = "working", unsaved' # <<>> PROVE SaveInv'
  OBVIOUS
<1>2. CASE MakeDirectory
  <2>1. /\ trainer = "starting" /\ target' = NextVersion /\ runs' = runs
        /\ run' = [run EXCEPT ![NextVersion] = runs]
        /\ UNCHANGED <<files, cached>>
    BY <1>1, <1>2 DEF MakeDirectory, EndTraining, cacheVars
  <2>2. NextVersion \in Versions /\ NextVersion \notin dirs
    BY <1>0, <2>1, NextVersionFits, NextVersionIs DEF RegistryInv
  <2>3. files[NextVersion] = {}
    BY <1>0, <2>2 DEF EmptyInv
  <2>. QED
    BY <1>0, <2>1, <2>2, <2>3 DEF RunInv, DiskType
<1>3. CASE Save
  <2>1. /\ trainer = "working" /\ unsaved # <<>> /\ unsaved' = Tail(unsaved)
        /\ UNCHANGED <<target, runs, run, cached>>
        /\ files' = [files EXCEPT ![target] = @ \cup {Head(unsaved)}]
    BY <1>1, <1>3 DEF Save, EndTraining, cacheVars
  <2>2. Head(unsaved) # "model"
    BY <1>0, <1>1, <2>1, UnsavedIs
  <2>. QED
    BY <1>0, <2>1, <2>2 DEF DiskType
<1>4. CASE ~MakeDirectory /\ ~Save
  <2>1. trainer = "working" /\ UNCHANGED <<target, unsaved, runs>>
    <3>1. ~TrainModel /\ ~EndTraining /\ ~AskLoaded /\ ~Activate
      BY <1>1 DEF TrainModel, EndTraining, AskLoaded, Activate
    <3>. QED
      BY <1>1, <1>4, <3>1, TrainFrame DEF trainVars, CancelTraining
  <2>2. run' = run /\ \A v \in Versions : files'[v] \subseteq files[v]
    <3>1. ASSUME NEW f \in Files, Unlink(f)
          PROVE  run' = run /\ \A v \in Versions : files'[v] \subseteq files[v]
      BY <1>0, <3>1 DEF Unlink, DiskType
    <3>. QED
      BY <1>4, <3>1, DiskFrame DEF diskVars, RemoveDirectory
  <2>3. cached'.run < runs
    <3>1. CASE UNCHANGED cacheVars
      BY <1>0, <1>1, <2>1, <3>1 DEF cacheVars
    <3>2. CASE ResetCache
      <4>1. cached'.run = 0 /\ cached.run < runs
        BY <1>0, <1>1, <2>1, <3>2 DEF ResetCache, NoModel
      <4>. QED
        BY <1>0, <4>1
    <3>3. ASSUME NEW c \in Callers, Load(c), ~UNCHANGED cacheVars
          PROVE  cached'.run < runs
      <4>. DEFINE v == call[c].want
      <4>1. Loadable(v) /\ cached' = ModelOf(v)
        BY <3>3 DEF Load
      <4>2. v \in Versions /\ cached'.run = run[v] /\ v # target
        BY <1>0, <1>1, <2>1, <4>1, ModelOfType DEF Loadable
      <4>. QED
        BY <1>0, <1>1, <2>1, <4>2
    <3>. QED
      BY <3>1, <3>2, <3>3, CacheFrame
  <2>. QED
    BY <1>0, <1>1, <2>1, <2>2, <2>3
<1>. QED
  BY <1>2, <1>3, <1>4

LEMMA HalfSavedStep ==
    ASSUME RegistryInv, [Next]_vars
    PROVE  HalfSavedIsNotServed'
<1>. USE DEF HalfSavedIsNotServed
<1>0. /\ HalfSavedIsNotServed /\ SaveInv /\ RunInv /\ EmptyInv /\ DiskType
      /\ dirs \subseteq Versions /\ cached' \in Models /\ unsaved \in Unsaved
      /\ runs \in Nat /\ cached.run \in Nat /\ \A v \in Versions : run[v] \in Nat
  BY RunsAreNumbers, CacheTypeStep DEF RegistryInv, TypeInv, DiskType, CacheType
<1>1. SUFFICES ASSUME cached' # NoModel, ~cached'.prepared,
                      NEW v \in Versions, v = cached'.version,
                      v \in dirs', run'[v] = cached'.run, "extras" \in files'[v]
               PROVE  FALSE
  BY <1>0, DiskTypeStep DEF RegistryInv, DiskType
<1>2. CASE MakeDirectory /\ ~EndTraining
  <2>1. /\ trainer = "starting" /\ dirs' = dirs \cup {NextVersion}
        /\ run' = [run EXCEPT ![NextVersion] = runs]
        /\ UNCHANGED <<files, cached>>
    BY <1>2 DEF MakeDirectory, cacheVars
  <2>2. v # NextVersion
    BY <1>0, <1>1, <2>1, NextVersionIs DEF EmptyInv
  <2>. QED
    BY <1>0, <1>1, <2>1, <2>2 DEF DiskType
<1>3. CASE Save /\ ~EndTraining
  <2>1. /\ trainer = "working" /\ unsaved # <<>> /\ UNCHANGED <<dirs, run, cached>>
        /\ files' = [files EXCEPT ![target] = @ \cup {Head(unsaved)}]
    BY <1>3 DEF Save, cacheVars
  <2>2. v # target
    BY <1>0, <1>1, <2>1 DEF SaveInv
  <2>. QED
    BY <1>0, <1>1, <2>1, <2>2 DEF DiskType
<1>4. ASSUME dirs' \subseteq dirs, run' = run,
             \A u \in Versions : files'[u] \subseteq files[u]
      PROVE  FALSE
  <2>1. "extras" \in files[v] /\ v \in dirs
    BY <1>1, <1>4
  <2>2. CASE UNCHANGED cacheVars
    BY <1>0, <1>1, <1>4, <2>1, <2>2 DEF cacheVars
  <2>3. CASE ResetCache
    BY <1>1, <2>3 DEF ResetCache
  <2>4. ASSUME NEW c \in Callers, Load(c), ~UNCHANGED cacheVars PROVE FALSE
    <3>1. cached' = ModelOf(call[c].want)
      BY <2>4 DEF Load
    <3>2. v = call[c].want /\ cached'.prepared = ("extras" \in files[v])
      BY <1>1, <3>1 DEF ModelOf
    <3>. QED
      BY <1>1, <2>1, <3>2
  <2>. QED
    BY <2>2, <2>3, <2>4, CacheFrame
<1>5. \/ MakeDirectory /\ ~EndTraining
      \/ Save /\ ~EndTraining
      \/ /\ dirs' \subseteq dirs /\ run' = run
         /\ \A u \in Versions : files'[u] \subseteq files[u]
  <2>1. ASSUME NEW f \in Files, Unlink(f)
        PROVE  /\ dirs' = dirs /\ run' = run
               /\ \A u \in Versions : files'[u] \subseteq files[u]
    BY <1>0, <2>1 DEF Unlink, DiskType
  <2>2. RemoveDirectory => dirs' \subseteq dirs /\ run' = run /\ files' = files
    BY DEF RemoveDirectory
  <2>3. MakeDirectory /\ EndTraining => UNCHANGED diskVars
    BY DEF MakeDirectory, EndTraining
  <2>4. Save /\ EndTraining => UNCHANGED diskVars
    <3>1. SUFFICES ASSUME Save, EndTraining PROVE UNCHANGED diskVars
      OBVIOUS
    <3>2. trainer = "working" /\ trainer' = "none"
      BY <3>1 DEF Save, EndTraining
    <3>. QED
      BY <3>1, <3>2 DEF Save, diskVars
  <2>. QED
    BY <2>1, <2>2, <2>3, <2>4, DiskFrame DEF diskVars
<1>. QED
  BY <1>2, <1>3, <1>4, <1>5

LEMMA RegistryStep == RegistryInv /\ [Next]_vars => RegistryInv'
  BY TypeStep, EmptyStep, RunStep, SaveStep, HalfSavedStep DEF RegistryInv

LEMMA AlwaysRegistryInv == Spec => []RegistryInv
  BY RegistryInit, RegistryStep, PTL DEF Spec

\* metadata.json is written last and required for loading: whatever is saved,
\* deleted and loaded at the same time, no predictor comes from a version that
\* was still being written.
THEOREM HalfSavedNeverServed == Spec => []HalfSavedIsNotServed
  BY AlwaysRegistryInv, PTL DEF RegistryInv

-----------------------------------------------------------------------------
(* What a step may not do.                                                 *)

LEMMA OverwriteStep ==
    ASSUME RegistryInv, [Next]_vars, NEW v \in dirs \cap dirs'
    PROVE  run'[v] = run[v] /\ (Loadable(v) => files'[v] \subseteq files[v])
<1>0. /\ SaveInv /\ DiskType /\ dirs \subseteq Versions /\ v \in Versions
  BY DEF RegistryInv, TypeInv, DiskType
<1>1. CASE UNCHANGED diskVars
  BY <1>1 DEF diskVars
<1>2. ASSUME NEW f \in Files, Unlink(f)
      PROVE  run'[v] = run[v] /\ files'[v] \subseteq files[v]
  BY <1>0, <1>2 DEF Unlink, DiskType
<1>3. CASE RemoveDirectory
  BY <1>3 DEF RemoveDirectory
<1>4. CASE MakeDirectory /\ ~UNCHANGED diskVars
  <2>1. run' = [run EXCEPT ![NextVersion] = runs] /\ files' = files
    BY <1>4 DEF MakeDirectory
  <2>2. v # NextVersion
    BY <1>0, NextVersionIs
  <2>. QED
    BY <1>0, <2>1, <2>2 DEF DiskType
<1>5. CASE Save /\ ~UNCHANGED diskVars
  <2>1. /\ trainer = "working" /\ unsaved # <<>> /\ run' = run
        /\ files' = [files EXCEPT ![target] = @ \cup {Head(unsaved)}]
    BY <1>5 DEF Save, diskVars
  <2>2. Loadable(v) => v # target
    BY <1>0, <2>1 DEF SaveInv, Loadable
  <2>. QED
    BY <1>0, <2>1, <2>2 DEF DiskType
<1>. QED
  BY <1>1, <1>2, <1>3, <1>4, <1>5, DiskFrame

\* A training run never touches a directory that was there before it, and adds
\* nothing to one whose metadata is written: retraining, deleting and numbering
\* versions again leave every version in place as it was saved.
THEOREM VersionsAreNotOverwritten == Spec => NothingOverwritten
<1>1. RegistryInv /\ [Next]_vars
        => [\A v \in dirs \cap dirs' :
               /\ run'[v] = run[v]
               /\ Loadable(v) => files'[v] \subseteq files[v]]_vars
  BY OverwriteStep
<1>. QED
  BY <1>1, AlwaysRegistryInv, PTL DEF Spec, NothingOverwritten

LEMMA ResetEndsStep ==
    ASSUME TypeInv, [Next]_vars, op = "reset", doomed = {}, op' = "none"
    PROVE  cached' = NoModel
<1>0. LoopType /\ AskingInv
  BY DEF TypeInv
<1>1. CASE Answered
  BY <1>0, <1>1 DEF Answered, AskingInv
<1>2. CASE RemoveDirectory
  BY <1>0, <1>2 DEF RemoveDirectory, LoopType
<1>3. CASE Unload
  BY <1>3 DEF Unload, ResetCache
<1>4. ASSUME NEW v \in Versions, SwitchModel(v) \/ DeleteModel(v) PROVE FALSE
  BY <1>4 DEF SwitchModel, DeleteModel
<1>5. ASSUME NEW f \in Files, Unlink(f) PROVE FALSE
  BY <1>5 DEF Unlink
<1>. QED
  BY <1>1, <1>2, <1>3, <1>4, <1>5, LoopFrame DEF ListFiles, ModelInfo, ResetModels

LEMMA NothingLoadedStep ==
    ASSUME [Next]_vars, dirs = {}, cached = NoModel
    PROVE  cached' = NoModel
<1>1. ASSUME NEW c \in Callers, Load(c) PROVE cached' = NoModel
  BY <1>1 DEF Load, Hit, Loadable, cacheVars
<1>. QED
  BY <1>1, CacheFrame DEF cacheVars, ResetCache

\* A reset that removes every version leaves no predictor in memory, and without
\* a version directory no call under way can bring one back.
THEOREM ResetLeavesNothing == Spec => ResetUnloads
<1>1. TypeInv /\ [Next]_vars
        => [op = "reset" /\ doomed = {} /\ op' = "none" => cached' = NoModel]_vars
  BY ResetEndsStep
<1>2. [Next]_vars => [dirs = {} /\ cached = NoModel => cached' = NoModel]_vars
  BY NothingLoadedStep
<1>. QED
  BY <1>1, <1>2, AlwaysTypeInv, PTL DEF Spec, ResetUnloads

=============================================================================
