-------------------------- MODULE ConfigStoreProofs --------------------------
(* Proofs about ConfigStore, for any actors, providers, models, uploads and   *)
(* bounds.                                                                    *)
EXTENDS ConfigStore, SequenceProofs, FiniteSetTheorems, TLAPS

InUpdate == {"save", "write", "rename"}

(* UpdateConfig is a critical section, which a crash leaves to nobody.        *)
LockInv ==
    /\ \A a \in Actors : actor[a].pc \in InUpdate <=> mu = a
    /\ ~up => \A a \in Actors : actor[a].pc = "idle"

(* Whatever is under way to UpdateConfig is a patch, and its edit, if it is    *)
(* one, says what it puts in the place of a model.                            *)
IsPatch(patch) ==
    /\ patch \in Patch
    /\ patch.op = "patch" => IsSound(patch.edit)
    /\ patch.op \in Ops => IsSound(patch)

(* What an update has done so far, and still builds on. *)
UpdateInv ==
    \A a \in Actors :
        /\ actor[a].pc # "idle" => IsPatch(actor[a].patch)
        /\ actor[a].pc \in InUpdate /\ ~edited => file \in Range(backups)
        /\ actor[a].pc \in {"write", "rename"} =>
             actor[a].cfg \in Apply(actor[a].patch, globalConfig)
        /\ actor[a].pc = "rename" => tmpFile = actor[a].cfg

FilesInv ==
    /\ file \in Config
    /\ reload \in Config \cup {NoFile}
    /\ up /\ ~diverged => globalConfig = file

ConfigInv == TypeOK /\ LockInv /\ UpdateInv /\ FilesInv

-----------------------------------------------------------------------------
(* What the patches do to sequences. *)
LEMMA ElementTyped ==
    ASSUME NEW S, NEW s \in Seq(S), NEW i \in DOMAIN s
    PROVE  s[i] \in S
  OBVIOUS

(* The first place of a name is a place of the configuration.                 *)
LEMMA FirstTyped ==
    ASSUME NEW S, NEW s \in Seq(S), s # << >>
    PROVE  s[1] \in S
  <1>1. 1 \in DOMAIN s
    OBVIOUS
  <1> QED BY <1>1, ElementTyped

(* A configuration without one of its providers is one.                       *)
LEMMA RemoveAtTyped ==
    ASSUME NEW S, NEW s \in Seq(S), NEW i \in DOMAIN s
    PROVE  RemoveAt(s, i) \in Seq(S)
  <1>1. i \in 1 .. Len(s) /\ Len(s) \in Nat
    OBVIOUS
  <1>2. SubSeq(s, 1, i - 1) \in Seq(S)
    BY <1>1
  <1>3. SubSeq(s, i + 1, Len(s)) \in Seq(S)
    BY <1>1
  <1> QED BY <1>2, <1>3 DEF RemoveAt

(* A configuration with one of its providers replaced is one.                 *)
LEMMA ReplaceTyped ==
    ASSUME NEW S, NEW s \in Seq(S), NEW i \in DOMAIN s, NEW e \in S
    PROVE  [s EXCEPT ![i] = e] \in Seq(S)
  OBVIOUS

(* An edit makes a configuration of a configuration, or nothing. *)
LEMMA ApplyEditTyped ==
    ASSUME NEW edit \in Edit, IsSound(edit), NEW cfg \in Config
    PROVE  ApplyEdit(edit, cfg) \subseteq Config
  <1> DEFINE target == cfg[edit.i]
  <1> SUFFICES ASSUME NEW result \in ApplyEdit(edit, cfg) PROVE result \in Config
    OBVIOUS
  <1>1. edit \in [op : Ops, name : Names, i : Nat, j : Nat,
                   enabled : Enabled, models : Seq(Models)]
    BY DEF Edit
  <1>2. edit.i \in DOMAIN cfg =>
          /\ target \in Provider
          /\ target.models \in Seq(Models)
    <2> SUFFICES ASSUME edit.i \in DOMAIN cfg
                 PROVE  target \in Provider /\ target.models \in Seq(Models)
      OBVIOUS
    <2>1. target \in Provider
      BY ElementTyped DEF Config
    <2> QED BY <2>1 DEF Provider
  <1>3. ASSUME edit.i \in DOMAIN cfg, NEW t \in Provider
        PROVE  [cfg EXCEPT ![edit.i] = t] \in Config
    BY <1>3, ReplaceTyped DEF Config
  <1>4. ASSUME edit.i \in DOMAIN cfg, NEW models \in Seq(Models)
        PROVE  [target EXCEPT !.models = models] \in Provider
    BY <1>2, <1>4 DEF Provider
  <1>5. CASE edit.op = "add provider"
    <2>1. result = Append(cfg, [name |-> edit.name, enabled |-> "on", models |-> << >>])
      BY <1>5 DEF ApplyEdit
    <2>2. [name |-> edit.name, enabled |-> "on", models |-> << >>] \in Provider
      BY <1>1 DEF Provider, Enabled
    <2> QED BY <2>1, <2>2 DEF Config
  <1>6. CASE edit.op = "remove provider"
    <2>1. edit.i \in DOMAIN cfg /\ result = RemoveAt(cfg, edit.i)
      BY <1>6 DEF ApplyEdit
    <2> QED BY <2>1, RemoveAtTyped DEF Config
  <1>7. CASE edit.op = "replace enabled"
    <2>1. /\ edit.i \in DOMAIN cfg
          /\ result = [cfg EXCEPT ![edit.i] = [target EXCEPT !.enabled = edit.enabled]]
      BY <1>7 DEF ApplyEdit
    <2>2. [target EXCEPT !.enabled = edit.enabled] \in Provider
      BY <1>1, <1>2, <2>1 DEF Provider
    <2> QED BY <1>3, <2>1, <2>2
  <1>8. CASE edit.op = "add model"
    <2>1. /\ edit.i \in DOMAIN cfg
          /\ result = [cfg EXCEPT
               ![edit.i] = [target EXCEPT !.models = @ \o edit.models]]
      BY <1>8 DEF ApplyEdit
    <2>2. target.models \o edit.models \in Seq(Models)
      BY <1>1, <1>2, <2>1
    <2> QED BY <1>3, <1>4, <2>1, <2>2
  <1>9. CASE edit.op = "remove model"
    <2>1. /\ edit.i \in DOMAIN cfg
          /\ edit.j \in DOMAIN target.models
          /\ result = [cfg EXCEPT
               ![edit.i] = [target EXCEPT !.models = RemoveAt(@, edit.j)]]
      BY <1>9 DEF ApplyEdit
    <2>2. RemoveAt(target.models, edit.j) \in Seq(Models)
      BY <1>2, <2>1, RemoveAtTyped
    <2> QED BY <1>3, <1>4, <2>1, <2>2
  <1>10. CASE edit.op = "replace model"
    <2>1. /\ edit.i \in DOMAIN cfg
          /\ edit.j \in DOMAIN target.models
          /\ result = [cfg EXCEPT ![edit.i] =
               [target EXCEPT !.models = ReplaceAt(@, edit.j, edit.models[1])]]
      BY <1>10 DEF ApplyEdit
    <2>2. edit.models[1] \in Models
      BY <1>1, <1>10, FirstTyped DEF IsSound
    <2>3. ReplaceAt(target.models, edit.j, edit.models[1]) \in Seq(Models)
      BY <1>2, <2>1, <2>2, ReplaceTyped DEF ReplaceAt
    <2> QED BY <1>3, <1>4, <2>1, <2>3
  <1>11. CASE edit.op = "replace models"
    <2>1. /\ edit.i \in DOMAIN cfg
          /\ result = [cfg EXCEPT
               ![edit.i] = [target EXCEPT !.models = edit.models]]
      BY <1>11 DEF ApplyEdit
    <2> QED BY <1>1, <1>3, <1>4, <2>1
  <1> QED BY <1>1, <1>5, <1>6, <1>7, <1>8, <1>9, <1>10, <1>11 DEF Ops

(* A patch makes a configuration of a configuration, or nothing. *)
LEMMA ApplyTyped ==
    ASSUME NEW patch, IsPatch(patch), NEW cfg \in Config
    PROVE  Apply(patch, cfg) \subseteq Config
  <1>1. CASE patch \in [op : {"put"}, config : Config]
    BY <1>1 DEF Apply
  <1>2. CASE patch \in [op : {"patch"}, edit : Edit]
    BY <1>2, ApplyEditTyped DEF Apply, IsPatch
  <1>3. CASE patch \in Edit
    <2>1. patch.op \in Ops /\ patch.op \notin {"put", "patch"}
      BY <1>3 DEF Edit, Ops
    <2> QED BY <1>3, <2>1, ApplyEditTyped DEF Apply, IsPatch
  <1> QED BY <1>1, <1>2, <1>3 DEF IsPatch, Patch

-----------------------------------------------------------------------------
(* The step of one handler leaves the others where they are.                  *)
LEMMA OthersStay ==
    ASSUME TypeOK, NEW a \in Actors, NEW x, actor' = [actor EXCEPT ![a] = x]
    PROVE  actor'[a] = x /\ \A b \in Actors \ {a} : actor'[b] = actor[b]
  BY DEF TypeOK

(* The state of a tool that has nothing to do has its type.                   *)
LEMMA IdleTyped ==
    IdleActor \in [pc : {"idle", "patch", "save", "write", "rename"},
                  patch : Patch \cup {NoPatch}, cfg : Config]
  <1>1. << >> \in Config
    BY DEF Config
  <1> QED BY <1>1 DEF IdleActor

(* A tool, or the dashboard, has built a patch. *)
LEMMA DecideKeeps ==
    ASSUME ConfigInv, NEW a \in Actors, NEW patch, IsPatch(patch), Decide(a, patch)
    PROVE  ConfigInv'
  <1> DEFINE next == [pc |-> "patch", patch |-> patch, cfg |-> globalConfig]
  <1>1. /\ up /\ mu = NoActor
        /\ actor' = [actor EXCEPT ![a] = next]
        /\ UNCHANGED <<up, globalConfig, files, mu, reload, diverged, edited, updates, now>>
    BY DEF Decide
  <1>2. TypeOK
    BY DEF ConfigInv
  <1>3. actor'[a] = next /\ \A b \in Actors \ {a} : actor'[b] = actor[b]
    BY <1>1, <1>2, OthersStay
  <1>4. TypeOK'
    BY <1>1, <1>2 DEF TypeOK, files, IsPatch
  <1>5. LockInv'
    BY <1>1, <1>3, ConfigAssumption DEF ConfigInv, LockInv, InUpdate
  <1>6. UpdateInv'
    <2> SUFFICES ASSUME NEW b \in Actors
                 PROVE  /\ actor'[b].pc # "idle" => IsPatch(actor'[b].patch)
                        /\ actor'[b].pc \in InUpdate /\ ~edited' => file' \in Range(backups')
                        /\ actor'[b].pc \in {"write", "rename"} =>
                             actor'[b].cfg \in Apply(actor'[b].patch, globalConfig')
                        /\ actor'[b].pc = "rename" => tmpFile' = actor'[b].cfg
      BY DEF UpdateInv
    <2>1. CASE b = a
      BY <1>3, <2>1 DEF InUpdate
    <2>2. CASE b # a
      BY <1>1, <1>3, <2>2 DEF ConfigInv, UpdateInv, files
    <2> QED BY <2>1, <2>2
  <1>7. FilesInv'
    BY <1>1 DEF ConfigInv, FilesInv, files
  <1> QED BY <1>4, <1>5, <1>6, <1>7 DEF ConfigInv

(* What a tool asks for is a sound patch.                                     *)
LEMMA EditTyped ==
    ASSUME NEW op \in Ops, NEW name \in Names, NEW i \in Nat, NEW j \in Nat,
           NEW models \in Seq(Models), op = "replace model" => models # << >>
    PROVE  IsPatch(EditOf(op, name, i, j, models))
  BY DEF EditOf, Patch, Edit, Enabled, Ops, IsPatch, IsSound

(* The indices a tool finds are those of its provider and its model. *)
LEMMA IndicesTyped ==
    ASSUME TypeOK, NEW name, NEW i \in ProviderIndex(name)
    PROVE  /\ i \in DOMAIN globalConfig /\ i \in Nat
           /\ globalConfig[i].models \in Seq(Models)
           /\ \A model : ModelIndex(i, model) \subseteq Nat
  <1>1. globalConfig \in Seq(Provider)
    BY DEF TypeOK, Config
  <1>2. i \in DOMAIN globalConfig /\ i \in Nat
    BY <1>1 DEF ProviderIndex, First
  <1>3. globalConfig[i] \in Provider
    BY <1>1, <1>2, ElementTyped
  <1>4. globalConfig[i].models \in Seq(Models)
    BY <1>3 DEF Provider
  <1>5. \A model : ModelIndex(i, model) \subseteq DOMAIN globalConfig[i].models
    BY DEF ModelIndex, First
  <1>6. DOMAIN globalConfig[i].models \subseteq Nat
    BY <1>4
  <1> QED BY <1>2, <1>4, <1>5, <1>6

(* The models of a provider in another order. *)
LEMMA ReorderTyped ==
    ASSUME NEW models \in Seq(Models), NEW order \in SetToSeqs(DOMAIN models)
    PROVE  [k \in DOMAIN order |-> models[order[k]]] \in Seq(Models)
  <1>1. DOMAIN models = 1 .. Len(models) /\ Len(models) \in Nat
    OBVIOUS
  <1>2. Cardinality(DOMAIN models) = Len(models)
    BY <1>1, FS_Interval
  <1>3. order \in [1 .. Len(models) -> DOMAIN models]
    BY <1>2 DEF SetToSeqs
  <1>4. \A k \in 1 .. Len(models) : models[order[k]] \in Models
    BY <1>3, ElementTyped
  <1> QED BY <1>1, <1>3, <1>4

(* The handlers and tools that prepare a change.                              *)
LEMMA ToolsKeep ==
    ASSUME ConfigInv, NEW a \in Actors, NEW name \in Names, Tool(a, name)
    PROVE  ConfigInv'
  <1>1. TypeOK
    BY DEF ConfigInv
  <1> SUFFICES \E patch : IsPatch(patch) /\ Decide(a, patch)
    BY DecideKeeps
  <1>2. CASE AddProvider(a, name)
    <2>1. Decide(a, EditOf("add provider", name, 0, 0, << >>))
      BY <1>2 DEF AddProvider
    <2>2. << >> \in Seq(Models) /\ "add provider" \in Ops
      BY DEF Ops
    <2> QED BY <2>1, <2>2, EditTyped
  <1>3. CASE RemoveProvider(a, name)
    <2>1. PICK i \in ProviderIndex(name) :
            Decide(a, EditOf("remove provider", name, i, 0, << >>))
      BY <1>3 DEF RemoveProvider
    <2>2. << >> \in Seq(Models) /\ "remove provider" \in Ops
      BY DEF Ops
    <2> QED BY <1>1, <2>1, <2>2, IndicesTyped, EditTyped
  <1>4. CASE UpdateProvider(a, name)
    <2>1. PICK i \in ProviderIndex(name), enabled \in {"on", "off"} :
            Decide(a, [EditOf("replace enabled", name, i, 0, << >>) EXCEPT !.enabled = enabled])
      BY <1>4 DEF UpdateProvider
    <2>2. << >> \in Seq(Models) /\ "replace enabled" \in Ops
      BY DEF Ops
    <2>3. i \in Nat
      BY <1>1, IndicesTyped
    <2>4. IsPatch([EditOf("replace enabled", name, i, 0, << >>) EXCEPT !.enabled = enabled])
      BY <2>2, <2>3 DEF EditOf, Patch, Edit, Enabled, Ops, IsPatch, IsSound
    <2> QED BY <2>1, <2>4
  <1>5. CASE \E model \in Models : AddModel(a, name, model)
    <2>1. PICK model \in Models, i \in ProviderIndex(name) :
            Decide(a, EditOf("add model", name, i, 0, <<model>>))
      BY <1>5 DEF AddModel
    <2>2. <<model>> \in Seq(Models) /\ "add model" \in Ops
      BY DEF Ops
    <2> QED BY <1>1, <2>1, <2>2, IndicesTyped, EditTyped
  <1>6. CASE \E model \in Models : RemoveModel(a, name, model)
    <2>1. PICK model \in Models, i \in ProviderIndex(name) :
            \E j \in ModelIndex(i, model) :
               Decide(a, EditOf("remove model", name, i, j, << >>))
      BY <1>6 DEF RemoveModel
    <2>2. << >> \in Seq(Models) /\ "remove model" \in Ops
      BY DEF Ops
    <2> QED BY <1>1, <2>1, <2>2, IndicesTyped, EditTyped
  <1>7. CASE \E model, new \in Models : UpdateModel(a, name, model, new)
    <2>1. PICK model \in Models, new \in Models, i \in ProviderIndex(name) :
            \E j \in ModelIndex(i, model) :
               Decide(a, EditOf("replace model", name, i, j, <<new>>))
      BY <1>7 DEF UpdateModel
    <2>2. <<new>> \in Seq(Models) /\ <<new>> # << >> /\ "replace model" \in Ops
      BY DEF Ops
    <2> QED BY <1>1, <2>1, <2>2, IndicesTyped, EditTyped
  <1>8. CASE OptimizeProvider(a, name)
    <2>1. PICK i \in ProviderIndex(name) :
            \E order \in SetToSeqs(DOMAIN globalConfig[i].models) :
               Decide(a, EditOf("replace models", name, i, 0,
                                [k \in DOMAIN order |-> globalConfig[i].models[order[k]]]))
      BY <1>8 DEF OptimizeProvider
    <2>2. "replace models" \in Ops
      BY DEF Ops
    <2> QED BY <1>1, <2>1, <2>2, IndicesTyped, EditTyped, ReorderTyped
  <1> QED BY <1>2, <1>3, <1>4, <1>5, <1>6, <1>7, <1>8 DEF Tool

(* A whole configuration is uploaded, or an edit given to update_config.      *)
LEMMA PutKeeps ==
    ASSUME ConfigInv, NEW a \in Actors,
           \/ \E config \in Uploads : PutConfig(a, config)
           \/ \E edit \in Patches : UpdateConfigTool(a, edit)
    PROVE  ConfigInv'
  <1>1. ASSUME NEW config \in Uploads PROVE IsPatch([op |-> "put", config |-> config])
    BY <1>1, ConfigAssumption DEF IsPatch, Patch, Ops
  <1>2. ASSUME NEW edit \in Patches PROVE IsPatch([op |-> "patch", edit |-> edit])
    BY <1>2, ConfigAssumption DEF IsPatch, Patch, Ops
  <1> QED BY <1>1, <1>2, DecideKeeps DEF PutConfig, UpdateConfigTool

-----------------------------------------------------------------------------
(* UpdateConfig.  An update that ends, or is in the way of nobody, leaves the *)
(* others what they build on.                                                 *)
LEMMA LeaveKeeps ==
    ASSUME ConfigInv, NEW a \in Actors, mu \in {NoActor, a}, Leave(a),
           TypeOK', FilesInv', UNCHANGED up
    PROVE  ConfigInv'
  <1>1. TypeOK /\ mu' = NoActor /\ actor' = [actor EXCEPT ![a] = IdleActor]
    BY DEF ConfigInv, Leave
  <1>2. actor'[a] = IdleActor /\ \A b \in Actors \ {a} : actor'[b] = actor[b]
    BY <1>1, OthersStay
  <1>3. \A b \in Actors : actor'[b].pc \notin InUpdate
    BY <1>2, ConfigAssumption DEF IdleActor, InUpdate, ConfigInv, LockInv
  <1>4. LockInv'
    BY <1>1, <1>2, <1>3, ConfigAssumption DEF ConfigInv, LockInv, IdleActor
  <1>5. \A b \in Actors : actor'[b].pc # "idle" =>
          IsPatch(actor'[b].patch)
    BY <1>2 DEF ConfigInv, UpdateInv, IdleActor
  <1>6. UpdateInv'
    BY <1>3, <1>5 DEF UpdateInv, InUpdate
  <1> QED BY <1>4, <1>6 DEF ConfigInv

(* The lock is taken and the file copied to a backup.                         *)
LEMMA BackupKeeps ==
    ASSUME ConfigInv, NEW a \in Actors, BackupConfig(a)
    PROVE  ConfigInv'
  <1>1. TypeOK /\ LockInv /\ UpdateInv /\ FilesInv
    BY DEF ConfigInv
  <1>2. /\ actor[a].pc = "patch" /\ mu = NoActor
        /\ now' \in now .. MaxTime
        /\ UNCHANGED <<up, globalConfig, file, tmpFile, reload, diverged, updates>>
    BY DEF BackupConfig
  <1>. now' \in 0 .. MaxTime
    BY <1>1, <1>2, ConfigAssumption DEF TypeOK
  <1>3. FilesInv'
    BY <1>1, <1>2 DEF FilesInv
  <1>4. CASE /\ backups' = [backups EXCEPT ![now'] = file]
             /\ edited' = FALSE
             /\ mu' = a
             /\ Goto(a, "save")
    <2>1. actor' = [actor EXCEPT ![a] = [actor[a] EXCEPT !.pc = "save"]]
      BY <1>4, <1>1 DEF Goto, TypeOK
    <2>2. /\ actor'[a] = [actor[a] EXCEPT !.pc = "save"]
          /\ \A b \in Actors \ {a} : actor'[b] = actor[b]
      BY <1>1, <2>1, OthersStay
    <2>3. TypeOK'
      BY <1>1, <1>2, <1>4, <2>1 DEF TypeOK
    <2>4. LockInv'
      BY <1>1, <1>2, <1>4, <2>2, ConfigAssumption DEF LockInv, InUpdate, TypeOK
    <2>5. backups'[now'] = file /\ now' \in DOMAIN backups'
      BY <1>1, <1>4 DEF TypeOK
    <2>6. file' \in Range(backups')
      BY <1>2, <2>5 DEF Range
    <2>7. actor'[a].pc = "save" /\ actor'[a].patch = actor[a].patch
      BY <1>1, <2>2 DEF TypeOK
    <2>8. UpdateInv'
      <3> SUFFICES ASSUME NEW b \in Actors
                   PROVE  /\ actor'[b].pc # "idle" => IsPatch(actor'[b].patch)
                          /\ actor'[b].pc \in {"write", "rename"} =>
                               actor'[b].cfg \in Apply(actor'[b].patch, globalConfig')
                          /\ actor'[b].pc = "rename" => tmpFile' = actor'[b].cfg
        BY <2>6 DEF UpdateInv
      <3>1. CASE b = a
        BY <1>1, <1>2, <2>7, <3>1 DEF UpdateInv
      <3>2. CASE b # a
        BY <1>1, <1>2, <2>2, <3>2 DEF UpdateInv
      <3> QED BY <3>1, <3>2
    <2> QED BY <1>3, <2>3, <2>4, <2>8 DEF ConfigInv
  <1>5. CASE /\ backups' \in {backups, [backups EXCEPT ![now'] = Torn]}
             /\ UNCHANGED edited
             /\ Leave(a)
    <2>1. TypeOK'
      <3>1. backups' \in [0 .. MaxTime -> Config \cup {Torn, NoFile}]
        BY <1>1, <1>5 DEF TypeOK
      <3>2. actor' = [actor EXCEPT ![a] = IdleActor] /\ mu' = NoActor
        BY <1>5 DEF Leave
      <3>3. edited' \in BOOLEAN
        BY <1>1, <1>5 DEF TypeOK
      <3> QED BY <1>1, <1>2, <3>1, <3>2, <3>3, IdleTyped DEF TypeOK
    <2> QED BY <1>2, <1>3, <1>5, <2>1, LeaveKeeps
  <1> QED BY <1>4, <1>5 DEF BackupConfig

(* The patch is applied to what is in memory.                                 *)
LEMMA ApplyKeeps ==
    ASSUME ConfigInv, NEW a \in Actors, ApplyPatch(a)
    PROVE  ConfigInv'
  <1>1. TypeOK /\ LockInv /\ UpdateInv /\ FilesInv
    BY DEF ConfigInv
  <1>2. /\ actor[a].pc = "save" /\ mu = a
        /\ UNCHANGED <<up, globalConfig, file, backups, reload, diverged, edited, updates, now>>
    BY <1>1 DEF ApplyPatch, LockInv, InUpdate
  <1>3. FilesInv'
    BY <1>1, <1>2 DEF FilesInv
  <1>4. CASE Leave(a) /\ UNCHANGED tmpFile
    <2>1. TypeOK'
      BY <1>1, <1>2, <1>4, IdleTyped DEF TypeOK, Leave
    <2> QED BY <1>2, <1>3, <1>4, <2>1, LeaveKeeps
  <1>5. CASE \E cfg \in Apply(actor[a].patch, globalConfig) :
                /\ actor' = [actor EXCEPT ![a].pc = "write", ![a].cfg = cfg]
                /\ tmpFile' = Torn
                /\ UNCHANGED mu
    <2>1. PICK cfg \in Apply(actor[a].patch, globalConfig) :
                /\ actor' = [actor EXCEPT ![a].pc = "write", ![a].cfg = cfg]
                /\ tmpFile' = Torn
                /\ UNCHANGED mu
      BY <1>5
    <2>2. actor' = [actor EXCEPT ![a] = [actor[a] EXCEPT !.pc = "write", !.cfg = cfg]]
      BY <1>1, <2>1 DEF TypeOK
    <2>3. /\ actor'[a] = [actor[a] EXCEPT !.pc = "write", !.cfg = cfg]
          /\ \A b \in Actors \ {a} : actor'[b] = actor[b]
      BY <1>1, <2>2, OthersStay
    <2>4. actor'[a].pc = "write" /\ actor'[a].cfg = cfg /\ actor'[a].patch = actor[a].patch
      BY <1>1, <2>3 DEF TypeOK
    <2>5. IsPatch(actor[a].patch) /\ (~edited => file \in Range(backups))
      BY <1>1, <1>2 DEF UpdateInv, InUpdate
    <2>6. cfg \in Config
      BY <1>1, <2>5, ApplyTyped DEF TypeOK
    <2>7. TypeOK'
      BY <1>1, <1>2, <2>1, <2>2, <2>6 DEF TypeOK
    <2>8. LockInv'
      BY <1>1, <1>2, <2>1, <2>3, <2>4 DEF LockInv, InUpdate
    <2>9. UpdateInv'
      <3> SUFFICES ASSUME NEW b \in Actors
                   PROVE  /\ actor'[b].pc # "idle" => IsPatch(actor'[b].patch)
                          /\ actor'[b].pc \in {"write", "rename"} =>
                               actor'[b].cfg \in Apply(actor'[b].patch, globalConfig')
                          /\ actor'[b].pc = "rename" => tmpFile' = actor'[b].cfg
        BY <1>2, <2>5 DEF UpdateInv
      <3>1. CASE b = a
        BY <1>2, <2>4, <2>5, <3>1
      <3>2. CASE b # a
        BY <1>1, <1>2, <2>3, <3>2 DEF UpdateInv, LockInv, InUpdate
      <3> QED BY <3>1, <3>2
    <2> QED BY <1>3, <2>7, <2>8, <2>9 DEF ConfigInv
  <1> QED BY <1>4, <1>5 DEF ApplyPatch

(* The temporary file is written, in part or whole.                           *)
LEMMA WriteKeeps ==
    ASSUME ConfigInv, NEW a \in Actors, WriteFile(a)
    PROVE  ConfigInv'
  <1>1. TypeOK /\ LockInv /\ UpdateInv /\ FilesInv
    BY DEF ConfigInv
  <1>2. /\ actor[a].pc = "write" /\ mu = a
        /\ UNCHANGED <<up, globalConfig, file, backups, reload, diverged, edited, updates, now>>
    BY <1>1 DEF WriteFile, LockInv, InUpdate
  <1>3. FilesInv'
    BY <1>1, <1>2 DEF FilesInv
  <1>4. CASE Leave(a) /\ UNCHANGED tmpFile
    <2>1. TypeOK'
      BY <1>1, <1>2, <1>4, IdleTyped DEF TypeOK, Leave
    <2> QED BY <1>2, <1>3, <1>4, <2>1, LeaveKeeps
  <1>5. CASE tmpFile' = actor[a].cfg /\ Goto(a, "rename") /\ UNCHANGED mu
    <2>1. actor' = [actor EXCEPT ![a] = [actor[a] EXCEPT !.pc = "rename"]]
      BY <1>1, <1>5 DEF Goto, TypeOK
    <2>2. /\ actor'[a] = [actor[a] EXCEPT !.pc = "rename"]
          /\ \A b \in Actors \ {a} : actor'[b] = actor[b]
      BY <1>1, <2>1, OthersStay
    <2>3. actor'[a].pc = "rename" /\ actor'[a].cfg = actor[a].cfg /\ actor'[a].patch = actor[a].patch
      BY <1>1, <2>2 DEF TypeOK
    <2>4. TypeOK'
      <3>1. actor[a].cfg \in Config
        BY <1>1 DEF TypeOK
      <3> QED BY <1>1, <1>2, <1>5, <2>1, <3>1 DEF TypeOK
    <2>5. LockInv'
      BY <1>1, <1>2, <1>5, <2>2, <2>3 DEF LockInv, InUpdate
    <2>6. UpdateInv'
      <3> SUFFICES ASSUME NEW b \in Actors
                   PROVE  /\ actor'[b].pc # "idle" => IsPatch(actor'[b].patch)
                          /\ actor'[b].pc \in InUpdate /\ ~edited' => file' \in Range(backups')
                          /\ actor'[b].pc \in {"write", "rename"} =>
                               actor'[b].cfg \in Apply(actor'[b].patch, globalConfig')
                          /\ actor'[b].pc = "rename" => tmpFile' = actor'[b].cfg
        BY DEF UpdateInv
      <3>1. CASE b = a
        BY <1>1, <1>2, <1>5, <2>3, <3>1 DEF UpdateInv, InUpdate
      <3>2. CASE b # a
        BY <1>1, <1>2, <2>2, <3>2 DEF UpdateInv, LockInv, InUpdate
      <3> QED BY <3>1, <3>2
    <2> QED BY <1>3, <2>4, <2>5, <2>6 DEF ConfigInv
  <1> QED BY <1>4, <1>5 DEF WriteFile

(* The temporary file becomes the file.                                       *)
LEMMA RenameKeeps ==
    ASSUME ConfigInv, NEW a \in Actors, RenameFile(a)
    PROVE  ConfigInv'
  <1>1. TypeOK /\ LockInv /\ UpdateInv /\ FilesInv
    BY DEF ConfigInv
  <1>2. /\ actor[a].pc = "rename" /\ mu = a /\ Leave(a)
        /\ tmpFile' = NoFile
        /\ UNCHANGED <<up, backups, reload, edited, now>>
    BY <1>1 DEF RenameFile, LockInv, InUpdate
  <1>3. tmpFile = actor[a].cfg /\ actor[a].cfg \in Config
    BY <1>1, <1>2 DEF UpdateInv, TypeOK
  <1>4. /\ globalConfig' \in Config /\ file' \in Config
        /\ diverged' \in BOOLEAN /\ updates' \in Nat
        /\ up' /\ ~diverged' => globalConfig' = file'
    <2>1. CASE file' = tmpFile /\ globalConfig' = actor[a].cfg
               /\ diverged' = FALSE /\ updates' = updates + 1
      <3>1. updates' \in Nat
        BY <1>1, <2>1 DEF TypeOK
      <3>2. globalConfig' \in Config /\ file' \in Config /\ globalConfig' = file'
        BY <1>3, <2>1
      <3>3. diverged' \in BOOLEAN
        BY <2>1
      <3> QED BY <3>1, <3>2, <3>3
    <2>2. CASE UNCHANGED <<file, globalConfig, diverged, updates>>
      <3>1. globalConfig' = globalConfig /\ file' = file /\ diverged' = diverged
            /\ updates' = updates /\ up' = up
        BY <1>2, <2>2
      <3>2. up /\ ~diverged => globalConfig = file
        BY <1>1 DEF FilesInv
      <3> QED BY <1>1, <3>1, <3>2 DEF TypeOK, FilesInv
    <2> QED BY <2>1, <2>2 DEF RenameFile
  <1>5. FilesInv'
    BY <1>1, <1>2, <1>4 DEF FilesInv
  <1>6. TypeOK'
    BY <1>1, <1>2, <1>4, IdleTyped DEF TypeOK, Leave
  <1> QED BY <1>2, <1>5, <1>6, LeaveKeeps

-----------------------------------------------------------------------------
(* The reload, the end of the program and its next start.                     *)
LEMMA ReloadKeeps ==
    ASSUME ConfigInv, ReadConfigFile \/ StoreConfig
    PROVE  ConfigInv'
  <1>1. TypeOK /\ LockInv /\ UpdateInv /\ FilesInv
    BY DEF ConfigInv
  <1>2. UNCHANGED <<up, mu, actor, file, tmpFile, backups, edited>>
    BY DEF ReadConfigFile, StoreConfig, files
  <1>3. LockInv'
    BY <1>1, <1>2 DEF LockInv
  <1>4. CASE ReadConfigFile
    <2>1. reload' = file /\ UNCHANGED <<globalConfig, diverged, updates, now>>
      BY <1>4 DEF ReadConfigFile
    <2>2. TypeOK' /\ FilesInv'
      BY <1>1, <1>2, <2>1 DEF TypeOK, FilesInv
    <2>3. UpdateInv'
      BY <1>1, <1>2, <2>1 DEF UpdateInv
    <2> QED BY <1>3, <2>2, <2>3 DEF ConfigInv
  <1>5. CASE StoreConfig
    <2>1. /\ reload # NoFile /\ mu = NoActor
          /\ globalConfig' = reload /\ diverged' = (reload # file) /\ reload' = NoFile
          /\ UNCHANGED <<updates, now>>
      BY <1>5 DEF StoreConfig
    <2>2. reload \in Config
      BY <1>1, <2>1 DEF FilesInv
    <2>3. TypeOK' /\ FilesInv'
      BY <1>1, <1>2, <2>1, <2>2 DEF TypeOK, FilesInv
    <2>4. \A a \in Actors : actor[a].pc \notin InUpdate
      BY <1>1, <2>1, ConfigAssumption DEF LockInv
    <2>5. UpdateInv'
      BY <1>1, <1>2, <2>4 DEF UpdateInv, InUpdate
    <2> QED BY <1>3, <2>3, <2>5 DEF ConfigInv
  <1> QED BY <1>4, <1>5

(* The process stops at any place.                                            *)
LEMMA CrashKeeps ==
    ASSUME ConfigInv, Crash
    PROVE  ConfigInv'
  <1>1. TypeOK /\ LockInv /\ UpdateInv /\ FilesInv
    BY DEF ConfigInv
  <1>2. /\ up' = FALSE /\ mu' = NoActor /\ reload' = NoFile
        /\ actor' = [a \in Actors |-> IdleActor]
        /\ UNCHANGED <<globalConfig, file, tmpFile, backups, diverged, edited, updates, now>>
    BY DEF Crash, files
  <1>3. \A a \in Actors : actor'[a].pc = "idle"
    BY <1>2 DEF IdleActor
  <1>4. TypeOK'
    BY <1>1, <1>2, IdleTyped DEF TypeOK
  <1>6. FilesInv'
    BY <1>1, <1>2 DEF FilesInv
  <1>5. LockInv' /\ UpdateInv'
    BY <1>2, <1>3, ConfigAssumption DEF LockInv, UpdateInv, InUpdate
  <1> QED BY <1>4, <1>5, <1>6 DEF ConfigInv

(* The process starts and reads the file.                                     *)
LEMMA RestartKeeps ==
    ASSUME ConfigInv, Restart
    PROVE  ConfigInv'
  <1>1. TypeOK /\ LockInv /\ UpdateInv /\ FilesInv
    BY DEF ConfigInv
  <1>2. /\ ~up /\ up' = TRUE /\ globalConfig' = file /\ diverged' = FALSE
        /\ UNCHANGED <<file, tmpFile, backups, mu, actor, reload, edited, updates, now>>
    BY DEF Restart, files
  <1>3. \A a \in Actors : actor'[a].pc = "idle"
    BY <1>1, <1>2 DEF LockInv
  <1>4. TypeOK' /\ FilesInv'
    BY <1>1, <1>2 DEF TypeOK, FilesInv
  <1>5. LockInv' /\ UpdateInv'
    BY <1>1, <1>2, <1>3 DEF LockInv, UpdateInv, InUpdate
  <1> QED BY <1>4, <1>5 DEF ConfigInv

(* The user edits the file; what is under way builds on the memory alone.     *)
LEMMA EditKeeps ==
    ASSUME ConfigInv, NEW config \in Edits, EditFile(config)
    PROVE  ConfigInv'
  <1>1. TypeOK /\ LockInv /\ UpdateInv /\ FilesInv
    BY DEF ConfigInv
  <1>2. /\ file' = config /\ diverged' = TRUE /\ edited' = TRUE
        /\ updates' = updates + 1
        /\ UNCHANGED <<up, globalConfig, tmpFile, backups, mu, actor, reload, now>>
    BY DEF EditFile
  <1>3. TypeOK' /\ FilesInv'
    BY <1>1, <1>2, ConfigAssumption DEF TypeOK, FilesInv
  <1>4. LockInv'
    BY <1>1, <1>2 DEF LockInv
  <1>5. UpdateInv'
    BY <1>1, <1>2 DEF UpdateInv
  <1> QED BY <1>3, <1>4, <1>5 DEF ConfigInv

(* Every step.                                                                *)
LEMMA NextKeeps ==
    ASSUME ConfigInv, [Next]_vars
    PROVE  ConfigInv'
  <1>1. CASE \E a \in Actors :
               \/ \E name \in Names : Tool(a, name)
               \/ \E edit \in Patches : UpdateConfigTool(a, edit)
               \/ \E config \in Uploads : PutConfig(a, config)
    BY <1>1, ToolsKeep, PutKeeps
  <1>2. CASE \E a \in Actors : UpdateConfig(a)
    BY <1>2, BackupKeeps, ApplyKeeps, WriteKeeps, RenameKeeps DEF UpdateConfig
  <1>3. CASE ReadConfigFile \/ StoreConfig
    BY <1>3, ReloadKeeps
  <1>4. CASE Crash \/ Restart \/ \E config \in Edits : EditFile(config)
    BY <1>4, CrashKeeps, RestartKeeps, EditKeeps
  <1>5. CASE UNCHANGED vars
    BY <1>5 DEF vars, files, ConfigInv, TypeOK, LockInv, UpdateInv, FilesInv
  <1> QED BY <1>1, <1>2, <1>3, <1>4, <1>5 DEF Next

(* At first memory is what was read from a whole file.                        *)
LEMMA InitConfigInv == Init => ConfigInv
  <1> SUFFICES ASSUME Init PROVE ConfigInv
    OBVIOUS
  <1>1. \A a \in Actors : actor[a].pc = "idle"
    BY DEF Init, IdleActor
  <1>2. TypeOK
    <2>1. 0 \in 0 .. MaxTime /\ InitialConfig \in Config
      BY ConfigAssumption
    <2>2. actor \in [Actors -> [pc : {"idle", "patch", "save", "write", "rename"},
                                patch : Patch \cup {NoPatch}, cfg : Config]]
      BY IdleTyped DEF Init
    <2> QED BY <2>1, <2>2 DEF Init, TypeOK
  <1>3. LockInv /\ UpdateInv /\ FilesInv
    BY <1>1, ConfigAssumption DEF Init, LockInv, UpdateInv, FilesInv, InUpdate
  <1> QED BY <1>2, <1>3 DEF ConfigInv

(* The invariant the results below rest on. *)
THEOREM ConfigInvariance == Spec => []ConfigInv
  <1>1. Init => ConfigInv
    BY InitConfigInv
  <1>2. ConfigInv /\ [Next]_vars => ConfigInv'
    BY NextKeeps
  <1> QED BY <1>1, <1>2, PTL DEF Spec

-----------------------------------------------------------------------------
(* Every variable of the store keeps its type: the file and the memory are    *)
(* configurations, whatever patches are applied, and the file is never the    *)
(* temporary one that is not there (config.go: UpdateConfig).                 *)
THEOREM ConfigTypeCorrect == Spec => []TypeOK
  <1>1. ConfigInv => TypeOK
    BY DEF ConfigInv
  <1> QED BY <1>1, ConfigInvariance, PTL

(* The file is whole at every instant, whatever fails and wherever the        *)
(* program is killed (UpdateConfig writes a temporary file and renames it).   *)
THEOREM FileStaysWhole == Spec => []FileIsWhole
  <1>1. ConfigInv => FileIsWhole
    BY ConfigAssumption DEF ConfigInv, FilesInv, FileIsWhole
  <1> QED BY <1>1, ConfigInvariance, PTL

(* What the program works with is what the next start would load, except      *)
(* until an edit of the file by hand is reloaded, and behind a reload that    *)
(* has put back what an update replaced meanwhile (LoadConfig, UpdateConfig). *)
THEOREM MemoryFollowsFile == Spec => []MemoryIsFile
  <1>1. ConfigInv => MemoryIsFile
    BY DEF ConfigInv, FilesInv, MemoryIsFile
  <1> QED BY <1>1, ConfigInvariance, PTL

(* What is saved is the patch applied to what is in memory at that instant,   *)
(* although it was applied three steps before and reloads and other handlers  *)
(* compete (UpdateConfig holds the lock from the backup to the end).  It says *)
(* nothing of what the memory does not hold, or of how old the patch is.      *)
THEOREM UpdatesBuildOnMemory == Spec => PatchesBuildOnMemory
  <1> DEFINE Step == \A a \in Actors :
         RenameFile(a) /\ updates' > updates
           => file' \in Apply(actor[a].patch, globalConfig)
  <1>1. ConfigInv /\ [Next]_vars => [Step]_vars
    <2> SUFFICES ASSUME ConfigInv, NEW a \in Actors, RenameFile(a), updates' > updates
                 PROVE  file' \in Apply(actor[a].patch, globalConfig)
      OBVIOUS
    <2>1. TypeOK /\ UpdateInv
      BY DEF ConfigInv
    <2>2. actor[a].pc = "rename"
      BY DEF RenameFile
    <2>3. tmpFile \in Apply(actor[a].patch, globalConfig)
      BY <2>1, <2>2 DEF UpdateInv
    <2>4. file' = tmpFile
      BY <2>1 DEF RenameFile, TypeOK
    <2> QED BY <2>3, <2>4
  <1> QED BY <1>1, ConfigInvariance, PTL DEF Spec, PatchesBuildOnMemory

(* A version is replaced by an update only while it is among the backups,     *)
(* unless it was edited by hand behind the update's backup (UpdateConfig ends *)
(* when backupConfig fails).                                                  *)
THEOREM BackupsHoldTheReplaced == Spec => ReplacedIsBackedUp
  <1> DEFINE Step == \A a \in Actors :
         RenameFile(a) /\ file' # file /\ ~edited => file \in Range(backups)
  <1>1. ConfigInv => Step
    BY DEF RenameFile, ConfigInv, UpdateInv, InUpdate
  <1> QED BY <1>1, ConfigInvariance, PTL DEF Spec, ReplacedIsBackedUp

-----------------------------------------------------------------------------
(* What a tool aims at: the index in its patch is that of the provider it was *)
(* asked to change, in the configuration it has looked at.  Nobody has looked *)
(* for anything to put a whole configuration, to add a provider, or to pass   *)
(* on the edit that update_config was given.                                  *)
Aimed(patch, cfg) ==
    patch.op \notin {"put", "patch", "add provider"} =>
        /\ patch.i \in DOMAIN cfg
        /\ cfg[patch.i].name = patch.name

AimInv ==
    \A a \in Actors :
        actor[a].pc \in {"patch", "save"} => Aimed(actor[a].patch, actor[a].cfg)

(* A patch with an index that its tool has looked up is aimed.                *)
LEMMA EditAims ==
    ASSUME NEW name, NEW i \in ProviderIndex(name), NEW op, NEW j, NEW models
    PROVE  /\ Aimed(EditOf(op, name, i, j, models), globalConfig)
           /\ \A enabled : Aimed([EditOf(op, name, i, j, models) EXCEPT !.enabled = enabled],
                                 globalConfig)
  <1>1. i \in DOMAIN globalConfig /\ globalConfig[i].name = name
    BY DEF ProviderIndex, First
  <1> QED BY <1>1 DEF Aimed, EditOf

(* Whatever a tool has decided on, it was aimed.                              *)
LEMMA ToolAims ==
    ASSUME NEW a \in Actors, NEW name, Tool(a, name)
    PROVE  \E patch : Aimed(patch, globalConfig) /\ Decide(a, patch)
  <1>1. CASE AddProvider(a, name)
    <2>1. Aimed(EditOf("add provider", name, 0, 0, << >>), globalConfig)
      BY DEF Aimed, EditOf
    <2> QED BY <1>1, <2>1 DEF AddProvider
  <1>2. CASE RemoveProvider(a, name)
    BY <1>2, EditAims DEF RemoveProvider
  <1>3. CASE UpdateProvider(a, name)
    <2>1. PICK i \in ProviderIndex(name), enabled \in {"on", "off"} :
            Decide(a, [EditOf("replace enabled", name, i, 0, << >>) EXCEPT !.enabled = enabled])
      BY <1>3 DEF UpdateProvider
    <2> QED BY <2>1, EditAims
  <1>4. CASE \E model \in Models : AddModel(a, name, model)
    BY <1>4, EditAims DEF AddModel
  <1>5. CASE \E model \in Models : RemoveModel(a, name, model)
    BY <1>5, EditAims DEF RemoveModel
  <1>6. CASE \E model, new \in Models : UpdateModel(a, name, model, new)
    BY <1>6, EditAims DEF UpdateModel
  <1>7. CASE OptimizeProvider(a, name)
    <2>1. PICK i \in ProviderIndex(name) :
            \E order \in SetToSeqs(DOMAIN globalConfig[i].models) :
               Decide(a, EditOf("replace models", name, i, 0,
                                [k \in DOMAIN order |-> globalConfig[i].models[order[k]]]))
      BY <1>7 DEF OptimizeProvider
    <2> QED BY <2>1, EditAims
  <1> QED BY <1>1, <1>2, <1>3, <1>4, <1>5, <1>6, <1>7 DEF Tool

(* An aimed patch that is decided on.                                         *)
LEMMA DecideAims ==
    ASSUME TypeOK, AimInv, NEW a \in Actors, NEW patch, Aimed(patch, globalConfig),
           Decide(a, patch)
    PROVE  AimInv'
  <1>1. actor' = [actor EXCEPT ![a] = [pc |-> "patch", patch |-> patch, cfg |-> globalConfig]]
    BY DEF Decide
  <1>2. /\ actor'[a] = [pc |-> "patch", patch |-> patch, cfg |-> globalConfig]
        /\ \A b \in Actors \ {a} : actor'[b] = actor[b]
    BY <1>1, OthersStay
  <1> SUFFICES ASSUME NEW b \in Actors, actor'[b].pc \in {"patch", "save"}
               PROVE  Aimed(actor'[b].patch, actor'[b].cfg)
    BY DEF AimInv, Aimed
  <1>3. CASE b = a
    BY <1>2, <1>3
  <1>4. CASE b # a
    BY <1>2, <1>4 DEF AimInv
  <1> QED BY <1>3, <1>4

(* Until it is applied, nothing else touches a patch, nor what its tool saw.  *)
LEMMA NextAims ==
    ASSUME TypeOK, AimInv, [Next]_vars
    PROVE  AimInv'
  <1> DEFINE Kept(b) == actor'[b].pc \in {"patch", "save"} =>
                          /\ actor[b].pc \in {"patch", "save"}
                          /\ actor'[b].patch = actor[b].patch
                          /\ actor'[b].cfg = actor[b].cfg
  <1>1. ASSUME \A b \in Actors : Kept(b) PROVE AimInv'
    BY <1>1 DEF AimInv, Aimed
  <1>2. ASSUME NEW a \in Actors, NEW name \in Names, Tool(a, name) PROVE AimInv'
    BY <1>2, ToolAims, DecideAims
  <1>3. ASSUME NEW a \in Actors,
               \/ \E config \in Uploads : PutConfig(a, config)
               \/ \E edit \in Patches : UpdateConfigTool(a, edit)
        PROVE  AimInv'
    <2>1. \A config : Aimed([op |-> "put", config |-> config], globalConfig)
      BY DEF Aimed
    <2>2. \A edit : Aimed([op |-> "patch", edit |-> edit], globalConfig)
      BY DEF Aimed
    <2> QED BY <1>3, <2>1, <2>2, DecideAims DEF PutConfig, UpdateConfigTool
  <1>4. ASSUME NEW a \in Actors, UpdateConfig(a) PROVE AimInv'
    <2>1. CASE Leave(a)
      <3>1. actor'[a] = IdleActor /\ \A b \in Actors \ {a} : actor'[b] = actor[b]
        BY <2>1, OthersStay DEF Leave
      <3> QED BY <1>1, <3>1 DEF IdleActor
    <2>2. ASSUME NEW pc \in {"save", "rename"}, Goto(a, pc),
                 pc = "save" => actor[a].pc = "patch"
          PROVE  AimInv'
      <3>1. actor' = [actor EXCEPT ![a] = [actor[a] EXCEPT !.pc = pc]]
        BY <2>2 DEF Goto, TypeOK
      <3>2. /\ actor'[a] = [actor[a] EXCEPT !.pc = pc]
            /\ \A b \in Actors \ {a} : actor'[b] = actor[b]
        BY <3>1, OthersStay
      <3>3. actor'[a].pc = pc /\ actor'[a].patch = actor[a].patch /\ actor'[a].cfg = actor[a].cfg
        BY <3>2 DEF TypeOK
      <3> QED BY <1>1, <2>2, <3>2, <3>3
    <2>3. ASSUME NEW cfg, actor' = [actor EXCEPT ![a].pc = "write", ![a].cfg = cfg]
          PROVE  AimInv'
      <3>1. actor' = [actor EXCEPT ![a] = [actor[a] EXCEPT !.pc = "write", !.cfg = cfg]]
        BY <2>3 DEF TypeOK
      <3>2. /\ actor'[a] = [actor[a] EXCEPT !.pc = "write", !.cfg = cfg]
            /\ \A b \in Actors \ {a} : actor'[b] = actor[b]
        BY <3>1, OthersStay
      <3>3. actor'[a].pc = "write"
        BY <3>2 DEF TypeOK
      <3> QED BY <1>1, <3>2, <3>3
    <2>4. CASE BackupConfig(a)
      BY <2>1, <2>2, <2>4 DEF BackupConfig
    <2>5. CASE ApplyPatch(a)
      BY <2>1, <2>3, <2>5 DEF ApplyPatch
    <2>6. CASE WriteFile(a)
      BY <2>1, <2>2, <2>6 DEF WriteFile
    <2>7. CASE RenameFile(a)
      BY <2>1, <2>7 DEF RenameFile
    <2> QED BY <1>4, <2>4, <2>5, <2>6, <2>7 DEF UpdateConfig
  <1>5. CASE Crash
    <2>1. \A b \in Actors : actor'[b] = IdleActor
      BY <1>5 DEF Crash
    <2> QED BY <1>1, <2>1 DEF IdleActor
  <1>6. CASE \/ ReadConfigFile \/ StoreConfig \/ Restart \/ UNCHANGED vars
             \/ \E config \in Edits : EditFile(config)
    <2>1. actor' = actor
      BY <1>6 DEF ReadConfigFile, StoreConfig, EditFile, Restart, vars
    <2> QED BY <1>1, <2>1
  <1> QED BY <1>2, <1>3, <1>4, <1>5, <1>6 DEF Next

(* A tool works on the provider that it has found.                            *)
LEMMA AimInvariance == Spec => []AimInv
  <1>1. Init => AimInv
    BY DEF Init, AimInv, IdleActor
  <1>2. ConfigInv /\ AimInv /\ [Next]_vars => AimInv'
    BY NextAims DEF ConfigInv
  <1> QED BY <1>1, <1>2, ConfigInvariance, PTL DEF Spec

(* What an aimed edit makes of a configuration leaves the other providers.    *)
LEMMA AimedKeepsTheOthers ==
    ASSUME NEW cfg \in Config, NEW edit \in Edit, IsSound(edit),
           Aimed(edit, cfg), NEW result \in ApplyEdit(edit, cfg)
    PROVE  Without(result, edit.name) = Without(cfg, edit.name)
  <1> DEFINE target == cfg[edit.i]
             others == {provider \in Provider : provider.name # edit.name}
  <1>1. /\ edit \in [op : Ops, name : Names, i : Nat, j : Nat,
                      enabled : Enabled, models : Seq(Models)]
        /\ cfg \in Seq(Provider) /\ result \in Seq(Provider)
    BY ApplyEditTyped DEF Edit, Config
  <1> SUFFICES Only(result, others) = Only(cfg, others)
    BY DEF Without
  <1>2. CASE edit.op = "add provider"
    <2> DEFINE new == [name |-> edit.name, enabled |-> "on", models |-> << >>]
    <2>1. result = Append(cfg, new)
      BY <1>2 DEF ApplyEdit
    <2>2. new \in Provider /\ new \notin others
      BY <1>1 DEF Provider, Enabled
    <2> HIDE DEF new, others
    <2> QED BY <1>1, <2>1, <2>2, OnlyAppend
  <1>3. CASE edit.op # "add provider"
    <2>1. edit.i \in 1 .. Len(cfg) /\ target.name = edit.name /\ target \in Provider
      <3>1. edit.i \in DOMAIN cfg /\ cfg[edit.i].name = edit.name
        BY <1>1, <1>3 DEF Aimed, Ops
      <3>2. cfg[edit.i] \in Provider
        BY <1>1, <3>1, ElementTyped
      <3> QED BY <1>1, <3>1, <3>2
    <2>2. target \notin others
      BY <2>1
    <2>3. CASE edit.op = "remove provider"
      <3>1. result = RemoveAt(cfg, edit.i)
        BY <2>3 DEF ApplyEdit
      <3> HIDE DEF others
      <3> QED BY <1>1, <2>1, <2>2, <3>1, OnlyAround
    <2>4. CASE edit.op # "remove provider"
      <3>1. PICK t : result = [cfg EXCEPT ![edit.i] = t] /\ t.name = target.name
        BY <1>1, <1>3, <2>1, <2>4 DEF ApplyEdit, Ops, Provider
      <3>2. t \in Provider
        <4>1. result[edit.i] = t
          BY <1>1, <2>1, <3>1
        <4>2. edit.i \in DOMAIN result
          <5>1. DOMAIN result = DOMAIN cfg
            BY <3>1
          <5> QED BY <1>1, <2>1, <5>1
        <4> QED BY <1>1, <4>1, <4>2, ElementTyped
      <3>3. t \notin others
        BY <2>1, <3>1
      <3> DEFINE place == edit.i
      <3>4. /\ place \in 1 .. Len(cfg) /\ cfg[place] \notin others
            /\ result = [cfg EXCEPT ![place] = t]
        BY <2>1, <2>2, <3>1
      <3> HIDE DEF others, place
      <3>5. \A e \in Provider :
              e \notin others => Only([cfg EXCEPT ![place] = e], others) = Only(cfg, others)
        <4>1. cfg \in Seq(Provider) /\ place \in 1 .. Len(cfg) /\ cfg[place] \notin others
          BY <1>1, <3>4
        <4>2. /\ Only(RemoveAt(cfg, place), others) = Only(cfg, others)
              /\ \A e \in Provider :
                   e \notin others => Only([cfg EXCEPT ![place] = e], others) = Only(cfg, others)
          BY ONLY <4>1, OnlyAround
        <4> QED BY <4>2
      <3> QED BY <3>2, <3>3, <3>4, <3>5
    <2> QED BY <2>3, <2>4
  <1> QED BY <1>2, <1>3

(* A tool changes nothing but the provider it was asked to change, provided   *)
(* that no update has come between its look-up (mcp_loadout.go) and its patch *)
(* (UpdateConfig).                                                            *)
THEOREM ToolsStayApart == Spec => ToolKeepsTheOthers
  <1> DEFINE Step == \A a \in Actors :
         /\ actor[a].pc = "save"
         /\ actor'[a].pc = "write"
         /\ actor[a].patch.op \in Ops
         /\ actor[a].cfg = globalConfig
         => Without(actor'[a].cfg, actor[a].patch.name)
              = Without(globalConfig, actor[a].patch.name)
  <1>1. ConfigInv /\ AimInv /\ [Next]_vars => [Step]_vars
    <2> SUFFICES ASSUME ConfigInv, AimInv, Next, NEW a \in Actors,
                        actor[a].pc = "save", actor'[a].pc = "write",
                        actor[a].patch.op \in Ops, actor[a].cfg = globalConfig
                 PROVE  Without(actor'[a].cfg, actor[a].patch.name)
                          = Without(globalConfig, actor[a].patch.name)
      BY DEF vars
    <2>1. TypeOK /\ UpdateInv
      BY DEF ConfigInv
    <2>2. ApplyPatch(a)
      <3>1. ASSUME NEW b \in Actors, NEW patch, Decide(b, patch) PROVE FALSE
        BY <2>1, <3>1, OthersStay DEF Decide
      <3>2. ASSUME NEW b \in Actors, NEW name \in Names, Tool(b, name) PROVE FALSE
        BY <3>1, <3>2, ToolAims
      <3>3. ASSUME NEW b \in Actors,
                   \/ \E config \in Uploads : PutConfig(b, config)
                   \/ \E edit \in Patches : UpdateConfigTool(b, edit)
            PROVE  FALSE
        BY <3>1, <3>3 DEF PutConfig, UpdateConfigTool
      <3>4. ~Crash
        BY DEF Crash, IdleActor
      <3>5. /\ ~ReadConfigFile /\ ~StoreConfig /\ ~Restart
            /\ \A config \in Edits : ~EditFile(config)
        BY DEF ReadConfigFile, StoreConfig, Restart, EditFile
      <3>6. ASSUME NEW b \in Actors, Leave(b) PROVE FALSE
        BY <2>1, <3>6, OthersStay DEF Leave, IdleActor
      <3>7. ASSUME NEW b \in Actors, NEW pc \in {"save", "rename"}, Goto(b, pc) PROVE FALSE
        BY <2>1, <3>7 DEF Goto, TypeOK
      <3>8. ASSUME NEW b \in Actors PROVE ~BackupConfig(b) /\ ~WriteFile(b) /\ ~RenameFile(b)
        BY <3>6, <3>7 DEF BackupConfig, WriteFile, RenameFile
      <3>9. PICK b \in Actors : ApplyPatch(b)
        BY <3>2, <3>3, <3>4, <3>5, <3>8 DEF Next, UpdateConfig
      <3>10. b = a
        <4>1. PICK cfg : actor' = [actor EXCEPT ![b].pc = "write", ![b].cfg = cfg]
          BY <3>6, <3>9 DEF ApplyPatch
        <4> QED BY <2>1, <4>1 DEF TypeOK
      <3> QED BY <3>9, <3>10
    <2>3. actor'[a].cfg \in Apply(actor[a].patch, globalConfig)
      <3>1. ~Leave(a)
        BY <2>1, OthersStay DEF Leave, IdleActor
      <3>2. PICK cfg \in Apply(actor[a].patch, globalConfig) :
              actor' = [actor EXCEPT ![a].pc = "write", ![a].cfg = cfg]
        BY <2>2, <3>1 DEF ApplyPatch
      <3>3. actor'[a].cfg = cfg
        BY <2>1, <3>2 DEF TypeOK
      <3> QED BY <3>2, <3>3
    <2>4. /\ actor[a].patch \in Edit /\ IsSound(actor[a].patch)
          /\ globalConfig \in Config
          /\ Apply(actor[a].patch, globalConfig) = ApplyEdit(actor[a].patch, globalConfig)
      BY <2>1 DEF UpdateInv, TypeOK, IsPatch, Patch, Ops, Apply
    <2>5. Aimed(actor[a].patch, globalConfig)
      BY DEF AimInv
    <2> QED BY <2>3, <2>4, <2>5, AimedKeepsTheOthers
  <1> QED BY <1>1, ConfigInvariance, AimInvariance, PTL DEF Spec, ToolKeepsTheOthers
=============================================================================
