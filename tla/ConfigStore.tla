----------------------------- MODULE ConfigStore -----------------------------
(* The configuration: in memory, in its file, and in the backups              *)
(* (config/config.go); the MCP tools (proxy/mcp_loadout.go) and the dashboard *)
(* (main.go) that update it, the reload on SIGHUP, the user who edits the     *)
(* file by hand, and the crash of the program between any two of their steps. *)
(*                                                                            *)
(* UpdateConfig holds the lock from the backup to the end.  A tool looks up   *)
(* the index of what it was asked to change in an earlier critical section,   *)
(* and LoadConfig reads the file before it takes the lock.                    *)
EXTENDS Naturals, SequencesExt, Sequencing

CONSTANTS
    Actors,         \* handlers of tools and of PUT /api/v1/config
    NoActor,
    Names,          \* of providers
    Models,
    InitialConfig,
    Uploads,        \* configurations the dashboard puts
    Patches,        \* edits the update_config tool is given
    Edits,          \* configurations the user writes into the file
    NoFile,
    Torn,           \* a file that was written in part
    MaxProviders,   \* bounds: no tool adds to a configuration or a provider
    MaxModels,      \*   of this size
    MaxUpdates,     \* bound: on the updates and the edits by hand
    MaxTime         \* bound: the last second that a backup is named after

(* enabled is a pointer, which is left out of the JSON where it is nil. *)
Enabled == {"unset", "on", "off"}

Provider == [name : Names, enabled : Enabled, models : Seq(Models)]
Config == Seq(Provider)

Ops == {"add provider", "remove provider", "replace enabled", "add model",
        "remove model", "replace model", "replace models"}

(* One operation of a JSON patch: what a tool adds, removes or replaces at    *)
(* the indices i and j of its path.  name is what the tool was asked for; it  *)
(* is not in the patch.                                                       *)
Edit == [op : Ops, name : Names, i : Nat, j : Nat, enabled : Enabled,
         models : Seq(Models)]

(* An edit says what it puts in the place of a model. *)
IsSound(edit) == edit.op = "replace model" => edit.models # << >>

ASSUME ConfigAssumption ==
    /\ NoActor \notin Actors
    /\ Torn \notin Config /\ NoFile \notin Config /\ Torn # NoFile
    /\ InitialConfig \in Config
    /\ Uploads \subseteq Config
    /\ Edits \subseteq Config
    /\ Patches \subseteq Edit
    /\ \A edit \in Patches : IsSound(edit)
    /\ {MaxProviders, MaxModels, MaxUpdates, MaxTime} \subseteq Nat

VARIABLES
    up,             \* the program runs
    globalConfig,
    file,           \* what configPath names
    tmpFile,        \* configPath.tmp
    backups,        \* backups/config-<second>.json, by their second
    mu,             \* the actor in UpdateConfig, or NoActor
    actor,          \* the handler, with the patch it has built
    reload,         \* what LoadConfig has read, or NoFile
    diverged,       \* history: the file was edited and not reloaded yet, or
                    \*   LoadConfig has stored a version that was replaced
                    \*   while it waited
    edited,         \* history: the file was edited since the last backup
    updates,        \* history: how often the file was replaced, by an update
                    \*   or by hand
    now             \* the second of the last backup

files == <<file, tmpFile, backups>>
vars == <<up, globalConfig, file, tmpFile, backups, mu, actor, reload, diverged,
          edited, updates, now>>

(* What UpdateConfig is given: the edit of a tool that has looked up its      *)
(* indices, an edit given to update_config as it is, or the whole             *)
(* configuration that the dashboard puts.                                     *)
Patch ==
    Edit \cup [op : {"patch"}, edit : Edit] \cup [op : {"put"}, config : Config]

NoPatch == [op |-> "none"]

IdleActor == [pc |-> "idle", patch |-> NoPatch, cfg |-> << >>]

TypeOK ==
    /\ up \in BOOLEAN
    /\ globalConfig \in Config
    /\ file \in Config \cup {Torn}
    /\ tmpFile \in Config \cup {Torn, NoFile}
    /\ backups \in [0 .. MaxTime -> Config \cup {Torn, NoFile}]
    /\ mu \in Actors \cup {NoActor}
    /\ actor \in [Actors -> [pc : {"idle", "patch", "save", "write", "rename"},
                             patch : Patch \cup {NoPatch}, cfg : Config]]
    /\ reload \in Config \cup {Torn, NoFile}
    /\ diverged \in BOOLEAN
    /\ edited \in BOOLEAN
    /\ updates \in Nat
    /\ now \in 0 .. MaxTime

Init ==
    /\ up = TRUE
    /\ globalConfig = InitialConfig
    /\ file = InitialConfig
    /\ tmpFile = NoFile
    /\ backups = [t \in 0 .. MaxTime |-> NoFile]
    /\ mu = NoActor
    /\ actor = [a \in Actors |-> IdleActor]
    /\ reload = NoFile
    /\ diverged = FALSE
    /\ edited = FALSE
    /\ updates = 0
    /\ now = 0

-----------------------------------------------------------------------------
(* The tools.  Each looks up what it was asked to change, in one critical     *)
(* section, and builds a patch from the indices it has found.  A tool that    *)
(* finds nothing answers with an error and changes nothing.                   *)
First(indices) == {i \in indices : \A k \in indices : i <= k}

(* A faulty variant: the indices of a JSON path are taken to start at 1.      *)
ProviderIndexOffByOne(name) ==
    {i + 1 : i \in First({i \in DOMAIN globalConfig : globalConfig[i].name = name})}
      \cap DOMAIN globalConfig

ProviderIndex(name) ==
    First({i \in DOMAIN globalConfig : globalConfig[i].name = name})

ModelIndex(i, model) ==
    First({j \in DOMAIN globalConfig[i].models : globalConfig[i].models[j] = model})

Decide(a, patch) ==
    /\ up
    /\ mu = NoActor
    /\ updates + Cardinality({b \in Actors : actor[b].pc # "idle"}) < MaxUpdates
    /\ actor[a].pc = "idle"
    /\ actor' = [actor EXCEPT ![a] = [pc |-> "patch", patch |-> patch, cfg |-> globalConfig]]
    /\ UNCHANGED <<up, globalConfig, files, mu, reload, diverged, edited, updates, now>>

EditOf(op, name, i, j, models) ==
    [op |-> op, name |-> name, i |-> i, j |-> j, enabled |-> "on", models |-> models]

AddProvider(a, name) ==
    /\ Len(globalConfig) < MaxProviders
    /\ Decide(a, EditOf("add provider", name, 0, 0, << >>))

RemoveProvider(a, name) ==
    \E i \in ProviderIndex(name) :
        Decide(a, EditOf("remove provider", name, i, 0, << >>))

UpdateProvider(a, name) ==
    \E i \in ProviderIndex(name), enabled \in {"on", "off"} :
        Decide(a, [EditOf("replace enabled", name, i, 0, << >>) EXCEPT !.enabled = enabled])

AddModel(a, name, model) ==
    \E i \in ProviderIndex(name) :
        /\ Len(globalConfig[i].models) < MaxModels
        /\ Decide(a, EditOf("add model", name, i, 0, <<model>>))

RemoveModel(a, name, model) ==
    \E i \in ProviderIndex(name) : \E j \in ModelIndex(i, model) :
        Decide(a, EditOf("remove model", name, i, j, << >>))

UpdateModel(a, name, model, new) ==
    \E i \in ProviderIndex(name) : \E j \in ModelIndex(i, model) :
        Decide(a, EditOf("replace model", name, i, j, <<new>>))

(* The models are probed one by one, which may take minutes, and put in the   *)
(* order of the latencies measured: any order.                                *)
OptimizeProvider(a, name) ==
    \E i \in ProviderIndex(name) :
        LET models == globalConfig[i].models
        IN  \E order \in SetToSeqs(DOMAIN models) :
              Decide(a, EditOf("replace models", name, i, 0,
                               [k \in DOMAIN order |-> models[order[k]]]))

(* The update_config tool, whose client has made the patch itself. *)
UpdateConfigTool(a, edit) == Decide(a, [op |-> "patch", edit |-> edit])

(* The dashboard puts a whole configuration, whatever there is. *)
PutConfig(a, config) == Decide(a, [op |-> "put", config |-> config])

-----------------------------------------------------------------------------
(* What an edit makes of a configuration, as a set that has no element if its *)
(* path does not exist: nothing can be replaced where there is nothing.       *)
ApplyEdit(edit, cfg) ==
    LET target   == cfg[edit.i]
        with(t)  == {[cfg EXCEPT ![edit.i] = t]}
        inConfig == edit.i \in DOMAIN cfg
        inModels == inConfig /\ edit.j \in DOMAIN target.models
    IN  CASE edit.op = "add provider" ->
               {Append(cfg, [name |-> edit.name, enabled |-> "on", models |-> << >>])}
          [] edit.op = "remove provider" /\ inConfig -> {RemoveAt(cfg, edit.i)}
          [] edit.op = "replace enabled" /\ inConfig /\ target.enabled # "unset" ->
               with([target EXCEPT !.enabled = edit.enabled])
          [] edit.op = "add model" /\ inConfig ->
               with([target EXCEPT !.models = @ \o edit.models])
          [] edit.op = "remove model" /\ inModels ->
               with([target EXCEPT !.models = RemoveAt(@, edit.j)])
          [] edit.op = "replace model" /\ inModels ->
               with([target EXCEPT !.models = ReplaceAt(@, edit.j, edit.models[1])])
          [] edit.op = "replace models" /\ inConfig ->
               with([target EXCEPT !.models = edit.models])
          [] OTHER -> {}

Apply(patch, cfg) ==
    CASE patch.op = "put"   -> {patch.config}
      [] patch.op = "patch" -> ApplyEdit(patch.edit, cfg)
      [] OTHER              -> ApplyEdit(patch, cfg)

(* UpdateConfig returns, with an error or without. *)
Leave(a) ==
    /\ mu' = NoActor
    /\ actor' = [actor EXCEPT ![a] = IdleActor]

Goto(a, pc) == actor' = [actor EXCEPT ![a].pc = pc]

(* Faulty variants: the lock is not kept; a failed backup is only reported.   *)
BackupConfigUnlocked(a) ==
    /\ actor[a].pc = "patch"
    /\ now' \in now .. MaxTime
    /\ backups' = [backups EXCEPT ![now'] = file]
    /\ edited' = FALSE
    /\ Goto(a, "save")
    /\ UNCHANGED <<up, globalConfig, file, tmpFile, mu, reload, diverged, updates>>

BackupConfigOptional(a) ==
    /\ actor[a].pc = "patch"
    /\ now' \in now .. MaxTime
    /\ mu = NoActor
    /\ backups' \in {backups, [backups EXCEPT ![now'] = file]}
    /\ edited' = FALSE
    /\ mu' = a
    /\ Goto(a, "save")
    /\ UNCHANGED <<up, globalConfig, file, tmpFile, reload, diverged, updates>>

(* UpdateConfig takes the lock and copies the file; a backup that fails, and  *)
(* may be left in part, is the end of the update.  The name of the backup is  *)
(* the second, and nothing else reads the clock: any time may have passed     *)
(* since the last backup, or none.                                            *)
BackupConfig(a) ==
    /\ actor[a].pc = "patch"
    /\ now' \in now .. MaxTime
    /\ mu = NoActor
    /\ \/ /\ backups' = [backups EXCEPT ![now'] = file]
          /\ edited' = FALSE
          /\ mu' = a
          /\ Goto(a, "save")
       \/ /\ backups' \in {backups, [backups EXCEPT ![now'] = Torn]}
          /\ UNCHANGED edited
          /\ Leave(a)
    /\ UNCHANGED <<up, globalConfig, file, tmpFile, reload, diverged, updates>>

(* A faulty variant: the patch is applied to what the tool has read. *)
ApplyPatchToCopy(a) ==
    /\ actor[a].pc = "save"
    /\ LET result == Apply(actor[a].patch, actor[a].cfg)
       IN  \/ /\ result = {}
              /\ Leave(a)
              /\ UNCHANGED tmpFile
           \/ \E cfg \in result :
                /\ actor' = [actor EXCEPT ![a].pc = "write", ![a].cfg = cfg]
                /\ tmpFile' = Torn
                /\ UNCHANGED mu
    /\ UNCHANGED <<up, globalConfig, file, backups, reload, diverged, edited, updates, now>>

(* The patch is applied to the configuration in memory, and the temporary     *)
(* file is opened, which empties it.                                          *)
ApplyPatch(a) ==
    /\ actor[a].pc = "save"
    /\ LET result == Apply(actor[a].patch, globalConfig)
       IN  \/ /\ result = {}
              /\ Leave(a)
              /\ UNCHANGED tmpFile
           \/ \E cfg \in result :
                /\ actor' = [actor EXCEPT ![a].pc = "write", ![a].cfg = cfg]
                /\ tmpFile' = Torn
                /\ UNCHANGED mu
    /\ UNCHANGED <<up, globalConfig, file, backups, reload, diverged, edited, updates, now>>

(* A faulty variant: a write that fails is not noticed. *)
WriteFileUnchecked(a) ==
    /\ actor[a].pc = "write"
    /\ tmpFile' \in {actor[a].cfg, Torn}
    /\ Goto(a, "rename")
    /\ UNCHANGED <<up, globalConfig, file, backups, mu, reload, diverged, edited, updates, now>>

WriteFile(a) ==
    /\ actor[a].pc = "write"
    /\ \/ tmpFile' = actor[a].cfg /\ Goto(a, "rename") /\ UNCHANGED mu
       \/ Leave(a) /\ UNCHANGED tmpFile
    /\ UNCHANGED <<up, globalConfig, file, backups, reload, diverged, edited, updates, now>>

(* A faulty variant: the memory is updated whether or not the rename succeeds. *)
RenameFileEarly(a) ==
    /\ actor[a].pc = "rename"
    /\ \/ file' = tmpFile
       \/ UNCHANGED file
    /\ globalConfig' = actor[a].cfg
    /\ diverged' = FALSE
    /\ updates' = updates + 1
    /\ tmpFile' = NoFile
    /\ Leave(a)
    /\ UNCHANGED <<up, backups, reload, edited, now>>

(* The rename, and the update of the memory that nothing separates from it    *)
(* under the lock.  A rename that fails removes the temporary file.           *)
RenameFile(a) ==
    /\ actor[a].pc = "rename"
    /\ \/ /\ file' = tmpFile
          /\ globalConfig' = actor[a].cfg
          /\ diverged' = FALSE
          /\ updates' = updates + 1
       \/ UNCHANGED <<file, globalConfig, diverged, updates>>
    /\ tmpFile' = NoFile
    /\ Leave(a)
    /\ UNCHANGED <<up, backups, reload, edited, now>>

-----------------------------------------------------------------------------
(* LoadConfig: on SIGHUP in two steps, at the start with nobody else there.   *)
ReadConfigFile ==
    /\ up
    /\ reload = NoFile
    /\ reload' = file
    /\ UNCHANGED <<up, globalConfig, files, mu, actor, diverged, edited, updates, now>>

StoreConfig ==
    /\ up
    /\ reload # NoFile
    /\ mu = NoActor
    /\ globalConfig' = reload
    /\ diverged' = (reload # file)
    /\ reload' = NoFile
    /\ UNCHANGED <<up, files, mu, actor, edited, updates, now>>

(* The user edits the file by hand, with an editor that replaces it whole.    *)
(* Nobody asks whether the program runs or an update is under way, and until  *)
(* a SIGHUP or a restart the program knows nothing of it.                     *)
EditFile(config) ==
    /\ updates < MaxUpdates
    /\ file' = config
    /\ diverged' = TRUE
    /\ edited' = TRUE
    /\ updates' = updates + 1
    /\ UNCHANGED <<up, globalConfig, tmpFile, backups, mu, actor, reload, now>>

(* What was in memory is lost, what is in the directory stays.                *)
Crash ==
    /\ up
    /\ up' = FALSE
    /\ mu' = NoActor
    /\ actor' = [a \in Actors |-> IdleActor]
    /\ reload' = NoFile
    /\ UNCHANGED <<globalConfig, files, diverged, edited, updates, now>>

Restart ==
    /\ ~up
    /\ up' = TRUE
    /\ globalConfig' = file
    /\ diverged' = FALSE
    /\ UNCHANGED <<files, mu, actor, reload, edited, updates, now>>

-----------------------------------------------------------------------------
Tool(a, name) ==
    \/ AddProvider(a, name)
    \/ RemoveProvider(a, name)
    \/ UpdateProvider(a, name)
    \/ \E model \in Models : AddModel(a, name, model) \/ RemoveModel(a, name, model)
    \/ \E model, new \in Models : UpdateModel(a, name, model, new)
    \/ OptimizeProvider(a, name)

UpdateConfig(a) == BackupConfig(a) \/ ApplyPatch(a) \/ WriteFile(a) \/ RenameFile(a)

Next ==
    \/ \E a \in Actors :
         \/ \E name \in Names : Tool(a, name)
         \/ \E edit \in Patches : UpdateConfigTool(a, edit)
         \/ \E config \in Uploads : PutConfig(a, config)
         \/ UpdateConfig(a)
    \/ ReadConfigFile
    \/ StoreConfig
    \/ \E config \in Edits : EditFile(config)
    \/ Crash
    \/ Restart

Spec == Init /\ [][Next]_vars

-----------------------------------------------------------------------------
(* Whatever fails and wherever the program is killed, the file is a whole     *)
(* configuration, so that the next start can load it.                         *)
FileIsWhole == file # Torn

(* Whenever a reader may get in, the program works with the configuration     *)
(* that the next start would load: an update that failed half way has left    *)
(* both alone.  (Unless the file was edited by hand and not reloaded yet, or  *)
(* a reload has put back what was replaced while it waited for the lock.)     *)
MemoryIsFile == up /\ mu = NoActor /\ ~diverged => globalConfig = file

(* What an update saves is its patch applied to the configuration that is in  *)
(* memory when it is saved: neither to the copy its tool has looked at, nor   *)
(* to one that a reload or another update has replaced meanwhile, however     *)
(* many of them are under way.  (That the memory is what the file holds is    *)
(* another matter: `diverged'.  An upload builds on nothing.)                 *)
PatchesBuildOnMemory ==
    [][\A a \in Actors :
         RenameFile(a) /\ updates' > updates
           => file' \in Apply(actor[a].patch, globalConfig)]_vars

(* The version that an update replaces is among the backups at that instant,  *)
(* unless it was edited by hand behind the update's backup.                   *)
ReplacedIsBackedUp ==
    [][\A a \in Actors :
         RenameFile(a) /\ file' # file /\ ~edited => file \in Range(backups)]_vars

(* A tool changes nothing but the provider it was asked to change, provided   *)
(* that no update has come between its look-up and its patch.                 *)
Without(cfg, name) == Only(cfg, {provider \in Provider : provider.name # name})

ToolKeepsTheOthers ==
    [][\A a \in Actors :
         /\ actor[a].pc = "save"
         /\ actor'[a].pc = "write"
         /\ actor[a].patch.op \in Ops
         /\ actor[a].cfg = globalConfig
         => Without(actor'[a].cfg, actor[a].patch.name)
              = Without(globalConfig, actor[a].patch.name)]_vars
=============================================================================
