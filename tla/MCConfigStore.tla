---------------------------- MODULE MCConfigStore ----------------------------
(* ConfigStore for TLC, and what the repository says of an update and the     *)
(* code does not keep.                                                        *)
EXTENDS ConfigStore, TLC

MCProvider(name, enabled, models) ==
    [name |-> name, enabled |-> enabled, models |-> models]

MCInitialConfig ==
    <<MCProvider("p", "on", <<"a", "b">>), MCProvider("q", "unset", <<"a">>)>>

MCUploads == {<<MCProvider("q", "on", << >>)>>}

(* The client of update_config removes what it takes for the second provider. *)
MCPatches == {EditOf("remove provider", "q", 2, 0, << >>)}

(* The user takes a model away. *)
MCEdits ==
    {<<MCProvider("p", "on", <<"a">>), MCProvider("q", "unset", <<"a">>)>>}

ActorSymmetry == Permutations(Actors)

ASSUME MCSize == Len(MCInitialConfig) < MaxProviders

(* handleRemoveProviderTool: "Provider '%s' removed."  The provider that is   *)
(* removed when the tool says so is the one it names.                         *)
RemovesTheProviderItNames ==
    [][\A a \in Actors :
         /\ actor[a].pc = "save"
         /\ actor'[a].pc = "write"
         /\ actor[a].patch.op = "remove provider"
         => Without(actor'[a].cfg, actor[a].patch.name)
              = Without(globalConfig, actor[a].patch.name)]_vars
=============================================================================
