------------------------------ MODULE MCPlatform ------------------------------
(* Values of the constants of Platform for TLC.                            *)
EXTENDS Platform, TLC

CONSTANT Pair   \* interchangeable values; so are those of Interaction

-----------------------------------------------------------------------------
(* The instances of Platform: three workers post and approve one piece of  *)
(* hardware evidence; two readiness probes, two nonces, a backup that is   *)
(* rewritten once; one bearer of a token while roles and assignments       *)
(* change; one external provider with two models, a chat and a             *)
(* connectivity test; two messages of one device; ranges of one, two and   *)
(* too many hosts; two workers, a password subject and two token subjects, *)
(* two buckets; three chunks of up to two bytes against a limit of three;  *)
(* two checks that overlap while the endpoint changes twice; three         *)
(* administrators who edit and roll back one instruction of two texts; two *)
(* operators who run missions of two lanes, or their parts; a restore test *)
(* and a brief for the owner while administrators write; three             *)
(* interactions of two sessions under a cap of sessions or a budget; two   *)
(* requests that change one device, its two profiles and their views; two  *)
(* requests that operate two agents.                                       *)
MCDefaultScopes == [operator |-> {"read", "write"}, custom |-> {}]
MCRoleChoice == {{"read", "write"}, {"read"}}
MCAssignChoice ==
  {[role |-> "operator", scopes |-> {"read", "write"}, status |-> "active"],
   [role |-> "custom", scopes |-> {}, status |-> "active"],
   [role |-> "operator", scopes |-> {"read"}, status |-> "disabled"]}
MCPolicyChoice == {[provider |-> "cloud", model |-> m, enabled |-> TRUE] : m \in Model}
Range_(valid, v4_, private, allowed, prefix) ==
  [valid |-> valid, v4 |-> v4_, private |-> private, allowed |-> allowed,
   addresses |-> 2 ^ (32 - prefix)]
MCHealthChoice ==
  {[baseline |-> TRUE, qa |-> TRUE, challenge |-> TRUE, calm |-> TRUE, lanes |-> Lane],
   [baseline |-> FALSE, qa |-> TRUE, challenge |-> TRUE, calm |-> FALSE, lanes |-> {"api"}]}
MCDeployment ==
  {[production |-> TRUE, hosts |-> TRUE, token |-> TRUE, idp |-> p = "v2", mqtt |-> TRUE,
    tls |-> "trusted", policy |-> TRUE, profile |-> p] : p \in {"v1", "v2"}}
MCSignalChoice ==
  {[offhost |-> "recorded", connected |-> TRUE], [offhost |-> "missing", connected |-> FALSE]}
MCAgents == <<"operations", "fleet">>
MCRows == {[asset |-> "a1", firmware |-> 0]}
MCPatches == {[firmware |-> 1]}
MCOffers == {[id |-> "f2", device |-> "sensor", firmware |-> 1, enabled |-> FALSE]}
MCRuns == {[device |-> "sensor", asset |-> "a1", firmware |-> 0, profile |-> "f1",
            evidence |-> "validated"]}
MCMemoryChoice == {[hours |-> 1, sessions |-> 1, budget |-> 4, prune |-> TRUE]}
MCNetwork ==
  {Range_(TRUE, TRUE, TRUE, TRUE, 31), Range_(TRUE, TRUE, TRUE, TRUE, 30),
   Range_(TRUE, TRUE, TRUE, TRUE, 29), Range_(TRUE, TRUE, TRUE, FALSE, 31),
   Range_(FALSE, FALSE, FALSE, FALSE, 32)}

Symmetry == Permutations(Interaction) \cup Permutations(Pair)
=============================================================================
