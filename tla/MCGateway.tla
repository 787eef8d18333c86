------------------------------ MODULE MCGateway ------------------------------
(***************************************************************************)
(* Model-checking instance of the gateway, in both editions of the daemon. *)
(* The candidate lists are those the routers of TierRouter build from a    *)
(* small configuration with two providers.                                 *)
(***************************************************************************)
EXTENDS TranspiledGateway, TLC

CONSTANTS NoTier, NoModel

Router == INSTANCE TierRouter WITH Untold <- None

Config ==
  [models  |-> [zhipu    |-> <<[id |-> "glm", tier |-> "mid"]>>,
                deepseek |-> <<[id |-> "flash", tier |-> "mid"]>>],
   default |-> "zhipu",
   order   |-> <<"deepseek", "zhipu">>,
   routes  |-> <<>>,
   edition |-> "rust-ref",
   loader  |-> "rust-ref"]

MCRequest ==
  [tier    |-> [kind |-> "tier", name |-> "mid", pref |-> None],
   chain   |-> [kind |-> "chain",
                chain |-> <<[provider |-> "ghost", model |-> "glm"],
                            [provider |-> "deepseek", model |-> "flash"]>>],
   backup  |-> [kind |-> "chain",
                chain |-> <<[provider |-> "deepseek", model |-> "flash"],
                            [provider |-> "zhipu", model |-> "glm"]>>],
   unknown |-> [kind |-> "tier", name |-> "ultra", pref |-> None]]

MCProviders == DOMAIN Config.models
MCNames     == MCProviders \cup {"ghost"}
MCModels    == {"glm", "flash"}
MCForms     == DOMAIN MCRequest
MCResolve   == [f \in MCForms |-> Router!ResolveRequest(Config, MCRequest[f])]
MCTResolve  ==
  [f \in MCForms |-> Router!ResolveRequest([Config EXCEPT !.edition = "a2r"], MCRequest[f])]
MCLimit     == [p \in MCProviders |-> 1]

Status(n, quota) == [how |-> "status", status |-> n, billing |-> quota]
MCReplies ==
  {Status(402, FALSE), Status(429, FALSE), Status(503, FALSE), Status(400, TRUE)}
  \cup [how : {"transport", "body"}, status : {0}, billing : {FALSE}]

=============================================================================
