----------------------------- MODULE RoleRouting -----------------------------
(***************************************************************************)
(* Roles and routing together: a front end builds an agent for a role name *)
(* and the model the role chooses is resolved by the daemon (build_agent   *)
(* and OwnedRole in main.rs, build_request in agent.rs).                   *)
(*                                                                         *)
(* A request sent without a role (Ask) and one sent by an agent share      *)
(* asked and chain, which hold what the last step asked and got.           *)
(***************************************************************************)
EXTENDS RoutingService, RoleRegistry

CONSTANT RoleFiles   \* bound: the daemon files under which roles are edited

VARIABLE agent   \* [name, detail, role, runs] of the agent just built, else NoRole:
                 \* what is shown and resolved for the name, and what it runs with

allVars == <<vars, registryVars, agent>>

\* Faulty variant: the wrapper was not told of model() either.
OwnedForgetsModel(role) == [role EXCEPT !.models = <<>>, !.model = Untold]
\* OwnedRole, the wrapper of the command line front ends: it forwards neither
\* models() nor the preferred provider and the thinking level, so the trait's
\* defaults stand for them.
Owned(role) == [role EXCEPT !.models = <<>>]

\* The hand-written crate is used through the command line front ends, the
\* transpiled one directly.
AsRun(role) == IF crate = "rust-ref" THEN Owned(role) ELSE role

\* build_request: the role's chain, else its pinned model, else its tier.
RoleQuery(role) ==
  IF role.models # <<>> THEN [kind |-> "chain", chain |-> role.models]
  ELSE IF role.model # Untold THEN [kind |-> "model", id |-> role.model]
  ELSE [kind |-> "tier", name |-> role.tier, pref |-> Untold]

\* A name is loaded and resolved, an agent built for it and its first request
\* sent; an unknown name builds no agent.
AskAsRole(name) ==
  /\ \E roles \in Registries :
       LET role == ResolveRole(roles, name) IN
       /\ role # NoRole
       /\ agent' = [name |-> name, role |-> role, runs |-> AsRun(role),
                    detail |-> IF name \in DOMAIN roles THEN roles[name] ELSE NoRole]
       /\ asked' = RoleQuery(AsRun(role))
  /\ chain' = ResolveRequest(cfg, asked')
  /\ UNCHANGED <<file, cfg, registryVars>>

Idle == asked' = NoQuery /\ chain' = <<>> /\ agent' = NoRole

RInit == Init /\ RegistryInit /\ agent = NoRole

RNext ==
  \/ Next /\ agent' = NoRole /\ UNCHANGED registryVars
  \/ /\ file \in RoleFiles
     /\ \/ RegistryNext /\ Idle /\ UNCHANGED <<file, cfg>>
        \/ \E name \in Stems : AskAsRole(name)

RSpec == RInit /\ [][RNext]_allVars

-----------------------------------------------------------------------------
Resolved(name) == {ResolveRole(roles, name) : roles \in Registries}

\* Whatever the files under its name or any other hold (unreadable, a typo in
\* inherit, no prompt, two files of one name), a built-in role resolves to
\* something: to itself while no readable file claims its name
\* (RoleRegistry::resolve_role).
BuiltinNeverLost ==
  \A name \in DOMAIN Builtins :
    /\ NoRole \notin Resolved(name)
    /\ name \notin Claimed => Resolved(name) = {BuiltinRole(name)}

\* A user's file that loads as a role.
LoadsAsRole(config) == UserRole(config) # NoRole

\* Whether the role has the prompt of its file; the transpiled edition has no
\* other.
OwnPrompt(config) == crate = "a2r" \/ config.inherit = Untold

\* What the registry shows of a user's role (RoleRegistry::get) against what the
\* agent built for it runs with, behind the wrapper.  Tier, model and tools that
\* the file sets are run.  Three things that are shown are not, and this says
\* exactly which:
\*   - a soul from a sidecar file.  "When set, the Soul comes from this file
\*     instead of the inline `system_prompt`" (role_config.rs:48-49) holds for
\*     what is shown; load_role does not look at it, and the inline prompt is
\*     run.  A soul that is not from a file is run, unless
\*   - the role inherits (hand-written edition): the base's prompt is run;
\*   - the chain of models, behind the command line's wrapper (see ChainWins).
\* A file that does not load is shown, too, and the built-in role is run.
ShownIsRun ==
  LET shown == agent.detail  config == shown.config  run == agent.runs IN
  (agent # NoRole /\ shown # NoRole /\ ~shown.builtin) =>
    IF ~LoadsAsRole(config) THEN run = AsRun(BuiltinRole(agent.name))
    ELSE
      /\ config.tier # Untold => run.tier = config.tier
      /\ run.model = config.model
      /\ config.tools # Untold => run.tools = config.tools
      /\ run.models = IF crate = "a2r" THEN Or(config.models, <<>>) ELSE <<>>
      /\ OwnPrompt(config) /\ ~shown.fromFile => Head(run.prompt) = shown.soul
      /\ OwnPrompt(config) /\ shown.fromFile => Head(run.prompt) = Or(config.prompt, "")
      /\ ~OwnPrompt(config) => Head(run.prompt) = Builtins[config.inherit].prompt

\* A role that was saved, and whose file nobody touched since, is the role its
\* name stands for, with the soul linked, unless another file claims the name
\* (RoleRegistry::save, load).
LastSaveHolds ==
  \A s \in Stems :
    (saved[s] # NoFile /\ \A t \in Readable : RoleName(t) = s => t = s) =>
      \A roles \in Registries :
        s \in DOMAIN roles /\ ~roles[s].builtin /\ roles[s].config = ParseRole(saved[s])

\* An explicit chain of candidates wins over the role's model and tier
\* (role_def.rs: "When non-empty it wins over both"; role_config.rs: "When
\* set, it wins over `model` / `model_tier` at request-build time").
ChainWins ==
  (agent # NoRole /\ agent.role.models # <<>>) => chain = agent.role.models

=============================================================================
