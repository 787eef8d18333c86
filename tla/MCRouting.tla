------------------------------ MODULE MCRouting ------------------------------
(***************************************************************************)
(* Two providers, each with one of five model lists; any or no default      *)
(* provider; four tier_routing blocks, one with two names of one tier.     *)
(* Roles: two built-in ones, one with all tools; a file of a built-in name *)
(* and one of the user's; under a single daemon file.                      *)
(***************************************************************************)
EXTENDS RoleRouting, TLC

M(id, tier) == [id |-> id, tier |-> tier]
C(provider, model) == [provider |-> provider, model |-> model]

MCLists ==
  {<<>>, <<M("a", Untold), M("b", "mid")>>,
   <<M("a", "light"), M("b", "max")>>, <<M("b", "min"), M("a", "pro")>>,
   <<M("a", "ultra"), M("b", "")>>}

MCRoutes ==
  {<<>>,
   "max" :> <<C("zhipu", "a"), C("ghost", "a")>> @@ "heavy" :> <<C("deepseek", "b")>>,
   "mid" :> <<C("zhipu", "a"), C("deepseek", "b"), C("zhipu", "b")>> @@ "pro" :> <<>>,
   "ultra" :> <<C("zhipu", "b")>>}

MCRoleFiles ==
  {[blocks |-> <<"zhipu">>, models |-> "zhipu" :> <<M("b", "min"), M("a", "pro"), M("c", "max")>>,
    default |-> "zhipu", routes |-> <<>>]}

MCFiles ==
  [blocks  : {<<"zhipu", "deepseek">>},
   models  : [{"zhipu", "deepseek"} -> MCLists],
   default : {"zhipu", "deepseek", Untold},
   routes  : MCRoutes]
  \cup MCRoleFiles

MCQueries ==
  [kind : {"tier"}, name : {"min", "light", "mid", "pro", "max", "ultra"},
   pref : {"zhipu", "deepseek", "ghost"}]
  \cup [kind : {"model"}, id : {"a", "b", "c"}]
  \cup {[kind |-> "chain", chain |-> <<C("ghost", "x"), C("zhipu", "b")>>]}

MCBuiltins ==
  "coder" :> [prompt |-> "code", tier |-> "max", tools |-> <<"read">>]
  @@ "assistant" :> [prompt |-> "help", tier |-> "mid", tools |-> <<>>]

Blank == [f \in Fields |-> Untold]

MCHandFiles ==
  {[Blank EXCEPT !.inherit = "assistant", !.tier = "heavy", !.more = <<"git">>],
   [Blank EXCEPT !.name = "mine", !.prompt = "own", !.append = "more", !.tier = "huge",
      !.models = <<C("zhipu", "a")>>],
   [Blank EXCEPT !.name = "coder", !.inherit = "codr"]}

MCEdits ==
  {[Blank EXCEPT !.name = "coder", !.inherit = "coder", !.models = <<C("deepseek", "a"), C("zhipu", "b")>>],
   [Blank EXCEPT !.prompt = "own", !.model = "b", !.tools = <<"read">>],
   Blank}

=============================================================================
