----------------------------- MODULE TierRouter -----------------------------
(***************************************************************************)
(* How the daemon turns what a request names into the ordered candidates   *)
(* the gateway tries: tier names and the nearest-tier rule of ai-config    *)
(* (tier.rs, loader.rs), the router of tier_router.rs and the resolution   *)
(* at the top of chat_completions (server.rs).                             *)
(*                                                                         *)
(* A configuration is a record                                             *)
(*   models   provider -> sequence of [id, tier] as listed in its block    *)
(*   default  the default provider                                         *)
(*   order    the iteration order of the provider hash map, any order      *)
(*   routes   the tier_routing block in the iteration order of its hash    *)
(*            map: a sequence of [name, chain] with non-empty chains       *)
(*   edition  the daemon that runs it: "rust-ref", or "a2r" for the one    *)
(*            transpiled from the Auto sources                             *)
(*   loader   the ai-config it is linked with, likewise                    *)
(***************************************************************************)
EXTENDS Naturals, Sequences, SequencesExt

CONSTANTS
  NoTier, NoModel,  \* parse_name and resolve_model_id answer None
  Untold            \* a field or an option left out

Tiers == {"min", "lite", "mid", "pro", "max"}

\* ModelTier::order, weakest to strongest.
TierOrder == [min |-> 0, lite |-> 1, mid |-> 2, pro |-> 3, max |-> 4]

\* ModelTier::parse_name: canonical names and the three aliases.
ParseName(name) ==
  CASE name \in Tiers   -> name
    [] name = "light"   -> "lite"
    [] name = "large"   -> "pro"
    [] name = "heavy"   -> "max"
    [] OTHER            -> NoTier

\* The derive(Default) of ModelTier, marked on Min.
DefaultTier == "min"

\* loader.rs parse_tier: unwrap_or_default over parse_name.
ParseTier(name) == IF ParseName(name) = NoTier THEN DefaultTier ELSE ParseName(name)

-----------------------------------------------------------------------------
\* The first element, if there is one, as a sequence.
First(seq) == IF seq = <<>> THEN <<>> ELSE <<Head(seq)>>

\* The elements of a sequence that are in S, in their order: SelectSeq, in a
\* form proofs can unfold.
Among(seq, S) ==
  LET among[n \in 0..Len(seq)] ==
        IF n = 0 THEN <<>>
        ELSE IF seq[n] \in S THEN Append(among[n - 1], seq[n]) ELSE among[n - 1]
  IN  among[Len(seq)]

OfTier(models, tier) == Among(models, {m \in ToSet(models) : m.tier = tier})

\* The key min_by_key minimises: tiers at or above the wanted one come first.
Gap(tier, desired) ==
  LET a == TierOrder[tier]  b == TierOrder[desired] IN
  IF a >= b THEN a - b ELSE 1000 + (b - a)

\* resolve_model_id: an exact match, else the first model of the smallest gap.
ResolveModelId(desired, models) ==
  IF models = <<>> THEN NoModel
  ELSE IF OfTier(models, desired) # <<>> THEN Head(OfTier(models, desired)).id
  ELSE LET best == CHOOSE i \in DOMAIN models : \A j \in DOMAIN models :
                     \/ Gap(models[i].tier, desired) < Gap(models[j].tier, desired)
                     \/ /\ Gap(models[i].tier, desired) = Gap(models[j].tier, desired)
                        /\ i <= j
       IN  models[best].id

\* The transpiled resolve_model_id, a loop that keeps the best model so far.  No
\* gap is as large as that of none, and nothing betters an exact match, of gap
\* 0, on which the loop returns.
TranspiledResolve(desired, models) ==
  LET better(best, m) ==
        IF Gap(m.tier, desired) < best.gap THEN [id |-> m.id, gap |-> Gap(m.tier, desired)]
        ELSE best
      best[n \in 0..Len(models)] ==
        IF n = 0 THEN [id |-> NoModel, gap |-> 2000] ELSE better(best[n - 1], models[n])
  IN  best[Len(models)].id

Nearest(cfg, desired, models) ==
  IF cfg.loader = "a2r" THEN TranspiledResolve(desired, models)
  ELSE ResolveModelId(desired, models)

-----------------------------------------------------------------------------
Candidates(provider, models) ==
  [i \in DOMAIN models |-> [provider |-> provider, model |-> models[i].id]]

\* from_config with a tier_routing block: a later name of the same tier
\* replaces an earlier one, an unknown name is skipped.
ExplicitChain(cfg, tier) ==
  LET named == Among(cfg.routes, {e \in ToSet(cfg.routes) : ParseName(e.name) = tier}) IN
  IF named = <<>> THEN <<>> ELSE Last(named).chain

\* Faulty variants: the providers in map order, the default one not first; the
\* other providers left out of a tier the default one serves.
DerivedChainInMapOrder(cfg, tier) ==
  FlattenSeq([i \in DOMAIN cfg.order |->
    Candidates(cfg.order[i], OfTier(cfg.models[cfg.order[i]], tier))])
DerivedChainDefaultOnly(cfg, tier) ==
  LET own == IF cfg.default \in DOMAIN cfg.models
             THEN Candidates(cfg.default, OfTier(cfg.models[cfg.default], tier))
             ELSE <<>>
  IN  IF own # <<>> THEN own ELSE DerivedChainInMapOrder(cfg, tier)

\* from_config without one: every model of the default provider, then the
\* first model of this tier of each other provider.
DerivedChain(cfg, tier) ==
  LET own    == IF cfg.default \in DOMAIN cfg.models
                THEN Candidates(cfg.default, OfTier(cfg.models[cfg.default], tier))
                ELSE <<>>
      serves == {p \in DOMAIN cfg.models : OfTier(cfg.models[p], tier) # <<>>}
      others == Among(cfg.order, serves \ {cfg.default})
      first(p) == Head(OfTier(cfg.models[p], tier)).id
  IN  own \o [i \in DOMAIN others |-> [provider |-> others[i], model |-> first(others[i])]]

\* The transpiled from_config without a tier_routing block: ensure_candidate
\* inserts into a clone of the map, so no candidate is ever derived.
TranspiledDerived(cfg, tier) == <<>>

\* TierRouter::candidates.
Chain(cfg, tier) ==
  IF cfg.routes # <<>> THEN ExplicitChain(cfg, tier)
  ELSE IF cfg.edition = "a2r" THEN TranspiledDerived(cfg, tier)
  ELSE DerivedChain(cfg, tier)

\* Faulty variant: the preferred candidate is copied to the front, not moved.
PreferredCopied(cfg, tier, pref) ==
  LET base == Chain(cfg, tier) IN
  First(Among(base, {c \in ToSet(base) : c.provider = pref})) \o base

\* TierRouter::candidates_preferred: the first candidate of the preferred
\* provider moves to the front.
Preferred(cfg, tier, pref) ==
  LET base == Chain(cfg, tier)
      at   == {i \in DOMAIN base : base[i].provider = pref}
  IN  IF at = {} THEN base
      ELSE LET k == CHOOSE i \in at : \A j \in at : i <= j
           IN  <<base[k]>> \o RemoveAt(base, k)

-----------------------------------------------------------------------------
(* Requests are [kind |-> "chain", chain], [kind |-> "tier", name, pref] or *)
(* [kind |-> "model", id]; no candidates means 400.                         *)

\* resolve_tier_model on the default provider, when the chain is empty.
LegacyChain(cfg, tier) ==
  IF cfg.default \notin DOMAIN cfg.models THEN <<>>
  ELSE LET id == Nearest(cfg, tier, cfg.models[cfg.default])
       IN  IF id = NoModel THEN <<>> ELSE <<[provider |-> cfg.default, model |-> id]>>

TierRequest(cfg, name, pref) ==
  LET tier == ParseName(name) IN
  IF tier = NoTier THEN <<>>
  ELSE IF Preferred(cfg, tier, pref) = <<>> THEN LegacyChain(cfg, tier)
  ELSE Preferred(cfg, tier, pref)

\* The providers that list a concrete id, in map order.
Owners(cfg, id) ==
  Among(cfg.order, {p \in DOMAIN cfg.models : \E m \in ToSet(cfg.models[p]) : m.id = id})

\* A concrete id goes to the first of them; the transpiled loop has no break
\* and ends on the last.
TranspiledOwner(owners) == Last(owners)

OwnerRequest(cfg, id) ==
  LET owners == Owners(cfg, id)
      owner  == IF cfg.edition = "a2r" THEN TranspiledOwner(owners) ELSE Head(owners)
  IN  IF owners = <<>> THEN <<>> ELSE <<[provider |-> owner, model |-> id]>>

ResolveRequest(cfg, req) ==
  CASE req.kind = "chain" -> req.chain
    [] req.kind = "tier"  -> TierRequest(cfg, req.name, req.pref)
    [] OTHER              -> OwnerRequest(cfg, req.id)

=============================================================================
