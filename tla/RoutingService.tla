--------------------------- MODULE RoutingService ---------------------------
(***************************************************************************)
(* The daemon's routing over its life: each start parses the config file   *)
(* into hash maps whose iteration order is arbitrary (loader.rs, main.rs), *)
(* and every chat request is resolved to a candidate chain against the     *)
(* configuration of that start (tier_router.rs, server.rs).                *)
(*                                                                         *)
(* A file is a record                                                      *)
(*   blocks   its providers, in the order of their blocks                  *)
(*   models   provider -> sequence of [id, tier]: the tier is a name, "" in *)
(*            an object that gives none, Untold in a bare string           *)
(*   default  the default provider, Untold when the file names none        *)
(*   routes   the tier_routing block: name -> candidates                   *)
(* Names are in lower case without blanks, as parse_name makes them.       *)
(***************************************************************************)
EXTENDS TierRouter, FiniteSets

CONSTANTS
  Files,      \* the config files considered
  Queries,    \* the chat requests considered, in the form of TierRouter
  NoQuery     \* nothing asked yet

VARIABLES
  file,    \* the config file on disk
  cfg,     \* what the running daemon made of it
  asked,   \* the last chat request
  chain    \* the candidates it was resolved to, <<>> for a 400

vars == <<file, cfg, asked, chain>>

-----------------------------------------------------------------------------
\* An entry without a tier is Mid; a tier name goes through parse_tier.
LoadModel(m) ==
  [id |-> m.id, tier |-> IF m.tier \in {Untold, ""} THEN "mid" ELSE ParseTier(m.tier)]

\* The transpiled opt_models reads a tier that is not there as an empty name.
TranspiledLoadModel(m) ==
  [id |-> m.id, tier |-> IF m.tier = Untold THEN "mid" ELSE ParseTier(m.tier)]

LoadModels(models, loader) ==
  [i \in DOMAIN models |->
     IF loader = "a2r" THEN TranspiledLoadModel(models[i]) ELSE LoadModel(models[i])]

\* Faulty variant: the transpiled loader, too, takes the first key of its map.
DefaultOfMap(f, order, loader) ==
  IF f.default # Untold THEN f.default ELSE Head(order)

\* A missing default provider: the first key of the map, in the transpiled
\* loader, which keeps a list of names, the first block of the file.
DefaultProvider(f, order, loader) ==
  IF f.default # Untold THEN f.default
  ELSE IF loader = "a2r" THEN Head(f.blocks) ELSE Head(order)

\* parse_tier_routing: an empty chain is dropped.
LoadRoutes(routes, names) ==
  LET kept == Among(names, {n \in DOMAIN routes : routes[n] # <<>>})
  IN  [i \in DOMAIN kept |-> [name |-> kept[i], chain |-> routes[kept[i]]]]

\* parse_daemon_config, under one iteration order of each map.
Load(f, order, names, build) ==
  [models  |-> [p \in DOMAIN f.models |-> LoadModels(f.models[p], build.loader)],
   default |-> DefaultProvider(f, order, build.loader),
   order   |-> order,
   routes  |-> LoadRoutes(f.routes, names),
   edition |-> build.edition,
   loader  |-> build.loader]

\* The programs there are: the hand-written daemon, the transpiled one linked,
\* as it is today, with the hand-written ai-config, and linked with its own.
Builds == [edition : {"a2r"}, loader : {"rust-ref", "a2r"}]
          \cup [edition : {"rust-ref"}, loader : {"rust-ref"}]

\* A file lists finitely many providers, each with a list of models, and names
\* of tiers, each with a list of candidates.  No provider or model is called by
\* the value that stands for none.
ASSUME FilesAssumption ==
  \A f \in Files :
    /\ IsFiniteSet(DOMAIN f.models) /\ IsFiniteSet(DOMAIN f.routes)
    /\ \A p \in DOMAIN f.models :
         /\ p # Untold /\ f.models[p] \in Seq(ToSet(f.models[p]))
         /\ \A m \in ToSet(f.models[p]) : m.id # NoModel
    /\ \A n \in DOMAIN f.routes : f.routes[n] \in Seq(ToSet(f.routes[n]))

Loads(f) ==
  {Load(f, order, names, build) :
     order \in SetToSeqs(DOMAIN f.models), names \in SetToSeqs(DOMAIN f.routes),
     build \in Builds}

Init ==
  /\ file \in Files
  /\ cfg \in Loads(file)
  /\ asked = NoQuery
  /\ chain = <<>>

\* The daemon is started again on the same file.  The transpiled daemon may be
\* put in the place of the hand-written one, or back, and so may the ai-config
\* it is linked with.
Restart ==
  /\ cfg' \in Loads(file)
  /\ asked' = NoQuery
  /\ chain' = <<>>
  /\ UNCHANGED file

\* A chat request is resolved.
Ask(q) ==
  /\ asked' = q
  /\ chain' = ResolveRequest(cfg, q)
  /\ UNCHANGED <<file, cfg>>

Next == Restart \/ \E q \in Queries : Ask(q)

Spec == Init /\ [][Next]_vars

-----------------------------------------------------------------------------
AskedTier == asked # NoQuery /\ asked.kind = "tier" /\ ParseName(asked.name) # NoTier

Serves(p, tier) == OfTier(cfg.models[p], tier) # <<>>

\* Without a tier_routing block every provider that serves the tier is in the
\* chain, each candidate serves it, and only the default provider is there
\* more than once (TierRouter::from_config of the hand-written daemon).
DerivedChainComplete ==
  LET tier == ParseName(asked.name) IN
  (AskedTier /\ cfg.edition = "rust-ref" /\ cfg.routes = <<>> /\ \E p \in DOMAIN cfg.models : Serves(p, tier)) =>
    /\ \A p \in DOMAIN cfg.models :
         Serves(p, tier) <=> \E i \in DOMAIN chain : chain[i].provider = p
    /\ \A i \in DOMAIN chain :
         [id |-> chain[i].model, tier |-> tier] \in {cfg.models[chain[i].provider][k] :
                                            k \in DOMAIN cfg.models[chain[i].provider]}
    /\ \A i, j \in DOMAIN chain :
         (i < j /\ chain[i].provider = chain[j].provider) => chain[i].provider = cfg.default

\* A preference reorders the chain and nothing else: the same candidates as
\* often, a preferred one first if there is one, the others in their order.
PreferenceOnlyReorders ==
  LET tier == ParseName(asked.name)
      base == Chain(cfg, tier)
  IN  (AskedTier /\ base # <<>>) =>
        /\ \E i \in DOMAIN base : RemoveAt(base, i) = Tail(chain) /\ base[i] = Head(chain)
        /\ (\E i \in DOMAIN base : base[i].provider = asked.pref)
             => Head(chain).provider = asked.pref

\* Restarting on an unchanged file does not change which candidate a tier is
\* tried on first, where the default provider serves the tier: not by the new
\* iteration order of the hash maps, nor by another edition of the daemon, which
\* derives no chain and falls back to the default provider's nearest model, nor
\* by another ai-config that reads the same models.  The file has to name its
\* default provider, unless ai-config is the transpiled one; in the transpiled
\* daemon the provider need not serve the tier.
Settled(c) == file.default # Untold \/ c.loader = "a2r"
Primary(c, tier) == First(TierRequest(c, tier, Untold))
RestartKeepsPrimary ==
  [][(Settled(cfg) /\ Settled(cfg') /\ cfg.models = cfg'.models /\ cfg.routes = <<>>) =>
       \A tier \in Tiers :
         \/ Primary(cfg', tier) = Primary(cfg, tier)
         \/ /\ cfg.default \in DOMAIN cfg.models => ~Serves(cfg.default, tier)
            /\ "rust-ref" \in {cfg.edition, cfg'.edition}]_vars

=============================================================================
