--------------------------- MODULE RoleRouting_proof ---------------------------
(***************************************************************************)
(* Proofs about roles and routing, for any built-in roles, any files a     *)
(* user or an application writes, and any daemon configuration: built-in   *)
(* roles are never lost, an agent runs with what the registry shows, a     *)
(* saved role holds, a derived chain is complete, a preference only        *)
(* reorders it, the two editions find the same nearest model, and a        *)
(* restart keeps the first candidate.                                      *)
(***************************************************************************)
EXTENDS RoleRouting, FiniteSetTheorems, WellFoundedInduction, TLAPS

-----------------------------------------------------------------------------
(* The registry *)

\* The directory can be read in some order.
LEMMA RegistryExists == \E roles : roles \in Registries
<1> DEFINE w == [n \in Claimed |-> CHOOSE s \in Readable : RoleName(s) = n]
<1>1. \A n \in Claimed : \E s \in Readable : RoleName(s) = n
  BY DEF Claimed
<1>2. w \in [Claimed -> Readable] /\ \A n \in Claimed : RoleName(w[n]) = n
  BY <1>1
<1> HIDE DEF w
<1> DEFINE r == [n \in DOMAIN Builtins \cup Claimed |->
                   IF n \in Claimed THEN UserDetail(w[n]) ELSE BuiltinDetail(n)]
<1>3. r \in Registries
  BY <1>2, Zenon DEF Registries
<1>4. QED  BY <1>3

\* A name some file claims stands for such a file, another built-in name for
\* the built-in role.
LEMMA RegistryFacts ==
  ASSUME NEW roles \in Registries
  PROVE  /\ DOMAIN roles = DOMAIN Builtins \cup Claimed
         /\ \A n \in Claimed : \E s \in Readable : RoleName(s) = n /\ roles[n] = UserDetail(s)
         /\ \A n \in DOMAIN Builtins : n \notin Claimed => roles[n] = BuiltinDetail(n)
<1>1. PICK last \in [Claimed -> Readable] :
        /\ \A n \in Claimed : RoleName(last[n]) = n
        /\ roles = [n \in DOMAIN Builtins \cup Claimed |->
                      IF n \in Claimed THEN UserDetail(last[n]) ELSE BuiltinDetail(n)]
  BY DEF Registries
<1>2. \A n \in Claimed : last[n] \in Readable /\ roles[n] = UserDetail(last[n])
  BY <1>1
<1>3. QED  BY <1>1, <1>2

\* A detail says whether it is built in.
LEMMA DetailKinds ==
  /\ \A s : UserDetail(s).builtin = FALSE /\ UserDetail(s).config = ParseRole(ats[s])
  /\ \A n : BuiltinDetail(n).builtin = TRUE
<1>1. \A n : BuiltinDetail(n).builtin = TRUE
  BY DEF BuiltinDetail
<1>2. \A s : UserDetail(s).builtin = FALSE /\ UserDetail(s).config = ParseRole(ats[s])
  BY DEF UserDetail
<1>3. QED  BY <1>1, <1>2

\* In every state, whatever is in the directory.
LEMMA BuiltinResolves == BuiltinNeverLost
<1>1. SUFFICES ASSUME NEW name \in DOMAIN Builtins
               PROVE  /\ NoRole \notin Resolved(name)
                      /\ name \notin Claimed => Resolved(name) = {BuiltinRole(name)}
  BY DEF BuiltinNeverLost
<1>2. BuiltinRole(name) # NoRole
  BY <1>1, RoleAssumption
<1>3. ASSUME NEW roles \in Registries PROVE ResolveRole(roles, name) # NoRole
  BY <1>2 DEF ResolveRole
<1>4. ASSUME NEW roles \in Registries, name \notin Claimed PROVE ResolveRole(roles, name) = BuiltinRole(name)
  <2>1. roles[name].builtin = TRUE
    BY <1>1, <1>4, RegistryFacts, DetailKinds
  <2>2. QED  BY <2>1 DEF ResolveRole
<1>5. QED  BY <1>3, <1>4, RegistryExists DEF Resolved

-----------------------------------------------------------------------------
(* Role files *)

OfFields(f) == f = [x \in Fields |-> f[x]]

\* The emitter and the parser lose nothing of a file.
LEMMA RoundTrip ==
  ASSUME NEW raw, OfFields(raw)
  PROVE  /\ SerializeRole(raw) = raw
         /\ OfFields(ParseRole(raw))
         /\ \A f \in Fields \ {"tier"} : ParseRole(raw)[f] = raw[f]
         /\ ParseRole(ParseRole(raw)) = ParseRole(raw)
<1>1. SerializeRole(raw) = raw
  BY DEF SerializeRole, OfFields, EmittedFields
<1> DEFINE config == ParseRole(raw)
<1>2. "tier" \in Fields
  BY DEF Fields
<1>3. /\ OfFields(config) /\ \A f \in Fields \ {"tier"} : config[f] = raw[f]
      /\ config["tier"] = IF raw["tier"] = Untold \/ ParseName(raw["tier"]) = NoTier THEN Untold ELSE ParseName(raw["tier"])
  BY <1>2 DEF ParseRole, OfFields
<1> HIDE DEF config
<1>4. ParseRole(config) = config
  <2>1. CASE config["tier"] = Untold
    BY <1>2, <1>3, <2>1 DEF ParseRole, OfFields
  <2>2. CASE config["tier"] # Untold
    <3>1. config["tier"] = ParseName(raw["tier"]) /\ ParseName(raw["tier"]) # NoTier
      BY <1>3, <2>2
    <3>2. ParseName(raw["tier"]) \in Tiers
      BY <3>1 DEF ParseName, Tiers
    <3>3. ParseName(config["tier"]) = config["tier"]
      BY <3>1, <3>2 DEF ParseName
    <3>4. ParseRole(config) = [config EXCEPT !.tier = config["tier"]]
      BY <2>2, <3>1, <3>3 DEF ParseRole
    <3>5. QED  BY <1>2, <1>3, <3>4 DEF OfFields
  <2>3. QED  BY <2>1, <2>2
<1>5. QED  BY <1>1, <1>3, <1>4 DEF config

\* What save writes is a role file under the name it is saved as.
LEMMA WrittenFile ==
  ASSUME NEW name \in Stems, NEW edit \in Edits, NEW text \in Texts \cup {Untold}
  PROVE  LET config == ToWrite(name, edit, text) IN
         /\ OfFields(config) /\ config["name"] = name
         /\ SerializeRole(config) = config /\ config \notin {NoFile, Broken}
<1> DEFINE config == ToWrite(name, edit, text)
<1>1. OfFields(edit)
  BY RoleAssumption DEF OfFields
<1>2. "name" \in Fields /\ "soul" \in Fields /\ "name" # "soul"
  BY DEF Fields
<1>3. OfFields(config) /\ config["name"] = name
  BY <1>1, <1>2 DEF ToWrite, Named, OfFields
<1>4. config \notin {NoFile, Broken}
  BY RoleAssumption
<1> HIDE DEF config
<1>5. SerializeRole(config) = config
  BY <1>3, RoundTrip
<1>6. QED  BY <1>3, <1>4, <1>5 DEF config

\* Files are role files, and a saved one is what was saved, under its name.
FilesInv ==
  /\ crate \in {"rust-ref", "a2r"}
  /\ ats = [s \in Stems |-> ats[s]] /\ saved = [s \in Stems |-> saved[s]]
  /\ \A s \in Readable : OfFields(ats[s])
  /\ \A s \in Stems : saved[s] # NoFile =>
       OfFields(saved[s]) /\ saved[s]["name"] = s /\ ats[s] = saved[s] /\ s \in Readable

\* What is shown of an agent of a user's role is a file that is still there, and
\* it runs with what that file loads as, or else with the built-in role.
AgentInv ==
  (agent # NoRole /\ agent.detail # NoRole /\ ~agent.detail.builtin) =>
    /\ \E s \in Readable : agent.detail = UserDetail(s)
    /\ agent.runs = AsRun(IF LoadsAsRole(agent.detail.config)
                          THEN UserRole(agent.detail.config) ELSE BuiltinRole(agent.name))

\* One file changes, to a role file or none, and what was saved of it with it.
LEMMA OneFile ==
  ASSUME FilesInv, crate' = crate, NEW name \in Stems, NEW f, NEW c,
         ats' = [ats EXCEPT ![name] = f], saved' = [saved EXCEPT ![name] = c],
         f \notin {NoFile, Broken} => OfFields(f),
         c # NoFile => c = f /\ f \notin {NoFile, Broken} /\ f["name"] = name
  PROVE  FilesInv'
<1>1. /\ ats' = [s \in Stems |-> ats'[s]] /\ saved' = [s \in Stems |-> saved'[s]]
      /\ ats'[name] = f /\ saved'[name] = c
      /\ \A s \in Stems : s # name => ats'[s] = ats[s] /\ saved'[s] = saved[s]
  BY DEF FilesInv
<1>2. \A s \in Stems : s \in Readable' <=> ats'[s] \notin {NoFile, Broken}
  BY DEF Readable
<1>3. \A s \in Stems : s \in Readable <=> ats[s] \notin {NoFile, Broken}
  BY DEF Readable
<1>4. Readable' \subseteq Stems
  BY DEF Readable
<1>5. ASSUME NEW s \in Readable' PROVE OfFields(ats[s])'
  <2>1. s \in Stems /\ ats'[s] \notin {NoFile, Broken}
    BY <1>2, <1>4
  <2>2. CASE s = name
    BY <1>1, <2>1, <2>2 DEF OfFields
  <2>3. CASE s # name
    <3>1. OfFields(ats[s])
      BY <1>1, <1>3, <2>1, <2>3 DEF FilesInv
    <3>2. QED  BY <1>1, <2>1, <2>3, <3>1 DEF OfFields
  <2>4. QED  BY <2>2, <2>3
<1>6. ASSUME NEW s \in Stems, saved'[s] # NoFile
      PROVE  OfFields(saved[s])' /\ saved'[s]["name"] = s /\ ats'[s] = saved'[s] /\ s \in Readable'
  <2>1. CASE s = name
    BY <1>1, <1>2, <1>6, <2>1 DEF OfFields
  <2>2. CASE s # name
    <3>1. OfFields(saved[s]) /\ saved[s]["name"] = s /\ ats[s] = saved[s] /\ s \in Readable
      BY <1>1, <1>6, <2>2 DEF FilesInv
    <3>2. QED  BY <1>1, <1>2, <1>3, <1>6, <2>2, <3>1 DEF OfFields
  <2>3. QED  BY <2>1, <2>2
<1>7. QED  BY <1>1, <1>5, <1>6 DEF FilesInv

\* Files that stay keep what is said of them.
LEMMA SameFiles ==
  ASSUME FilesInv, UNCHANGED <<crate, ats, saved>> PROVE FilesInv'
BY DEF FilesInv, Readable, OfFields

\* The registry's operations and the user's edits.
LEMMA RegistryStep ==
  ASSUME FilesInv, RegistryNext PROVE FilesInv'
<1>1. ASSUME NEW name \in Stems, NEW edit \in Edits, NEW text \in Texts \cup {Untold}, Save(name, edit, text)
      PROVE  FilesInv'
  BY <1>1, WrittenFile, OneFile DEF Save
<1>2. ASSUME NEW name \in Stems, NEW edit \in Edits, NEW text \in Texts \cup {Untold}, SaveFails(name, edit, text)
      PROVE  FilesInv'
  <2>0. crate' = crate
    BY <1>2 DEF SaveFails
  <2>1. CASE UNCHANGED <<ats, saved>>
    BY <2>0, <2>1, SameFiles
  <2>2. CASE ats' = [ats EXCEPT ![name] = Broken] /\ saved' = [saved EXCEPT ![name] = NoFile]
    BY <2>0, <2>2, OneFile
  <2>3. QED  BY <1>2, <2>1, <2>2 DEF SaveFails
<1>3. ASSUME NEW name \in Stems, Delete(name) PROVE FilesInv'
  BY <1>3, OneFile DEF Delete
<1>4. ASSUME NEW name \in Stems, HandEdit(name) PROVE FilesInv'
  <2>1. PICK f \in HandFiles \cup {NoFile, Broken} : ats' = [ats EXCEPT ![name] = f]
    BY <1>4 DEF HandEdit
  <2>2. f \notin {NoFile, Broken} => OfFields(f)
    BY <2>1, RoleAssumption DEF OfFields
  <2>3. saved' = [saved EXCEPT ![name] = NoFile] /\ crate' = crate
    BY <1>4 DEF HandEdit
  <2>4. QED  BY <2>1, <2>2, <2>3, OneFile
<1>5. QED  BY <1>1, <1>2, <1>3, <1>4 DEF RegistryNext

\* The invariant about roles.
RolesInv == FilesInv /\ AgentInv

\* Before anything is done: whatever files there are, none of them was saved.
LEMMA RolesInit == RInit => RolesInv
BY DEF RInit, RegistryInit, RolesInv, FilesInv, AgentInv, Readable

\* What is read from files that stay is the same.
LEMMA SameReading ==
  ASSUME UNCHANGED registryVars
  PROVE  /\ Readable' = Readable
         /\ \A s : UserDetail(s)' = UserDetail(s)
         /\ \A config : UserRole(config)' = UserRole(config)
         /\ \A role : AsRun(role)' = AsRun(role)
<1>1. UNCHANGED <<crate, ats, souls>>
  BY DEF registryVars
<1>2. Readable' = Readable
  BY <1>1 DEF Readable
<1>3. ASSUME NEW s PROVE UserDetail(s)' = UserDetail(s)
  BY <1>1 DEF UserDetail, ParseRole, ResolveSoul
<1>4. ASSUME NEW config PROVE UserRole(config)' = UserRole(config)
  BY <1>1 DEF UserRole
<1>5. ASSUME NEW role PROVE AsRun(role)' = AsRun(role)
  BY <1>1 DEF AsRun
<1>6. QED  BY <1>2, <1>3, <1>4, <1>5

\* An agent is built from the file its name stands for.
LEMMA AskStep ==
  ASSUME FilesInv, NEW name \in Stems, AskAsRole(name) PROVE RolesInv'
<1>1. UNCHANGED registryVars /\ UNCHANGED <<crate, ats, saved>>
  BY DEF AskAsRole, registryVars
<1>2. FilesInv'
  BY <1>1, SameFiles
<1>3. PICK roles \in Registries :
        agent' = [name |-> name, role |-> ResolveRole(roles, name), runs |-> AsRun(ResolveRole(roles, name)),
                  detail |-> IF name \in DOMAIN roles THEN roles[name] ELSE NoRole]
  BY DEF AskAsRole
<1> DEFINE a == agent'
<1>4. /\ a.name = name /\ a.runs = AsRun(ResolveRole(roles, name))
      /\ a.detail = IF name \in DOMAIN roles THEN roles[name] ELSE NoRole
  BY <1>3
<1> HIDE DEF a
<1>5. ASSUME a.detail # NoRole, ~a.detail.builtin
      PROVE  /\ \E s \in Readable : a.detail = UserDetail(s)
             /\ a.runs = AsRun(IF UserRole(a.detail.config) # NoRole
                               THEN UserRole(a.detail.config) ELSE BuiltinRole(a.name))
  <2>1. name \in DOMAIN roles /\ a.detail = roles[name]
    BY <1>4, <1>5
  <2>2. name \in Claimed
    <3>1. ASSUME name \in DOMAIN Builtins, name \notin Claimed PROVE FALSE
      <4>1. roles[name].builtin = TRUE
        BY <3>1, RegistryFacts, DetailKinds
      <4>2. QED  BY <1>5, <2>1, <4>1
    <3>2. QED  BY <2>1, <3>1, RegistryFacts
  <2>3. PICK s \in Readable : roles[name] = UserDetail(s)
    BY <2>2, RegistryFacts
  <2>4. roles[name].builtin = FALSE
    BY <2>3, DetailKinds
  <2>5. ResolveRole(roles, name)
          = IF UserRole(roles[name].config) # NoRole THEN UserRole(roles[name].config) ELSE BuiltinRole(name)
    BY <2>1, <2>4 DEF ResolveRole
  <2>6. QED  BY <1>4, <2>1, <2>3, <2>5
<1>6. (agent # NoRole /\ agent.detail # NoRole /\ ~agent.detail.builtin)' =>
        /\ (\E s \in Readable : agent.detail = UserDetail(s))'
        /\ (agent.runs = AsRun(IF UserRole(agent.detail.config) # NoRole
                               THEN UserRole(agent.detail.config) ELSE BuiltinRole(agent.name)))'
  BY <1>1, <1>5, SameReading DEF a
<1>7. AgentInv'
  BY <1>6 DEF AgentInv, LoadsAsRole
<1>8. QED  BY <1>2, <1>7 DEF RolesInv

\* Each step keeps the invariant.
LEMMA RolesStep == RolesInv /\ [RNext]_allVars => RolesInv'
<1> SUFFICES ASSUME RolesInv, [RNext]_allVars PROVE RolesInv'
  OBVIOUS
<1>1. ASSUME agent' = NoRole, FilesInv' PROVE RolesInv'
  BY <1>1 DEF RolesInv, AgentInv
<1>2. CASE Next /\ agent' = NoRole /\ UNCHANGED registryVars
  <2>1. FilesInv'
    BY <1>2, SameFiles DEF registryVars, RolesInv
  <2>2. QED  BY <1>1, <1>2, <2>1
<1>3. CASE RegistryNext /\ Idle
  BY <1>1, <1>3, RegistryStep DEF RolesInv, Idle
<1>4. ASSUME NEW name \in Stems, AskAsRole(name) PROVE RolesInv'
  BY <1>4, AskStep DEF RolesInv
<1>5. CASE UNCHANGED allVars
  <2>1. agent' = agent /\ UNCHANGED registryVars /\ UNCHANGED <<crate, ats, saved>>
    BY <1>5 DEF allVars, registryVars
  <2>2. FilesInv'
    BY <2>1, SameFiles DEF RolesInv
  <2>3. AgentInv'
    BY <2>1, SameReading DEF RolesInv, AgentInv, LoadsAsRole
  <2>4. QED  BY <2>2, <2>3 DEF RolesInv
<1>6. QED  BY <1>2, <1>3, <1>4, <1>5 DEF RNext

\* Files and the agent built last satisfy the invariant about roles, always.
THEOREM RolesInvariant == RSpec => []RolesInv
BY RolesInit, RolesStep, PTL DEF RSpec

\* A built-in role resolves to something whatever the directory holds, to itself
\* while no file claims its name (RoleRegistry::resolve_role).
THEOREM BuiltinsSafe == RSpec => []BuiltinNeverLost
BY BuiltinResolves, PTL

\* A role that was saved, and whose file nobody touched since, is what its name
\* stands for, unless another file claims the name (RoleRegistry::save, load).
THEOREM SavedRoleHolds == RSpec => []LastSaveHolds
<1>1. RolesInv => LastSaveHolds
  <2>1. SUFFICES ASSUME FilesInv, NEW s \in Stems, saved[s] # NoFile,
                        \A t \in Readable : RoleName(t) = s => t = s,
                        NEW roles \in Registries
                 PROVE  s \in DOMAIN roles /\ ~roles[s].builtin /\ roles[s].config = ParseRole(saved[s])
    BY DEF LastSaveHolds, RolesInv
  <2>2. saved[s]["name"] = s /\ ats[s] = saved[s] /\ s \in Readable
    BY <2>1 DEF FilesInv
  <2>3. RoleName(s) = s
    BY <2>2 DEF RoleName, Or
  <2>4. s \in Claimed
    BY <2>2, <2>3 DEF Claimed
  <2>5. PICK t \in Readable : RoleName(t) = s /\ roles[s] = UserDetail(t)
    BY <2>4, RegistryFacts
  <2>6. t = s
    BY <2>1, <2>5
  <2>7. roles[s].builtin = FALSE /\ roles[s].config = ParseRole(ats[s])
    BY <2>5, <2>6, DetailKinds
  <2>8. QED  BY <2>2, <2>4, <2>7, RegistryFacts
<1>2. QED  BY <1>1, RolesInvariant, PTL

\* A role as it is built from its file. Its first prompt is that of the file or,
\* for an inheriting one of the hand-written edition, the base's.
LEMMA BuiltFromFile ==
  ASSUME crate \in {"rust-ref", "a2r"}, NEW raw, OfFields(raw), LoadsAsRole(ParseRole(raw))
  PROVE  LET config == ParseRole(raw)
             role == UserRole(config)
         IN  /\ config["tier"] # Untold => role.tier = config["tier"]
             /\ role.model = config["model"]
             /\ role.models = Or(config["models"], <<>>)
             /\ config["tools"] # Untold => role.tools = config["tools"]
             /\ role = [prompt |-> role.prompt, tier |-> role.tier, model |-> role.model, models |-> role.models, tools |-> role.tools]
             /\ OwnPrompt(config) => Head(role.prompt) = Or(config["prompt"], "")
             /\ ~OwnPrompt(config) => Head(role.prompt) = Builtins[config["inherit"]].prompt
<1> DEFINE config == ParseRole(raw)
           Kept(role) == /\ config["tier"] # Untold => role.tier = config["tier"]
                         /\ role.model = config["model"]
                         /\ role.models = Or(config["models"], <<>>)
                         /\ config["tools"] # Untold => role.tools = config["tools"]
                         /\ role = [prompt |-> role.prompt, tier |-> role.tier, model |-> role.model, models |-> role.models, tools |-> role.tools]
<1>1. OfFields(config) /\ ParseRole(config) = config /\ UserRole(config) # NoRole
  BY RoundTrip DEF LoadsAsRole
<1> HIDE DEF config
<1>2. SerializeRole(config) = config
  BY <1>1, RoundTrip
<1>3. ASSUME NEW p PROVE Head(Appended(p, config)) = p
  BY DEF Appended
<1>4. ASSUME NEW p PROVE Kept(Standalone(config, p)) /\ Head(Standalone(config, p).prompt) = p
  BY <1>3 DEF Standalone, Or
<1>5. ASSUME NEW base PROVE Kept(Inheriting(config, base)) /\ Head(Inheriting(config, base).prompt) = base.prompt
  BY <1>3 DEF Inheriting, InheritedTools, Or
<1>6. CASE crate = "a2r"
  <2>1. UserRole(config) = Standalone(config, Or(config["prompt"], ""))
    BY <1>1, <1>6 DEF UserRole, TranspiledRole
  <2>2. OwnPrompt(config)
    BY <1>6 DEF OwnPrompt
  <2>3. Kept(UserRole(config)) /\ Head(UserRole(config).prompt) = Or(config["prompt"], "")
    BY <1>4, <2>1
  <2>4. QED  BY <2>2, <2>3 DEF config
<1>7. CASE crate = "rust-ref" /\ config["inherit"] # Untold
  <2>1. UserRole(config) = Inheriting(config, Builtins[config["inherit"]])
    BY <1>1, <1>2, <1>7 DEF UserRole, LoadRole
  <2>2. ~OwnPrompt(config)
    BY <1>7 DEF OwnPrompt
  <2>3. Kept(UserRole(config)) /\ Head(UserRole(config).prompt) = Builtins[config["inherit"]].prompt
    BY <1>5, <2>1
  <2>4. QED  BY <2>2, <2>3 DEF config
<1>8. CASE crate = "rust-ref" /\ config["inherit"] = Untold
  <2>1. UserRole(config) = Standalone(config, config["prompt"]) /\ config["prompt"] # Untold
    BY <1>1, <1>2, <1>8 DEF UserRole, LoadRole
  <2>2. OwnPrompt(config) /\ Or(config["prompt"], "") = config["prompt"]
    BY <1>8, <2>1 DEF OwnPrompt, Or
  <2>3. Kept(UserRole(config)) /\ Head(UserRole(config).prompt) = Or(config["prompt"], "")
    BY <1>4, <2>1, <2>2
  <2>4. QED  BY <2>2, <2>3 DEF config
<1>9. QED  BY <1>6, <1>7, <1>8

\* A soul that is not from a file is the inline prompt.
LEMMA ResolvedInline ==
  ASSUME NEW config, ~ResolveSoul(config).fromFile
  PROVE  ResolveSoul(config).text = Or(config.prompt, "")
<1>1. CASE config.soul # Untold /\ souls[config.soul] # NoFile
  BY <1>1 DEF ResolveSoul
<1>2. CASE ~(config.soul # Untold /\ souls[config.soul] # NoFile) /\ config.soul # Untold /\ crate = "a2r"
  BY <1>2 DEF ResolveSoul
<1>3. CASE ~(config.soul # Untold /\ souls[config.soul] # NoFile) /\ ~(config.soul # Untold /\ crate = "a2r")
  <2> DEFINE inline == Or(config.prompt, "")
  <2> HIDE DEF inline
  <2>1. ResolveSoul(config) = [text |-> inline, fromFile |-> FALSE]
    BY <1>3 DEF ResolveSoul, inline
  <2>2. ResolveSoul(config).text = inline
    BY <2>1
  <2>3. QED  BY <2>2 DEF inline
<1>4. QED  BY <1>1, <1>2, <1>3

\* It is shown as the registry resolved it.
LEMMA InlineSoul ==
  ASSUME NEW s, ~UserDetail(s).fromFile
  PROVE  UserDetail(s).soul = Or(UserDetail(s).config.prompt, "")
<1> DEFINE config == ParseRole(ats[s])
           soul == ResolveSoul(config)
<1> HIDE DEF config
<1>1. UserDetail(s) = [config |-> config, soul |-> soul.text, fromFile |-> soul.fromFile, builtin |-> FALSE]
  BY DEF UserDetail, config
<1>2. ~soul.fromFile => soul.text = Or(config.prompt, "")
  BY ResolvedInline
<1> HIDE DEF soul
<1>3. UserDetail(s).config = config /\ UserDetail(s).soul = soul.text /\ UserDetail(s).fromFile = soul.fromFile
  BY <1>1
<1>4. QED  BY <1>2, <1>3

\* What the registry shows of a user's role is what its agent runs with, but for
\* the sidecar soul, the base's prompt and the chain of models, as ShownIsRun
\* says of each (RoleRegistry::get, resolve_role, OwnedRole).
THEOREM ShownRoleRuns == RSpec => []ShownIsRun
<1>1. RolesInv => ShownIsRun
  <2> DEFINE shown == agent.detail
             config == shown.config
             run == agent.runs
  <2>1. SUFFICES ASSUME RolesInv, agent # NoRole, shown # NoRole, ~shown.builtin
                 PROVE  IF ~LoadsAsRole(config) THEN run = AsRun(BuiltinRole(agent.name))
                        ELSE
                          /\ config.tier # Untold => run.tier = config.tier
                          /\ run.model = config.model
                          /\ config.tools # Untold => run.tools = config.tools
                          /\ run.models = IF crate = "a2r" THEN Or(config.models, <<>>) ELSE <<>>
                          /\ OwnPrompt(config) /\ ~shown.fromFile => Head(run.prompt) = shown.soul
                          /\ OwnPrompt(config) /\ shown.fromFile => Head(run.prompt) = Or(config.prompt, "")
                          /\ ~OwnPrompt(config) => Head(run.prompt) = Builtins[config.inherit].prompt
    BY DEF ShownIsRun
  <2>2. PICK s \in Readable : shown = UserDetail(s)
    BY <2>1 DEF RolesInv, AgentInv
  <2>3. run = AsRun(IF LoadsAsRole(config) THEN UserRole(config) ELSE BuiltinRole(agent.name))
    BY <2>1 DEF RolesInv, AgentInv
  <2>4. CASE ~LoadsAsRole(config)
    BY <2>3, <2>4
  <2>5. CASE LoadsAsRole(config)
    <3> DEFINE role == UserRole(config)
    <3>1. crate \in {"rust-ref", "a2r"} /\ OfFields(ats[s]) /\ config = ParseRole(ats[s])
      BY <2>1, <2>2, DetailKinds DEF RolesInv, FilesInv
    <3>2. /\ config.tier # Untold => role.tier = config.tier
          /\ role.model = config.model
          /\ role.models = Or(config.models, <<>>)
          /\ config.tools # Untold => role.tools = config.tools
          /\ role = [prompt |-> role.prompt, tier |-> role.tier, model |-> role.model, models |-> role.models, tools |-> role.tools]
          /\ OwnPrompt(config) => Head(role.prompt) = Or(config.prompt, "")
          /\ ~OwnPrompt(config) => Head(role.prompt) = Builtins[config.inherit].prompt
      BY <2>5, <3>1, BuiltFromFile
    <3>3. ~shown.fromFile => shown.soul = Or(config.prompt, "")
      BY <2>2, InlineSoul
    <3>4. run = IF crate = "rust-ref" THEN [role EXCEPT !.models = <<>>] ELSE role
      BY <2>3, <2>5 DEF AsRun, Owned
    <3> HIDE DEF role, run, shown, config
    <3>5. /\ run.tier = role.tier /\ run.model = role.model /\ run.tools = role.tools /\ run.prompt = role.prompt
          /\ run.models = IF crate = "a2r" THEN role.models ELSE <<>>
      BY <3>1, <3>2, <3>4
    <3>6. QED  BY <2>5, <3>2, <3>3, <3>5
  <2>6. QED  BY <2>4, <2>5
<1>2. QED  BY <1>1, RolesInvariant, PTL

-----------------------------------------------------------------------------
(* The elements of a sequence that are in a set *)

\* Induction over a set of numbers.
LEMMA SetInduction ==
  ASSUME NEW S \in SUBSET Nat, 0 \in S, \A n \in S : n + 1 \in S
  PROVE  S = Nat
<1> DEFINE R == OpToRel(<, Nat)
<1>1. SUFFICES ASSUME Nat \ S # {} PROVE FALSE
  OBVIOUS
<1>2. IsWellFoundedOn(R, Nat)
  BY NatLessThanWellFounded
<1>3. \A a, b \in Nat : a < b => <<a, b>> \in R
  BY DEF OpToRel
<1> HIDE DEF R
<1>4. PICK x \in Nat \ S : \A y \in Nat \ S : ~(<<y, x>> \in R)
  <2>1. Nat \ S \subseteq Nat
    OBVIOUS
  <2>2. QED  BY <1>1, <1>2, <2>1, WFMin
<1>5. x # 0 /\ x - 1 \in Nat /\ x - 1 < x
  BY <1>4
<1>6. x - 1 \in S
  BY <1>3, <1>4, <1>5
<1>7. x - 1 + 1 \in S
  BY <1>6
<1>8. QED
  BY <1>4, <1>5, <1>7

\* g has what is among the first 0, 1, ..., n elements.
Steps(g, seq, S, n) ==
  g = [k \in 0..n |-> IF k = 0 THEN <<>> ELSE IF seq[k] \in S THEN Append(g[k - 1], seq[k]) ELSE g[k - 1]]

\* It grows by at most one element at a time.
Stepwise(g, seq, S, n) ==
  /\ g[0] = <<>>
  /\ \A k \in 1..n : g[k] = IF seq[k] \in S THEN Append(g[k - 1], seq[k]) ELSE g[k - 1]

LEMMA StepByStep ==
  ASSUME NEW seq, NEW S, NEW n \in Nat, NEW g, Steps(g, seq, S, n)
  PROVE  Stepwise(g, seq, S, n)
<1>1. g = [k \in 0..n |-> IF k = 0 THEN <<>> ELSE IF seq[k] \in S THEN Append(g[k - 1], seq[k]) ELSE g[k - 1]]
  BY DEF Steps
<1>2. g[0] = <<>>
  BY <1>1
<1>3. ASSUME NEW k \in 1..n PROVE g[k] = IF seq[k] \in S THEN Append(g[k - 1], seq[k]) ELSE g[k - 1]
  <2>1. k \in 0..n /\ k # 0
    OBVIOUS
  <2>2. QED  BY <1>1, <2>1, Zenon
<1>4. QED  BY <1>2, <1>3 DEF Stepwise

\* There is such a table for any number of elements.
LEMMA StepsExist ==
  ASSUME NEW seq, NEW S
  PROVE  \A n \in Nat : \E g : Steps(g, seq, S, n)
<1> DEFINE N == {n \in Nat : \E g : Steps(g, seq, S, n)}
<1>1. 0 \in N
  <2> DEFINE g == [k \in 0..0 |-> <<>>]
  <2>1. Steps(g, seq, S, 0)
    BY DEF Steps
  <2>2. QED  BY <2>1
<1>2. ASSUME NEW n \in N PROVE n + 1 \in N
  <2>1. n \in Nat /\ \E g : Steps(g, seq, S, n)
    OBVIOUS
  <2>0. PICK g : Steps(g, seq, S, n)
    BY <2>1
  <2>2. g[0] = <<>> /\ \A k \in 1..n : g[k] = IF seq[k] \in S THEN Append(g[k - 1], seq[k]) ELSE g[k - 1]
    <3>1. Stepwise(g, seq, S, n)
      BY <2>0, <2>1, StepByStep
    <3>2. QED  BY <3>1 DEF Stepwise
  <2> DEFINE more == IF seq[n + 1] \in S THEN Append(g[n], seq[n + 1]) ELSE g[n]
             h == [k \in 0..(n + 1) |-> IF k = n + 1 THEN more ELSE g[k]]
             next == [k \in 0..(n + 1) |->
                        IF k = 0 THEN <<>> ELSE IF seq[k] \in S THEN Append(h[k - 1], seq[k]) ELSE h[k - 1]]
  <2>3. \A k \in 0..(n + 1) :
          h[k] = IF k = 0 THEN <<>> ELSE IF seq[k] \in S THEN Append(h[k - 1], seq[k]) ELSE h[k - 1]
    <3> TAKE k \in 0..(n + 1)
    <3>1. CASE k = 0
      BY <3>1, <2>2
    <3>2. CASE k = n + 1
      <4>1. h[k] = more /\ h[k - 1] = g[n] /\ k # 0
        BY <3>2
      <4>2. QED  BY <3>2, <4>1
    <3>3. CASE k \in 1..n
      <4>1. h[k] = g[k] /\ h[k - 1] = g[k - 1] /\ k # 0
        BY <3>3
      <4>2. QED  BY <4>1, <3>3, <2>2
    <3>4. QED  BY <3>1, <3>2, <3>3
  <2>4. h = next
    BY <2>3
  <2>5. Steps(h, seq, S, n + 1)
    BY <2>4 DEF Steps
  <2>6. QED  BY <2>5
<1>3. N = Nat
  <2>1. N \in SUBSET Nat
    OBVIOUS
  <2> HIDE DEF N
  <2>2. QED  BY <1>1, <1>2, <2>1, SetInduction
<1>4. QED  BY <1>3

\* One element more, and what the sequence then holds.
LEMMA OneMoreOf ==
  ASSUME NEW T, NEW s \in Seq(T), NEW x \in T
  PROVE  /\ Append(s, x) \in Seq(T) /\ ToSet(Append(s, x)) = ToSet(s) \cup {x}
         /\ IsInjective(s) /\ x \notin ToSet(s) => IsInjective(Append(s, x))
<1> DEFINE t == Append(s, x)
<1>1. /\ t \in Seq(T) /\ DOMAIN s = 1..Len(s) /\ DOMAIN t = 1..(Len(s) + 1) /\ Len(s) \in Nat
      /\ \A i \in 1..Len(s) : t[i] = s[i]
      /\ t[Len(s) + 1] = x
  OBVIOUS
<1> HIDE DEF t
<1>2. 1..(Len(s) + 1) = 1..Len(s) \cup {Len(s) + 1}
  BY <1>1
<1>3. ToSet(t) = ToSet(s) \cup {x}
  BY <1>1, <1>2 DEF ToSet
<1>4. IsInjective(s) /\ x \notin ToSet(s) => IsInjective(t)
  BY <1>1, <1>2 DEF ToSet, IsInjective
<1>5. QED  BY <1>1, <1>3, <1>4 DEF t

\* Among reads the last entry of the table.
LEMMA AmongTable ==
  ASSUME NEW seq, NEW S, Len(seq) \in Nat
  PROVE  \E g : Steps(g, seq, S, Len(seq)) /\ Among(seq, S) = g[Len(seq)]
<1> DEFINE table == CHOOSE g : g = [k \in 0..Len(seq) |-> IF k = 0 THEN <<>>
                                     ELSE IF seq[k] \in S THEN Append(g[k - 1], seq[k]) ELSE g[k - 1]]
<1>1. \E g : Steps(g, seq, S, Len(seq))
  BY StepsExist
<1>2. \E g : g = [k \in 0..Len(seq) |-> IF k = 0 THEN <<>>
                    ELSE IF seq[k] \in S THEN Append(g[k - 1], seq[k]) ELSE g[k - 1]]
  BY <1>1 DEF Steps
<1>3. table = [k \in 0..Len(seq) |-> IF k = 0 THEN <<>>
                 ELSE IF seq[k] \in S THEN Append(table[k - 1], seq[k]) ELSE table[k - 1]]
  BY <1>2
<1>4. Among(seq, S) = table[Len(seq)]
  BY DEF Among
<1> HIDE DEF table
<1>5. QED  BY <1>3, <1>4 DEF Steps

\* What comes first, and a sequence that holds nothing.
LEMMA FirstOf ==
  ASSUME NEW T, NEW s \in Seq(T), NEW x \in T
  PROVE  /\ Append(s, x) # <<>>
         /\ s # <<>> => Head(Append(s, x)) = Head(s)
         /\ s = <<>> => Head(Append(s, x)) = x
         /\ ToSet(s) = {} => s = <<>>
<1> DEFINE t == Append(s, x)
<1>1. /\ t \in Seq(T) /\ Len(s) \in Nat /\ Len(t) = Len(s) + 1 /\ DOMAIN s = 1..Len(s)
      /\ \A i \in 1..Len(s) : t[i] = s[i]
      /\ t[Len(s) + 1] = x
  OBVIOUS
<1>2. (s = <<>> <=> Len(s) = 0) /\ (s # <<>> => Head(s) = s[1])
  OBVIOUS
<1> HIDE DEF t
<1>3. t # <<>> /\ Head(t) = t[1]
  BY <1>1
<1>4. Len(s) = 0 \/ 1 \in 1..Len(s)
  BY <1>1
<1>5. ToSet(s) = {} => Len(s) = 0
  BY <1>1, <1>4 DEF ToSet
<1>6. QED  BY <1>1, <1>2, <1>3, <1>4, <1>5 DEF t

\* What is among a sequence is what it has of the set, none of it twice if it has
\* nothing twice, and first what it has first of it.
LEMMA AmongFacts ==
  ASSUME NEW T, NEW seq \in Seq(T), NEW S
  PROVE  /\ Among(seq, S) \in Seq(T)
         /\ ToSet(Among(seq, S)) = ToSet(seq) \cap S
         /\ IsInjective(seq) => IsInjective(Among(seq, S))
         /\ \A i \in 1..Len(seq) : (seq[i] \in S /\ \A j \in 1..(i - 1) : seq[j] \notin S)
              => Among(seq, S) # <<>> /\ Head(Among(seq, S)) = seq[i]
<1>1. Len(seq) \in Nat /\ DOMAIN seq = 1..Len(seq) /\ \A k \in 1..Len(seq) : seq[k] \in T
  OBVIOUS
<1>2. PICK g : Steps(g, seq, S, Len(seq)) /\ Among(seq, S) = g[Len(seq)]
  BY <1>1, AmongTable
<1>4. Among(seq, S) = g[Len(seq)]
  BY <1>2
<1>5. g[0] = <<>> /\ \A k \in 1..Len(seq) : g[k] = IF seq[k] \in S THEN Append(g[k - 1], seq[k]) ELSE g[k - 1]
  <2>1. Len(seq) \in Nat /\ Steps(g, seq, S, Len(seq))
    BY <1>1, <1>2
  <2>2. Stepwise(g, seq, S, Len(seq))
    BY <2>1, StepByStep
  <2>3. QED  BY <2>2 DEF Stepwise
<1> DEFINE Upto(n) == {seq[i] : i \in 1..n}
           Right(n) == /\ g[n] \in Seq(T) /\ ToSet(g[n]) = Upto(n) \cap S
                       /\ IsInjective(seq) => IsInjective(g[n])
                       /\ \A i \in 1..n : (seq[i] \in S /\ \A j \in 1..(i - 1) : seq[j] \notin S)
                            => g[n] # <<>> /\ Head(g[n]) = seq[i]
           N == {n \in Nat : n <= Len(seq) => Right(n)}
<1>6. 0 \in N
  <2>1. <<>> \in Seq(T) /\ ToSet(<<>>) = {} /\ IsInjective(<<>>) /\ Upto(0) = {} /\ 1..0 = {}
    BY DEF ToSet, IsInjective
  <2>2. Right(0)
    BY <1>5, <2>1
  <2>3. QED  BY <2>2
<1>7. ASSUME NEW n \in N PROVE n + 1 \in N
  <2>1. SUFFICES ASSUME n + 1 <= Len(seq) PROVE Right(n + 1)
    OBVIOUS
  <2>2. n \in Nat /\ n + 1 \in 1..Len(seq) /\ (n + 1) - 1 = n /\ Right(n)
    BY <1>1, <2>1
  <2>3. 1..(n + 1) = 1..n \cup {n + 1} /\ n + 1 \notin 1..n
    BY <2>2
  <2>4. Upto(n + 1) = Upto(n) \cup {seq[n + 1]}
    BY <2>3
  <2>5. g[n + 1] = IF seq[n + 1] \in S THEN Append(g[n], seq[n + 1]) ELSE g[n]
    BY <1>5, <2>2
  <2>6. CASE seq[n + 1] \notin S
    <3>1. g[n + 1] = g[n]
      BY <2>5, <2>6
    <3>2. Upto(n + 1) \cap S = Upto(n) \cap S
      BY <2>4, <2>6
    <3> HIDE DEF Upto
    <3>3. QED  BY <2>2, <2>3, <2>6, <3>1, <3>2
  <2>7. CASE seq[n + 1] \in S
    <3>1. g[n + 1] = Append(g[n], seq[n + 1]) /\ g[n] \in Seq(T) /\ seq[n + 1] \in T
      BY <1>1, <2>2, <2>5, <2>7
    <3>2. /\ g[n + 1] \in Seq(T) /\ ToSet(g[n + 1]) = ToSet(g[n]) \cup {seq[n + 1]}
          /\ IsInjective(g[n]) /\ seq[n + 1] \notin ToSet(g[n]) => IsInjective(g[n + 1])
      BY <3>1, OneMoreOf
    <3>3. ToSet(g[n + 1]) = Upto(n + 1) \cap S
      BY <2>2, <2>4, <2>7, <3>2
    <3>4. IsInjective(seq) => seq[n + 1] \notin Upto(n)
      BY <1>1, <2>2, <2>3 DEF IsInjective
    <3>5. IsInjective(seq) => IsInjective(g[n + 1])
      BY <2>2, <3>2, <3>4
    <3>6. ASSUME NEW i \in 1..(n + 1), seq[i] \in S, \A j \in 1..(i - 1) : seq[j] \notin S
          PROVE  g[n + 1] # <<>> /\ Head(g[n + 1]) = seq[i]
      <4>1. g[n + 1] # <<>> /\ (g[n] # <<>> => Head(g[n + 1]) = Head(g[n])) /\ (g[n] = <<>> => Head(g[n + 1]) = seq[n + 1])
        <5>1. /\ Append(g[n], seq[n + 1]) # <<>>
              /\ g[n] # <<>> => Head(Append(g[n], seq[n + 1])) = Head(g[n])
              /\ g[n] = <<>> => Head(Append(g[n], seq[n + 1])) = seq[n + 1]
          <6> HIDE DEF Right, N, Upto
          <6>1. \A s \in Seq(T), x \in T :
                  /\ Append(s, x) # <<>>
                  /\ s # <<>> => Head(Append(s, x)) = Head(s)
                  /\ s = <<>> => Head(Append(s, x)) = x
            BY FirstOf
          <6>2. QED  BY <3>1, <6>1
        <5>2. QED  BY <3>1, <5>1, Zenon
      <4>2. CASE i \in 1..n
        BY <2>2, <3>6, <4>1, <4>2
      <4>3. CASE i = n + 1
        <5>1. Upto(n) \cap S = {}
          BY <2>2, <3>6, <4>3
        <5>2. ToSet(g[n]) = {}
          BY <2>2, <5>1
        <5>3. g[n] = <<>>
          BY <3>1, <5>2, FirstOf
        <5>4. QED  BY <4>1, <4>3, <5>3
      <4>4. QED  BY <2>3, <4>2, <4>3
    <3>7. QED  BY <3>2, <3>3, <3>5, <3>6
  <2>8. QED  BY <2>6, <2>7
<1>8. N = Nat
  <2>1. N \in SUBSET Nat
    OBVIOUS
  <2> HIDE DEF N
  <2>2. QED  BY <1>6, <1>7, <2>1, SetInduction
<1>9. Right(Len(seq))
  <2>1. Len(seq) \in N
    BY <1>1, <1>8
  <2> HIDE DEF Right
  <2>2. QED  BY <1>1, <2>1
<1>10. Upto(Len(seq)) = ToSet(seq)
  BY <1>1 DEF ToSet
<1>11. QED  BY <1>4, <1>9, <1>10

-----------------------------------------------------------------------------
(* What a start makes of a config file *)

\* The iteration order of a hash map visits every key once.
LEMMA OrderFacts ==
  ASSUME NEW S, IsFiniteSet(S), NEW order \in SetToSeqs(S)
  PROVE  order \in Seq(S) /\ IsInjective(order) /\ ToSet(order) = S
<1> DEFINE c == Cardinality(S)
<1>1. c \in Nat
  BY FS_CardinalityType
<1>2. order \in [1..c -> S] /\ \A i, j \in 1..c : i # j => order[i] # order[j]
  BY DEF SetToSeqs
<1>3. IsFiniteSet(1..c) /\ Cardinality(1..c) = c
  BY <1>1, FS_Interval
<1> HIDE DEF c
<1>4. order \in Seq(S) /\ DOMAIN order = 1..c
  BY <1>1, <1>2
<1>5. IsInjective(order)
  BY <1>2 DEF IsInjective
<1>6. order \in Injection(1..c, S)
  BY <1>2, <1>5 DEF Injection
<1>7. order \in Surjection(1..c, S)
  BY <1>3, <1>6, FS_Injection DEF c
<1>8. ToSet(order) = S
  BY <1>2, <1>4, <1>7 DEF Surjection, ToSet
<1>9. QED  BY <1>4, <1>5, <1>8

\* A configuration in order: the providers in some order, with lists of models
\* that are records, and chains that are lists.
ModelList(models) ==
  models \in Seq(ToSet(models)) /\ \A m \in ToSet(models) : m = [id |-> m.id, tier |-> m.tier]
ConfigInOrder(c) ==
  /\ c.order \in Seq(DOMAIN c.models) /\ IsInjective(c.order) /\ ToSet(c.order) = DOMAIN c.models
  /\ \A p \in DOMAIN c.models : ModelList(c.models[p])
  /\ c.routes \in Seq(ToSet(c.routes))
  /\ \A e \in ToSet(c.routes) : e.chain \in Seq(ToSet(e.chain))

\* A list computed element by element is a list of what it holds.
LEMMA ListOf ==
  ASSUME NEW n \in Nat, NEW s, DOMAIN s = 1..n, s = [i \in 1..n |-> s[i]]
  PROVE  s \in Seq(ToSet(s)) /\ Len(s) = n
<1>1. \A i \in 1..n : s[i] \in ToSet(s)
  BY DEF ToSet
<1>2. s \in [1..n -> ToSet(s)]
  BY <1>1
<1>3. QED  BY <1>2

\* A sequence is the table of its elements.
LEMMA ListIs ==
  ASSUME NEW T, NEW s \in Seq(T)
  PROVE  Len(s) \in Nat /\ DOMAIN s = 1..Len(s) /\ s = [i \in 1..Len(s) |-> s[i]]
<1>1. Len(s) \in Nat /\ DOMAIN s = 1..Len(s)
  OBVIOUS
<1>2. s \in [1..Len(s) -> T]
  OBVIOUS
<1>3. QED  BY <1>1, <1>2

\* A sequence over any set is one over what it holds.
LEMMA OwnList ==
  ASSUME NEW T, NEW s \in Seq(T)
  PROVE  DOMAIN s = 1..Len(s) /\ Len(s) \in Nat /\ s \in Seq(ToSet(s))
<1>1. Len(s) \in Nat /\ DOMAIN s = 1..Len(s) /\ s = [i \in 1..Len(s) |-> s[i]]
  BY ListIs
<1>2. s \in Seq(ToSet(s))
  BY <1>1, ListOf
<1>3. QED  BY <1>1, <1>2

\* Every start makes such a configuration of the file.
LEMMA LoadInOrder ==
  ASSUME NEW f \in Files, NEW c \in Loads(f) PROVE ConfigInOrder(c)
<1>1. PICK order \in SetToSeqs(DOMAIN f.models), names \in SetToSeqs(DOMAIN f.routes), build \in Builds :
        c = Load(f, order, names, build)
  BY DEF Loads
<1>2. /\ c.models = [p \in DOMAIN f.models |-> LoadModels(f.models[p], build.loader)]
      /\ c.order = order /\ c.routes = LoadRoutes(f.routes, names)
  BY <1>1 DEF Load
<1>3. /\ IsFiniteSet(DOMAIN f.models) /\ IsFiniteSet(DOMAIN f.routes)
      /\ \A p \in DOMAIN f.models : f.models[p] \in Seq(ToSet(f.models[p]))
      /\ \A n \in DOMAIN f.routes : f.routes[n] \in Seq(ToSet(f.routes[n]))
  BY FilesAssumption
<1>4. c.order \in Seq(DOMAIN c.models) /\ IsInjective(c.order) /\ ToSet(c.order) = DOMAIN c.models
  BY <1>2, <1>3, OrderFacts
<1>5. ASSUME NEW p \in DOMAIN c.models PROVE ModelList(c.models[p])
  <2> DEFINE models == f.models[p]
             made == LoadModels(models, build.loader)
  <2>1. models \in Seq(ToSet(models)) /\ c.models[p] = made
    BY <1>2, <1>3, <1>5
  <2>2. DOMAIN models = 1..Len(models) /\ Len(models) \in Nat
    BY <2>1
  <2>3. made = [i \in 1..Len(models) |->
                  IF build.loader = "a2r" THEN TranspiledLoadModel(models[i]) ELSE LoadModel(models[i])]
    BY <2>2 DEF LoadModels
  <2> HIDE DEF models, made
  <2>4. \A m : /\ LoadModel(m) = [id |-> LoadModel(m).id, tier |-> LoadModel(m).tier]
               /\ TranspiledLoadModel(m) = [id |-> TranspiledLoadModel(m).id, tier |-> TranspiledLoadModel(m).tier]
    BY DEF LoadModel, TranspiledLoadModel
  <2>5. DOMAIN made = 1..Len(models) /\ made = [i \in 1..Len(models) |-> made[i]]
    BY <2>3
  <2>6. made \in Seq(ToSet(made))
    BY <2>2, <2>5, ListOf
  <2>7. \A i \in 1..Len(models) : made[i] = [id |-> made[i].id, tier |-> made[i].tier]
    <3> TAKE i \in 1..Len(models)
    <3>1. made[i] = TranspiledLoadModel(models[i]) \/ made[i] = LoadModel(models[i])
      BY <2>3
    <3>2. QED  BY <2>4, <3>1
  <2>8. QED  BY <2>1, <2>5, <2>6, <2>7 DEF ModelList, ToSet
<1>6. /\ c.routes \in Seq(ToSet(c.routes))
      /\ \A e \in ToSet(c.routes) : e.chain \in Seq(ToSet(e.chain))
  <2> DEFINE kept == Among(names, {n \in DOMAIN f.routes : f.routes[n] # <<>>})
             made == [i \in DOMAIN kept |-> [name |-> kept[i], chain |-> f.routes[kept[i]]]]
  <2>1. names \in Seq(DOMAIN f.routes)
    BY <1>3, OrderFacts
  <2>2. kept \in Seq(DOMAIN f.routes)
    BY <2>1, AmongFacts
  <2>3. c.routes = made
    BY <1>2 DEF LoadRoutes
  <2> HIDE DEF kept
  <2>4. DOMAIN kept = 1..Len(kept) /\ Len(kept) \in Nat /\ \A i \in 1..Len(kept) : kept[i] \in DOMAIN f.routes
    BY <2>2
  <2>5. DOMAIN made = 1..Len(kept) /\ made = [i \in 1..Len(kept) |-> made[i]]
    BY <2>4
  <2>6. \A i \in 1..Len(kept) : made[i].chain \in Seq(ToSet(made[i].chain))
    BY <1>3, <2>4
  <2> HIDE DEF made
  <2>7. made \in Seq(ToSet(made))
    BY <2>4, <2>5, ListOf
  <2>8. QED  BY <2>3, <2>5, <2>6, <2>7 DEF ToSet
<1>7. QED  BY <1>4, <1>5, <1>6 DEF ConfigInOrder

\* The invariant about routing: the last request was answered by the running
\* configuration.
RoutingInv ==
  /\ file \in Files /\ cfg \in Loads(file)
  /\ asked # NoQuery => chain = ResolveRequest(cfg, asked)

\* A start loads the file anew, a request is resolved, nothing else is touched.
LEMMA RoutingStep == RoutingInv /\ [RNext]_allVars => RoutingInv'
<1> SUFFICES ASSUME RoutingInv, [RNext]_allVars PROVE RoutingInv'
  OBVIOUS
<1>1. CASE Restart
  BY <1>1 DEF Restart, RoutingInv
<1>2. ASSUME NEW q \in Queries, Ask(q) PROVE RoutingInv'
  BY <1>2 DEF Ask, RoutingInv
<1>3. CASE Idle /\ UNCHANGED <<file, cfg>>
  BY <1>3 DEF Idle, RoutingInv
<1>4. ASSUME NEW name \in Stems, AskAsRole(name) PROVE RoutingInv'
  <2>1. chain' = ResolveRequest(cfg, asked') /\ UNCHANGED <<file, cfg>>
    BY <1>4 DEF AskAsRole
  <2>2. QED  BY <2>1 DEF RoutingInv
<1>5. CASE UNCHANGED allVars
  BY <1>5 DEF allVars, vars, RoutingInv
<1>6. QED  BY <1>1, <1>2, <1>3, <1>4, <1>5 DEF RNext, Next

\* The configuration is always one the file was loaded as, and the last request
\* was resolved with it (load_from_env, chat_completions).
THEOREM RoutingInvariant == RSpec => []RoutingInv
<1>1. RInit => RoutingInv
  BY DEF RInit, Init, RoutingInv
<1>2. QED  BY <1>1, RoutingStep, PTL DEF RSpec

-----------------------------------------------------------------------------
(* Chains *)

\* The models of a tier in a list.
LEMMA OfTierFacts ==
  ASSUME NEW models, ModelList(models), NEW tier
  PROVE  /\ OfTier(models, tier) \in Seq(ToSet(models))
         /\ \A i \in 1..Len(OfTier(models, tier)) :
              [id |-> OfTier(models, tier)[i].id, tier |-> tier] \in ToSet(models)
<1> DEFINE some == OfTier(models, tier)
<1>1. /\ some \in Seq(ToSet(models))
      /\ ToSet(some) = ToSet(models) \cap {m \in ToSet(models) : m.tier = tier}
  BY AmongFacts DEF OfTier, ModelList
<1> HIDE DEF some
<1>2. \A i \in 1..Len(some) : [id |-> some[i].id, tier |-> tier] \in ToSet(models)
  <2> TAKE i \in 1..Len(some)
  <2>1. some[i] \in ToSet(some)
    BY <1>1 DEF ToSet
  <2>2. some[i] \in ToSet(models) /\ some[i].tier = tier
    BY <1>1, <2>1
  <2>3. some[i] = [id |-> some[i].id, tier |-> some[i].tier]
    BY <2>2 DEF ModelList
  <2>4. QED  BY <2>2, <2>3
<1>3. QED  BY <1>1, <1>2 DEF some

\* What a chain derived for a tier must be.
Serving(c, p, tier) == OfTier(c.models[p], tier) # <<>>
Complete(c, tier, b) ==
  /\ b \in Seq(ToSet(b))
  /\ \A p \in DOMAIN c.models : Serving(c, p, tier) <=> \E i \in 1..Len(b) : b[i].provider = p
  /\ \A i \in 1..Len(b) : /\ b[i].provider \in DOMAIN c.models
                          /\ [id |-> b[i].model, tier |-> tier] \in ToSet(c.models[b[i].provider])
  /\ \A i, j \in 1..Len(b) : i # j /\ b[i].provider = b[j].provider => b[i].provider = c.default

\* What from_config derives for a tier is complete, for every configuration.
LEMMA DerivedComplete ==
  ASSUME NEW c, ConfigInOrder(c), NEW tier PROVE Complete(c, tier, DerivedChain(c, tier))
<1> DEFINE mine == OfTier(c.models[c.default], tier)
           own == IF c.default \in DOMAIN c.models THEN Candidates(c.default, mine) ELSE <<>>
           serves == {p \in DOMAIN c.models : Serving(c, p, tier)}
           others == Among(c.order, serves \ {c.default})
           first(p) == Head(OfTier(c.models[p], tier)).id
           rest == [i \in DOMAIN others |-> [provider |-> others[i], model |-> first(others[i])]]
<1>1. DerivedChain(c, tier) = own \o rest
  BY DEF DerivedChain, Serving
<1>2. \A p \in DOMAIN c.models :
        /\ OfTier(c.models[p], tier) \in Seq(ToSet(c.models[p]))
        /\ \A i \in 1..Len(OfTier(c.models[p], tier)) :
             [id |-> OfTier(c.models[p], tier)[i].id, tier |-> tier] \in ToSet(c.models[p])
  BY OfTierFacts DEF ConfigInOrder
<1>3. \A p \in DOMAIN c.models : Serving(c, p, tier) => [id |-> first(p), tier |-> tier] \in ToSet(c.models[p])
  <2> SUFFICES ASSUME NEW p \in DOMAIN c.models, Serving(c, p, tier)
               PROVE  [id |-> first(p), tier |-> tier] \in ToSet(c.models[p])
    OBVIOUS
  <2> DEFINE some == OfTier(c.models[p], tier)
  <2>1. some \in Seq(ToSet(c.models[p])) /\ some # <<>>
    BY <1>2 DEF Serving
  <2>2. \A i \in 1..Len(some) : [id |-> some[i].id, tier |-> tier] \in ToSet(c.models[p])
    BY <1>2
  <2>3. first(p) = Head(some).id
    OBVIOUS
  <2> HIDE DEF some, first
  <2>4. 1 \in 1..Len(some) /\ Head(some) = some[1]
    BY <2>1
  <2>5. QED  BY <2>2, <2>3, <2>4
<1> HIDE DEF first
<1>4. /\ own \in Seq(ToSet(own)) /\ Len(own) \in Nat
      /\ \A i \in 1..Len(own) : /\ own[i].provider = c.default /\ c.default \in DOMAIN c.models
                                /\ [id |-> own[i].model, tier |-> tier] \in ToSet(c.models[c.default])
      /\ c.default \in DOMAIN c.models => (Serving(c, c.default, tier) <=> Len(own) # 0)
  <2>1. CASE c.default \notin DOMAIN c.models
    <3>1. own = <<>>
      BY <2>1
    <3> HIDE DEF own
    <3>2. own \in Seq(ToSet(own)) /\ Len(own) = 0
      BY <3>1
    <3>3. QED  BY <2>1, <3>2
  <2>2. CASE c.default \in DOMAIN c.models
    <3>1. mine \in Seq(ToSet(c.models[c.default]))
          /\ \A i \in 1..Len(mine) : [id |-> mine[i].id, tier |-> tier] \in ToSet(c.models[c.default])
      BY <1>2, <2>2
    <3>2. Serving(c, c.default, tier) <=> mine # <<>>
      BY DEF Serving
    <3>3. own = Candidates(c.default, mine)
      BY <2>2
    <3> HIDE DEF mine, own
    <3>4. Len(mine) \in Nat /\ DOMAIN mine = 1..Len(mine) /\ (mine # <<>> <=> Len(mine) # 0)
      BY <3>1
    <3>5. own = [i \in 1..Len(mine) |-> [provider |-> c.default, model |-> mine[i].id]]
      BY <3>3, <3>4 DEF Candidates
    <3>6. DOMAIN own = 1..Len(mine) /\ own = [i \in 1..Len(mine) |-> own[i]]
      BY <3>5
    <3>7. own \in Seq(ToSet(own)) /\ Len(own) = Len(mine)
      BY <3>4, <3>6, ListOf
    <3>8. \A i \in 1..Len(own) : own[i].provider = c.default /\ own[i].model = mine[i].id
      BY <3>5, <3>7
    <3>9. QED  BY <2>2, <3>1, <3>2, <3>4, <3>7, <3>8
  <2>3. QED  BY <2>1, <2>2
<1>5. /\ others \in Seq(DOMAIN c.models) /\ IsInjective(others) /\ ToSet(others) = serves \ {c.default}
  BY AmongFacts DEF ConfigInOrder
<1> HIDE DEF own, others
<1>6. Len(others) \in Nat /\ DOMAIN others = 1..Len(others)
  BY <1>5
<1>7. /\ rest \in Seq(ToSet(rest)) /\ Len(rest) = Len(others)
      /\ \A i \in 1..Len(rest) : rest[i].provider = others[i] /\ rest[i].model = first(others[i])
  <2>1. DOMAIN rest = 1..Len(others) /\ rest = [i \in 1..Len(others) |-> rest[i]]
    BY <1>6
  <2>2. \A i \in 1..Len(others) : rest[i].provider = others[i] /\ rest[i].model = first(others[i])
    BY <1>6
  <2> HIDE DEF rest
  <2>3. rest \in Seq(ToSet(rest)) /\ Len(rest) = Len(others)
    BY <1>6, <2>1, ListOf
  <2>4. QED  BY <2>2, <2>3
<1> HIDE DEF rest
<1>8. \A i \in 1..Len(rest) : /\ rest[i].provider \in serves /\ rest[i].provider # c.default
                              /\ [id |-> rest[i].model, tier |-> tier] \in ToSet(c.models[rest[i].provider])
  <2> TAKE i \in 1..Len(rest)
  <2>1. others[i] \in serves /\ others[i] # c.default
    BY <1>5, <1>6, <1>7 DEF ToSet
  <2>2. QED  BY <1>3, <1>7, <2>1
<1>9. \A i, j \in 1..Len(rest) : rest[i].provider = rest[j].provider => i = j
  BY <1>5, <1>6, <1>7 DEF IsInjective
<1>10. \A p \in serves : p # c.default => \E i \in 1..Len(rest) : rest[i].provider = p
  <2> SUFFICES ASSUME NEW p \in serves, p # c.default PROVE \E i \in 1..Len(rest) : rest[i].provider = p
    OBVIOUS
  <2>1. p \in ToSet(others)
    BY <1>5
  <2>2. QED  BY <1>6, <1>7, <2>1 DEF ToSet
<1> DEFINE b == own \o rest
<1>11. /\ Len(b) = Len(own) + Len(rest) /\ Len(own) \in Nat /\ Len(rest) \in Nat
       /\ \A i \in 1..Len(own) : b[i] = own[i] /\ i \in 1..Len(b)
       /\ \A i \in 1..Len(rest) : b[Len(own) + i] = rest[i] /\ Len(own) + i \in 1..Len(b)
       /\ DOMAIN b = 1..Len(b) /\ b = [i \in 1..Len(b) |-> b[i]]
  <2> DEFINE T == ToSet(own) \cup ToSet(rest)
  <2>1. own \in Seq(T) /\ rest \in Seq(T)
    BY <1>4, <1>7
  <2> HIDE DEF T
  <2>2. b \in Seq(T) /\ Len(b) = Len(own) + Len(rest) /\ Len(own) \in Nat /\ Len(rest) \in Nat
    BY <2>1 DEF b
  <2>3. /\ \A i \in 1..Len(own) : b[i] = own[i]
        /\ \A i \in 1..Len(rest) : b[Len(own) + i] = rest[i]
    BY <2>1 DEF b
  <2>4. DOMAIN b = 1..Len(b) /\ b = [i \in 1..Len(b) |-> b[i]]
    BY <2>2, ListIs
  <2>5. /\ \A i \in 1..Len(own) : i \in 1..Len(b)
        /\ \A i \in 1..Len(rest) : Len(own) + i \in 1..Len(b)
    BY <2>2
  <2>6. QED  BY <2>2, <2>3, <2>4, <2>5
<1> HIDE DEF b
<1>12. \A i \in 1..Len(b) : \/ i \in 1..Len(own) /\ b[i] = own[i]
                            \/ i - Len(own) \in 1..Len(rest) /\ b[i] = rest[i - Len(own)]
  <2> SUFFICES ASSUME NEW i \in 1..Len(b), i \notin 1..Len(own)
               PROVE  i - Len(own) \in 1..Len(rest) /\ b[i] = rest[i - Len(own)]
    BY <1>11
  <2>1. i - Len(own) \in 1..Len(rest) /\ Len(own) + (i - Len(own)) = i
    BY <1>11
  <2>2. QED  BY <1>11, <2>1
<1>13. b \in Seq(ToSet(b))
  BY <1>11, ListOf
<1>14. ASSUME NEW p \in DOMAIN c.models
       PROVE  Serving(c, p, tier) <=> \E i \in 1..Len(b) : b[i].provider = p
  <2>1. ASSUME Serving(c, p, tier) PROVE \E i \in 1..Len(b) : b[i].provider = p
    <3>1. CASE p = c.default
      <4>1. 1 \in 1..Len(own)
        BY <1>4, <2>1, <3>1
      <4>2. QED  BY <1>4, <1>11, <3>1, <4>1
    <3>2. CASE p # c.default
      <4>1. PICK i \in 1..Len(rest) : rest[i].provider = p
        BY <1>10, <2>1, <3>2
      <4>2. QED  BY <1>11, <4>1
    <3>3. QED  BY <3>1, <3>2
  <2>2. ASSUME NEW i \in 1..Len(b), b[i].provider = p PROVE Serving(c, p, tier)
    <3>1. CASE i \in 1..Len(own) /\ b[i] = own[i]
      <4>1. p = c.default
        BY <1>4, <2>2, <3>1
      <4>2. Len(own) # 0
        BY <1>11, <3>1
      <4>3. QED  BY <1>4, <4>1, <4>2
    <3>2. CASE i - Len(own) \in 1..Len(rest) /\ b[i] = rest[i - Len(own)]
      BY <1>8, <2>2, <3>2
    <3>3. QED  BY <1>12, <3>1, <3>2
  <2>3. QED  BY <2>1, <2>2
<1>15. ASSUME NEW i \in 1..Len(b)
       PROVE  /\ b[i].provider \in DOMAIN c.models
              /\ [id |-> b[i].model, tier |-> tier] \in ToSet(c.models[b[i].provider])
  <2>1. CASE i \in 1..Len(own) /\ b[i] = own[i]
    BY <1>4, <2>1
  <2>2. CASE i - Len(own) \in 1..Len(rest) /\ b[i] = rest[i - Len(own)]
    BY <1>8, <2>2
  <2>3. QED  BY <1>12, <2>1, <2>2
<1>16. ASSUME NEW i \in 1..Len(b), NEW j \in 1..Len(b), i # j, b[i].provider = b[j].provider
       PROVE  b[i].provider = c.default
  <2>1. CASE i \in 1..Len(own) /\ b[i] = own[i]
    BY <1>4, <2>1
  <2>2. CASE j \in 1..Len(own) /\ b[j] = own[j]
    BY <1>4, <1>16, <2>2
  <2>3. CASE /\ i - Len(own) \in 1..Len(rest) /\ b[i] = rest[i - Len(own)]
             /\ j - Len(own) \in 1..Len(rest) /\ b[j] = rest[j - Len(own)]
    <3>1. i - Len(own) = j - Len(own)
      BY <1>9, <1>16, <2>3
    <3>2. QED  BY <1>11, <1>16, <3>1
  <2>4. QED  BY <1>12, <2>1, <2>2, <2>3
<1>17. Complete(c, tier, b)
  BY <1>13, <1>14, <1>15, <1>16 DEF Complete
<1>18. QED  BY <1>1, <1>17 DEF b

\* Whatever the configuration, a chain is a list.
LEMMA ChainIsList ==
  ASSUME NEW c, ConfigInOrder(c), NEW tier
  PROVE  Chain(c, tier) \in Seq(ToSet(Chain(c, tier)))
<1>1. CASE c.routes # <<>>
  <2> DEFINE named == Among(c.routes, {e \in ToSet(c.routes) : ParseName(e.name) = tier})
  <2>1. named \in Seq(ToSet(c.routes))
    BY AmongFacts DEF ConfigInOrder
  <2>2. Chain(c, tier) = IF named = <<>> THEN <<>> ELSE Last(named).chain
    BY <1>1 DEF Chain, ExplicitChain
  <2> HIDE DEF named
  <2>3. CASE named = <<>>
    <3>1. Chain(c, tier) = <<>>
      BY <2>2, <2>3
    <3>2. QED  BY <3>1
  <2>4. CASE named # <<>>
    <3>1. Last(named) \in ToSet(c.routes)
      BY <2>1, <2>4 DEF Last
    <3>2. QED  BY <2>2, <2>4, <3>1 DEF ConfigInOrder
  <2>5. QED  BY <2>3, <2>4
<1>2. CASE c.routes = <<>> /\ c.edition = "a2r"
  <2>1. Chain(c, tier) = <<>>
    BY <1>2 DEF Chain, TranspiledDerived
  <2>2. QED  BY <2>1
<1>3. CASE c.routes = <<>> /\ c.edition # "a2r"
  <2>1. Chain(c, tier) = DerivedChain(c, tier)
    BY <1>3 DEF Chain
  <2>2. QED  BY <2>1, DerivedComplete DEF Complete
<1>4. QED  BY <1>1, <1>2, <1>3

\* A set of numbers has a least one.
LEMMA LeastOne ==
  ASSUME NEW S \in SUBSET Nat, S # {} PROVE \E i \in S : \A j \in S : i <= j
<1> DEFINE R == OpToRel(<, Nat)
<1>1. IsWellFoundedOn(R, Nat)
  BY NatLessThanWellFounded
<1>2. \A a, b \in Nat : a < b => <<a, b>> \in R
  BY DEF OpToRel
<1> HIDE DEF R
<1>3. PICK i \in S : \A j \in S : ~(<<j, i>> \in R)
  BY <1>1, WFMin
<1>4. \A j \in S : ~(j < i)
  BY <1>2, <1>3
<1>5. QED  BY <1>4

\* What a concatenation has where.
LEMMA Concat ==
  ASSUME NEW T, NEW r \in Seq(T), NEW s \in Seq(T)
  PROVE  /\ r \o s \in Seq(T) /\ Len(r \o s) = Len(r) + Len(s)
         /\ \A i \in 1..Len(r) : (r \o s)[i] = r[i]
         /\ \A i \in 1..Len(s) : (r \o s)[Len(r) + i] = s[i]
OBVIOUS

\* One element moved to the front: nothing is lost and nothing twice.
Moved(b, k) == <<b[k]>> \o RemoveAt(b, k)
Permutes(at, b, d) ==
  /\ at \in [1..Len(b) -> 1..Len(b)]
  /\ \A i \in 1..Len(b) : d[i] = b[at[i]]
  /\ \A i, j \in 1..Len(b) : at[i] = at[j] => i = j
  /\ \A i \in 1..Len(b) : \E j \in 1..Len(b) : at[j] = i
Reordered(b, k, d) ==
  /\ Head(d) = b[k] /\ Tail(d) = RemoveAt(b, k)
  /\ d \in Seq(ToSet(b)) /\ Len(d) = Len(b)
  /\ \E at : Permutes(at, b, d)

\* The chain with its k-th candidate moved is such a rearrangement.
LEMMA MovedToFront ==
  ASSUME NEW b, b \in Seq(ToSet(b)), NEW k \in 1..Len(b)
  PROVE  Reordered(b, k, Moved(b, k))
<1> DEFINE d == Moved(b, k)
           T == ToSet(b)
           n == Len(b)
<1>1. b \in Seq(T) /\ n \in Nat /\ k \in 1..n /\ n = Len(b)
  OBVIOUS
<1> HIDE DEF T, n
<1> DEFINE x == b[k]
           r == SubSeq(b, 1, k - 1)
           s == SubSeq(b, k + 1, n)
<1>2. /\ x \in T /\ r \in Seq(T) /\ s \in Seq(T) /\ Len(r) = k - 1 /\ Len(s) = n - k
      /\ \A i \in 1..(k - 1) : r[i] = b[i]
      /\ \A i \in 1..(n - k) : s[i] = b[k + i]
  <2>1. x \in T
    BY <1>1
  <2>2. r \in Seq(T) /\ Len(r) = k - 1 /\ \A i \in 1..(k - 1) : r[i] = b[i]
    BY <1>1
  <2>3. s \in Seq(T) /\ Len(s) = n - k /\ \A i \in 1..(n - k) : s[i] = b[k + i]
    BY <1>1
  <2>4. QED  BY <2>1, <2>2, <2>3
<1>3. RemoveAt(b, k) = r \o s
  BY <1>1 DEF RemoveAt
<1> HIDE DEF x, r, s
<1>4. /\ r \o s \in Seq(T) /\ Len(r \o s) = n - 1
      /\ \A i \in 1..(n - 1) : (r \o s)[i] = IF i < k THEN b[i] ELSE b[i + 1]
  <2>2. /\ r \o s \in Seq(T) /\ Len(r \o s) = Len(r) + Len(s)
        /\ \A i \in 1..Len(r) : (r \o s)[i] = r[i]
        /\ \A i \in 1..Len(s) : (r \o s)[Len(r) + i] = s[i]
    <3>1. r \in Seq(T) /\ s \in Seq(T)
      BY <1>2
    <3>2. QED  BY <3>1, Concat
  <2> DEFINE t == r \o s
  <2>1. t \in Seq(T) /\ Len(t) = n - 1
    <3>1. t \in Seq(T) /\ Len(t) = Len(r) + Len(s)
      BY <2>2
    <3> HIDE DEF t
    <3>2. QED  BY <1>1, <1>2, <3>1
  <2>3. ASSUME NEW i \in 1..(n - 1) PROVE (r \o s)[i] = IF i < k THEN b[i] ELSE b[i + 1]
    <3>1. CASE i < k
      <4>1. i \in 1..(k - 1)
        BY <1>1, <3>1
      <4>2. QED  BY <1>2, <2>2, <3>1, <4>1
    <3>2. CASE ~(i < k)
      <4>1. i - (k - 1) \in 1..(n - k) /\ (k - 1) + (i - (k - 1)) = i /\ k + (i - (k - 1)) = i + 1
        BY <1>1, <3>2
      <4> DEFINE j == i - (k - 1)
      <4>2. (r \o s)[i] = s[j]
        <5>1. j \in 1..Len(s) /\ Len(r) + j = i
          BY <1>2, <4>1
        <5> HIDE DEF j
        <5>2. (r \o s)[Len(r) + j] = s[j]
          BY <2>2, <5>1
        <5>3. QED  BY <5>1, <5>2, Zenon
      <4>3. s[j] = b[i + 1]
        BY <1>2, <4>1
      <4>4. QED  BY <3>2, <4>2, <4>3
    <3>3. QED  BY <3>1, <3>2
  <2>4. QED  BY <2>1, <2>3
<1> DEFINE q == r \o s
<1>5. q \in Seq(T) /\ Len(q) = n - 1 /\ \A i \in 1..(n - 1) : q[i] = IF i < k THEN b[i] ELSE b[i + 1]
  BY <1>4
<1>6. d = <<x>> \o q
  BY <1>3 DEF x, Moved
<1> HIDE DEF q, d
<1>7. /\ Head(d) = x /\ Tail(d) = q /\ d \in Seq(T) /\ Len(d) = n
      /\ d[1] = x /\ \A i \in 2..n : d[i] = q[i - 1]
  <2>1. <<x>> \in Seq(T) /\ Len(<<x>>) = 1 /\ <<x>>[1] = x
    BY <1>2
  <2> DEFINE h == <<x>>
  <2>9. h \in Seq(T) /\ Len(h) = 1 /\ h[1] = x /\ d = h \o q
    BY <1>6, <2>1
  <2> HIDE DEF h
  <2>10. /\ d \in Seq(T) /\ Len(d) = Len(h) + Len(q)
         /\ \A i \in 1..Len(h) : d[i] = h[i]
         /\ \A i \in 1..Len(q) : d[Len(h) + i] = q[i]
    <3>1. /\ h \o q \in Seq(T) /\ Len(h \o q) = Len(h) + Len(q)
          /\ \A i \in 1..Len(h) : (h \o q)[i] = h[i]
          /\ \A i \in 1..Len(q) : (h \o q)[Len(h) + i] = q[i]
      <4>1. h \in Seq(T) /\ q \in Seq(T)
        BY <1>5, <2>9
      <4>2. QED  BY <4>1, Concat
    <3>2. QED  BY <2>9, <3>1, Zenon
  <2>2. d \in Seq(T) /\ Len(d) = 1 + (n - 1)
    BY <1>5, <2>9, <2>10
  <2>3. /\ d[1] = x
        /\ \A i \in 1..(n - 1) : d[1 + i] = q[i]
    BY <1>5, <2>9, <2>10
  <2>4. Len(d) = n
    BY <1>1, <2>2
  <2>5. \A i \in 2..n : d[i] = q[i - 1]
    <3> TAKE i \in 2..n
    <3>1. i - 1 \in 1..(n - 1) /\ 1 + (i - 1) = i
      BY <1>1
    <3>2. QED  BY <2>3, <3>1
  <2>6. Head(d) = x
    BY <1>1, <2>2, <2>3, <2>4
  <2>7. Tail(d) = q
    <3>1. Tail(d) \in Seq(T) /\ Len(Tail(d)) = n - 1 /\ \A i \in 1..(n - 1) : Tail(d)[i] = d[1 + i]
      BY <1>1, <2>2, <2>4
    <3>2. \A i \in 1..(n - 1) : Tail(d)[i] = q[i]
      BY <2>3, <3>1
    <3>3. Tail(d) = [i \in 1..(n - 1) |-> Tail(d)[i]] /\ q = [i \in 1..(n - 1) |-> q[i]]
      BY <1>5, <3>1, ListIs
    <3>4. QED  BY <3>2, <3>3
  <2>8. QED  BY <2>2, <2>3, <2>4, <2>5, <2>6, <2>7
<1> DEFINE at == [i \in 1..n |-> IF i = 1 THEN k ELSE IF i - 1 < k THEN i - 1 ELSE i]
<1>8. at \in [1..n -> 1..n]
  BY <1>1
<1>9. \A i \in 1..n : d[i] = b[at[i]]
  <2> TAKE i \in 1..n
  <2>1. CASE i = 1
    BY <1>7, <2>1 DEF x
  <2>2. CASE i # 1
    <3>1. i \in 2..n /\ i - 1 \in 1..(n - 1) /\ (i - 1) + 1 = i
      BY <1>1, <2>2
    <3>2. d[i] = IF i - 1 < k THEN b[i - 1] ELSE b[i]
      BY <1>5, <1>7, <3>1
    <3>3. QED  BY <2>2, <3>2
  <2>3. QED  BY <2>1, <2>2
<1>10. \A i, j \in 1..n : at[i] = at[j] => i = j
  BY <1>1
<1>11. \A i \in 1..n : \E j \in 1..n : at[j] = i
  <2> TAKE i \in 1..n
  <2>1. CASE i = k
    <3>1. 1 \in 1..n /\ at[1] = i
      BY <1>1, <2>1
    <3>2. QED  BY <3>1
  <2>2. CASE i < k
    <3>1. i + 1 \in 1..n /\ at[i + 1] = i
      BY <1>1, <2>2
    <3>2. QED  BY <3>1
  <2>3. CASE i > k
    <3>1. i \in 1..n /\ at[i] = i
      BY <1>1, <2>3
    <3>2. QED  BY <3>1
  <2>4. QED  BY <1>1, <2>1, <2>2, <2>3
<1> HIDE DEF at
<1>12. Permutes(at, b, d)
  BY <1>8, <1>9, <1>10, <1>11 DEF Permutes, n
<1>13. Reordered(b, k, d)
  BY <1>3, <1>7, <1>12 DEF Reordered, n, T, x, q
<1>14. QED  BY <1>13 DEF d

\* d is b for a preference.
Preferring(b, pref, d) ==
  \/ d = b /\ \A i \in 1..Len(b) : b[i].provider # pref
  \/ \E k \in 1..Len(b) : d = Moved(b, k) /\ b[k].provider = pref

\* A preference leaves the chain as it is or moves one of its candidates, of the
\* preferred provider if there is one, to the front.
LEMMA PreferredFacts ==
  ASSUME NEW c, ConfigInOrder(c), NEW tier, NEW pref
  PROVE  Preferring(Chain(c, tier), pref, Preferred(c, tier, pref))
<1> DEFINE b == Chain(c, tier)
           at == {i \in DOMAIN b : b[i].provider = pref}
           least == CHOOSE i \in at : \A j \in at : i <= j
<1>1. b \in Seq(ToSet(b))
  BY ChainIsList
<1>2. Preferred(c, tier, pref) = IF at = {} THEN b ELSE <<b[least]>> \o RemoveAt(b, least)
  BY DEF Preferred
<1> HIDE DEF b
<1>3. DOMAIN b = 1..Len(b) /\ at \in SUBSET Nat
  BY <1>1
<1>4. CASE at = {}
  BY <1>2, <1>3, <1>4 DEF b, Preferring
<1>5. CASE at # {}
  <2>1. \E i \in at : \A j \in at : i <= j
    BY <1>3, <1>5, LeastOne
  <2>2. least \in at
    BY <2>1
  <2> HIDE DEF least
  <2>3. least \in 1..Len(b) /\ b[least].provider = pref
    BY <1>3, <2>2
  <2>4. Preferred(c, tier, pref) = Moved(b, least)
    BY <1>2, <1>5 DEF Moved
  <2>5. QED  BY <2>3, <2>4 DEF b, Preferring
<1>6. QED  BY <1>4, <1>5

\* The first one may be moved as well: that changes nothing.
LEMMA FirstMoved ==
  ASSUME NEW b, b \in Seq(ToSet(b)), b # <<>>
  PROVE  1 \in 1..Len(b) /\ Head(b) = b[1] /\ RemoveAt(b, 1) = Tail(b)
<1> DEFINE T == ToSet(b)
<1>1. b \in Seq(T)
  OBVIOUS
<1> HIDE DEF T
<1>2. 1 \in 1..Len(b) /\ Head(b) = b[1] /\ Len(b) \in Nat
  BY <1>1
<1> DEFINE r == SubSeq(b, 1, 1 - 1)
           s == SubSeq(b, 1 + 1, Len(b))
<1>3. r = <<>> /\ s \in Seq(T) /\ Len(s) = Len(b) - 1 /\ \A i \in 1..(Len(b) - 1) : s[i] = b[i + 1]
  <2>1. r = <<>>
    BY <1>1, <1>2
  <2> PICK n \in Nat : n = Len(b)
    BY <1>2
  <2>2. SubSeq(b, 2, n) \in Seq(T) /\ Len(SubSeq(b, 2, n)) = n - 1
    BY <1>1, <1>2
  <2>3. \A i \in 1..(n - 1) : SubSeq(b, 2, n)[i] = b[i + 1]
    BY <1>1, <1>2
  <2>4. s = SubSeq(b, 2, n)
    OBVIOUS
  <2>5. QED  BY <2>1, <2>2, <2>3, <2>4
<1>4. RemoveAt(b, 1) = r \o s
  BY DEF RemoveAt
<1> HIDE DEF r, s
<1>5. RemoveAt(b, 1) = s
  BY <1>3, <1>4
<1>6. Tail(b) \in Seq(T) /\ Len(Tail(b)) = Len(b) - 1 /\ \A i \in 1..(Len(b) - 1) : Tail(b)[i] = b[i + 1]
  BY <1>1, <1>2
<1>7. /\ s = [i \in 1..(Len(b) - 1) |-> s[i]]
      /\ Tail(b) = [i \in 1..(Len(b) - 1) |-> Tail(b)[i]]
  BY <1>3, <1>6, ListIs
<1>8. s = Tail(b)
  BY <1>3, <1>6, <1>7
<1>9. QED  BY <1>2, <1>5, <1>8

\* How a tier was answered that has candidates.
LEMMA TierAnswered ==
  ASSUME RoutingInv, AskedTier, Chain(cfg, ParseName(asked.name)) # <<>>
  PROVE  ConfigInOrder(cfg) /\ chain = Preferred(cfg, ParseName(asked.name), asked.pref)
<1> DEFINE tier == ParseName(asked.name)
           b == Chain(cfg, tier)
           d == Preferred(cfg, tier, asked.pref)
<1>1. ConfigInOrder(cfg)
  BY LoadInOrder DEF RoutingInv
<1>2. chain = TierRequest(cfg, asked.name, asked.pref) /\ tier # NoTier
  BY DEF RoutingInv, AskedTier, ResolveRequest
<1>3. b \in Seq(ToSet(b)) /\ b # <<>>
  BY <1>1, ChainIsList
<1>4. Preferring(b, asked.pref, d)
  BY <1>1, PreferredFacts
<1>5. d # <<>>
  <2> HIDE DEF b, d
  <2>1. ASSUME NEW k \in 1..Len(b), d = Moved(b, k) PROVE d # <<>>
    <3>1. Reordered(b, k, d)
      BY <1>3, <2>1, MovedToFront
    <3>2. d \in Seq(ToSet(b)) /\ Len(d) = Len(b) /\ k \in 1..Len(b)
      BY <2>1, <3>1 DEF Reordered
    <3>3. QED  BY <1>3, <3>2
  <2>2. QED  BY <1>3, <1>4, <2>1 DEF Preferring
<1>6. QED  BY <1>1, <1>2, <1>5 DEF TierRequest

\* A preference reorders the chain of a tier and nothing else
\* (TierRouter::candidates_preferred).
THEOREM PreferenceReorders == RSpec => []PreferenceOnlyReorders
<1>1. RoutingInv => PreferenceOnlyReorders
  <2> DEFINE tier == ParseName(asked.name)
             b == Chain(cfg, tier)
  <2>1. SUFFICES ASSUME RoutingInv, AskedTier, b # <<>>
                 PROVE  /\ \E i \in DOMAIN b : RemoveAt(b, i) = Tail(chain) /\ b[i] = Head(chain)
                        /\ (\E i \in DOMAIN b : b[i].provider = asked.pref) => Head(chain).provider = asked.pref
    BY DEF PreferenceOnlyReorders
  <2>2. ConfigInOrder(cfg) /\ chain = Preferred(cfg, tier, asked.pref)
    BY <2>1, TierAnswered
  <2>3. b \in Seq(ToSet(b))
    BY <2>2, ChainIsList
  <2>4. Preferring(b, asked.pref, chain)
    BY <2>2, PreferredFacts
  <2> HIDE DEF b
  <2>5. DOMAIN b = 1..Len(b)
    BY <2>3
  <2>6. CASE chain = b /\ \A i \in 1..Len(b) : b[i].provider # asked.pref
    BY <2>1, <2>3, <2>5, <2>6, FirstMoved
  <2>7. ASSUME NEW k \in 1..Len(b), chain = Moved(b, k), b[k].provider = asked.pref
        PROVE  /\ \E i \in DOMAIN b : RemoveAt(b, i) = Tail(chain) /\ b[i] = Head(chain)
               /\ (\E i \in DOMAIN b : b[i].provider = asked.pref) => Head(chain).provider = asked.pref
    <3>1. Head(chain) = b[k] /\ Tail(chain) = RemoveAt(b, k)
      BY <2>3, <2>7, MovedToFront DEF Reordered
    <3>2. QED  BY <2>5, <2>7, <3>1
  <2>8. QED  BY <2>4, <2>6, <2>7 DEF Preferring
<1>2. QED  BY <1>1, RoutingInvariant, PTL

\* A derived chain has every provider that serves the tier, and nothing that does
\* not (TierRouter::from_config).
THEOREM DerivedChainsComplete == RSpec => []DerivedChainComplete
<1>1. RoutingInv => DerivedChainComplete
  <2> DEFINE tier == ParseName(asked.name)
             b == Chain(cfg, tier)
  <2>1. SUFFICES ASSUME RoutingInv, AskedTier, cfg.edition = "rust-ref", cfg.routes = <<>>,
                        \E p \in DOMAIN cfg.models : Serves(p, tier)
                 PROVE  /\ \A p \in DOMAIN cfg.models :
                             Serves(p, tier) <=> \E i \in DOMAIN chain : chain[i].provider = p
                        /\ \A i \in DOMAIN chain :
                             [id |-> chain[i].model, tier |-> tier] \in
                               {cfg.models[chain[i].provider][k] : k \in DOMAIN cfg.models[chain[i].provider]}
                        /\ \A i, j \in DOMAIN chain :
                             (i < j /\ chain[i].provider = chain[j].provider) => chain[i].provider = cfg.default
    BY DEF DerivedChainComplete
  <2>2. ConfigInOrder(cfg)
    BY <2>1, LoadInOrder DEF RoutingInv
  <2>3. b = DerivedChain(cfg, tier)
    BY <2>1 DEF Chain
  <2>4. Complete(cfg, tier, b)
    BY <2>2, <2>3, DerivedComplete
  <2>5. \A p : Serves(p, tier) <=> Serving(cfg, p, tier)
    BY DEF Serves, Serving
  <2>6. b # <<>>
    <3>1. \E i \in 1..Len(b) : TRUE
      BY <2>1, <2>4, <2>5 DEF Complete
    <3>2. b \in Seq(ToSet(b))
      BY <2>4 DEF Complete
    <3> HIDE DEF b
    <3>3. QED  BY <3>1, <3>2
  <2>7. chain = Preferred(cfg, tier, asked.pref)
    BY <2>1, <2>6, TierAnswered
  <2>8. Preferring(b, asked.pref, chain)
    BY <2>2, <2>7, PreferredFacts
  <2> HIDE DEF b
  <2>9. Complete(cfg, tier, chain) /\ DOMAIN chain = 1..Len(chain) /\ Len(chain) \in Nat
    <3>1. CASE chain = b
      BY <2>4, <3>1 DEF Complete
    <3>2. ASSUME NEW k \in 1..Len(b), chain = Moved(b, k)
          PROVE  Complete(cfg, tier, chain) /\ DOMAIN chain = 1..Len(chain) /\ Len(chain) \in Nat
      <4>1. b \in Seq(ToSet(b))
        BY <2>4 DEF Complete
      <4>2. Reordered(b, k, chain)
        BY <3>2, <4>1, MovedToFront
      <4>3. chain \in Seq(ToSet(b)) /\ Len(chain) = Len(b)
        BY <4>2 DEF Reordered
      <4> PICK at : Permutes(at, b, chain)
        BY <4>2 DEF Reordered
      <4>4. DOMAIN chain = 1..Len(chain) /\ Len(chain) \in Nat /\ chain \in Seq(ToSet(chain))
        BY <4>3, OwnList
      <4>9. /\ \A i \in 1..Len(chain) : at[i] \in 1..Len(b) /\ chain[i] = b[at[i]]
            /\ \A i, j \in 1..Len(chain) : i # j => at[i] # at[j]
            /\ \A i \in 1..Len(b) : \E j \in 1..Len(chain) : at[j] = i
        BY <4>3 DEF Permutes
      <4>10. /\ \A p \in DOMAIN cfg.models : Serving(cfg, p, tier) <=> \E i \in 1..Len(b) : b[i].provider = p
             /\ \A i \in 1..Len(b) :
                  /\ b[i].provider \in DOMAIN cfg.models
                  /\ [id |-> b[i].model, tier |-> tier] \in ToSet(cfg.models[b[i].provider])
             /\ \A i, j \in 1..Len(b) :
                  i # j /\ b[i].provider = b[j].provider => b[i].provider = cfg.default
        BY <2>4 DEF Complete
      <4>5. \A p \in DOMAIN cfg.models : Serving(cfg, p, tier) <=> \E i \in 1..Len(chain) : chain[i].provider = p
        <5> TAKE p \in DOMAIN cfg.models
        <5>1. Serving(cfg, p, tier) <=> \E i \in 1..Len(b) : b[i].provider = p
          BY <4>10
        <5>2. ASSUME NEW i \in 1..Len(b), b[i].provider = p PROVE \E j \in 1..Len(chain) : chain[j].provider = p
          <6> PICK j \in 1..Len(chain) : at[j] = i
            BY <4>9
          <6>1. chain[j] = b[at[j]]
            BY <4>9
          <6>2. chain[j].provider = p
            BY <5>2, <6>1
          <6>3. QED  BY <6>2
        <5>3. ASSUME NEW i \in 1..Len(chain), chain[i].provider = p PROVE \E j \in 1..Len(b) : b[j].provider = p
          <6>1. at[i] \in 1..Len(b) /\ chain[i] = b[at[i]]
            BY <4>9
          <6>2. b[at[i]].provider = p
            BY <5>3, <6>1
          <6>3. QED  BY <6>1, <6>2
        <5>4. QED  BY <5>1, <5>2, <5>3
      <4>6. \A i \in 1..Len(chain) :
              /\ chain[i].provider \in DOMAIN cfg.models
              /\ [id |-> chain[i].model, tier |-> tier] \in ToSet(cfg.models[chain[i].provider])
        <5> TAKE i \in 1..Len(chain)
        <5>1. at[i] \in 1..Len(b) /\ chain[i] = b[at[i]]
          BY <4>9
        <5>2. /\ b[at[i]].provider \in DOMAIN cfg.models
              /\ [id |-> b[at[i]].model, tier |-> tier] \in ToSet(cfg.models[b[at[i]].provider])
          BY <4>10, <5>1
        <5>3. QED  BY <5>1, <5>2, Zenon
      <4>7. \A i, j \in 1..Len(chain) :
              i # j /\ chain[i].provider = chain[j].provider => chain[i].provider = cfg.default
        <5> TAKE i, j \in 1..Len(chain)
        <5>1. /\ at[i] \in 1..Len(b) /\ chain[i] = b[at[i]] /\ at[j] \in 1..Len(b) /\ chain[j] = b[at[j]]
              /\ i # j => at[i] # at[j]
          BY <4>9
        <5>2. at[i] # at[j] /\ b[at[i]].provider = b[at[j]].provider => b[at[i]].provider = cfg.default
          BY <4>10, <5>1
        <5>3. QED  BY <5>1, <5>2, Zenon
      <4>8. QED  BY <4>4, <4>5, <4>6, <4>7 DEF Complete
    <3>3. QED  BY <2>8, <3>1, <3>2 DEF Preferring
  <2>10. \A i, j \in 1..Len(chain) : i < j => i # j
    BY <2>9
  <2>11. QED  BY <2>5, <2>9, <2>10 DEF Complete, ToSet
<1>2. QED  BY <1>1, RoutingInvariant, PTL

-----------------------------------------------------------------------------
(* The nearest tier *)

\* A gap is less than that of no model, and nothing for the tier itself.
LEMMA GapFacts ==
  \A t, d \in Tiers : Gap(t, d) \in Nat /\ Gap(t, d) < 2000 /\ (Gap(t, d) = 0 <=> t = d)
<1> SUFFICES ASSUME NEW t \in Tiers, NEW d \in Tiers
             PROVE  Gap(t, d) \in Nat /\ Gap(t, d) < 2000 /\ (Gap(t, d) = 0 <=> t = d)
  OBVIOUS
<1>1. \A x \in Tiers : TierOrder[x] \in 0..4
  BY DEF TierOrder, Tiers
<1>2. \A x, y \in Tiers : TierOrder[x] = TierOrder[y] => x = y
  BY DEF TierOrder, Tiers
<1> DEFINE a == TierOrder[t]
           b == TierOrder[d]
<1>3. a \in 0..4 /\ b \in 0..4 /\ (a = b <=> t = d)
  BY <1>1, <1>2
<1>4. Gap(t, d) = IF a >= b THEN a - b ELSE 1000 + (b - a)
  BY DEF Gap
<1> HIDE DEF a, b
<1>5. QED  BY <1>3, <1>4

\* A list of models whose tiers are known.
TieredList(models) == ModelList(models) /\ \A i \in 1..Len(models) : models[i].tier \in Tiers

\* The gaps of a list, and what key has to be to stand for them.
Gaps(models, desired) == [i \in 1..Len(models) |-> Gap(models[i].tier, desired)]

Graded(models, desired, key, n) ==
  /\ models \in Seq(ToSet(models)) /\ DOMAIN models = 1..n /\ n \in Nat /\ n = Len(models)
  /\ key \in [1..n -> Nat]
  /\ \A i \in 1..n : key[i] = Gap(models[i].tier, desired)
  /\ \A i \in 1..n : key[i] < 2000
  /\ \A i \in 1..n : key[i] = 0 <=> models[i].tier = desired

\* The gaps of a list of models are such numbers.
LEMMA TieredFacts ==
  ASSUME NEW models, TieredList(models), NEW desired \in Tiers
  PROVE  Graded(models, desired, Gaps(models, desired), Len(models))
<1>1. models \in Seq(ToSet(models))
  BY DEF TieredList, ModelList
<1>2. DOMAIN models = 1..Len(models) /\ Len(models) \in Nat
  BY <1>1, OwnList
<1> DEFINE key == Gaps(models, desired)
           n == Len(models)
<1>3. \A i \in 1..n : key[i] = Gap(models[i].tier, desired)
  BY DEF Gaps
<1>4. DOMAIN key = 1..n /\ key = [i \in 1..n |-> key[i]]
  BY DEF Gaps
<1> HIDE DEF key, n
<1>5. ASSUME NEW i \in 1..n PROVE key[i] \in Nat /\ key[i] < 2000 /\ (key[i] = 0 <=> models[i].tier = desired)
  <2>1. models[i].tier \in Tiers /\ key[i] = Gap(models[i].tier, desired)
    BY <1>3 DEF TieredList, n
  <2>2. QED  BY <2>1, GapFacts
<1>6. key \in [1..n -> Nat]
  BY <1>4, <1>5
<1>7. Graded(models, desired, key, n)
  BY <1>1, <1>2, <1>3, <1>5, <1>6 DEF Graded, n
<1>8. QED  BY <1>7 DEF key, n

\* The first of the smallest numbers among the first n.
LeastAt(key, n, i) ==
  /\ i \in 1..n
  /\ \A j \in 1..n : key[i] < key[j] \/ (key[i] = key[j] /\ i <= j)

\* There is only one.
LEMMA LeastOnce ==
  \A n \in Nat : \A key \in [1..n -> Nat] :
    \A i, j : LeastAt(key, n, i) /\ LeastAt(key, n, j) => i = j
<1> SUFFICES ASSUME NEW n \in Nat, NEW key \in [1..n -> Nat], NEW i, NEW j,
                    LeastAt(key, n, i), LeastAt(key, n, j)
             PROVE  i = j
  OBVIOUS
<1>1. i \in 1..n /\ j \in 1..n
  BY DEF LeastAt
<1>2. /\ key[i] < key[j] \/ (key[i] = key[j] /\ i <= j)
      /\ key[j] < key[i] \/ (key[j] = key[i] /\ j <= i)
  BY <1>1 DEF LeastAt
<1>3. key[i] \in Nat /\ key[j] \in Nat
  BY <1>1
<1>4. QED  BY <1>1, <1>2, <1>3

\* One number more.
LEMMA LeastStep ==
  \A n \in Nat : \A key \in [1..n -> Nat] : \A k \in Nat : k + 1 \in 1..n =>
    \A i : LeastAt(key, k, i) => /\ key[k + 1] < key[i] => LeastAt(key, k + 1, k + 1)
                                 /\ ~(key[k + 1] < key[i]) => LeastAt(key, k + 1, i)
<1> SUFFICES ASSUME NEW n \in Nat, NEW key \in [1..n -> Nat], NEW k \in Nat, k + 1 \in 1..n,
                    NEW i, LeastAt(key, k, i)
             PROVE  /\ key[k + 1] < key[i] => LeastAt(key, k + 1, k + 1)
                    /\ ~(key[k + 1] < key[i]) => LeastAt(key, k + 1, i)
  OBVIOUS
<1>1. /\ i \in 1..k /\ \A j \in 1..k : key[i] < key[j] \/ (key[i] = key[j] /\ i <= j)
  BY DEF LeastAt
<1>2. ASSUME NEW j \in 1..(k + 1) PROVE j \in 1..n /\ key[j] \in Nat /\ (j \in 1..k \/ j = k + 1)
  <2>1. j \in 1..n /\ (j \in 1..k \/ j = k + 1)
    OBVIOUS
  <2>2. QED  BY <2>1
<1>3. key[i] \in Nat /\ i \in 1..(k + 1) /\ key[k + 1] \in Nat
  BY <1>1, <1>2
<1>4. CASE key[k + 1] < key[i]
  <2>1. ASSUME NEW j \in 1..(k + 1) PROVE key[k + 1] < key[j] \/ (key[k + 1] = key[j] /\ k + 1 <= j)
    <3>1. CASE j \in 1..k
      <4>1. key[j] \in Nat
        BY <1>2
      <4>3. key[i] < key[j] \/ key[i] = key[j]
        BY <1>1, <3>1
      <4> DEFINE new == key[k + 1]
                 old == key[i]
                 this == key[j]
      <4>4. new \in Nat /\ old \in Nat /\ this \in Nat /\ new < old /\ (old < this \/ old = this)
        BY <1>3, <1>4, <4>1, <4>3
      <4> HIDE DEF new, old, this
      <4>5. new < this
        BY <4>4
      <4>2. QED  BY <4>5 DEF new, this
    <3>2. CASE j = k + 1
      BY <3>2
    <3>3. QED  BY <1>2, <3>1, <3>2
  <2>2. QED  BY <1>4, <2>1 DEF LeastAt
<1>5. CASE ~(key[k + 1] < key[i])
  <2>1. ASSUME NEW j \in 1..(k + 1) PROVE key[i] < key[j] \/ (key[i] = key[j] /\ i <= j)
    <3>1. CASE j \in 1..k
      BY <1>1, <3>1
    <3>2. CASE j = k + 1
      BY <1>1, <1>3, <1>5, <3>2
    <3>3. QED  BY <1>2, <3>1, <3>2
  <2>2. QED  BY <1>3, <1>5, <2>1 DEF LeastAt
<1>6. QED  BY <1>4, <1>5

\* g has the best of the first 0, 1, ..., n models.
Better(best, m, desired) ==
  IF Gap(m.tier, desired) < best.gap THEN [id |-> m.id, gap |-> Gap(m.tier, desired)] ELSE best
Bests(g, models, desired, n) ==
  g = [k \in 0..n |-> IF k = 0 THEN [id |-> NoModel, gap |-> 2000]
                      ELSE Better(g[k - 1], models[k], desired)]

\* The same, entry by entry.
Running(g, models, desired, n) ==
  /\ g[0] = [id |-> NoModel, gap |-> 2000]
  /\ \A k \in 1..n : g[k] = Better(g[k - 1], models[k], desired)

\* Every table is.
LEMMA BestByBest ==
  \A models, desired, g : \A n \in Nat : Bests(g, models, desired, n) => Running(g, models, desired, n)
<1> SUFFICES ASSUME NEW models, NEW desired, NEW g, NEW n \in Nat, Bests(g, models, desired, n)
             PROVE  Running(g, models, desired, n)
  OBVIOUS
<1> DEFINE none == [id |-> NoModel, gap |-> 2000]
<1>1. g = [k \in 0..n |-> IF k = 0 THEN none ELSE Better(g[k - 1], models[k], desired)]
  BY DEF Bests
<1> HIDE DEF none
<1>2. g[0] = none
  BY <1>1
<1>3. ASSUME NEW k \in 1..n PROVE g[k] = Better(g[k - 1], models[k], desired)
  <2>1. k \in 0..n /\ k # 0
    OBVIOUS
  <2>2. QED  BY <1>1, <2>1, Zenon
<1>4. QED  BY <1>2, <1>3 DEF none, Running

\* There is such a table for any number of models.
LEMMA BestsExist ==
  ASSUME NEW models, NEW desired
  PROVE  \A n \in Nat : \E g : Bests(g, models, desired, n)
<1> DEFINE none == [id |-> NoModel, gap |-> 2000]
           N == {n \in Nat : \E g : Bests(g, models, desired, n)}
<1>1. 0 \in N
  <2> DEFINE g == [k \in 0..0 |-> none]
  <2>1. Bests(g, models, desired, 0)
    BY DEF Bests
  <2>2. QED  BY <2>1
<1>2. ASSUME NEW n \in N PROVE n + 1 \in N
  <2>1. n \in Nat /\ \E g : Bests(g, models, desired, n)
    OBVIOUS
  <2> PICK g : Bests(g, models, desired, n)
    BY <2>1
  <2>2. g[0] = none /\ \A k \in 1..n : g[k] = Better(g[k - 1], models[k], desired)
    <3>1. Running(g, models, desired, n)
      BY <2>1, BestByBest
    <3>2. QED  BY <3>1 DEF Running
  <2> DEFINE more == Better(g[n], models[n + 1], desired)
             h == [k \in 0..(n + 1) |-> IF k = n + 1 THEN more ELSE g[k]]
             next == [k \in 0..(n + 1) |-> IF k = 0 THEN none ELSE Better(h[k - 1], models[k], desired)]
  <2> HIDE DEF none
  <2>3. \A k \in 0..(n + 1) : h[k] = IF k = 0 THEN none ELSE Better(h[k - 1], models[k], desired)
    <3> TAKE k \in 0..(n + 1)
    <3>1. CASE k = 0
      BY <3>1, <2>2
    <3>2. CASE k = n + 1
      <4>1. h[k] = more /\ h[k - 1] = g[n] /\ k # 0
        BY <3>2
      <4>2. QED  BY <3>2, <4>1
    <3>3. CASE k \in 1..n
      <4>1. h[k] = g[k] /\ h[k - 1] = g[k - 1] /\ k # 0
        BY <3>3
      <4>2. QED  BY <4>1, <3>3, <2>2
    <3>4. QED  BY <3>1, <3>2, <3>3
  <2>4. h = next
    BY <2>3
  <2>5. Bests(h, models, desired, n + 1)
    BY <2>4 DEF Bests, none
  <2>6. QED  BY <2>5
<1>3. N = Nat
  <2>1. N \in SUBSET Nat
    OBVIOUS
  <2> HIDE DEF N
  <2>2. QED  BY <1>1, <1>2, <2>1, SetInduction
<1>4. QED  BY <1>3

\* The table of the loop of the transpiled resolve_model_id.
Table(models, desired) ==
  CHOOSE g : g = [k \in 0..Len(models) |-> IF k = 0 THEN [id |-> NoModel, gap |-> 2000]
                                           ELSE Better(g[k - 1], models[k], desired)]
\* There is one, and the loop returns what it ends with.
LEMMA TableFacts ==
  \A models, desired : \A n \in Nat : n = Len(models) =>
    /\ TranspiledResolve(desired, models) = Table(models, desired)[n].id
    /\ Running(Table(models, desired), models, desired, n)
<1> SUFFICES ASSUME NEW models, NEW desired, NEW n \in Nat, n = Len(models)
             PROVE  /\ TranspiledResolve(desired, models) = Table(models, desired)[n].id
                    /\ Running(Table(models, desired), models, desired, n)
  OBVIOUS
<1>1. TranspiledResolve(desired, models) = Table(models, desired)[n].id
  BY DEF TranspiledResolve, Better, Table
<1>2. \E g : Bests(g, models, desired, n)
  BY BestsExist
<1>3. \E g : g = [k \in 0..Len(models) |-> IF k = 0 THEN [id |-> NoModel, gap |-> 2000]
                                           ELSE Better(g[k - 1], models[k], desired)]
  BY <1>2 DEF Bests
<1> DEFINE table == Table(models, desired)
<1>4. table = [k \in 0..Len(models) |-> IF k = 0 THEN [id |-> NoModel, gap |-> 2000]
                                        ELSE Better(table[k - 1], models[k], desired)]
  BY <1>3 DEF Table
<1> HIDE DEF table
<1>5. Bests(table, models, desired, n)
  BY <1>4 DEF Bests
<1>6. Running(table, models, desired, n)
  BY <1>5, BestByBest
<1>7. QED  BY <1>1, <1>6 DEF table

\* After k models it has the first of the smallest gap among them.
LEMMA LoopFindsNearest ==
  ASSUME NEW models, TieredList(models), models # <<>>, NEW desired \in Tiers
  PROVE  \E i : /\ LeastAt(Gaps(models, desired), Len(models), i)
                /\ TranspiledResolve(desired, models) = models[i].id
<1> DEFINE key == Gaps(models, desired)
           table == Table(models, desired)
           n == Len(models)
<1>10. Graded(models, desired, key, n)
  BY TieredFacts
<1> HIDE DEF n
<1>11. n \in Nat /\ n = Len(models) /\ models \in Seq(ToSet(models))
  BY <1>10 DEF Graded
<1>12. TranspiledResolve(desired, models) = table[n].id /\ Running(table, models, desired, n)
  BY <1>11, TableFacts
<1> HIDE DEF key, table
<1>1. /\ table[0] = [id |-> NoModel, gap |-> 2000]
      /\ \A k \in 1..n : table[k] = Better(table[k - 1], models[k], desired)
  BY <1>12 DEF Running
<1>2. key \in [1..n -> Nat] /\ \A k \in 1..n : key[k] = Gap(models[k].tier, desired) /\ key[k] < 2000
  BY <1>10 DEF Graded
<1>3. n # 0
  BY <1>11
<1>4. \A k \in 1..n : table[k] = IF key[k] < table[k - 1].gap THEN [id |-> models[k].id, gap |-> key[k]]
                                 ELSE table[k - 1]
  <2> TAKE k \in 1..n
  <2>1. table[k] = Better(table[k - 1], models[k], desired) /\ key[k] = Gap(models[k].tier, desired)
    BY <1>1, <1>2
  <2>2. QED  BY <2>1, Zenon DEF Better
<1> DEFINE found(k) == \E i : LeastAt(key, k, i) /\ table[k] = [id |-> models[i].id, gap |-> key[i]]
<1>5. ASSUME 1 \in 1..n PROVE found(1)
  <2>1. key[1] \in Nat /\ key[1] < 2000 /\ 1 - 1 = 0
    BY <1>2, <1>5
  <2>2. table[1] = [id |-> models[1].id, gap |-> key[1]]
    BY <1>1, <1>4, <1>5, <2>1
  <2>3. LeastAt(key, 1, 1)
    BY <2>1 DEF LeastAt
  <2>4. QED  BY <2>2, <2>3
<1>6. ASSUME NEW k \in Nat, k + 1 \in 1..n, found(k) PROVE found(k + 1)
  <2> PICK i : LeastAt(key, k, i) /\ table[k] = [id |-> models[i].id, gap |-> key[i]]
    BY <1>6
  <2> HIDE DEF found
  <2> DEFINE j == IF key[k + 1] < key[i] THEN k + 1 ELSE i
  <2>1. LeastAt(key, k + 1, j)
    <3>1. /\ key[k + 1] < key[i] => LeastAt(key, k + 1, k + 1)
          /\ ~(key[k + 1] < key[i]) => LeastAt(key, k + 1, i)
      <4>1. n \in Nat /\ key \in [1..n -> Nat] /\ k \in Nat /\ k + 1 \in 1..n /\ LeastAt(key, k, i)
        BY <1>2, <1>6, <1>11
      <4>2. QED  BY <4>1, LeastStep
    <3>2. QED  BY <3>1
  <2>2. table[k + 1] = IF key[k + 1] < table[k].gap THEN [id |-> models[k + 1].id, gap |-> key[k + 1]]
                       ELSE table[k]
    <3>1. k + 1 - 1 = k
      OBVIOUS
    <3>2. QED  BY <1>4, <1>6, <3>1
  <2>3. table[k + 1] = [id |-> models[j].id, gap |-> key[j]]
    <3>1. table[k].gap = key[i]
      OBVIOUS
    <3>2. CASE key[k + 1] < key[i]
      BY <2>2, <3>1, <3>2
    <3>3. CASE ~(key[k + 1] < key[i])
      BY <2>2, <3>1, <3>3
    <3>4. QED  BY <3>2, <3>3
  <2> HIDE DEF j
  <2>4. QED  BY <2>1, <2>3 DEF found
<1> HIDE DEF found
<1> DEFINE S == {k \in Nat : k \in 1..n => found(k)}
<1>7. S = Nat
  <2>1. S \in SUBSET Nat /\ 0 \in S
    OBVIOUS
  <2>2. ASSUME NEW k \in S PROVE k + 1 \in S
    <3>1. CASE k = 0
      BY <1>5, <3>1
    <3>2. CASE k # 0 /\ k + 1 \in 1..n
      <4>1. k \in Nat /\ k \in 1..n /\ found(k)
        BY <1>11, <3>2
      <4>2. found(k + 1)
        BY <1>6, <3>2, <4>1
      <4>3. QED  BY <4>1, <4>2
    <3>3. CASE k + 1 \notin 1..n
      BY <3>3
    <3>4. QED  BY <3>1, <3>2, <3>3
  <2> HIDE DEF S
  <2>3. QED  BY <2>1, <2>2, SetInduction
<1>8. found(n)
  <2>1. n \in 1..n
    BY <1>3, <1>11
  <2>2. QED  BY <1>7, <1>11, <2>1
<1>9. QED  BY <1>8, <1>12 DEF found, key, n

\* For any list and any tier the loop of the transpiled resolve_model_id finds the
\* model that the hand-written one finds as a minimum.
THEOREM SearchesAgree ==
  ASSUME NEW models, TieredList(models), NEW desired \in Tiers
  PROVE  TranspiledResolve(desired, models) = ResolveModelId(desired, models)
<1> DEFINE exact == OfTier(models, desired)
           key == Gaps(models, desired)
           n == Len(models)
<1>10. Graded(models, desired, key, n)
  BY TieredFacts
<1> HIDE DEF n
<1>1. models \in Seq(ToSet(models)) /\ DOMAIN models = 1..n /\ n \in Nat /\ n = Len(models)
  BY <1>10 DEF Graded
<1>5. key \in [1..n -> Nat]
  BY <1>10 DEF Graded
<1>6. \A i \in 1..n : key[i] = Gap(models[i].tier, desired)
  BY <1>10 DEF Graded
<1>7. \A i \in 1..n : key[i] = 0 <=> models[i].tier = desired
  BY <1>10 DEF Graded
<1>2. CASE models = <<>>
  <2>1. ResolveModelId(desired, models) = NoModel
    BY <1>2 DEF ResolveModelId
  <2>2. n = 0
    BY <1>1, <1>2
  <2>3. /\ TranspiledResolve(desired, models) = Table(models, desired)[0].id
        /\ Table(models, desired)[0] = [id |-> NoModel, gap |-> 2000]
    BY <1>1, <2>2, TableFacts DEF Running
  <2>4. QED  BY <2>1, <2>3
<1>3. CASE models # <<>>
  <2> PICK i : LeastAt(key, n, i) /\ TranspiledResolve(desired, models) = models[i].id
    BY <1>3, LoopFindsNearest DEF n
  <2>5. \A k : LeastAt(key, n, k) => i = k
    BY <1>1, <1>5, LeastOnce
  <2> HIDE DEF key
  <2>1. CASE exact # <<>>
    <3> DEFINE those == {m \in ToSet(models) : m.tier = desired}
               hits == {k \in 1..n : models[k].tier = desired}
    <3>1. ToSet(exact) = ToSet(models) \cap those /\ exact \in Seq(ToSet(models))
      BY <1>1, AmongFacts DEF OfTier
    <3>2. hits # {} /\ hits \in SUBSET Nat
      <4>1. ToSet(exact) # {}
        <5> HIDE DEF exact
        <5>1. exact[1] \in ToSet(exact)
          BY <2>1, <3>1 DEF ToSet
        <5>2. QED  BY <5>1
      <4>2. PICK m \in ToSet(models) : m.tier = desired
        BY <3>1, <4>1
      <4>3. QED  BY <1>1, <4>2 DEF ToSet
    <3> PICK k \in hits : \A j \in hits : k <= j
      BY <3>2, LeastOne
    <3>3. k \in 1..n /\ models[k].tier = desired
      OBVIOUS
    <3>4. \A j \in 1..n : models[j].tier = desired => k <= j
      OBVIOUS
    <3> HIDE DEF hits
    <3>5. models[k] \in those /\ \A j \in 1..(k - 1) : models[j] \notin those
      <4>1. \A j \in 1..(k - 1) : j \in 1..n /\ ~(k <= j)
        BY <1>1, <3>3
      <4>2. QED  BY <1>1, <3>3, <3>4, <4>1 DEF ToSet
    <3>6. Head(exact) = models[k]
      <4>1. \A l \in 1..Len(models) : (models[l] \in those /\ \A j \in 1..(l - 1) : models[j] \notin those)
              => Head(Among(models, those)) = models[l]
        BY <1>1, AmongFacts
      <4>2. exact = Among(models, those)
        BY DEF OfTier
      <4> HIDE DEF those, exact
      <4>3. QED  BY <1>1, <3>3, <3>5, <4>1, <4>2
    <3>7. LeastAt(key, n, k)
      <4>1. \A j \in 1..n : key[k] < key[j] \/ (key[k] = key[j] /\ k <= j)
        <5> TAKE j \in 1..n
        <5>1. key[k] = 0
          BY <1>7, <3>3
        <5>2. key[j] \in Nat
          BY <1>5
        <5>3. key[j] = 0 => k <= j
          BY <1>7, <3>4
        <5>4. QED  BY <5>1, <5>2, <5>3
      <4>2. QED  BY <3>3, <4>1 DEF LeastAt
    <3>8. i = k
      BY <2>5, <3>7
    <3>9. ResolveModelId(desired, models) = Head(exact).id
      BY <1>3, <2>1 DEF ResolveModelId
    <3> HIDE DEF exact
    <3>10. QED  BY <3>6, <3>8, <3>9
  <2>2. CASE exact = <<>>
    <3> DEFINE lowest(k) == \A j \in DOMAIN models :
                     \/ Gap(models[k].tier, desired) < Gap(models[j].tier, desired)
                     \/ /\ Gap(models[k].tier, desired) = Gap(models[j].tier, desired)
                        /\ k <= j
               best == CHOOSE k \in DOMAIN models : lowest(k)
    <3>1. ResolveModelId(desired, models) = models[best].id
      BY <1>3, <2>2 DEF ResolveModelId
    <3>2. \A k \in 1..n : lowest(k) <=> LeastAt(key, n, k)
      <4> TAKE k \in 1..n
      <4>1. lowest(k) <=> \A j \in 1..n : key[k] < key[j] \/ (key[k] = key[j] /\ k <= j)
        <5>1. \A j \in 1..n : /\ Gap(models[k].tier, desired) = key[k]
                              /\ Gap(models[j].tier, desired) = key[j]
          BY <1>6
        <5>2. QED  BY <1>1, <5>1
      <4> HIDE DEF lowest
      <4>2. QED  BY <4>1 DEF LeastAt
    <3> HIDE DEF lowest
    <3>3. i \in 1..n
      BY DEF LeastAt
    <3>4. best \in 1..n /\ lowest(best)
      BY <1>1, <3>2, <3>3
    <3> HIDE DEF best
    <3>5. i = best
      BY <2>5, <3>2, <3>4
    <3>6. QED  BY <3>1, <3>5
  <2>3. QED  BY <2>1, <2>2
<1>4. QED  BY <1>2, <1>3

-----------------------------------------------------------------------------
(* What stays over a restart *)

\* What a tier name is parsed to.
LEMMA ParsedNames ==
  /\ \A name : ParseName(name) # NoTier => ParseName(name) \in Tiers
  /\ \A name : ParseTier(name) \in Tiers
  /\ \A tier \in Tiers : ParseName(tier) = tier
<1>1. \A name : ParseName(name) # NoTier => ParseName(name) \in Tiers
  BY DEF ParseName, Tiers
<1>2. \A name : ParseTier(name) \in Tiers
  <2>1. DefaultTier \in Tiers
    BY DEF DefaultTier, Tiers
  <2>2. QED  BY <1>1, <2>1, Zenon DEF ParseTier
<1>3. \A tier \in Tiers : ParseName(tier) = tier
  BY DEF ParseName, Tiers
<1>4. QED  BY <1>1, <1>2, <1>3

\* Every model loaded has a tier, and everything has a name.
LEMMA LoadTiered ==
  ASSUME NEW f \in Files, NEW c \in Loads(f), NEW p \in DOMAIN c.models
  PROVE  /\ p # Untold /\ TieredList(c.models[p])
         /\ \A i \in 1..Len(c.models[p]) : c.models[p][i].id # NoModel
<1>1. PICK order \in SetToSeqs(DOMAIN f.models), names \in SetToSeqs(DOMAIN f.routes), build \in Builds :
        c = Load(f, order, names, build)
  BY DEF Loads
<1>2. c.models = [q \in DOMAIN f.models |-> LoadModels(f.models[q], build.loader)]
  BY <1>1 DEF Load
<1>3. p \in DOMAIN f.models /\ c.models[p] = LoadModels(f.models[p], build.loader)
  BY <1>2
<1>4. p # Untold /\ f.models[p] \in Seq(ToSet(f.models[p])) /\ \A m \in ToSet(f.models[p]) : m.id # NoModel
  BY <1>3, FilesAssumption
<1>5. ModelList(c.models[p])
  BY LoadInOrder DEF ConfigInOrder
<1> DEFINE models == f.models[p]
           made == c.models[p]
<1> HIDE DEF models, made
<1>6. DOMAIN models = 1..Len(models) /\ Len(models) \in Nat /\ \A i \in 1..Len(models) : models[i] \in ToSet(models)
  <2>1. models \in Seq(ToSet(models))
    BY <1>4 DEF models
  <2>2. QED  BY <2>1
<1>7. made = [i \in 1..Len(models) |->
                IF build.loader = "a2r" THEN TranspiledLoadModel(models[i]) ELSE LoadModel(models[i])]
  BY <1>3, <1>6 DEF LoadModels, models, made
<1>8. DOMAIN made = 1..Len(made) /\ DOMAIN made = 1..Len(models)
  <2>1. made \in Seq(ToSet(made))
    BY <1>5 DEF ModelList, made
  <2>2. DOMAIN made = 1..Len(made)
    BY <2>1
  <2>3. QED  BY <1>7, <2>2
<1>9. \A m : /\ LoadModel(m).id = m.id /\ LoadModel(m).tier \in Tiers
             /\ TranspiledLoadModel(m).id = m.id /\ TranspiledLoadModel(m).tier \in Tiers
  <2>1. "mid" \in Tiers
    BY DEF Tiers
  <2>2. QED  BY <2>1, ParsedNames DEF LoadModel, TranspiledLoadModel
<1>10. \A i \in 1..Len(made) : made[i].id # NoModel /\ made[i].tier \in Tiers
  <2> TAKE i \in 1..Len(made)
  <2>1. i \in 1..Len(models)
    BY <1>8
  <2>2. models[i].id # NoModel
    BY <1>4, <1>6, <2>1 DEF models
  <2>3. made[i] = TranspiledLoadModel(models[i]) \/ made[i] = LoadModel(models[i])
    BY <1>7, <2>1
  <2>4. QED  BY <1>9, <2>2, <2>3
<1>11. QED  BY <1>4, <1>5, <1>10 DEF TieredList, made

\* A tier_routing block is empty by its file, not by the order of a map.
LEMMA RoutesOfFile ==
  ASSUME NEW f \in Files, NEW c \in Loads(f)
  PROVE  c.routes = <<>> <=> \A n \in DOMAIN f.routes : f.routes[n] = <<>>
<1>1. PICK order \in SetToSeqs(DOMAIN f.models), names \in SetToSeqs(DOMAIN f.routes), build \in Builds :
        c = Load(f, order, names, build)
  BY DEF Loads
<1>2. c.routes = LoadRoutes(f.routes, names)
  BY <1>1 DEF Load
<1> DEFINE some == {n \in DOMAIN f.routes : f.routes[n] # <<>>}
           kept == Among(names, some)
           made == [i \in DOMAIN kept |-> [name |-> kept[i], chain |-> f.routes[kept[i]]]]
<1>3. names \in Seq(DOMAIN f.routes) /\ ToSet(names) = DOMAIN f.routes
  BY FilesAssumption, OrderFacts
<1>4. kept \in Seq(DOMAIN f.routes) /\ ToSet(kept) = DOMAIN f.routes \cap some
  BY <1>3, AmongFacts
<1>5. c.routes = made
  BY <1>2 DEF LoadRoutes
<1> HIDE DEF kept
<1>6. made = <<>> <=> kept = <<>>
  <2>1. DOMAIN made = DOMAIN kept
    OBVIOUS
  <2>2. DOMAIN kept = 1..Len(kept) /\ Len(kept) \in Nat
    BY <1>4
  <2>3. kept = <<>> <=> DOMAIN kept = {}
    BY <1>4
  <2>4. made = <<>> <=> DOMAIN made = {}
    BY <2>1, <2>2
  <2>5. QED  BY <2>1, <2>3, <2>4
<1>7. kept = <<>> <=> ToSet(kept) = {}
  <2>1. DOMAIN kept = 1..Len(kept) /\ Len(kept) \in Nat /\ (kept = <<>> <=> Len(kept) = 0)
    BY <1>4
  <2>2. ToSet(kept) = {kept[i] : i \in 1..Len(kept)}
    BY <2>1 DEF ToSet
  <2>3. Len(kept) = 0 => ToSet(kept) = {}
    BY <2>2
  <2>4. Len(kept) # 0 => kept[1] \in ToSet(kept)
    BY <2>1, <2>2
  <2>5. QED  BY <2>1, <2>3, <2>4
<1>8. QED  BY <1>4, <1>5, <1>6, <1>7

\* A default that the file names, or that is taken from it in its order.
LEMMA SameDefault ==
  ASSUME NEW f \in Files, NEW c \in Loads(f), NEW d \in Loads(f),
         f.default # Untold \/ (c.loader = "a2r" /\ d.loader = "a2r")
  PROVE  c.default = d.default
<1>1. PICK order \in SetToSeqs(DOMAIN f.models), names \in SetToSeqs(DOMAIN f.routes), build \in Builds :
        c = Load(f, order, names, build)
  BY DEF Loads
<1>2. PICK order2 \in SetToSeqs(DOMAIN f.models), names2 \in SetToSeqs(DOMAIN f.routes), build2 \in Builds :
        d = Load(f, order2, names2, build2)
  BY DEF Loads
<1>3. /\ c.default = DefaultProvider(f, order, c.loader)
      /\ d.default = DefaultProvider(f, order2, d.loader)
  BY <1>1, <1>2 DEF Load
<1>4. QED  BY <1>3 DEF DefaultProvider

\* The default provider's nearest model, whoever looks for it.
Direct(models, default, tier) ==
  IF default \notin DOMAIN models \/ ResolveModelId(tier, models[default]) = NoModel THEN <<>>
  ELSE <<[provider |-> default, model |-> ResolveModelId(tier, models[default])]>>

\* The fallback of either edition, with either ai-config.
LEMMA LegacyIsDirect ==
  ASSUME NEW f \in Files, NEW c \in Loads(f), NEW tier \in Tiers
  PROVE  LegacyChain(c, tier) = Direct(c.models, c.default, tier)
<1>1. CASE c.default \notin DOMAIN c.models
  BY <1>1 DEF LegacyChain, Direct
<1>2. CASE c.default \in DOMAIN c.models
  <2>1. TieredList(c.models[c.default])
    BY <1>2, LoadTiered
  <2>2. TranspiledResolve(tier, c.models[c.default]) = ResolveModelId(tier, c.models[c.default])
    BY <2>1, SearchesAgree
  <2>3. Nearest(c, tier, c.models[c.default]) = ResolveModelId(tier, c.models[c.default])
    BY <2>2, Zenon DEF Nearest
  <2>4. QED  BY <1>2, <2>3, Zenon DEF LegacyChain, Direct
<1>3. QED  BY <1>1, <1>2

\* A transpiled daemon derives no chain and falls back.
LEMMA FallbackPrimary ==
  ASSUME NEW f \in Files, NEW c \in Loads(f), NEW tier \in Tiers, tier # NoTier,
         c.routes = <<>>, c.edition = "a2r"
  PROVE  Primary(c, tier) = Direct(c.models, c.default, tier)
<1>1. Chain(c, tier) = <<>>
  BY DEF Chain, TranspiledDerived
<1>2. Preferred(c, tier, Untold) = <<>>
  <2>1. DOMAIN Chain(c, tier) = {}
    BY <1>1
  <2>2. {i \in DOMAIN Chain(c, tier) : Chain(c, tier)[i].provider = Untold} = {}
    BY <2>1
  <2>3. QED  BY <1>1, <2>2 DEF Preferred
<1>3. TierRequest(c, tier, Untold) = LegacyChain(c, tier)
  BY <1>2, ParsedNames DEF TierRequest
<1>4. TierRequest(c, tier, Untold) = Direct(c.models, c.default, tier)
  BY <1>3, LegacyIsDirect
<1>5. CASE Direct(c.models, c.default, tier) = <<>>
  BY <1>4, <1>5 DEF Primary, First
<1>6. CASE Direct(c.models, c.default, tier) # <<>>
  <2> PICK x : Direct(c.models, c.default, tier) = <<x>>
    BY <1>6 DEF Direct
  <2>1. Primary(c, tier) = <<x>>
    BY <1>4 DEF Primary, First
  <2>2. QED  BY <2>1
<1>7. QED  BY <1>5, <1>6

\* A hand-written daemon whose default provider serves the tier tries it first.
LEMMA DerivedPrimary ==
  ASSUME NEW f \in Files, NEW c \in Loads(f), NEW tier \in Tiers, tier # NoTier,
         c.routes = <<>>, c.edition # "a2r", c.default \in DOMAIN c.models, Serving(c, c.default, tier)
  PROVE  Primary(c, tier) = Direct(c.models, c.default, tier)
<1> DEFINE models == c.models[c.default]
           mine == OfTier(models, tier)
           b == DerivedChain(c, tier)
           x == [provider |-> c.default, model |-> Head(mine).id]
<1>1. ConfigInOrder(c)
  BY LoadInOrder
<1>2. TieredList(models) /\ \A i \in 1..Len(models) : models[i].id # NoModel
  BY LoadTiered
<1>3. mine # <<>> /\ mine \in Seq(ToSet(models))
  BY <1>2, OfTierFacts DEF Serving, TieredList
<1>4. models # <<>>
  <2>1. ToSet(<<>>) = {}
    BY DEF ToSet
  <2>2. ASSUME models = <<>> PROVE FALSE
    <3>1. mine \in Seq({})
      BY <1>3, <2>1, <2>2
    <3> HIDE DEF mine
    <3>2. QED  BY <1>3, <3>1
  <2>3. QED  BY <2>2
<1>5. ResolveModelId(tier, models) = Head(mine).id
  BY <1>3, <1>4 DEF ResolveModelId
<1>6. Head(mine).id # NoModel
  <2> HIDE DEF mine
  <2>1. Head(mine) \in ToSet(models)
    BY <1>3
  <2> HIDE DEF models
  <2>2. models \in Seq(ToSet(models))
    BY <1>2 DEF TieredList, ModelList
  <2>3. PICK i \in 1..Len(models) : Head(mine) = models[i]
    BY <2>1, <2>2 DEF ToSet
  <2>4. QED  BY <1>2, <2>3
<1>7. Direct(c.models, c.default, tier) = <<x>>
  <2> HIDE DEF mine
  <2>1. QED  BY <1>5, <1>6 DEF Direct
<1>8. b \in Seq(ToSet(b)) /\ b # <<>> /\ Head(b) = x
  <2> DEFINE own == Candidates(c.default, mine)
             serves == {p \in DOMAIN c.models : Serving(c, p, tier)}
             others == Among(c.order, serves \ {c.default})
             rest == [i \in DOMAIN others |->
                        [provider |-> others[i], model |-> Head(OfTier(c.models[others[i]], tier)).id]]
  <2>1. b = own \o rest
    BY DEF DerivedChain, Serving
  <2>2. others \in Seq(DOMAIN c.models)
    BY <1>1, AmongFacts DEF ConfigInOrder
  <2> HIDE DEF others, b
  <2>3. rest \in Seq(ToSet(rest))
    <3>1. DOMAIN others = 1..Len(others) /\ Len(others) \in Nat
      BY <2>2
    <3>2. DOMAIN rest = 1..Len(others) /\ rest = [i \in 1..Len(others) |-> rest[i]]
      BY <3>1
    <3> HIDE DEF rest
    <3>3. QED  BY <3>1, <3>2, ListOf
  <2> HIDE DEF mine, rest
  <2>4. DOMAIN mine = 1..Len(mine) /\ Len(mine) \in Nat /\ 1 \in 1..Len(mine) /\ Head(mine) = mine[1]
    BY <1>3
  <2>5. own = [i \in 1..Len(mine) |-> [provider |-> c.default, model |-> mine[i].id]]
    BY <2>4 DEF Candidates
  <2>6. DOMAIN own = 1..Len(mine) /\ own = [i \in 1..Len(mine) |-> own[i]] /\ own[1] = x
    BY <2>4, <2>5
  <2> HIDE DEF own, x
  <2>7. own \in Seq(ToSet(own)) /\ Len(own) = Len(mine)
    BY <2>4, <2>6, ListOf
  <2> DEFINE T == ToSet(own) \cup ToSet(rest)
  <2>8. own \in Seq(T) /\ rest \in Seq(T)
    BY <2>3, <2>7
  <2> HIDE DEF T
  <2>9. /\ own \o rest \in Seq(T) /\ Len(own \o rest) = Len(own) + Len(rest)
        /\ \A i \in 1..Len(own) : (own \o rest)[i] = own[i]
    BY <2>8, Concat
  <2>10. b \in Seq(T) /\ Len(b) = Len(own) + Len(rest) /\ b[1] = x /\ Len(rest) \in Nat
    BY <2>1, <2>4, <2>6, <2>7, <2>8, <2>9
  <2>11. b # <<>> /\ Head(b) = x
    BY <2>4, <2>7, <2>10
  <2>12. b \in Seq(ToSet(b))
    BY <2>10, OwnList
  <2>13. QED  BY <2>11, <2>12
<1>9. \A i \in 1..Len(b) : b[i].provider # Untold
  <2>1. \A i \in 1..Len(b) : b[i].provider \in DOMAIN c.models
    BY <1>1, DerivedComplete DEF Complete
  <2>2. \A p \in DOMAIN c.models : p # Untold
    BY LoadTiered
  <2> HIDE DEF b
  <2>3. QED  BY <2>1, <2>2
<1>10. Chain(c, tier) = b
  BY DEF Chain
<1>11. Preferred(c, tier, Untold) = b
  <2>1. DOMAIN b = 1..Len(b)
    BY <1>8
  <2> HIDE DEF b
  <2>2. {i \in DOMAIN Chain(c, tier) : Chain(c, tier)[i].provider = Untold} = {}
    BY <1>9, <1>10, <2>1
  <2>3. QED  BY <1>10, <2>2 DEF Preferred
<1> HIDE DEF b, x
<1>12. TierRequest(c, tier, Untold) = b
  BY <1>8, <1>11, ParsedNames DEF TierRequest
<1>13. QED  BY <1>7, <1>8, <1>12 DEF Primary, First

\* Starting again on the same file keeps the candidate a tier is tried on first
\* where the default provider serves the tier, and in the transpiled daemon
\* anyway (load_from_env, TierRouter::from_config).
THEOREM RestartsKeepPrimary == RSpec => RestartKeepsPrimary
<1>1. RoutingInv /\ RoutingInv' /\ [RNext]_allVars =>
        [(Settled(cfg) /\ Settled(cfg') /\ cfg.models = cfg'.models /\ cfg.routes = <<>>) =>
           \A tier \in Tiers :
             \/ Primary(cfg', tier) = Primary(cfg, tier)
             \/ /\ cfg.default \in DOMAIN cfg.models => ~Serves(cfg.default, tier)
                /\ "rust-ref" \in {cfg.edition, cfg'.edition}]_vars
  <2>1. SUFFICES ASSUME RoutingInv, RoutingInv', [RNext]_allVars, Settled(cfg), Settled(cfg'),
                        cfg.models = cfg'.models, cfg.routes = <<>>, NEW tier \in Tiers
                 PROVE  \/ Primary(cfg', tier) = Primary(cfg, tier)
                        \/ /\ cfg.default \in DOMAIN cfg.models => ~Serves(cfg.default, tier)
                           /\ "rust-ref" \in {cfg.edition, cfg'.edition}
    OBVIOUS
  <2>2. file' = file
    BY <2>1 DEF RNext, Next, Restart, Ask, AskAsRole, allVars, vars
  <2> DEFINE c == cfg
             d == cfg'
  <2>3. file \in Files /\ c \in Loads(file) /\ d \in Loads(file)
    BY <2>1, <2>2 DEF RoutingInv
  <2>4. c.default = d.default
    BY <2>1, <2>3, SameDefault DEF Settled
  <2>5. d.routes = <<>>
    BY <2>1, <2>3, RoutesOfFile
  <2>6. /\ c.edition \in {"a2r", "rust-ref"} /\ d.edition \in {"a2r", "rust-ref"}
    BY <2>3 DEF Loads, Load, Builds
  <2>7. CASE tier = NoTier
    <3>1. ParseName(tier) = NoTier
      BY <2>7, ParsedNames
    <3>2. QED  BY <3>1 DEF Primary, TierRequest
  <2>8. CASE tier # NoTier /\ c.edition = "a2r" /\ d.edition = "a2r"
    <3>1. Primary(c, tier) = Direct(c.models, c.default, tier) /\ Primary(d, tier) = Direct(d.models, d.default, tier)
      BY <2>1, <2>3, <2>5, <2>8, FallbackPrimary
    <3>2. QED  BY <2>1, <2>4, <3>1
  <2>9. CASE tier # NoTier /\ c.default \in DOMAIN c.models /\ Serves(c.default, tier)
    <3>1. Serving(c, c.default, tier) /\ Serving(d, d.default, tier) /\ d.default \in DOMAIN d.models
      BY <2>1, <2>4, <2>9 DEF Serves, Serving
    <3>2. Primary(c, tier) = Direct(c.models, c.default, tier)
      BY <2>1, <2>3, <2>9, <3>1, FallbackPrimary, DerivedPrimary
    <3>3. Primary(d, tier) = Direct(d.models, d.default, tier)
      BY <2>1, <2>3, <2>5, <2>9, <3>1, FallbackPrimary, DerivedPrimary
    <3>4. QED  BY <2>1, <2>4, <3>2, <3>3
  <2>10. QED  BY <2>6, <2>7, <2>8, <2>9
<1>2. QED  BY <1>1, RoutingInvariant, PTL DEF RSpec, RestartKeepsPrimary

=============================================================================
