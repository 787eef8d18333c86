----------------------------- MODULE RoleRegistry -----------------------------
(***************************************************************************)
(* The roles agents are built from: the built-in ones, compiled in, and    *)
(* the user's, one `<stem>.at` file each with an optional `<stem>.soul.md` *)
(* beside it. An application saves and deletes them through the registry   *)
(* (roles.rs), a user edits them by hand, and whoever builds an agent or   *)
(* lists the roles loads the directory anew (main.rs, spawn_pipeline.rs),  *)
(* so the registry itself is a value here and not a variable.              *)
(*                                                                         *)
(* A role file is a record                                                 *)
(*   name, inherit, prompt, append, model   a text or Untold               *)
(*   tier                                   a tier name or Untold          *)
(*   models, tools, more (tools_append)     a sequence or Untold           *)
(*   soul                                   the stem of the sidecar file   *)
(* tier stands for every field that is taken from the file, else from the  *)
(* inherited role, else from a default: temperature, turns, memory limit,  *)
(* skills; allowed tiers and budget, which the transpiled ConfigRole has   *)
(* no methods for and loses.  models stands for the thinking level, too.   *)
(*                                                                         *)
(* The directory exists and is readable. Two editions of the crate are     *)
(* modelled: "rust-ref", and "a2r", transpiled from the Auto sources.      *)
(***************************************************************************)
EXTENDS TierRouter, FiniteSets

CONSTANTS
  Builtins,   \* built-in name -> [prompt, tier, tools], as compiled in
  Stems,      \* the file stems considered, built-in names among them
  HandFiles,  \* the files a user writes by hand
  Edits,      \* what an application saves
  Texts,      \* the soul texts it saves
  NoFile, Broken,  \* no such file; a file that cannot be read or parsed
  NoRole      \* the answer None

VARIABLES
  crate,    \* the edition of the agent crate
  ats,      \* stem -> the .at file
  souls,    \* stem -> the sidecar file
  saved     \* stem -> what was last saved, NoFile once anything else wrote it

registryVars == <<crate, ats, souls, saved>>

Or(field, default) == IF field = Untold THEN default ELSE field

Fields == {"name", "inherit", "prompt", "append", "tier", "model", "models",
           "tools", "more", "soul"}

-----------------------------------------------------------------------------
(* Parsing, serializing and loading one file.                               *)

\* parse_at_role: an unknown tier name reads as no tier at all.
ParseRole(raw) ==
  IF raw.tier = Untold \/ ParseName(raw.tier) = NoTier
  THEN [raw EXCEPT !.tier = Untold]
  ELSE [raw EXCEPT !.tier = ParseName(raw.tier)]

\* The fields serialize_at_role emits, each only when it is set.
EmittedFields == Fields

SerializeRole(config) ==
  [f \in Fields |-> IF f \in EmittedFields THEN config[f] ELSE Untold]

\* The prompt of a role, as the parts joined by newlines.
Appended(prompt, config) ==
  IF config.append = Untold THEN <<prompt>> ELSE <<prompt, config.append>>

\* The tools of an inheriting role: its own, else the base's and its own extra.
\* No tools at all stands for all of them.
InheritedTools(config, base) ==
  IF config.tools # Untold THEN config.tools
  ELSE IF config.more # Untold THEN base.tools \o config.more
  ELSE base.tools

Inheriting(config, base) ==
  [prompt |-> Appended(base.prompt, config),
   tier   |-> Or(config.tier, base.tier),
   model  |-> config.model,
   models |-> Or(config.models, <<>>),
   tools  |-> InheritedTools(config, base)]

Standalone(config, prompt) ==
  [prompt |-> Appended(prompt, config),
   tier   |-> Or(config.tier, "mid"),
   model  |-> config.model,
   models |-> Or(config.models, <<>>),
   tools  |-> Or(config.tools, <<>>)]

\* load_role: an unknown base or a missing prompt is an error; the prompt of an
\* inheriting role is the base's whatever its own says.
LoadRole(raw) ==
  LET config == ParseRole(raw) IN
  IF config.inherit # Untold
  THEN IF config.inherit \in DOMAIN Builtins
       THEN Inheriting(config, Builtins[config.inherit]) ELSE NoRole
  ELSE IF config.prompt = Untold THEN NoRole
  ELSE Standalone(config, config.prompt)

\* The transpiled load_role checks the base and leaves the config as it is.
TranspiledLoads(raw) ==
  LET config == ParseRole(raw) IN
  config.inherit # Untold => config.inherit \in DOMAIN Builtins

\* config_role_new: a role without its base, and with an empty prompt when the
\* file has none.
TranspiledRole(config) == Standalone(config, Or(config.prompt, ""))

\* resolve_soul: the sidecar if there is one, else the inline prompt. The
\* transpiled one never sees a failed read and takes a missing file for an
\* empty text.
ResolveSoul(config) ==
  IF config.soul # Untold /\ souls[config.soul] # NoFile
  THEN [text |-> souls[config.soul], fromFile |-> TRUE]
  ELSE IF config.soul # Untold /\ crate = "a2r" THEN [text |-> "", fromFile |-> TRUE]
  ELSE [text |-> Or(config.prompt, ""), fromFile |-> FALSE]

-----------------------------------------------------------------------------
(* The registry.                                                            *)

\* profession_to_config and the detail of a built-in role.
BuiltinDetail(name) ==
  LET base == Builtins[name] IN
  [config |-> [name |-> name, inherit |-> Untold, prompt |-> base.prompt,
               append |-> Untold, tier |-> base.tier, model |-> Untold,
               models |-> Untold, more |-> Untold, soul |-> Untold,
               tools |-> IF base.tools = <<>> THEN Untold ELSE base.tools],
   soul |-> base.prompt, fromFile |-> FALSE, builtin |-> TRUE]

UserDetail(stem) ==
  LET config == ParseRole(ats[stem])  soul == ResolveSoul(config) IN
  [config |-> config, soul |-> soul.text, fromFile |-> soul.fromFile, builtin |-> FALSE]

Readable == {s \in Stems : ats[s] \notin {NoFile, Broken}}

\* The name a file goes by: its own, else its stem.
RoleName(stem) == Or(ats[stem].name, stem)

Claimed == {RoleName(s) : s \in Readable}

\* What load may return, name -> [config, soul, fromFile, builtin]: the built-in
\* roles, then the files in the order read_dir yields them, the last one of a
\* name winning.
Registries ==
  {[n \in DOMAIN Builtins \cup Claimed |->
      IF n \in Claimed THEN UserDetail(last[n]) ELSE BuiltinDetail(n)] :
     last \in {w \in [Claimed -> Readable] : \A n \in Claimed : RoleName(w[n]) = n}}

BuiltinRole(name) ==
  IF name \in DOMAIN Builtins
  THEN [prompt |-> <<Builtins[name].prompt>>, tier |-> Builtins[name].tier,
        model |-> Untold, models |-> <<>>, tools |-> Builtins[name].tools]
  ELSE NoRole

\* The config is emitted and loaded again; the transpiled edition only looks
\* whether that works, and builds the role from the config it has.
UserRole(config) ==
  LET source == SerializeRole(config) IN
  IF crate = "rust-ref" THEN LoadRole(source)
  ELSE IF TranspiledLoads(source) THEN TranspiledRole(config) ELSE NoRole

\* Faulty variant: a user role that does not load is not found.
ResolveNoFallback(roles, name) ==
  IF name \in DOMAIN roles /\ ~roles[name].builtin
  THEN UserRole(roles[name].config) ELSE BuiltinRole(name)

\* resolve_role: the user's role if it loads, else the built-in one.
ResolveRole(roles, name) ==
  IF name \in DOMAIN roles /\ ~roles[name].builtin
     /\ UserRole(roles[name].config) # NoRole
  THEN UserRole(roles[name].config) ELSE BuiltinRole(name)

-----------------------------------------------------------------------------
RegistryInit ==
  /\ crate \in {"rust-ref", "a2r"}
  /\ ats = [s \in Stems |-> NoFile]
  /\ souls = [s \in Stems |-> NoFile]
  /\ saved = [s \in Stems |-> NoFile]

\* Faulty variant: the name in the form wins over the one it is saved under.
NamedAsEdited(name, edit) == [edit EXCEPT !.name = Or(@, name)]
\* save: the config is renamed to what it is saved under.
Named(name, edit) == [edit EXCEPT !.name = name]

\* What save writes: with a soul, the config is linked to the sidecar.
ToWrite(name, edit, text) ==
  IF text = Untold THEN Named(name, edit) ELSE [Named(name, edit) EXCEPT !.soul = name]

\* Role files are records of these fields, none of which is one of the marks for
\* a file that is absent or broken, and no built-in role is the answer None.
ASSUME RoleAssumption ==
  /\ \A f \in HandFiles \cup Edits : f = [x \in Fields |-> f[x]]
  /\ \A s \in Stems, f \in Edits, text \in Texts \cup {Untold} :
       ToWrite(s, f, text) \notin {NoFile, Broken}
  /\ \A name \in DOMAIN Builtins : BuiltinRole(name) # NoRole

\* save: the sidecar first, then the .at file; a built-in name is refused.
Save(name, edit, text) ==
  LET config == ToWrite(name, edit, text) IN
  /\ name \notin DOMAIN Builtins
  /\ souls' = IF text = Untold THEN souls ELSE [souls EXCEPT ![name] = text]
  /\ ats' = [ats EXCEPT ![name] = SerializeRole(config)]
  /\ saved' = [saved EXCEPT ![name] = config]
  /\ UNCHANGED crate

\* save fails: at the sidecar, which it may have truncated, or at the .at
\* file, with the new soul already in place.
SaveFails(name, edit, text) ==
  /\ name \notin DOMAIN Builtins
  /\ \/ /\ text # Untold
        /\ souls' \in {souls, [souls EXCEPT ![name] = ""]}
        /\ UNCHANGED <<ats, saved>>
     \/ /\ souls' = IF text = Untold THEN souls ELSE [souls EXCEPT ![name] = text]
        /\ \/ UNCHANGED <<ats, saved>>
           \/ /\ ats' = [ats EXCEPT ![name] = Broken]
              /\ saved' = [saved EXCEPT ![name] = NoFile]
  /\ UNCHANGED crate

\* delete: the .at file and, at best, the sidecar, which goes even when there
\* is no .at file to delete; a built-in name is refused.
Delete(name) ==
  /\ name \notin DOMAIN Builtins
  /\ ats' = [ats EXCEPT ![name] = NoFile]
  /\ saved' = [saved EXCEPT ![name] = NoFile]
  /\ souls' \in {souls, [souls EXCEPT ![name] = NoFile]}
  /\ UNCHANGED crate

\* A user writes, spoils or removes a file, also one of a built-in name.
HandEdit(stem) ==
  /\ \E f \in HandFiles \cup {NoFile, Broken} : ats' = [ats EXCEPT ![stem] = f]
  /\ saved' = [saved EXCEPT ![stem] = NoFile]
  /\ UNCHANGED <<crate, souls>>

RegistryNext ==
  \/ \E name \in Stems, edit \in Edits, text \in Texts \cup {Untold} :
       Save(name, edit, text) \/ SaveFails(name, edit, text)
  \/ \E name \in Stems : Delete(name) \/ HandEdit(name)

=============================================================================
