------------------------------- MODULE Plugins -------------------------------
(***************************************************************************)
(* The rules of the plugins in the rules folder                            *)
(* (src/src/lib/plugins_engine.c): every file is loaded once, a rule whose *)
(* id is known already is left out.  The folder is read again whenever     *)
(* rules are added, so files may have come meanwhile.                      *)
(***************************************************************************)
EXTENDS Integers, FiniteSets, SequencesExt

CONSTANTS
  Files,      (* names of plugin files, numbers in alphabetical order       *)
  FileRules,  (* FileRules[f]: the ids of the rules in file f               *)
  Outdated    (* rules made for an older version of the library             *)

(* No file has two rules of one id: the compiler refuses them (rule.c:508). *)
ASSUME PluginsAssumption ==
  /\ IsFiniteSet(Files) /\ Files \subseteq Nat /\ DOMAIN FileRules = Files
  /\ \A f \in Files : FileRules[f] \in Seq(Nat) /\ IsInjective(FileRules[f])

VARIABLES
  folder,   (* the files in the rules folder                                *)
  plugins,  (* the plugins loaded: path and rules                           *)
  loaded    (* rules of plugins_engine.c: all rules loaded, by id           *)

pluginVars == <<folder, plugins, loaded>>

(* The numbers of a set in ascending order. *)
Ascending(S) ==
  [i \in 1 .. Cardinality(S) |-> CHOOSE x \in S : Cardinality({y \in S : y < x}) = i - 1]

(* What of a sequence is in a set, in the order of the sequence. *)
Only(s, S) == LET at == Ascending({k \in DOMAIN s : s[k] \in S}) IN [i \in DOMAIN at |-> s[at[i]]]

(* _find_plugin_has_rule_id: a rule that belongs to a plugin in the table. *)
HasRule(p, id) == \E i \in DOMAIN p : id \in ToSet(p[i].rules)

(* The rules of a file that are up to date and not known. *)
Fresh(p, f) ==
  Only(FileRules[f], {id \in ToSet(FileRules[f]) : id \notin Outdated /\ ~HasRule(p, id)})

(* _load_plugin_by_path: a file in the table is not opened again, and a file
   with nothing new does not enter it. *)
LoadFile(s, f) ==
  IF (\E i \in DOMAIN s.plugins : s.plugins[i].path = f) \/ Fresh(s.plugins, f) = <<>> THEN s
  ELSE [plugins |-> Append(s.plugins, [path |-> f, rules |-> Fresh(s.plugins, f)]),
        loaded  |-> s.loaded \o Fresh(s.plugins, f)]

(* load_mmt_sec_rules: the files of the folder in alphabetical order. *)
LoadRules(s, dir) == FoldLeft(LoadFile, s, Ascending(dir))

(* A file is copied into the folder while the program runs. *)
Install(f) ==
  /\ folder' = folder \cup {f}
  /\ UNCHANGED <<plugins, loaded>>

(* unload_mmt_sec_all_rules: _close_plugin frees each plugin and unmaps its code. *)
CloseAll ==
  /\ plugins' = <<>>
  /\ UNCHANGED <<folder, loaded>>

(* No id twice, and every rule belongs to the one plugin that brought it: a
   rule's id names it in all commands.  At the end all plugins are closed. *)
PluginsDisjoint ==
  /\ IsInjective(loaded)
  /\ \A i, j \in DOMAIN plugins :
       i # j => ToSet(plugins[i].rules) \cap ToSet(plugins[j].rules) = {}
  /\ plugins # <<>> => ToSet(loaded) = UNION {ToSet(plugins[i].rules) : i \in DOMAIN plugins}
=============================================================================
