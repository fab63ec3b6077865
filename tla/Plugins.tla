------------------------------- MODULE Plugins -------------------------------
(***************************************************************************)
(* Checker plugins (plugins.py): those installed as entry points are       *)
(* discovered once and remembered, others are registered in the process,   *)
(* and a run of the engine asks each of them for findings.  A plugin that  *)
(* cannot be loaded or fails is a finding itself.                          *)
(*                                                                         *)
(* A checker is a record of its name, the distribution that provides it,   *)
(* what its check does (returns, raises midway, gives None, gives          *)
(* something foreign, gives too much) and the findings it had by then.     *)
(***************************************************************************)
EXTENDS Comparing

CONSTANT EntryPoints   \* installed checkers in order: [loads, checker]

ASSUME PluginsAssumption ==
    \A i \in DOMAIN EntryPoints : EntryPoints[i].loads \in BOOLEAN

-----------------------------------------------------------------------------
(* The registry: discovered is None until entry points are first asked for *)

EmptyRegistry == [disabled |-> FALSE, discovered |-> None, runtime |-> {}]

PluginFailure(checker, phase) ==
    Finding("OC9002", <<checker.name, checker.provider, phase>>)

NameTaken(acc, entry) == \E c \in acc.specs : c.name = entry.checker.name

\* Mutant: an entry point whose name is taken is passed over.
LoadedOnce(acc, entry) ==
    IF ~entry.loads
      THEN [acc EXCEPT !.failures = @ \cup {PluginFailure(entry.checker, "discovery")}]
    ELSE IF NameTaken(acc, entry) THEN acc
    ELSE [acc EXCEPT !.specs = @ \cup {entry.checker}]

Loaded(acc, entry) ==
    IF ~entry.loads \/ NameTaken(acc, entry)
      THEN [acc EXCEPT !.failures = @ \cup {PluginFailure(entry.checker, "discovery")}]
      ELSE [acc EXCEPT !.specs = @ \cup {entry.checker}]

DiscoverCheckers(registry) ==
    FoldLeft(Loaded, [specs |-> {}, failures |-> {}],
             IF registry.disabled THEN << >> ELSE EntryPoints)

Discovered(registry) ==
    IF registry.discovered # None THEN registry
    ELSE [registry EXCEPT !.discovered = DiscoverCheckers(registry)]

IsRegistered(registry, name) == \E c \in registry.runtime : c.name = name

(* A name that is registered is refused unless it may be replaced. *)
RegisterChecker(registry, checker) ==
    [registry EXCEPT !.runtime = {c \in @ : c.name # checker.name} \cup {checker}]

UnregisterChecker(registry, name) ==
    [registry EXCEPT !.runtime = {c \in @ : c.name # name}]

(* OPENCOLLATE_DISABLE_PLUGINS is set or removed. *)
SwitchPlugins(registry) == [registry EXCEPT !.disabled = ~@]

ResetDiscovery(registry, clear) ==
    [registry EXCEPT !.discovered = None,
                     !.runtime = IF clear THEN {} ELSE @]

-----------------------------------------------------------------------------
(* A run asks the checkers that were discovered and those registered when  *)
(* it began, one after another; their order, which is that of their names, *)
(* makes no difference.  Of a checker that fails no finding is kept.       *)

(* The registry after discovery. *)
ListedCheckers(registry) ==
    SetToSeq(registry.discovered.specs) \o SetToSeq(registry.runtime)

CheckerOutcome(checker) ==
    IF checker.does = "returns" THEN checker.findings
    ELSE {PluginFailure(checker, "execution")}

=============================================================================
