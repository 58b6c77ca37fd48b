---------------------------- MODULE KeyRegistry ----------------------------
(***************************************************************************)
(* The trusted key registry (v4/key_registry.py) as pure operators.        *)
(*                                                                         *)
(* A registry is [version, entries], an entry [role, key, algorithm,       *)
(* window, status].  "key" stands for the pair (key_id, key_version) and a *)
(* window [from, until] for not_before / not_after; the public key is not  *)
(* looked at by any check.  Roles are named by the artifact whose bundle   *)
(* they sign, as COMPONENT_ROLES pairs them one to one.                    *)
(***************************************************************************)
EXTENDS VerificationErrors

CONSTANTS
    MaxRegistryEntries,   \* MAX_TRUSTED_REGISTRY_ENTRIES of v4/work_budget.py
    Roles,                \* SUPPORTED_ROLES
    Algorithms            \* the supported algorithms in canonical policy order

SupportedAlgorithms == {Algorithms[i] : i \in DOMAIN Algorithms}

\* Times are numbers, as parse_utc_timestamp orders them.
IsWindow(window) == window.from \in Int /\ window.until \in Int

During(t, window) == window.from =< t /\ t =< window.until
Proper(window) == window.from < window.until
Within(inner, outer) == During(inner.from, outer) /\ During(inner.until, outer)

Identity(e) == <<e.role, e.key, e.algorithm>>

\* load_key_registry on one raw entry: role, algorithm, window and status,
\* then the identity against the entries before it.
LoadEntryError(entries, i) ==
    LET e == entries[i] IN
    FirstError(<<
        Check(e.role \in Roles, {"key", "role"}),
        Check(e.algorithm \in SupportedAlgorithms, {"algorithm", "signature"}),
        Check(Proper(e.window), {"key", "validity"}),
        Check(e.status \in {"active", "revoked"}, {"key"}),
        Check(\A j \in 1..(i - 1) : Identity(entries[j]) # Identity(e),
              {"key", "registry"}) >>)

\* load_key_registry
RegistryError(registry) ==
    FirstError(<<
        Check(registry.version > 0, {"registry"}),
        Check(registry.entries # <<>>, {"registry"}),
        FirstError([i \in DOMAIN registry.entries |->
                       LoadEntryError(registry.entries, i)]) >>)

\* _require_loaded_registry_budget: the audited boundary loads a registry again
\* before it uses any of it, and only one it has the budget for.
LoadRegistryError(registry) ==
    FirstError(<<
        Check(registry.entries # <<>>, {"registry"}),
        Check(Len(registry.entries) =< MaxRegistryEntries, BudgetError),
        RegistryError(registry) >>)

FloorError(registry, minimum) ==
    Check(registry.version >= minimum, {"key", "registry"})

\* The entry find_key stops at: the first with the wanted identity.
Matches(registry, role, key, algorithm) ==
    {i \in DOMAIN registry.entries :
        Identity(registry.entries[i]) = <<role, key, algorithm>>}

FoundKey(registry, role, key, algorithm) ==
    registry.entries[Min(Matches(registry, role, key, algorithm))]

\* Faulty variant: the status of the key is not looked at.
FindKeyErrorAnyStatus(registry, role, key, algorithm, time, artifactWindow) ==
    IF ~ Proper(artifactWindow)
    THEN {"freshness"}
    ELSE IF Matches(registry, role, key, algorithm) = {}
    THEN {"key"}
    ELSE LET found == FoundKey(registry, role, key, algorithm) IN
         FirstError(<<
             Check(During(time, found.window), {"key", "time"}),
             Check(Within(artifactWindow, found.window), {"key", "validity"}) >>)

FindKeyError(registry, role, key, algorithm, time, artifactWindow) ==
    IF ~ Proper(artifactWindow)
    THEN {"freshness"}
    ELSE IF Matches(registry, role, key, algorithm) = {}
    THEN {"key"}
    ELSE LET found == FoundKey(registry, role, key, algorithm) IN
         FirstError(<<
             Check(found.status = "active", {"key"}),
             Check(During(time, found.window), {"key", "time"}),
             Check(Within(artifactWindow, found.window), {"key", "validity"}) >>)
=============================================================================
