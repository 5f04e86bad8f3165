-------------------------- MODULE WorkspaceFilters --------------------------
(***************************************************************************)
(* The type and status filters of the workspace.  The selections live in   *)
(* the component and in sessionStorage, which also remembers the types the *)
(* catalog has ever named: a type that it names for the first time is      *)
(* selected.  Before its first answer the options are those the program    *)
(* knows by itself, and these are not remembered.                          *)
(***************************************************************************)
EXTENDS Naturals

CONSTANTS
    Types,              \* names of types
    UNTYPED_VALUE,      \* the synthetic one of the nodes without a type
    ALL_NODE_TYPES,     \* the types the program knows by itself
    Statuses,           \* names of statuses, the synthetic one included
    DEFAULT_STATUS_SELECTION,
    Unset               \* nothing stored, no answer yet

ASSUME FiltersAssumption ==
    /\ \A S \in (SUBSET Types) \cup (SUBSET Statuses) : S # Unset
    /\ ALL_NODE_TYPES \subseteq Types
    /\ UNTYPED_VALUE \in Types
    /\ DEFAULT_STATUS_SELECTION \subseteq Statuses

VARIABLES
    types,              \* the types in use, as the API knows them
    catalog,            \* useNodeTypes: the last answer
    selectedTypes, selectedStatuses,    \* state of the component
    typeFilter, known, statusFilter     \* sessionStorage

filters == <<types, catalog, selectedTypes, selectedStatuses, typeFilter, known, statusFilter>>

FiltersTypeOK ==
    /\ types \subseteq Types
    /\ catalog = Unset \/ catalog \subseteq Types
    /\ selectedTypes \subseteq Types
    /\ selectedStatuses \subseteq Statuses
    /\ typeFilter = Unset \/ typeFilter \subseteq Types
    /\ known \subseteq Types
    /\ statusFilter = Unset \/ statusFilter \subseteq Statuses

\* The types of an answer that are handed to the selection: the real ones.
liveTypeValues(answer) == answer \ {UNTYPED_VALUE}

loadSet(stored, fallback) == IF stored = Unset THEN fallback ELSE stored

FiltersInit ==
    /\ types \in SUBSET Types
    /\ catalog = Unset
    /\ selectedTypes = ALL_NODE_TYPES
    /\ selectedStatuses = DEFAULT_STATUS_SELECTION
    /\ typeFilter = Unset
    /\ known = {}
    /\ statusFilter = Unset

\* Mutant: every answer selects what is not selected, as before DiVoid #512.
DiscoverUnselected(live, prev) ==
    /\ known' = IF live = {} THEN known ELSE known \cup live
    /\ selectedTypes' = prev \cup live
    /\ typeFilter' = IF live \subseteq prev THEN typeFilter ELSE prev \cup live

\* The effect on the live types, with prev selected: what was never offered
\* before is selected, and everything offered is remembered.
Discover(live, prev) ==
    LET newlyDiscovered == live \ known IN
    /\ known' = IF live = {} THEN known ELSE known \cup live
    /\ selectedTypes' = prev \cup newlyDiscovered
    /\ typeFilter' = IF newlyDiscovered = {} THEN typeFilter ELSE prev \cup newlyDiscovered

\* Nodes come and go, and types with them.
TypesChange ==
    /\ \E T \in (SUBSET Types) \ {types} : types' = T
    /\ UNCHANGED <<catalog, selectedTypes, selectedStatuses, typeFilter, known, statusFilter>>

\* The catalog is fetched, for the first time or again.
CatalogArrives ==
    /\ catalog # types
    /\ catalog' = types
    /\ Discover(liveTypeValues(types), selectedTypes)
    /\ UNCHANGED <<types, selectedStatuses, statusFilter>>

\* The fallback until there is an answer.
Options == IF catalog = Unset THEN ALL_NODE_TYPES ELSE catalog

Toggled(S, x) == IF x \in S THEN S \ {x} ELSE S \cup {x}

toggleType(t) ==
    /\ t \in Options
    /\ selectedTypes' = Toggled(selectedTypes, t)
    /\ typeFilter' = Toggled(selectedTypes, t)
    /\ UNCHANGED <<types, catalog, selectedStatuses, known, statusFilter>>

toggleWorkspaceStatus(s) ==
    /\ selectedStatuses' = Toggled(selectedStatuses, s)
    /\ statusFilter' = Toggled(selectedStatuses, s)
    /\ UNCHANGED <<types, catalog, selectedTypes, typeFilter, known>>

\* The workspace is left and entered again; a reload loses the catalog as well.
Remount(reload) ==
    LET live == IF reload \/ catalog = Unset THEN {} ELSE liveTypeValues(catalog) IN
    /\ catalog' = IF reload THEN Unset ELSE catalog
    /\ Discover(live, loadSet(typeFilter, ALL_NODE_TYPES))
    /\ selectedStatuses' = loadSet(statusFilter, DEFAULT_STATUS_SELECTION)
    /\ UNCHANGED <<types, statusFilter>>

FiltersNext ==
    \/ TypesChange
    \/ CatalogArrives
    \/ \E t \in Types : toggleType(t)
    \/ \E s \in Statuses : toggleWorkspaceStatus(s)
    \/ \E reload \in BOOLEAN : Remount(reload)

FiltersSpec == FiltersInit /\ [][FiltersNext]_filters

-----------------------------------------------------------------------------
(* Properties                                                              *)

\* A type becomes selected by its own toggle, or because the catalog names it
\* for the first time ever, and never twice in that way: not by a later answer,
\* in which it may come and go, and not by leaving the workspace or loading the
\* page again.
SelectedOnce ==
    [][/\ known \subseteq known'
       /\ \A t \in selectedTypes' \ selectedTypes : toggleType(t) \/ t \in known' \ known]_filters

\* useWorkspaceFilters.ts: a type the user has deselected, from the catalog or
\* from the fallback before it, stays deselected.  The code does not keep it for
\* the latter.
DeselectedStays ==
    [][\A t \in (known \cup ALL_NODE_TYPES) \ selectedTypes :
           t \in selectedTypes' => toggleType(t)]_filters

=============================================================================
