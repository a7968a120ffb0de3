-------------------------------- MODULE Symbols --------------------------------
(***************************************************************************)
(* The Symbols panel: SymbolsPanel, its DebugSymbolService (which also         *)
(* follows the active project by itself) and the ArtifactRepository.  Loading  *)
(* is asynchronous at two levels: a synchronization of the panel counts in     *)
(* syncGeneration, a load of the service in loadGeneration, and loads of one   *)
(* artifact join the read that is under way.  A row names its symbol by the    *)
(* generation of the service and its index.                                  *)
(***************************************************************************)
EXTENDS ViewLink

CONSTANTS Artifacts,   \* projects with a debug artifact
          Bare         \* a project without

ASSUME SymbolsAssumption == None \notin Artifacts /\ Bare \notin Artifacts \cup {None}

VARIABLES
    project,         \* ActiveProjectService: the active project, None if there is none
    disk,            \* version of each artifact's file
    syncGeneration,  \* SymbolsPanel
    resolving,       \* the synchronization that waits for a project to be resolved, 0 if none
    loadGeneration,  \* DebugSymbolService
    indexGeneration, \* DebugSymbolService: generation, part of every id
    index,           \* the index in force
    loading,         \* pending loads; version 0 until the file is read
    listed,          \* the webview: what its rows were made of, and their generation
    symStatus,       \* the webview: "empty", "loading", "ready" or "error"
    queried,         \* a query waits for its delay
    misled           \* history: an action took another symbol than its row showed

symVars == <<project, disk, syncGeneration, resolving, loadGeneration, indexGeneration,
             index, loading, listed, symStatus, queried, misled>>
symAll == <<link, wire, inbox, status, unheard, symVars>>
symService == <<loadGeneration, indexGeneration, index>>

Content(artifact, version) == [artifact |-> artifact, version |-> version]
Row(generation, content) == [generation |-> generation, content |-> content]
NoRows == Row(0, None)
----------------------------------------------------------------------------
(***************************************************************************)
(* DebugSymbolService and ArtifactRepository.                               *)
(***************************************************************************)
\* clear(), when `loads` loads and `ids` generations of ids have been counted.
ClearSymbols(loads, ids) ==
    /\ loadGeneration' = loads + 1 /\ index' = None /\ indexGeneration' = ids + 1

\* Bytes that a pending read of the artifact already has.
ReadSoFar(artifact) ==
    LET same == {l \in loading : l.artifact = artifact}
    IN  IF same = {} THEN 0 ELSE (CHOOSE l \in same : TRUE).version

\* repository.load for the load `number` of the service.
LoadOf(artifact, number, sync) ==
    [artifact |-> artifact, number |-> number, sync |-> sync, version |-> ReadSoFar(artifact)]

ReadFile ==
    /\ \E a \in {l.artifact : l \in loading} :
         /\ ReadSoFar(a) = 0
         /\ loading' = {IF l.artifact = a THEN [l EXCEPT !.version = disk[a]] ELSE l : l \in loading}
    /\ UNCHANGED <<link, wire, inbox, status, unheard, project, disk, syncGeneration, resolving, symService>>
    /\ UNCHANGED <<listed, symStatus, queried, misled>>

\* Mutant: ids do not change with the artifact's contents.
SameGeneration(content) ==
    indexGeneration

\* The generation of ids after a load: a new one for a new version.
GenerationFor(content) ==
    IF index = content THEN indexGeneration ELSE indexGeneration + 1
----------------------------------------------------------------------------
(***************************************************************************)
(* SymbolsPanel: synchronization.                                           *)
(***************************************************************************)
Post(state_, rows) == symStatus' = state_ /\ listed' = rows
PostEmpty(state_) == Post(state_, NoRows)

\* A synchronization starts while the panel can be seen; one that waited for a project
\* goes on even if it no longer can.
Starts == state' # "stopped" /\ (visible' \/ (resolving # 0 /\ project' # None))

\* syncSymbols after `loads` loads, of which `before` are pending; it reads the state and
\* the visibility as they are after the change that it reacts to.
Sync(loads, before, ids, content) ==
    /\ syncGeneration' = IF state' = "stopped" \/ visible' THEN syncGeneration + 1 ELSE syncGeneration
    /\ \/ /\ state' = "stopped" /\ ClearSymbols(loads, ids) /\ PostEmpty("empty")
          /\ loading' = before /\ resolving' = 0 /\ queried' = FALSE /\ UNCHANGED unheard
       \/ /\ ~Starts /\ state' # "stopped"
          /\ loadGeneration' = loads /\ index' = content /\ indexGeneration' = ids
          /\ loading' = before /\ UNCHANGED <<resolving, queried, symStatus, listed, unheard>>
       \/ /\ Starts /\ project' = None
          /\ loadGeneration' = loads /\ index' = content /\ indexGeneration' = ids
          /\ loading' = before /\ resolving' = syncGeneration'
          /\ UNCHANGED <<queried, symStatus, listed, unheard>>
       \/ /\ Starts /\ project' = Bare /\ ClearSymbols(loads, ids) /\ PostEmpty("empty")
          /\ loading' = before /\ resolving' = 0 /\ UNCHANGED <<queried, unheard>>
       \/ /\ Starts /\ project' \in Artifacts
          /\ loadGeneration' = loads + 1 /\ index' = content /\ indexGeneration' = ids
          /\ loading' = before \cup {LoadOf(project', loads + 1, syncGeneration')}
          /\ symStatus' = "loading" /\ unheard' = (ReadSoFar(project') \notin {0, disk[project']})
          /\ resolving' = 0 /\ UNCHANGED <<queried, listed>>

\* A change of project: the service clears and loads, then the panel synchronizes.
ProjectChanges(selected) ==
    LET follows == selected \in Artifacts
        number == loadGeneration + (IF follows THEN 2 ELSE 1)
    IN  /\ project' = selected
        /\ Sync(number, IF follows THEN loading \cup {LoadOf(selected, number, 0)} ELSE loading,
                indexGeneration + 1, None)

SelectProject ==
    /\ Event /\ UNCHANGED session
    /\ \E p \in Artifacts \cup {Bare, None} : p # project /\ ProjectChanges(p)
    /\ UNCHANGED <<wire, inbox, status, disk, misled>>

\* resolve() ends for the synchronization that waits for it, with or without a project.
Resolved ==
    /\ resolving # 0 /\ project = None /\ UNCHANGED link
    /\ \/ \E p \in Artifacts \cup {Bare} : ProjectChanges(p)
       \/ /\ resolving' = 0
          /\ ClearSymbols(loadGeneration, indexGeneration) /\ PostEmpty("empty")
          /\ UNCHANGED <<project, syncGeneration, loading, queried, unheard>>
    /\ UNCHANGED <<wire, inbox, status, disk, misled>>

\* The loads of one artifact end: the latest of the service counts, and the panel
\* shows what there is if its synchronization is the latest.
Loaded ==
    \E a \in {l.artifact : l \in loading} :
      LET done == {l \in loading : l.artifact = a}
          content == Content(a, ReadSoFar(a))
          current == \E l \in done : l.number = loadGeneration
          shows == \E l \in done : l.sync = syncGeneration
      IN  /\ ReadSoFar(a) # 0 /\ loading' = loading \ done
          /\ index' = IF current THEN content ELSE index
          /\ indexGeneration' = IF current THEN GenerationFor(content) ELSE indexGeneration
          /\ IF shows THEN Post("ready", Row(indexGeneration', index')) ELSE UNCHANGED <<symStatus, listed>>
          /\ UNCHANGED <<link, wire, inbox, status, unheard, project, disk>>
          /\ UNCHANGED <<syncGeneration, resolving, loadGeneration, queried, misled>>

LoadFails ==
    /\ Event
    /\ \E a \in {l.artifact : l \in loading} :
         LET done == {l \in loading : l.artifact = a}
         IN  /\ loading' = loading \ done
             /\ IF \E l \in done : l.sync = syncGeneration /\ l.number = loadGeneration
                THEN ClearSymbols(loadGeneration, indexGeneration) /\ PostEmpty("error")
                ELSE /\ UNCHANGED symService
                     /\ IF \E l \in done : l.sync = syncGeneration
                        THEN Post("ready", Row(indexGeneration, index)) ELSE UNCHANGED <<symStatus, listed>>
    /\ UNCHANGED <<session, wire, inbox, status, unheard, project, disk, syncGeneration, resolving>>
    /\ UNCHANGED <<queried, misled>>
----------------------------------------------------------------------------
(***************************************************************************)
(* SymbolsPanel: listeners and messages.                                    *)
(***************************************************************************)
\* The session's end clears; nobody synchronizes a visible panel when one begins.
SymStateChange ==
    /\ StateChange
    /\ UNCHANGED <<wire, inbox, status, project, disk, misled>>
    /\ IF state' = "stopped" THEN Sync(loadGeneration, loading, indexGeneration, index)
       ELSE /\ unheard' = (unheard \/ (state = "stopped" /\ visible))
            /\ UNCHANGED <<syncGeneration, resolving, queried, symStatus, listed, symService, loading>>

SymShownOrHidden ==
    /\ ShownOrHidden /\ UNCHANGED project
    /\ Sync(loadGeneration, loading, indexGeneration, index)
    /\ UNCHANGED <<wire, inbox, status, disk, misled>>

\* The webview asks when it is ready, and acts on one of its rows.
ClickSymbol ==
    /\ Event /\ visible /\ listed.content # None
    /\ inbox' = Append(inbox, Says("action", listed))
    /\ UNCHANGED <<session, wire, status, unheard, symVars>>

\* runAction: the symbol with this id, if there still is one.
ActsOnSymbol(row) ==
    misled' = (misled \/ (row.generation = indexGeneration /\ index # None /\ row.content # index))

OnSymbols ==
    /\ inbox # <<>> /\ inbox' = Tail(inbox) /\ UNCHANGED <<link, project, disk, wire, status>>
    /\ \/ /\ Head(inbox).type = "ready" /\ UNCHANGED misled
          /\ Sync(loadGeneration, loading, indexGeneration, index)
       \/ /\ Head(inbox).type = "action" /\ ActsOnSymbol(Head(inbox).arg)
          /\ UNCHANGED <<unheard, syncGeneration, resolving, symService, loading, listed, symStatus, queried>>

\* scheduleQuery, and what it posts 75 ms later.
TypeInSymbols ==
    /\ Event /\ visible /\ ~queried /\ queried' = TRUE
    /\ UNCHANGED <<session, wire, inbox, status, unheard, project, disk, syncGeneration, resolving>>
    /\ UNCHANGED <<symService, loading, listed, symStatus, misled>>

QueryPosted ==
    /\ queried /\ queried' = FALSE /\ listed' = Row(indexGeneration, index)
    /\ UNCHANGED <<link, wire, inbox, status, unheard, project, disk, syncGeneration, resolving>>
    /\ UNCHANGED <<symService, loading, symStatus, misled>>

\* The program is built again; no one is told.
Build ==
    /\ Event /\ \E a \in Artifacts : disk' = [disk EXCEPT ![a] = @ + 1]
    /\ unheard' = TRUE
    /\ UNCHANGED <<session, wire, inbox, status, project, syncGeneration, resolving, symService>>
    /\ UNCHANGED <<loading, listed, symStatus, queried, misled>>
----------------------------------------------------------------------------
SymInit ==
    /\ project \in (IF view = "symbols" THEN Artifacts \cup {None} ELSE {None})
    /\ disk = [a \in Artifacts |-> 1] /\ syncGeneration = 0 /\ resolving = 0
    /\ loadGeneration = 0 /\ indexGeneration = 0 /\ index = None /\ loading = {}
    /\ listed = NoRows /\ symStatus = "loading" /\ queried = FALSE /\ misled = FALSE

SymNext ==
    \/ SymStateChange \/ SymShownOrHidden \/ SelectProject \/ Resolved
    \/ ReadFile \/ Loaded \/ LoadFails
    \/ ClickSymbol \/ OnSymbols \/ TypeInSymbols \/ QueryPosted \/ Build

\* Files are read, messages and timers arrive; the choice of a project may be left open.
SymFairness == WF_symAll(view = "symbols" /\ (ReadFile \/ Loaded \/ OnSymbols \/ QueryPosted))

SymTypeOK ==
    /\ project \in Artifacts \cup {Bare, None} /\ disk \in [Artifacts -> Nat \ {0}]
    /\ resolving \in 0..syncGeneration /\ queried \in BOOLEAN
    /\ index # None => index \in [artifact : Artifacts, version : Nat \ {0}]
    /\ \A l \in loading : l.artifact \in Artifacts /\ l.version \in 0..disk[l.artifact]
                          /\ l.number \in 0..loadGeneration /\ l.sync \in 0..syncGeneration
    /\ symStatus \in {"empty", "loading", "ready", "error"}

\* Symbols are listed in a session only, and as ready only those of the active project.
SymbolsAreCurrent ==
    /\ listed.content # None => Connected
    /\ symStatus = "ready" /\ visible /\ project # None /\ listed.content # None =>
         listed.content.artifact = project

\* An action takes the symbol that its row shows.
SymbolActsOnTheRow == ~misled

\* The symbols of the active project's artifact are listed, with the ids in force.  If the
\* last synchronization was left out when the session began the panel is still empty, and
\* the version listed is of before when the artifact was built or being read meanwhile.
SymbolsAreUpToDate ==
    \/ symStatus = "error" \/ project \notin Artifacts
    \/ unheard /\ symStatus = "empty"
    \/ /\ symStatus = "ready" /\ listed.generation = indexGeneration
       /\ listed.content \in {Content(project, v) : v \in 1..disk[project]}
       /\ unheard \/ listed.content.version = disk[project]
=============================================================================
