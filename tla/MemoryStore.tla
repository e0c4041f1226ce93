----------------------------- MODULE MemoryStore -----------------------------
(***************************************************************************)
(* memoryStore.ts: the local file, rewritten by a rename, and with the     *)
(* Walrus backend the pointer file that names the last blob uploaded.  A   *)
(* blob is addressed by its content, so the pointer holds the state itself.*)
(* The pointer's file is not written atomically: a process that dies over  *)
(* it leaves a file that reads as none.                                    *)
(***************************************************************************)
EXTENDS AgentMemory

CONSTANTS
    NoBlob,    \* no pointer, no WALRUS_STATE_BLOB_ID
    Foreign    \* a state of another wallet or version

ASSUME StoreAssumption == NoBlob \notin AgentState /\ Foreign \notin AgentState /\ NoBlob # Foreign

VARIABLES cache, pointer

storeVars == <<cache, pointer>>

\* null for a state of another wallet or version
normalizeAgentState(s) == IF s = Foreign THEN NoBlob ELSE s

\* No file, or one that does not normalize: the empty state.
loadAgentState ==
    IF normalizeAgentState(cache) = NoBlob THEN createEmptyAgentState ELSE cache

resolveBlobId(fromEnv) == IF pointer # NoBlob THEN pointer ELSE fromEnv

\* The state the next load prefers to the cache, if any.
NextBlob(backend, fromEnv) ==
    IF backend = "walrus" THEN normalizeAgentState(resolveBlobId(fromEnv)) ELSE NoBlob

\* The blob wins over the cache and replaces it; a blob that is absent, of
\* another wallet, or cannot be read now, leaves the cache.
LoadBlob(state, backend, fromEnv) ==
    /\ state = NextBlob(backend, fromEnv)
    /\ state # NoBlob
    /\ cache' = state
    /\ UNCHANGED pointer

LoadCache(state) ==
    /\ state = loadAgentState
    /\ UNCHANGED storeVars

load(state, backend, fromEnv) == LoadBlob(state, backend, fromEnv) \/ LoadCache(state)

\* The synchronous part of every save.
saveAgentState(state) == cache' = state

\* The end of a durable save: the upload may fail, and then only the cache has
\* the state.
Uploaded(state) == pointer' \in {state, pointer} /\ UNCHANGED cache

\* A process dies over the pointer's file, or not.
CrashOverPointer(writing) == pointer' \in (IF writing THEN {pointer, NoBlob} ELSE {pointer}) /\ UNCHANGED cache
=============================================================================
