---------------------------- MODULE PolicyFiles ----------------------------
(***************************************************************************)
(* The policy files of the browser MCP server (mcp-server/server.js),      *)
(* sites.json and clients.json, the cache the server keeps of each, and    *)
(* the watcher that tells the connected clients that a list has changed.   *)
(*                                                                         *)
(* The operator edits a file in place, when it is for a while not JSON, or *)
(* replaces it.  The content is a version, and a version of sites.json     *)
(* allows an action on some sites, one of clients.json gives the client    *)
(* some sites (Allows, Scope).  A load is a stat and, if the time has      *)
(* changed, a read: the file may change in between.                        *)
(***************************************************************************)
EXTENDS Integers

CONSTANTS
  Sites,
  Allows,     \* version of sites.json -> the sites it allows the action on
  Scope,      \* version of clients.json -> the sites of the client
  MaxEdits,   \* bound: changes of each file
  NoRead

Files    == {"sites", "clients"}
Versions == 0..MaxEdits

ASSUME PolicyAssumption ==
  /\ MaxEdits \in Nat /\ NoRead \notin Int
  /\ Allows \in [Versions -> SUBSET Sites] /\ Scope \in [Versions -> SUBSET Sites]

VARIABLES
  file,       \* the files: version, time of modification, whether it is JSON
  cache,      \* _policyCache and _clientsCache: version and time
  reading,    \* the time stat returned, between stat and read of a load
  event,      \* a change that fs.watch has not reported yet
  debounce    \* _policyWatchDebounce is set

policyVars == <<file, cache, reading, event, debounce>>

PolicyInit ==
  /\ file = [f \in Files |-> [version |-> 0, mtime |-> 0, whole |-> TRUE]]
  /\ cache = [f \in Files |-> [version |-> 0, mtime |-> IF f = "clients" THEN 0 ELSE -1]]
  /\ reading = NoRead
  /\ event = FALSE /\ debounce = FALSE

PolicyTypeOK ==
  /\ file \in [Files -> [version : Versions, mtime : 0..MaxEdits, whole : BOOLEAN]]
  /\ cache \in [Files -> [version : Versions, mtime : -1..MaxEdits]]
  /\ reading \in {NoRead} \cup 0..MaxEdits
  /\ event \in BOOLEAN /\ debounce \in BOOLEAN

\* How often the files have changed.
Changes == file["sites"].mtime + file["clients"].mtime

-----------------------------------------------------------------------------
(* External: the operator.                                                 *)

Change(f, version, whole) ==
  /\ file[f].mtime < MaxEdits
  /\ file' = [file EXCEPT ![f] = [version |-> version, mtime |-> @.mtime + 1, whole |-> whole]]
  /\ event' = TRUE
  /\ UNCHANGED <<cache, reading, debounce>>

BeginWrite(f) == file[f].whole /\ Change(f, file[f].version, FALSE)

EndWrite(f) == ~file[f].whole /\ Change(f, file[f].version + 1, TRUE)

Replace(f) == file[f].whole /\ Change(f, file[f].version + 1, TRUE)

-----------------------------------------------------------------------------
(* _loadAndCacheJson.                                                      *)

\* statSync finds the time of the cached version.
Current(f) == cache[f].mtime = file[f].mtime

Stat(f) ==
  /\ reading = NoRead /\ ~Current(f)
  /\ reading' = file[f].mtime
  /\ UNCHANGED <<file, cache, event, debounce>>

(* Mutant: the time is taken after the read.                               *)
ReadLate(f) ==
  /\ reading # NoRead /\ file[f].whole
  /\ \/ cache' = [cache EXCEPT ![f] = [version |-> file[f].version, mtime |-> file[f].mtime]]
     \/ /\ file[f].mtime < MaxEdits
        /\ cache' = [cache EXCEPT ![f] = [version |-> file[f].version, mtime |-> file[f].mtime + 1]]
  /\ reading' = NoRead

\* The read and the parse; the version is kept under the time of the stat.
Read(f) ==
  /\ reading # NoRead /\ file[f].whole
  /\ cache' = [cache EXCEPT ![f] = [version |-> file[f].version, mtime |-> reading]]
  /\ reading' = NoRead

\* A load that ends: the caller goes on with cache'[f].
Load(f) ==
  /\ \/ reading = NoRead /\ Current(f) /\ UNCHANGED <<cache, reading>>
     \/ Read(f)
  /\ UNCHANGED <<file, event, debounce>>

\* JSON.parse throws, and the cache stays as it was.
LoadThrows(f) ==
  /\ reading # NoRead /\ ~file[f].whole
  /\ reading' = NoRead
  /\ UNCHANGED <<file, cache, event, debounce>>

-----------------------------------------------------------------------------
(* startPolicyWatcher.                                                     *)

\* Each report sets the timer anew.
Watch ==
  /\ event /\ event' = FALSE
  /\ debounce' = TRUE
  /\ UNCHANGED <<file, cache, reading>>

Elapse ==
  /\ debounce /\ debounce' = FALSE
  /\ UNCHANGED <<file, cache, reading, event>>

PolicyNext ==
  \/ \E f \in Files : \/ BeginWrite(f) \/ EndWrite(f) \/ Replace(f)
                     \/ Stat(f) \/ Load(f) \/ LoadThrows(f)
  \/ Watch \/ Elapse

PolicySpec == PolicyInit /\ [][PolicyNext]_policyVars

-----------------------------------------------------------------------------

(* A cached version is never kept for a newer file: while the times agree  *)
(* the versions do, so an edit that falls between the stat and the read is *)
(* seen by the next load, "so this stays fresh on every host" (server.js   *)
(* line 45).                                                               *)
NeverPinned ==
  \A f \in Files : Current(f) /\ file[f].whole => cache[f].version = file[f].version
=============================================================================
