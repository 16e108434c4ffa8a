---------------------------- MODULE SchemaCache -----------------------------
(***************************************************************************)
(* _assertion_schema of wrapping.py: the schema object behind              *)
(* functools.cache.                                                        *)
(*                                                                         *)
(* The decorator looks the result up, and on a miss calls the function     *)
(* with no lock held and stores what it returns: callers that miss while   *)
(* the cache is cold each build a schema.  What raises is not stored, so   *)
(* the next caller tries again.                                            *)
(***************************************************************************)
EXTENDS Naturals

CONSTANTS
  Callers,         \* the threads that may need the schema
  BundleMayFail    \* whether the vendored files may turn out unreadable

VARIABLES
  builds,          \* how many times a schema has been built and stored
  building         \* the callers inside the builder

cacheVars == <<builds, building>>

CacheTypeOK ==
  /\ builds \in Nat
  /\ building \subseteq Callers

CacheInit ==
  /\ builds = 0
  /\ building = {}

Cached == builds > 0

(* The lookup finds a schema.  What the caller does with it is its own.    *)
Hit(c) ==
  /\ Cached
  /\ c \notin building
  /\ UNCHANGED cacheVars

(* Mutant: the result is never stored, as without the decorator. *)
MissAlways(c) ==
  /\ c \notin building
  /\ building' = building \union {c}
  /\ UNCHANGED builds

Miss(c) ==
  /\ ~Cached
  /\ c \notin building
  /\ building' = building \union {c}
  /\ UNCHANGED builds

(* The builder returns, and the decorator stores the result. *)
Built(c) ==
  /\ c \in building
  /\ building' = building \ {c}
  /\ builds' = builds + 1

(* The builder raises SchemaBundleError. *)
BuildFailed(c) ==
  /\ BundleMayFail
  /\ c \in building
  /\ building' = building \ {c}
  /\ UNCHANGED builds

=============================================================================
