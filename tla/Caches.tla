-------------------------------- MODULE Caches --------------------------------
(***************************************************************************)
(* Two tables read through Redis: carriers' API credentials and platform    *)
(* settings.  A reader that misses reads the row and fills the cache for    *)
(* five minutes; an administrator's save deletes the entry, after the       *)
(* commit for credentials and before it for settings.  Redis may fail at    *)
(* every call, and the failure is swallowed.                                *)
(*                                                                         *)
(* A row is the number of its last save, 0 when there is none (credentials  *)
(* are then empty, a setting has the caller's default).                     *)
(***************************************************************************)
EXTENDS Integers, FiniteSets

CONSTANTS
  Keys,      \* rows that are cached
  Settings,  \* those of platform_settings; the others are credentials
  Readers,   \* requests, pollers and quotes that read through the cache
  Admins,    \* requests that save
  MaxSaves   \* bound: saves

ASSUME CachesAssumption == Settings \subseteq Keys /\ MaxSaves \in Nat

VARIABLES
  row,    \* committed rows
  cache,  \* Redis
  read,   \* what each reader has found so far
  save,   \* how far each save has got
  lost    \* keys whose entry should have been deleted and was not

cacheVars == <<row, cache, read, save, lost>>

Saves == 0..MaxSaves
Miss == [val |-> -1, crossed |-> FALSE]
\* crossed (for the properties): a save went by between the read and the fill.
Entries == [val: Saves, crossed: BOOLEAN] \cup {Miss}
NoKey == "none"
NotReading == [at |-> "idle", key |-> NoKey, val |-> 0]
NotSaving == [at |-> "idle", key |-> NoKey]

CachesInit ==
  /\ row = [k \in Keys |-> 0]
  /\ cache = [k \in Keys |-> Miss]
  /\ read = [r \in Readers |-> NotReading]
  /\ save = [a \in Admins |-> NotSaving]
  /\ lost = {}

Put(k, entry) == cache' = [cache EXCEPT ![k] = entry] /\ lost' = lost \ {k}
Finds(r, at, k, v) == read' = [read EXCEPT ![r] = [at |-> at, key |-> k, val |-> v]]
Saving(a, at, k) == save' = [save EXCEPT ![a] = [at |-> at, key |-> k]]
IsSaving(at, k) == \E a \in Admins : save[a] = [at |-> at, key |-> k]
Saved(k) == row' = [row EXCEPT ![k] = @ + 1]
MaySave(k) == row[k] < MaxSaves

-----------------------------------------------------------------------------
(* Readers.                                                                  *)

Hit(r, k) ==
  /\ read[r].at = "idle" /\ cache[k] # Miss
  /\ Finds(r, "got", k, cache[k].val)
  /\ UNCHANGED <<row, cache, save, lost>>

\* A miss, or Redis does not answer.
ReadRow(r, k) ==
  /\ read[r].at = "idle"
  /\ Finds(r, "read", k, row[k])
  /\ UNCHANGED <<row, cache, save, lost>>

Fill(r) ==
  LET k == read[r].key IN
  /\ read[r].at = "read"
  /\ Finds(r, "got", k, read[r].val)
  /\ \/ Put(k, [val |-> read[r].val,
                crossed |-> read[r].val # row[k] \/ IsSaving("dropped", k)])
     \/ UNCHANGED <<cache, lost>>
  /\ UNCHANGED <<row, save>>

\* The quotes' markup reads the setting and does not fill the cache.
ReadOnly(r) ==
  /\ read[r].at = "read" /\ read[r].key \in Settings
  /\ Finds(r, "got", read[r].key, read[r].val)
  /\ UNCHANGED <<row, cache, save, lost>>

\* The query fails: the caller goes on with the environment's credentials.
ReadFails(r) ==
  /\ read[r].at = "read" /\ read[r].key \notin Settings
  /\ Finds(r, "got", read[r].key, 0)
  /\ UNCHANGED <<row, cache, save, lost>>

Use(r) ==
  /\ read[r].at = "got"
  /\ read' = [read EXCEPT ![r] = NotReading]
  /\ UNCHANGED <<row, cache, save, lost>>

\* setex: the entry lives five minutes.
Expire(k) ==
  /\ cache[k] # Miss
  /\ Put(k, Miss)
  /\ UNCHANGED <<row, read, save>>

-----------------------------------------------------------------------------
(* Saves of credentials: upsert, update, delete.                             *)

SaveCredentials(a, k) ==
  /\ save[a] = NotSaving /\ k \in Keys \ Settings /\ MaySave(k)
  /\ Saved(k)
  /\ Saving(a, "saved", k)
  /\ UNCHANGED <<cache, read, lost>>

\* Mutant of InvalidateCredentials: an endpoint that forgets to invalidate.
InvalidateCredentials_Forgotten(a) ==
  /\ save[a].at = "saved"
  /\ save' = [save EXCEPT ![a] = NotSaving]
  /\ UNCHANGED <<row, cache, read, lost>>

\* Redis may be away, or the process may die before it.
InvalidateCredentials(a) ==
  /\ save[a].at = "saved"
  /\ save' = [save EXCEPT ![a] = NotSaving]
  /\ \/ Put(save[a].key, Miss)
     \/ lost' = lost \cup {save[a].key} /\ UNCHANGED cache
  /\ UNCHANGED <<row, read>>

-----------------------------------------------------------------------------
(* Saves of settings: one transaction, which holds the row's lock.           *)

DropSetting(a, k) ==
  /\ save[a] = NotSaving /\ k \in Settings /\ MaySave(k)
  /\ ~IsSaving("dropped", k)
  /\ Saving(a, "dropped", k)
  /\ \/ Put(k, Miss)
     \/ lost' = lost \cup {k} /\ UNCHANGED cache
  /\ UNCHANGED <<row, read>>

CommitSetting(a) ==
  /\ save[a].at = "dropped"
  /\ Saved(save[a].key)
  /\ save' = [save EXCEPT ![a] = NotSaving]
  /\ UNCHANGED <<cache, read, lost>>

RollBackSetting(a) ==
  /\ save[a].at = "dropped"
  /\ save' = [save EXCEPT ![a] = NotSaving]
  /\ UNCHANGED <<row, cache, read, lost>>

-----------------------------------------------------------------------------
ReaderStep(r) ==
  \/ \E k \in Keys : Hit(r, k) \/ ReadRow(r, k)
  \/ Fill(r) \/ ReadOnly(r) \/ ReadFails(r) \/ Use(r)

AdminStep(a) ==
  \/ \E k \in Keys : SaveCredentials(a, k) \/ DropSetting(a, k)
  \/ InvalidateCredentials(a) \/ CommitSetting(a) \/ RollBackSetting(a)

CachesNext ==
  \/ \E r \in Readers : ReaderStep(r)
  \/ \E a \in Admins : AdminStep(a)
  \/ \E k \in Keys : Expire(k)

CachesSpec == CachesInit /\ [][CachesNext]_cacheVars

CachesTypeOK ==
  /\ row \in [Keys -> Saves]
  /\ cache \in [Keys -> Entries]
  /\ read \in [Readers -> [at: {"idle", "read", "got"}, key: Keys \cup {NoKey}, val: Saves]]
  /\ save \in [Admins -> [at: {"idle", "saved", "dropped"}, key: Keys \cup {NoKey}]]
  /\ lost \subseteq Keys

\* An entry differs from its row only while the save that made it old is about
\* to delete it, or when the delete failed, or when the save went by while the
\* reader that filled it was between its read and its write
\* (creds_cache.get_creds and invalidate_creds, PlatformSettingsRepository).
CachedIsCurrent ==
  \A k \in Keys : cache[k] # Miss /\ cache[k].val # row[k] =>
    cache[k].crossed \/ k \in lost \/ IsSaving("saved", k)
=============================================================================
