----------------------------- MODULE TariffProofs -----------------------------
(***************************************************************************)
(* Prices, tariff tables and what is cached of them.                        *)
(*                                                                         *)
(* A parcel is charged for the next half kilogram of the larger of its       *)
(* weights, and within a band never less for being heavier.                 *)
(*                                                                         *)
(* An entry of the cache is current but for named reasons (CachesInv), alone*)
(* and among the quotes; the uploaded rows of a service are of one file,     *)
(* because an upload that is not late has switched off all of them          *)
(* (RatesInv); a recalculation repeats its quote, because what a quote read stays fresh *)
(* until the next edit (QuotesInv).                                         *)
(***************************************************************************)
EXTENDS Tariffs, TLAPS

\* A row with weights and prices that are not negative.
PricedRow == [zone: Int, from: Nat, to: Nat \cup {Open}, base: Nat, per: Nat,
              step: Nat \ {0}]

\* A quotient is the greatest number whose product does not exceed the dividend.
LEMMA Quotient ==
  ASSUME NEW n \in Nat, NEW d \in Nat \ {0}
  PROVE  /\ n \div d \in Nat
         /\ d * (n \div d) <= n
         /\ n < d * (n \div d) + d
BY Z3

LEMMA QuotientGrows ==
  ASSUME NEW m \in Nat, NEW n \in Nat, m <= n, NEW d \in Nat \ {0}
  PROVE  m \div d <= n \div d
<1> DEFINE p == m \div d
           q == n \div d
<1>1. p \in Nat /\ q \in Nat /\ d * p <= m /\ n < d * q + d
  BY Quotient
<1>2. SUFFICES ASSUME q + 1 <= p PROVE FALSE
  BY <1>1
<1> HIDE DEF p, q
<1>3. d * (q + 1) <= d * p
  BY <1>1, <1>2
<1>4. d * (q + 1) = d * q + d
  BY <1>1
<1>5. QED BY <1>1, <1>3, <1>4

-----------------------------------------------------------------------------
LEMMA StepsGrow ==
  ASSUME NEW m \in Nat, NEW n \in Nat, m <= n, NEW step \in Nat \ {0}
  PROVE  /\ StepsBegun(m, step) \in Nat /\ StepsBegun(n, step) \in Nat
         /\ StepsBegun(m, step) <= StepsBegun(n, step)
<1>1. m + step - 1 \in Nat /\ n + step - 1 \in Nat /\ m + step - 1 <= n + step - 1
  OBVIOUS
<1>2. QED BY <1>1, Quotient, QuotientGrows DEF StepsBegun

LEMMA ProductGrows ==
  ASSUME NEW a \in Nat, NEW b \in Nat, a <= b, NEW c \in Nat
  PROVE  a * c \in Nat /\ b * c \in Nat /\ a * c <= b * c
OBVIOUS

\* Within a band a heavier parcel costs no less, and never less than the base.
LEMMA RowPriceGrows ==
  ASSUME NEW r \in PricedRow, NEW k1 \in Nat, NEW k2 \in Nat, k1 <= k2
  PROVE  /\ RowPrice(r, k1) \in Nat /\ RowPrice(r, k2) \in Nat
         /\ r.base <= RowPrice(r, k1)
         /\ RowPrice(r, k1) <= RowPrice(r, k2)
<1>1. r.from \in Nat /\ r.base \in Nat /\ r.per \in Nat /\ r.step \in Nat \ {0}
  BY DEF PricedRow
<1>2. CASE r.per > 0 /\ k1 > r.from
  <2>1. k1 - r.from \in Nat /\ k2 - r.from \in Nat /\ k1 - r.from <= k2 - r.from
        /\ k2 > r.from
    BY <1>1, <1>2
  <2> DEFINE s1 == StepsBegun(k1 - r.from, r.step)
             s2 == StepsBegun(k2 - r.from, r.step)
  <2>2. s1 \in Nat /\ s2 \in Nat /\ s1 <= s2
    BY <1>1, <2>1, StepsGrow
  <2>3. RowPrice(r, k1) = r.base + s1 * r.per /\ RowPrice(r, k2) = r.base + s2 * r.per
    BY <1>2, <2>1 DEF RowPrice
  <2> HIDE DEF s1, s2
  <2>4. s1 * r.per \in Nat /\ s2 * r.per \in Nat /\ s1 * r.per <= s2 * r.per
    BY <1>1, <2>2, ProductGrows
  <2>5. QED BY <1>1, <2>3, <2>4
<1>3. CASE ~(r.per > 0 /\ k1 > r.from)
  <2>1. RowPrice(r, k1) = r.base
    BY <1>3 DEF RowPrice
  <2>2. RowPrice(r, k2) \in Nat /\ r.base <= RowPrice(r, k2)
    <3>1. CASE r.per > 0 /\ k2 > r.from
      <4>1. k2 - r.from \in Nat
        BY <1>1, <3>1
      <4> DEFINE s2 == StepsBegun(k2 - r.from, r.step)
      <4>2. s2 \in Nat
        BY <1>1, <4>1, StepsGrow
      <4>3. RowPrice(r, k2) = r.base + s2 * r.per
        BY <3>1 DEF RowPrice
      <4> HIDE DEF s2
      <4>4. s2 * r.per \in Nat
        BY <1>1, <4>2, ProductGrows
      <4>5. QED BY <1>1, <4>3, <4>4
    <3>2. CASE ~(r.per > 0 /\ k2 > r.from)
      BY <1>1, <3>2 DEF RowPrice
    <3>3. QED BY <3>1, <3>2
  <2>3. QED BY <1>1, <2>1, <2>2
<1>4. QED BY <1>2, <1>3

\* What is charged is the next half kilogram: not less than the weight, and less
\* than half a kilogram more.
LEMMA RoundedUpIsNext ==
  ASSUME NEW g \in Nat
  PROVE  /\ RoundedUp(g) \in Nat
         /\ g <= 500 * RoundedUp(g)
         /\ 500 * RoundedUp(g) < g + 500
<1>1. g + 499 \in Nat /\ 500 \in Nat \ {0}
  OBVIOUS
<1> DEFINE k == (g + 499) \div 500
<1>2. k \in Nat /\ 500 * k <= g + 499 /\ g + 499 < 500 * k + 500
  BY <1>1, Quotient
<1>3. RoundedUp(g) = k
  BY DEF RoundedUp
<1> HIDE DEF k
<1>4. QED BY <1>2, <1>3

LEMMA RoundedUpGrows ==
  ASSUME NEW g \in Nat, NEW h \in Nat, g <= h
  PROVE  RoundedUp(g) <= RoundedUp(h)
BY QuotientGrows DEF RoundedUp

\* Both weights of a parcel's pieces, in grams.
Weighed == [document: BOOLEAN, actual: Nat, volume: Nat]

\* A parcel is charged for no less than either of its weights, and for less than
\* half a kilogram more than the larger one (chargeable_weight, round_up_to_half).
THEOREM ChargedToTheNextHalf ==
  ASSUME NEW parcel \in Weighed
  PROVE  /\ Chargeable(parcel) \in Nat
         /\ parcel.actual <= 500 * Chargeable(parcel)
         /\ parcel.volume <= 500 * Chargeable(parcel)
         /\ \/ 500 * Chargeable(parcel) < parcel.actual + 500
            \/ 500 * Chargeable(parcel) < parcel.volume + 500
<1> DEFINE g == Larger(parcel.actual, parcel.volume)
<1>1. /\ parcel.actual \in Nat /\ parcel.volume \in Nat /\ g \in {parcel.actual, parcel.volume}
      /\ parcel.actual <= g /\ parcel.volume <= g
  BY DEF Weighed, Larger
<1>2. Chargeable(parcel) = RoundedUp(g)
  BY DEF Chargeable
<1> HIDE DEF g
<1>3. QED BY <1>1, <1>2, RoundedUpIsNext

\* Where two parcels fall into the same band, the one that is heavier and larger
\* is not cheaper, for every row with prices that are not negative (_db_rate_price
\* of the rounded weight).
THEOREM HeavierInABand ==
  ASSUME NEW p1 \in Weighed, NEW p2 \in Weighed,
         p1.actual <= p2.actual, p1.volume <= p2.volume, NEW r \in PricedRow
  PROVE  /\ r.base <= RowPrice(r, Chargeable(p1))
         /\ RowPrice(r, Chargeable(p1)) <= RowPrice(r, Chargeable(p2))
<1>1. /\ Larger(p1.actual, p1.volume) \in Nat /\ Larger(p2.actual, p2.volume) \in Nat
      /\ Larger(p1.actual, p1.volume) <= Larger(p2.actual, p2.volume)
  BY DEF Weighed, Larger
<1>2. Chargeable(p1) \in Nat /\ Chargeable(p2) \in Nat /\ Chargeable(p1) <= Chargeable(p2)
  BY <1>1, RoundedUpIsNext, RoundedUpGrows DEF Chargeable
<1>3. QED BY <1>2, RowPriceGrows

-----------------------------------------------------------------------------
(* A cached value that differs from its row is always explained, for any    *)
(* number of keys, readers, administrators and saves.                       *)
(*                                                                         *)
(* CachedIsCurrent is not inductive: the commit of a setting makes the      *)
(* entry old after its deletion.  DroppedIsGone adds what saves it: while   *)
(* the transaction is open, an entry that is there again was filled during  *)
(* it, and is marked so, or was never deleted.                              *)

SavesFit ==
  \A a \in Admins :
    /\ save[a].at = "saved" => save[a].key \in Keys \ Settings
    /\ save[a].at = "dropped" => save[a].key \in Settings /\ MaySave(save[a].key)
    /\ \A b \in Admins : save[a].at = "dropped" /\ save[b] = save[a] => b = a

DroppedIsGone ==
  \A k \in Keys : IsSaving("dropped", k) /\ cache[k] # Miss => cache[k].crossed \/ k \in lost

CachesInv == CachesTypeOK /\ SavesFit /\ DroppedIsGone /\ CachedIsCurrent

-----------------------------------------------------------------------------
LEMMA RecordsOfASave ==
  ASSUME CachesTypeOK, NEW a \in Admins
  PROVE  save[a] = [at |-> save[a].at, key |-> save[a].key]
BY DEF CachesTypeOK

LEMMA ExceptOutside ==
  ASSUME NEW D, NEW R, NEW f \in [D -> R], NEW k, k \notin D, NEW e
  PROVE  [f EXCEPT ![k] = e] = f
OBVIOUS

\* Types are kept by every step of a reader.
LEMMA ReaderTypes ==
  ASSUME CachesTypeOK, NEW r \in Readers, ReaderStep(r)
  PROVE  CachesTypeOK'
<1> USE CachesAssumption DEF CachesTypeOK, Finds
<1>1. ASSUME NEW k \in Keys, Hit(r, k) PROVE CachesTypeOK'
  <2>1. cache[k] \in [val: Saves, crossed: BOOLEAN]
    BY <1>1 DEF Hit, Entries
  <2>2. QED BY <1>1, <2>1 DEF Hit
<1>2. ASSUME NEW k \in Keys, ReadRow(r, k) PROVE CachesTypeOK'
  BY <1>2 DEF ReadRow
<1>3. ASSUME Fill(r) PROVE CachesTypeOK'
  <2>1. read' \in [Readers -> [at: {"idle", "read", "got"}, key: Keys \cup {NoKey}, val: Saves]]
    BY <1>3 DEF Fill
  <2>2. cache' \in [Keys -> Entries] /\ lost' \subseteq Keys
    <3> DEFINE entry == [val |-> read[r].val,
                         crossed |-> read[r].val # row[read[r].key]
                                       \/ IsSaving("dropped", read[r].key)]
    <3>1. entry \in Entries
      BY DEF Entries
    <3>2. Put(read[r].key, entry) \/ (cache' = cache /\ lost' = lost)
      BY <1>3 DEF Fill
    <3> HIDE DEF entry
    <3>3. QED BY <3>1, <3>2 DEF Put
  <2>3. QED BY <1>3, <2>1, <2>2 DEF Fill
<1>4. ASSUME ReadOnly(r) PROVE CachesTypeOK'
  BY <1>4 DEF ReadOnly
<1>5. ASSUME Use(r) PROVE CachesTypeOK'
  <2>1. NotReading \in [at: {"idle", "read", "got"}, key: Keys \cup {NoKey}, val: Saves]
    BY DEF NotReading, Saves
  <2>2. QED BY <1>5, <2>1 DEF Use
<1>6. ASSUME ReadFails(r) PROVE CachesTypeOK'
  <2>1. 0 \in Saves
    BY DEF Saves
  <2>2. QED BY <1>6, <2>1 DEF ReadFails
<1>7. QED BY <1>1, <1>2, <1>3, <1>4, <1>5, <1>6 DEF ReaderStep

\* Types are kept by every step of an administrator.
LEMMA AdminTypes ==
  ASSUME CachesTypeOK, SavesFit, NEW a \in Admins, AdminStep(a)
  PROVE  CachesTypeOK'
<1> USE CachesAssumption DEF CachesTypeOK
<1>1. Miss \in Entries /\ NotSaving \in [at: {"idle", "saved", "dropped"}, key: Keys \cup {NoKey}]
  BY DEF Entries, NotSaving
<1>2. ASSUME NEW k \in Keys, SaveCredentials(a, k) PROVE CachesTypeOK'
  <2>1. row[k] + 1 \in Saves
    BY <1>2 DEF SaveCredentials, MaySave, Saves
  <2>2. QED BY <1>2, <2>1 DEF SaveCredentials, Saved, Saving
<1>3. ASSUME NEW k \in Keys, DropSetting(a, k) PROVE CachesTypeOK'
  BY <1>1, <1>3 DEF DropSetting, Put, Saving
<1>4. ASSUME InvalidateCredentials(a) PROVE CachesTypeOK'
  BY <1>1, <1>4 DEF InvalidateCredentials, Put, SavesFit
<1>5. ASSUME CommitSetting(a) PROVE CachesTypeOK'
  <2>1. save[a].key \in Keys /\ row[save[a].key] + 1 \in Saves
    BY <1>5 DEF CommitSetting, SavesFit, MaySave, Saves
  <2>2. QED BY <1>1, <1>5, <2>1 DEF CommitSetting, Saved
<1>6. ASSUME RollBackSetting(a) PROVE CachesTypeOK'
  BY <1>1, <1>6 DEF RollBackSetting
<1>7. QED BY <1>2, <1>3, <1>4, <1>5, <1>6 DEF AdminStep

LEMMA TypesAreKept ==
  ASSUME CachesInv, [CachesNext]_cacheVars
  PROVE  CachesTypeOK'
<1> USE DEF CachesInv
<1>1. ASSUME NEW k \in Keys, Expire(k) PROVE CachesTypeOK'
  <2>1. Miss \in Entries
    BY DEF Entries
  <2>2. QED BY <1>1, <2>1 DEF Expire, Put, CachesTypeOK
<1>2. CASE UNCHANGED cacheVars
  BY <1>2 DEF cacheVars, CachesTypeOK
<1>3. QED BY <1>1, <1>2, ReaderTypes, AdminTypes DEF CachesNext

-----------------------------------------------------------------------------
(* The three parts that go together, step by step.                           *)

\* Readers and the clock leave rows and saves alone, and an entry they write is
\* marked when it is old or a setting's transaction is open.
LEMMA EntriesAreKept ==
  ASSUME CachesInv, CachesTypeOK', UNCHANGED <<row, save>>,
         \/ UNCHANGED <<cache, lost>>
         \/ \E k \in Keys : Put(k, Miss)
         \/ \E r \in Readers : Fill(r) /\ read[r].key \in Keys
  PROVE  CachesInv'
<1> USE DEF CachesInv, SavesFit, DroppedIsGone, CachedIsCurrent, IsSaving, MaySave
<1>1. CASE UNCHANGED <<cache, lost>>
  BY <1>1
<1>2. ASSUME NEW k \in Keys, Put(k, Miss) PROVE CachesInv'
  BY <1>2 DEF Put, CachesTypeOK
<1>3. ASSUME NEW r \in Readers, Fill(r), read[r].key \in Keys,
             ~UNCHANGED <<cache, lost>>
      PROVE  CachesInv'
  <2> DEFINE k == read[r].key
             entry == [val |-> read[r].val,
                       crossed |-> read[r].val # row[k] \/ IsSaving("dropped", k)]
  <2>1. cache' = [cache EXCEPT ![k] = entry] /\ lost' = lost \ {k}
    BY <1>3 DEF Fill, Put
  <2>2. /\ cache'[k] = entry
        /\ \A j \in Keys \ {k} : cache'[j] = cache[j] /\ (j \in lost => j \in lost')
    BY <1>3, <2>1 DEF CachesTypeOK
  <2>3. entry.val # row[k] \/ IsSaving("dropped", k) => entry.crossed
    OBVIOUS
  <2> HIDE DEF entry, k
  <2>4. DroppedIsGone'
    BY <2>2, <2>3
  <2>5. CachedIsCurrent'
    <3>1. entry.val = read[r].val
      BY DEF entry
    <3>2. QED BY <2>2, <2>3, <3>1
  <2>6. QED BY <2>4, <2>5
<1>4. QED BY <1>1, <1>2, <1>3

LEMMA SaveCredentialsKeeps ==
  ASSUME CachesInv, CachesTypeOK', NEW a \in Admins, NEW k \in Keys, SaveCredentials(a, k)
  PROVE  CachesInv'
<1> USE DEF CachesInv, SaveCredentials, Saving, Saved, NotSaving
<1>1. /\ save'[a] = [at |-> "saved", key |-> k] /\ save[a].at = "idle"
      /\ \A b \in Admins \ {a} : save'[b] = save[b]
      /\ \A j \in Keys \ {k} : row'[j] = row[j]
  BY DEF CachesTypeOK
<1>2. SavesFit'
  BY <1>1 DEF SavesFit, MaySave
<1>3. DroppedIsGone'
  BY <1>1 DEF DroppedIsGone, IsSaving
<1>4. CachedIsCurrent'
  BY <1>1 DEF CachedIsCurrent, IsSaving
<1>5. QED BY <1>2, <1>3, <1>4

LEMMA InvalidateCredentialsKeeps ==
  ASSUME CachesInv, CachesTypeOK', NEW a \in Admins, InvalidateCredentials(a)
  PROVE  CachesInv'
<1> USE DEF CachesInv, InvalidateCredentials, NotSaving
<1> DEFINE k == save[a].key
<1>1. /\ save'[a].at = "idle" /\ k \in Keys \ Settings
      /\ \A b \in Admins \ {a} : save'[b] = save[b]
  BY DEF CachesTypeOK, SavesFit
<1>2. /\ cache'[k] = Miss \/ k \in lost'
      /\ \A j \in Keys \ {k} : cache'[j] = cache[j] /\ (j \in lost => j \in lost')
  BY <1>1 DEF CachesTypeOK, Put
<1>3. SavesFit'
  BY <1>1 DEF SavesFit, MaySave
<1>4. DroppedIsGone'
  BY <1>1, <1>2 DEF DroppedIsGone, IsSaving
<1>5. CachedIsCurrent'
  BY <1>1, <1>2 DEF CachedIsCurrent, IsSaving
<1>6. QED BY <1>3, <1>4, <1>5

LEMMA DropSettingKeeps ==
  ASSUME CachesInv, CachesTypeOK', NEW a \in Admins, NEW k \in Keys, DropSetting(a, k)
  PROVE  CachesInv'
<1> USE DEF CachesInv, DropSetting, Saving, NotSaving
<1>1. /\ save'[a] = [at |-> "dropped", key |-> k] /\ save[a].at = "idle"
      /\ \A b \in Admins \ {a} : save'[b] = save[b]
  BY DEF CachesTypeOK
<1>2. /\ cache'[k] = Miss \/ k \in lost'
      /\ \A j \in Keys \ {k} : cache'[j] = cache[j] /\ (j \in lost => j \in lost')
  BY DEF CachesTypeOK, Put
<1>3. SavesFit'
  BY <1>1 DEF SavesFit, MaySave, IsSaving
<1>4. DroppedIsGone'
  BY <1>1, <1>2 DEF DroppedIsGone, IsSaving
<1>5. CachedIsCurrent'
  BY <1>1, <1>2 DEF CachedIsCurrent, IsSaving
<1>6. QED BY <1>3, <1>4, <1>5

LEMMA CommitSettingKeeps ==
  ASSUME CachesInv, CachesTypeOK', NEW a \in Admins, CommitSetting(a)
  PROVE  CachesInv'
<1> USE DEF CachesInv, CommitSetting, Saved, NotSaving
<1> DEFINE k == save[a].key
<1>1. /\ save'[a].at = "idle" /\ k \in Settings /\ k \in Keys
      /\ \A b \in Admins \ {a} : save'[b] = save[b]
      /\ \A j \in Keys \ {k} : row'[j] = row[j]
  BY CachesAssumption DEF CachesTypeOK, SavesFit
<1>2. save[a] = [at |-> "dropped", key |-> k]
  BY RecordsOfASave
<1>3. \A b \in Admins \ {a} : save[b].at = "dropped" => save[b].key # k
  BY <1>2, RecordsOfASave DEF SavesFit
<1>4. SavesFit'
  BY <1>1, <1>3 DEF SavesFit, MaySave
<1>5. DroppedIsGone'
  BY <1>1 DEF DroppedIsGone, IsSaving
<1>6. CachedIsCurrent'
  <2>1. cache[k] # Miss => cache[k].crossed \/ k \in lost
    BY <1>1, <1>2 DEF DroppedIsGone, IsSaving
  <2>2. \A j \in Keys : IsSaving("saved", j) => IsSaving("saved", j)'
    BY <1>1 DEF IsSaving
  <2>3. QED BY <1>1, <2>1, <2>2 DEF CachedIsCurrent
<1>7. QED BY <1>4, <1>5, <1>6

LEMMA RollBackSettingKeeps ==
  ASSUME CachesInv, CachesTypeOK', NEW a \in Admins, RollBackSetting(a)
  PROVE  CachesInv'
<1> USE DEF CachesInv, RollBackSetting, NotSaving
<1>1. save'[a].at = "idle" /\ \A b \in Admins \ {a} : save'[b] = save[b]
  BY DEF CachesTypeOK
<1>2. SavesFit'
  BY <1>1 DEF SavesFit, MaySave
<1>3. DroppedIsGone' /\ CachedIsCurrent'
  BY <1>1 DEF DroppedIsGone, CachedIsCurrent, IsSaving
<1>4. QED BY <1>2, <1>3

-----------------------------------------------------------------------------
\* What a reader finds in the cache differs from the row only as CachedIsCurrent
\* allows (creds_cache, PlatformSettingsRepository): a save in progress, a
\* failed deletion, or a fill that a save went past.
THEOREM CachedIsCurrentAlone == CachesSpec => []CachedIsCurrent
<1>1. CachesInit => CachesInv
  <2> SUFFICES ASSUME CachesInit PROVE CachesInv
    OBVIOUS
  <2>1. CachesTypeOK
    BY CachesAssumption
    DEF CachesInit, CachesTypeOK, Saves, Entries, NotReading, NotSaving
  <2>2. QED
    BY <2>1 DEF CachesInv, CachesInit, SavesFit, DroppedIsGone, CachedIsCurrent, NotSaving,
                IsSaving
<1>2. CachesInv /\ [CachesNext]_cacheVars => CachesInv'
  <2> SUFFICES ASSUME CachesInv, [CachesNext]_cacheVars PROVE CachesInv'
    OBVIOUS
  <2>1. CachesTypeOK'
    BY TypesAreKept
  <2>2. ASSUME NEW r \in Readers, ReaderStep(r) PROVE CachesInv'
    <3>1. Fill(r) /\ read[r].key \notin Keys => UNCHANGED <<cache, lost>>
      <4> SUFFICES ASSUME Fill(r), read[r].key \notin Keys PROVE UNCHANGED <<cache, lost>>
        OBVIOUS
      <4> DEFINE k == read[r].key
                 entry == [val |-> read[r].val,
                           crossed |-> read[r].val # row[k] \/ IsSaving("dropped", k)]
      <4>1. Put(k, entry) \/ UNCHANGED <<cache, lost>>
        BY DEF Fill
      <4> HIDE DEF entry
      <4>2. [cache EXCEPT ![k] = entry] = cache /\ lost \ {k} = lost
        BY ExceptOutside DEF CachesInv, CachesTypeOK
      <4>3. QED BY <4>1, <4>2 DEF Put
    <3>2. QED BY <2>1, <2>2, <3>1, EntriesAreKept
              DEF ReaderStep, Hit, ReadRow, ReadOnly, ReadFails, Use, Fill
  <2>3. ASSUME NEW a \in Admins, AdminStep(a) PROVE CachesInv'
    BY <2>1, <2>3, SaveCredentialsKeeps, InvalidateCredentialsKeeps, DropSettingKeeps,
       CommitSettingKeeps, RollBackSettingKeeps DEF AdminStep
  <2>4. ASSUME NEW k \in Keys, Expire(k) PROVE CachesInv'
    BY <2>1, <2>4, EntriesAreKept DEF Expire
  <2>5. CASE UNCHANGED cacheVars
    BY <2>1, <2>5, EntriesAreKept DEF cacheVars
  <2>6. QED BY <2>2, <2>3, <2>4, <2>5 DEF CachesNext
<1>3. CachesInv => CachedIsCurrent
  BY DEF CachesInv
<1>4. QED BY <1>1, <1>2, <1>3, PTL DEF CachesSpec
-----------------------------------------------------------------------------
(* The grids of a service.                                                  *)

USE TariffsAssumption DEF TariffsAssumption

TaggedRow == [row: GridRow, grid: Nat, hand: BOOLEAN]

UploadState == [at: Services \cup {"idle"}, seen: SUBSET TaggedRow, late: BOOLEAN]

RatesOK ==
  /\ rates \in [Services -> SUBSET TaggedRow] /\ edits \in Nat
  /\ upload \in [Uploaders -> UploadState]

\* An upload before which no other was committed has switched off every uploaded
\* row: those added by hand since it began are the only ones that stay.
SeesItsGrid ==
  \A u \in Uploaders : \A s \in Services : upload[u].at = s /\ s # "idle" /\ ~upload[u].late =>
    \A t \in rates[s] : t.hand \/ t \in upload[u].seen

RatesInv == RatesOK /\ SeesItsGrid /\ OneGridAtATime

LEMMA TagRows ==
  ASSUME NEW rows \in SUBSET GridRow, NEW n \in Nat, NEW hand \in BOOLEAN
  PROVE  /\ Tag(rows, n, hand) \in SUBSET TaggedRow
         /\ \A t \in Tag(rows, n, hand) : t.grid = n /\ t.hand = hand
BY DEF Tag, TaggedRow

LEMMA MarkedLate ==
  ASSUME NEW x \in UploadState, NEW late \in BOOLEAN
  PROVE  LET y == [x EXCEPT !.late = late]
         IN y \in UploadState /\ y.at = x.at /\ y.seen = x.seen /\ y.late = late
BY DEF UploadState

\* A change of one service's rows that adds none of a file.
LEMMA RatesEdited ==
  ASSUME RatesInv, NEW s \in Services, NEW rows \in SUBSET TaggedRow,
         rates' = [rates EXCEPT ![s] = rows], edits' \in Nat, UNCHANGED <<mixed, upload>>,
         \A t \in rows :
           \/ t.hand \/ t \in rates[s]
           \/ \E old \in rates[s] : ~old.hand /\ ~Locked(s, old) /\ t.grid = old.grid
  PROVE  RatesInv'
<1>1. RatesOK'
  BY DEF RatesInv, RatesOK
<1>2. ASSUME NEW z \in Services
      PROVE  rates'[z] = IF z = s THEN rows ELSE rates[z]
  BY DEF RatesInv, RatesOK
<1>3. SeesItsGrid'
  <2> SUFFICES ASSUME NEW u \in Uploaders, NEW z \in Services,
                      upload[u].at = z, z # "idle", ~upload[u].late, NEW t \in rates'[z]
               PROVE  t.hand \/ t \in upload[u].seen
    BY DEF SeesItsGrid
  <2>1. \A v \in rates[z] : v.hand \/ v \in upload[u].seen
    BY DEF RatesInv, SeesItsGrid
  <2>2. CASE z = s
    <3>1. \A old \in rates[s] : old.hand \/ Locked(s, old)
      BY <2>1, <2>2 DEF Locked
    <3>2. QED BY <1>2, <2>1, <2>2, <3>1
  <2>3. CASE z # s
    BY <1>2, <2>1, <2>3
  <2>4. QED BY <2>2, <2>3
<1>4. OneGridAtATime'
  <2> SUFFICES ASSUME NEW z \in Services \ mixed, NEW t1 \in rates'[z], NEW t2 \in rates'[z],
                      ~t1.hand, ~t2.hand
               PROVE  t1.grid = t2.grid
    BY DEF OneGridAtATime, OneGrid
  <2>1. \A v1, v2 \in rates[z] : v1.hand \/ v2.hand \/ v1.grid = v2.grid
    BY DEF RatesInv, OneGridAtATime, OneGrid
  <2>2. CASE z = s
    <3>1. /\ \E v \in rates[s] : ~v.hand /\ v.grid = t1.grid
          /\ \E v \in rates[s] : ~v.hand /\ v.grid = t2.grid
      BY <1>2, <2>2
    <3>2. QED BY <2>1, <2>2, <3>1
  <2>3. CASE z # s
    BY <1>2, <2>1, <2>3
  <2>4. QED BY <2>2, <2>3
<1>5. QED BY <1>1, <1>3, <1>4 DEF RatesInv

LEMMA AddRateKeeps ==
  ASSUME RatesInv, NEW s \in Services, NEW r \in HandRows, AddRate(s, r)
  PROVE  RatesInv'
<1> DEFINE rows == rates[s] \cup Tag({r}, edits + 1, TRUE)
<1>1. {r} \in SUBSET GridRow /\ edits + 1 \in Nat
  BY DEF RatesInv, RatesOK
<1>2. /\ Tag({r}, edits + 1, TRUE) \in SUBSET TaggedRow
      /\ \A t \in Tag({r}, edits + 1, TRUE) : t.hand
  BY <1>1, TagRows
<1>3. rates' = [rates EXCEPT ![s] = rows] /\ UNCHANGED <<mixed, upload>> /\ edits' \in Nat
  BY DEF AddRate, Edit, RatesInv, RatesOK
<1>4. rows \in SUBSET TaggedRow /\ \A t \in rows : t.hand \/ t \in rates[s]
  BY <1>2 DEF RatesInv, RatesOK
<1>5. QED BY <1>3, <1>4, RatesEdited

LEMMA UpdateRateKeeps ==
  ASSUME RatesInv, NEW s \in Services, NEW t \in rates[s], NEW r \in HandRows,
         UpdateRate(s, t, r)
  PROVE  RatesInv'
<1> DEFINE new == Tag({r}, t.grid, t.hand)
           rows == (rates[s] \ {t}) \cup new
<1>1. t \in TaggedRow /\ t.grid \in Nat /\ t.hand \in BOOLEAN /\ {r} \in SUBSET GridRow
  BY DEF RatesInv, RatesOK, TaggedRow
<1>2. new \in SUBSET TaggedRow /\ \A x \in new : x.grid = t.grid /\ x.hand = t.hand
  BY <1>1, TagRows
<1>3. /\ rates' = [rates EXCEPT ![s] = rows] /\ UNCHANGED <<mixed, upload>> /\ edits' \in Nat
      /\ ~Locked(s, t)
  BY DEF UpdateRate, Edit, RatesInv, RatesOK
<1> HIDE DEF new
<1>4. /\ rows \in SUBSET TaggedRow
      /\ \A x \in rows :
           \/ x.hand \/ x \in rates[s]
           \/ \E old \in rates[s] : ~old.hand /\ ~Locked(s, old) /\ x.grid = old.grid
  BY <1>2, <1>3 DEF RatesInv, RatesOK
<1>5. QED BY <1>3, <1>4, RatesEdited

LEMMA DeleteRateKeeps ==
  ASSUME RatesInv, NEW s \in Services, NEW t \in rates[s], DeleteRate(s, t)
  PROVE  RatesInv'
<1> DEFINE rows == rates[s] \ {t}
<1>1. rates' = [rates EXCEPT ![s] = rows] /\ UNCHANGED <<mixed, upload>> /\ edits' \in Nat
  BY DEF DeleteRate, Edit, RatesInv, RatesOK
<1>2. rows \in SUBSET TaggedRow /\ \A x \in rows : x \in rates[s]
  BY DEF RatesInv, RatesOK
<1>3. QED BY <1>1, <1>2, RatesEdited

\* An upload that begins sees what is there; one that is refused says no more.
LEMMA UploadsKeep ==
  ASSUME RatesInv, NEW u \in Uploaders, UploadRefused(u) \/ \E s \in Services : UploadRead(u, s)
  PROVE  RatesInv'
<1>1. UNCHANGED <<rates, edits, mixed>>
  BY DEF UploadRefused, UploadRead, SwitchesOff
<1>2. RatesOK' /\ OneGridAtATime'
  <2>1. \A s \in Services : [at |-> s, seen |-> rates[s], late |-> FALSE] \in UploadState
    BY DEF RatesInv, RatesOK, UploadState
  <2>2. NoUpload \in UploadState
    BY DEF NoUpload, UploadState
  <2>3. upload' \in [Uploaders -> UploadState]
    BY <2>1, <2>2 DEF RatesInv, RatesOK, UploadRefused, UploadRead, SwitchesOff
  <2>4. QED BY <1>1, <2>3 DEF RatesInv, RatesOK, OneGridAtATime, OneGrid
<1>3. SeesItsGrid'
  <2> SUFFICES ASSUME NEW v \in Uploaders, NEW z \in Services,
                      upload'[v].at = z, z # "idle", ~upload'[v].late, NEW t \in rates[z]
               PROVE  t.hand \/ t \in upload'[v].seen
    BY <1>1 DEF SeesItsGrid
  <2>1. CASE v # u
    <3>1. upload'[v] = upload[v]
      BY <2>1 DEF UploadRefused, UploadRead, SwitchesOff, RatesInv, RatesOK
    <3>2. QED BY <3>1 DEF RatesInv, SeesItsGrid
  <2>2. CASE v = u
    <3>1. PICK s \in Services : UploadRead(u, s)
      BY <2>2 DEF UploadRefused, NoUpload, RatesInv, RatesOK
    <3>2. upload'[u] = [at |-> s, seen |-> rates[s], late |-> FALSE]
      BY <3>1 DEF UploadRead, SwitchesOff, RatesInv, RatesOK
    <3>3. QED BY <2>2, <3>2
  <2>3. QED BY <2>1, <2>2
<1>4. QED BY <1>2, <1>3 DEF RatesInv

\* The commit of an upload that is not late leaves rows entered by hand only, and
\* makes the others of its service late.
LEMMA UploadCommitKeeps ==
  ASSUME RatesInv, NEW u \in Uploaders, NEW grid \in Grids, UploadCommit(u, grid)
  PROVE  RatesInv'
<1> DEFINE s == upload[u].at
           seen == upload[u].seen
           new == Tag(grid, edits + 1, FALSE)
           rows == (rates[s] \ seen) \cup new
<1>1. /\ rates' = [rates EXCEPT ![s] = rows] /\ edits' \in Nat /\ s # "idle"
      /\ mixed' = IF upload[u].late THEN mixed \cup {s} ELSE mixed \ {s}
      /\ upload' = [v \in Uploaders |->
           IF v = u THEN NoUpload
           ELSE [upload[v] EXCEPT !.late = @ \/ upload[v].at = s]]
  BY DEF UploadCommit, Edit, RatesInv, RatesOK
<1>2. new \in SUBSET TaggedRow /\ \A t \in new : t.grid = edits + 1
  <2>1. grid \in SUBSET GridRow /\ edits + 1 \in Nat /\ FALSE \in BOOLEAN
    BY DEF RatesInv, RatesOK
  <2>2. QED BY <2>1, TagRows
<1>3. s \in Services /\ ~upload[u].late => \A t \in rates[s] \ seen : t.hand
  BY <1>1 DEF RatesInv, SeesItsGrid
<1> HIDE DEF s, new, seen
<1>4. s \in Services => rates[s] \in SUBSET TaggedRow
  BY DEF RatesInv, RatesOK
<1>5. ASSUME NEW z \in Services
      PROVE  rates'[z] = IF z = s THEN rows ELSE rates[z]
  BY <1>1 DEF RatesInv, RatesOK
<1>6. ASSUME NEW v \in Uploaders \ {u}
      PROVE  /\ upload'[v] \in UploadState /\ upload'[v].at = upload[v].at
             /\ upload'[v].seen = upload[v].seen
             /\ upload'[v].late = (upload[v].late \/ upload[v].at = s)
  <2> DEFINE x == upload[v]
             late == x.late \/ x.at = s
  <2>1. x \in UploadState /\ late \in BOOLEAN
    BY DEF RatesInv, RatesOK, UploadState
  <2>2. upload'[v] = [x EXCEPT !.late = late]
    BY <1>1
  <2> HIDE DEF x, late
  <2>3. QED BY <2>1, <2>2, MarkedLate DEF x, late
<1>7. RatesOK'
  <2>1. NoUpload \in UploadState
    BY DEF NoUpload, UploadState
  <2>2. upload' \in [Uploaders -> UploadState]
    BY <1>1, <1>6, <2>1
  <2>3. QED BY <1>1, <1>2, <1>4, <2>2 DEF RatesInv, RatesOK
<1>8. SeesItsGrid'
  <2> SUFFICES ASSUME NEW v \in Uploaders, NEW z \in Services,
                      upload'[v].at = z, z # "idle", ~upload'[v].late, NEW t \in rates'[z]
               PROVE  t.hand \/ t \in upload'[v].seen
    BY DEF SeesItsGrid
  <2>1. v # u
    BY <1>1 DEF NoUpload
  <2>2. upload[v].at = z /\ ~upload[v].late /\ z # s /\ upload'[v].seen = upload[v].seen
    BY <1>6, <2>1 DEF RatesInv, RatesOK, UploadState
  <2>3. QED BY <1>5, <2>2 DEF RatesInv, SeesItsGrid
<1>9. OneGridAtATime'
  <2> SUFFICES ASSUME NEW z \in Services, z \notin mixed', NEW t1 \in rates'[z], NEW t2 \in rates'[z],
                      ~t1.hand, ~t2.hand
               PROVE  t1.grid = t2.grid
    BY DEF OneGridAtATime, OneGrid
  <2>1. CASE z = s
    <3>1. t1 \in rows /\ t2 \in rows
      BY <1>5, <2>1
    <3>2. \A t \in rates[s] \ seen : t.hand
      BY <1>1, <1>3, <2>1
    <3>3. QED BY <1>2, <3>1, <3>2
  <2>2. CASE z # s
    <3>1. rates'[z] = rates[z] /\ z \notin mixed
      BY <1>1, <1>5, <2>2
    <3>2. QED BY <3>1 DEF RatesInv, OneGridAtATime, OneGrid
  <2>3. QED BY <2>1, <2>2
<1>10. QED BY <1>7, <1>8, <1>9 DEF RatesInv

LEMMA RatesAlone ==
  ASSUME RatesInv, UNCHANGED <<rates, mixed, upload>>, edits' \in Nat
  PROVE  RatesInv'
BY DEF RatesInv, RatesOK, SeesItsGrid, OneGridAtATime, OneGrid

LEMMA RatesStep ==
  ASSUME RatesInv, [Next]_vars
  PROVE  RatesInv'
<1> USE DEF tariffVars
<1>0. edits \in Nat
  BY DEF RatesInv, RatesOK
<1>1. ASSUME UNCHANGED <<rates, mixed, upload>>, edits' = edits \/ Edit
      PROVE  RatesInv'
  BY <1>0, <1>1, RatesAlone DEF Edit
<1>2. ASSUME AdminNext
      PROVE  RatesInv'
  <2>1. ASSUME NEW s \in Services, NEW r \in HandRows, AddRate(s, r) PROVE RatesInv'
    BY <2>1, AddRateKeeps
  <2>2. ASSUME NEW s \in Services, NEW t \in rates[s], NEW r \in HandRows, UpdateRate(s, t, r)
        PROVE  RatesInv'
    BY <2>2, UpdateRateKeeps
  <2>3. ASSUME NEW s \in Services, NEW t \in rates[s], DeleteRate(s, t) PROVE RatesInv'
    BY <2>3, DeleteRateKeeps
  <2>4. ASSUME NEW u \in Uploaders, NEW grid \in Grids, UploadCommit(u, grid) PROVE RatesInv'
    BY <2>4, UploadCommitKeeps
  <2>5. ASSUME NEW u \in Uploaders, UploadRefused(u) \/ \E s \in Services : UploadRead(u, s)
        PROVE  RatesInv'
    BY <2>5, UploadsKeep
  <2>6. ASSUME \/ \E x \in Carriers \cup Services : Switch(x)
               \/ \E c \in Carriers, city \in Cities, zone \in TableZones : AddZoneCity(c, city, zone)
               \/ SyncRegions
        PROVE  RatesInv'
    <3>1. UNCHANGED <<rates, mixed, upload>> /\ (edits' = edits \/ Edit)
      BY <2>6 DEF Switch, AddZoneCity, SyncRegions, SyncRegion
    <3>2. QED BY <3>1, <1>1
  <2>7. QED BY <1>2, <2>1, <2>2, <2>3, <2>4, <2>5, <2>6 DEF AdminNext
<1>3. ASSUME QuoteNext
      PROVE  RatesInv'
  <2>1. UNCHANGED <<rates, mixed, upload, edits>>
    BY <1>3 DEF QuoteNext, QuoteRoute, QuoteRates, QuoteTables, QuoteCredentials, QuoteLive,
       Recalculate, Leave
  <2>2. QED BY <2>1, <1>1
<1>4. CASE CacheNext
  BY <1>1, <1>4 DEF CacheNext
<1>5. CASE UNCHANGED vars
  BY <1>1, <1>5 DEF vars
<1>6. QED BY <1>2, <1>3, <1>4, <1>5 DEF Next

LEMMA RatesInit == Init => RatesInv
BY DEF Init, NoUpload, UploadState, RatesInv, RatesOK, SeesItsGrid, OneGridAtATime, OneGrid

\* The uploaded rows of a service in force come from one file unless its last
\* upload was late, for every number of uploads and whatever is entered by hand
\* between their steps (upload_tariff_grid: the UPDATE switches off the rows
\* committed before it, and the new ones are committed with it).
THEOREM OneGridAtATimeAlways == Spec => []OneGridAtATime
<1>1. RatesInv => OneGridAtATime
  BY DEF RatesInv
<1>2. QED BY <1>1, RatesInit, RatesStep, PTL DEF Spec

-----------------------------------------------------------------------------
(* Quotes.                                                                  *)

\* x has the fields of a quote.
IsQuote(x) ==
  x \in [at: {x.at}, parcel: {x.parcel}, route: {x.route}, azimuths: {x.azimuths},
         zone: {x.zone}, rows: {x.rows}, results: {x.results}, ask: {x.ask},
         since: {x.since}, chosen: {x.chosen}, again: {x.again}]

\* What a quote made since the last change says of the tables as they are.
Fresh(x) ==
  /\ x.at \in {"routed", "rated", "live", "done"} =>
       /\ x.azimuths => RouteIsAzimuths(regions, x.route[1], x.route[2])
       /\ x.zone = FallbackZone(regions, x.route[1], x.route[2])
  /\ x.at = "rated" => x.rows = RowsOn
  /\ x.at \in {"live", "done"} /\ x.azimuths /\ ~x.parcel.document =>
       \A r \in x.results : r.live \/ r \in SyncResults(x.parcel, x.route[1], x.route[2])
  /\ /\ x.at = "again" /\ x.azimuths /\ ~x.parcel.document /\ ~x.chosen.live
     /\ Unambiguous(Rows(rates[x.chosen.service]))
     => x.again = x.chosen.price

QuoteOK(x) ==
  /\ IsQuote(x) /\ x.ask \subseteq Live
  /\ x.since \in Nat /\ x.since <= edits
  /\ x.since = edits => Fresh(x)

QuotesInv == DOMAIN quote = Quoters /\ \A q \in Quoters : QuoteOK(quote[q])

LEMMA TablesAlone ==
  ASSUME UNCHANGED <<rates, tables_>>, NEW x
  PROVE  Fresh(x)' = Fresh(x)
<1> USE DEF tables_
<1>1. RowsOn' = RowsOn
  BY DEF RowsOn
<1>2. ASSUME NEW parcel, NEW from, NEW to
      PROVE  SyncResults(parcel, from, to)' = SyncResults(parcel, from, to)
  BY <1>1 DEF SyncResults, FromTables, RowsOn
<1>3. QED BY <1>1, <1>2 DEF Fresh

\* A committed change leaves no quote that was made since the last one.
LEMMA QuotesOutlived ==
  ASSUME QuotesInv, edits \in Nat, quote' = quote, edits' = edits + 1
  PROVE  QuotesInv'
<1>1. ASSUME NEW q \in Quoters
      PROVE  QuoteOK(quote[q])'
  BY DEF QuotesInv, QuoteOK
<1>2. QED BY <1>1 DEF QuotesInv

\* A step that changes at most one quote keeps the others.
LEMMA QuoteGoes ==
  ASSUME QuotesInv, NEW q \in Quoters, NEW y, QuoteOK(y), Goes(q, y),
         UNCHANGED <<rates, tables_, edits>>
  PROVE  QuotesInv'
<1>1. DOMAIN quote' = Quoters /\ \A p \in Quoters : quote'[p] = y \/ quote'[p] = quote[p]
  BY DEF Goes, QuotesInv
<1>2. \A z : QuoteOK(z) => QuoteOK(z)'
  BY TablesAlone DEF QuoteOK
<1>3. ASSUME NEW p \in Quoters
      PROVE  QuoteOK(quote[p])'
  <2>1. QuoteOK(quote'[p])
    BY <1>1 DEF QuotesInv
  <2>2. QED BY <1>2, <2>1
<1>4. QED BY <1>1, <1>3 DEF QuotesInv

LEMMA QuotesAlone ==
  ASSUME QuotesInv, UNCHANGED <<rates, tables_, quote, edits>>
  PROVE  QuotesInv'
<1>1. \A z : QuoteOK(z) => QuoteOK(z)'
  BY TablesAlone DEF QuoteOK
<1>2. ASSUME NEW p \in Quoters
      PROVE  QuoteOK(quote[p])'
  BY <1>1 DEF QuotesInv
<1>3. QED BY <1>2 DEF QuotesInv

LEMMA NoQuoteOK ==
  ASSUME edits \in Nat
  PROVE  IsQuote(NoQuote) /\ NoQuote.at = "idle" /\ NoQuote.ask = {} /\ QuoteOK(NoQuote)
<1>1. /\ IsQuote(NoQuote) /\ NoQuote.at = "idle" /\ NoQuote.ask = {} /\ NoQuote.since = 0
  BY DEF NoQuote, IsQuote
<1>2. Fresh(NoQuote)
  BY <1>1 DEF Fresh
<1>3. QED BY <1>1, <1>2 DEF QuoteOK

LEMMA QuoteRouteKeeps ==
  ASSUME QuotesInv, edits \in Nat, NEW q \in Quoters, NEW parcel, NEW route,
         QuoteRoute(q, parcel, route)
  PROVE  QuotesInv'
<1> DEFINE az == RouteIsAzimuths(regions, route[1], route[2])
           zone == FallbackZone(regions, route[1], route[2])
           y == [NoQuote EXCEPT !.at = "routed", !.parcel = parcel, !.route = route,
                                !.since = edits, !.azimuths = az, !.zone = zone]
<1>1. /\ IsQuote(y) /\ y.at = "routed" /\ y.ask = {} /\ y.since = edits
      /\ y.route = route /\ y.azimuths = az /\ y.zone = zone
  <2> HIDE DEF az, zone
  <2>1. QED BY NoQuoteOK DEF IsQuote
<1>2. Goes(q, y) /\ UNCHANGED <<rates, tables_, edits>>
  BY DEF QuoteRoute
<1> HIDE DEF y
<1>3. Fresh(y)
  BY <1>1 DEF Fresh
<1>4. QuoteOK(y)
  BY <1>1, <1>3 DEF QuoteOK
<1>5. QED BY <1>2, <1>4, QuoteGoes

LEMMA QuoteRatesKeeps ==
  ASSUME QuotesInv, NEW q \in Quoters, QuoteRates(q)
  PROVE  QuotesInv'
<1> DEFINE x == quote[q]
           y == [x EXCEPT !.at = "rated", !.rows = RowsOn]
<1>1. Goes(q, y) /\ UNCHANGED <<rates, tables_, edits>> /\ x.at = "routed" /\ QuoteOK(x)
  BY DEF QuoteRates, QuotesInv, Is
<1> HIDE DEF x
<1>2. /\ IsQuote(y) /\ y.at = "rated" /\ y.ask = x.ask /\ y.since = x.since
      /\ y.route = x.route /\ y.azimuths = x.azimuths /\ y.zone = x.zone /\ y.rows = RowsOn
  BY <1>1 DEF QuoteOK, IsQuote
<1> HIDE DEF y
<1>3. x.since = edits => Fresh(y)
  BY <1>1, <1>2 DEF QuoteOK, Fresh
<1>4. QuoteOK(y)
  BY <1>1, <1>2, <1>3 DEF QuoteOK
<1>5. QED BY <1>1, <1>4, QuoteGoes

\* A quote of a parcel on Azimuth's route takes its prices where the
\* recalculation does.
LEMMA TablesAgree ==
  ASSUME NEW x, Fresh(x), x.at = "rated", x.azimuths, ~x.parcel.document
  PROVE  LET kg == QuoteKg(x.parcel)
             found == FromTables(x.rows, x.route[1], x.route[2], x.zone, kg)
         IN (IF found # {} THEN found ELSE IF x.azimuths THEN FromBuiltIn(x.zone, kg) ELSE {})
              = SyncResults(x.parcel, x.route[1], x.route[2])
<1>1. QuoteKg(x.parcel) = Chargeable(x.parcel)
  BY DEF QuoteKg
<1>2. /\ RouteIsAzimuths(regions, x.route[1], x.route[2]) /\ x.rows = RowsOn
      /\ x.zone = FallbackZone(regions, x.route[1], x.route[2])
  BY DEF Fresh
<1>3. QED BY <1>1, <1>2 DEF SyncResults

LEMMA QuoteTablesKeeps ==
  ASSUME QuotesInv, NEW q \in Quoters, QuoteTables(q)
  PROVE  QuotesInv'
<1> DEFINE x == quote[q]
           kg == QuoteKg(x.parcel)
           found == FromTables(x.rows, x.route[1], x.route[2], x.zone, kg)
           results == IF found # {} THEN found
                      ELSE IF x.azimuths THEN FromBuiltIn(x.zone, kg) ELSE {}
           ask == {c \in Live : Of(results, c) = {}}
           at == IF ask = {} THEN "done" ELSE "live"
           y == [x EXCEPT !.at = at, !.results = results, !.ask = ask, !.rows = NoQuote.rows]
<1>1. Goes(q, y) /\ UNCHANGED <<rates, tables_, edits>> /\ x.at = "rated" /\ QuoteOK(x)
  BY DEF QuoteTables, QuotesInv, Is
<1>2. ask \subseteq Live /\ at \in {"done", "live"}
  OBVIOUS
<1>3. Fresh(x) /\ x.azimuths /\ ~x.parcel.document =>
        results = SyncResults(x.parcel, x.route[1], x.route[2])
  BY <1>1, TablesAgree
<1> HIDE DEF x, results, ask, at
<1>4. /\ IsQuote(y) /\ y.at = at /\ y.ask = ask /\ y.since = x.since /\ y.parcel = x.parcel
      /\ y.route = x.route /\ y.azimuths = x.azimuths /\ y.zone = x.zone
      /\ y.results = results
  BY <1>1 DEF QuoteOK, IsQuote
<1> HIDE DEF y
<1>5. x.since = edits => Fresh(y)
  BY <1>1, <1>2, <1>3, <1>4 DEF QuoteOK, Fresh
<1>6. QuoteOK(y)
  BY <1>1, <1>2, <1>4, <1>5 DEF QuoteOK
<1>7. QED BY <1>1, <1>6, QuoteGoes

LEMMA QuoteLiveKeeps ==
  ASSUME QuotesInv, NEW q \in Quoters, NEW answer, QuoteLive(q, answer)
  PROVE  QuotesInv'
<1> DEFINE x == quote[q]
           ask == x.ask \ {read[q].key}
           at == IF ask = {} THEN "done" ELSE "live"
           results == x.results \cup answer
           y == [x EXCEPT !.at = at, !.results = results, !.ask = ask]
<1>1. Goes(q, y) /\ UNCHANGED <<rates, tables_, edits>> /\ x.at = "live" /\ QuoteOK(x)
  BY DEF QuoteLive, QuotesInv, Is
<1>2. \A r \in answer : r.live
  <2>1. answer \in FromLive(read[q].key)
    BY DEF QuoteLive
  <2>2. QED BY <2>1 DEF FromLive, LiveTariffs, Result
<1>3. ask \subseteq x.ask /\ at \in {"done", "live"}
  OBVIOUS
<1> HIDE DEF x, ask, at
<1>4. /\ IsQuote(y) /\ y.at = at /\ y.ask = ask /\ y.since = x.since /\ y.parcel = x.parcel
      /\ y.route = x.route /\ y.azimuths = x.azimuths /\ y.zone = x.zone
      /\ y.results = results
  <2> HIDE DEF results
  <2>1. QED BY <1>1 DEF QuoteOK, IsQuote
<1> HIDE DEF y
<1>5. x.since = edits => Fresh(y)
  BY <1>1, <1>2, <1>3, <1>4 DEF QuoteOK, Fresh
<1>6. QuoteOK(y)
  BY <1>1, <1>3, <1>4, <1>5 DEF QuoteOK
<1>7. QED BY <1>1, <1>6, QuoteGoes

\* Where no two rows of a zone start at the same weight, a weight has one price.
LEMMA PriceIsOne ==
  ASSUME NEW rows \in SUBSET GridRow, Unambiguous(rows), NEW zone, NEW kg,
         NEW p1 \in PricesFor(rows, zone, kg), NEW p2 \in PricesFor(rows, zone, kg)
  PROVE  p1 = p2
<1> DEFINE these == InZone(rows, zone)
<1>1. PICK r1 \in BandsFor(these, kg) : p1 = RowPrice(r1, kg)
  BY DEF PricesFor
<1>2. PICK r2 \in BandsFor(these, kg) : p2 = RowPrice(r2, kg)
  BY DEF PricesFor
<1>3. /\ r1 \in rows /\ r2 \in rows /\ r1.zone = zone /\ r2.zone = zone
      /\ r1.from \in Int /\ r2.from \in Int
  BY DEF BandsFor, InZone, GridRow
<1>4. r1.from <= r2.from /\ r2.from <= r1.from
  BY DEF BandsFor
<1>5. r1 = r2
  BY <1>3, <1>4 DEF Unambiguous
<1>6. QED BY <1>1, <1>2, <1>5

\* Of one service the recalculation finds one price.
LEMMA FoundPrice ==
  ASSUME RatesOK, NEW parcel, NEW from, NEW to,
         NEW r1 \in SyncResults(parcel, from, to), NEW r2 \in SyncResults(parcel, from, to),
         r1.service = r2.service, Unambiguous(Rows(rates[r1.service]))
  PROVE  r1.price = r2.price
<1> DEFINE kg == Chargeable(parcel)
           zone == FallbackZone(regions, from, to)
           found == FromTables(RowsOn, from, to, zone, kg)
           own(s) == CarrierZone(tables[CarrierOf[s]], from, to, zone)
<1>1. {r1, r2} \subseteq found \/ {r1, r2} \subseteq FromBuiltIn(zone, kg)
  BY DEF SyncResults
<1> HIDE DEF kg, zone
<1>2. CASE {r1, r2} \subseteq found
  <2>1. ASSUME NEW r \in found
        PROVE  r.service \in Services /\ r.price \in PricesFor(RowsOn[r.service], own(r.service), kg)
    BY DEF FromTables, Result
  <2> DEFINE s == r1.service
  <2>2. RowsOn[s] \in SUBSET GridRow /\ Unambiguous(RowsOn[s])
    <3>1. s \in Services
      BY <1>2, <2>1
    <3>2. RowsOn[s] = Rows(rates[s]) \/ RowsOn[s] = {}
      BY <3>1 DEF RowsOn
    <3>3. Rows(rates[s]) \in SUBSET GridRow
      BY <3>1 DEF Rows, RatesOK, TaggedRow
    <3>4. QED BY <3>2, <3>3 DEF Unambiguous
  <2>3. r1.price \in PricesFor(RowsOn[s], own(s), kg) /\ r2.price \in PricesFor(RowsOn[s], own(s), kg)
    BY <1>2, <2>1
  <2> HIDE DEF own, s
  <2>4. QED BY <2>2, <2>3, PriceIsOne
<1>3. CASE {r1, r2} \subseteq FromBuiltIn(zone, kg)
  <2>1. ASSUME NEW r \in FromBuiltIn(zone, kg)
        PROVE  r.service \in DOMAIN BuiltIn /\ r.price \in PricesFor(BuiltIn[r.service], zone, kg)
    BY DEF FromBuiltIn, Result
  <2> DEFINE s == r1.service
  <2>2. s \in DOMAIN BuiltIn
    BY <1>3, <2>1
  <2>3. r1.price \in PricesFor(BuiltIn[s], zone, kg) /\ r2.price \in PricesFor(BuiltIn[s], zone, kg)
    BY <1>3, <2>1
  <2>4. BuiltIn[s] \in SUBSET GridRow /\ Unambiguous(BuiltIn[s])
    BY <2>2
  <2> HIDE DEF s
  <2>5. QED BY <2>3, <2>4, PriceIsOne
<1>4. QED BY <1>1, <1>2, <1>3

\* A price chosen from the tables is found again: the carrier is not asked.
LEMMA MatchesAgree ==
  ASSUME RatesOK, NEW parcel, NEW from, NEW to,
         NEW chosen \in SyncResults(parcel, from, to),
         Unambiguous(Rows(rates[chosen.service])),
         NEW live \in AskedAgain(SyncResults(parcel, from, to), CarrierOf[chosen.service])
  PROVE  Matches(SyncResults(parcel, from, to) \cup live, chosen) = {chosen.price}
<1> DEFINE found == SyncResults(parcel, from, to)
           same == {x \in found : x.service = chosen.service}
<1>1. live = {}
  BY DEF AskedAgain, Of
<1>2. chosen \in same
  OBVIOUS
<1>3. Matches(found \cup live, chosen) = {x.price : x \in same}
  BY <1>1, <1>2 DEF Matches
<1>4. \A x \in same : x.price = chosen.price
  BY FoundPrice
<1>5. QED BY <1>2, <1>3, <1>4

LEMMA RecalculateKeeps ==
  ASSUME QuotesInv, RatesOK, NEW q \in Quoters, NEW chosen, Recalculate(q, chosen)
  PROVE  QuotesInv'
<1> DEFINE x == quote[q]
           found == SyncResults(x.parcel, x.route[1], x.route[2])
           prices(live) == Matches(found \cup live, chosen)
<1>1. PICK live \in AskedAgain(found, CarrierOf[chosen.service]) :
        \E p \in IF prices(live) = {} THEN {NoPrice} ELSE prices(live) :
          Goes(q, [x EXCEPT !.at = "again", !.results = {}, !.chosen = chosen, !.again = p])
  BY DEF Recalculate
<1>2. PICK p \in (IF prices(live) = {} THEN {NoPrice} ELSE prices(live)) :
        Goes(q, [x EXCEPT !.at = "again", !.results = {}, !.chosen = chosen, !.again = p])
  BY <1>1
<1> DEFINE y == [x EXCEPT !.at = "again", !.results = {}, !.chosen = chosen, !.again = p]
<1>3. /\ UNCHANGED <<rates, tables_, edits>> /\ x.at = "done" /\ QuoteOK(x)
      /\ chosen \in x.results /\ Goes(q, y)
  BY <1>2 DEF Recalculate, QuotesInv, Is
<1>4. ASSUME Fresh(x), x.azimuths, ~x.parcel.document, ~chosen.live,
             Unambiguous(Rows(rates[chosen.service]))
      PROVE  p = chosen.price
  <2>1. chosen \in found
    BY <1>3, <1>4 DEF Fresh
  <2>2. prices(live) = {chosen.price}
    <3> DEFINE parcel == x.parcel
               from == x.route[1]
               to == x.route[2]
    <3>1. /\ chosen \in SyncResults(parcel, from, to)
          /\ live \in AskedAgain(SyncResults(parcel, from, to), CarrierOf[chosen.service])
      BY <2>1
    <3> HIDE DEF parcel, from, to
    <3>2. Matches(SyncResults(parcel, from, to) \cup live, chosen) = {chosen.price}
      BY <1>4, <3>1, MatchesAgree
    <3>3. QED BY <3>2 DEF parcel, from, to
  <2>3. QED BY <1>2, <2>2
<1> HIDE DEF x
<1>5. /\ IsQuote(y) /\ y.at = "again" /\ y.ask = x.ask /\ y.since = x.since
      /\ y.parcel = x.parcel /\ y.azimuths = x.azimuths /\ y.chosen = chosen /\ y.again = p
  BY <1>3 DEF QuoteOK, IsQuote
<1> HIDE DEF y
<1>6. x.since = edits => Fresh(y)
  BY <1>3, <1>4, <1>5 DEF QuoteOK, Fresh
<1>7. QuoteOK(y)
  BY <1>3, <1>5, <1>6 DEF QuoteOK
<1>8. QED BY <1>3, <1>7, QuoteGoes

LEMMA QuotesStep ==
  ASSUME QuotesInv, RatesInv, [Next]_vars
  PROVE  QuotesInv'
<1> USE DEF tariffVars
<1>0. edits \in Nat /\ RatesOK
  BY DEF RatesInv, RatesOK
<1>1. ASSUME AdminNext
      PROVE  QuotesInv'
  <2>1. \/ Edit /\ UNCHANGED quote
        \/ UNCHANGED <<rates, tables_, quote, edits>>
    BY <1>1 DEF AdminNext, Switch, AddRate, UpdateRate, DeleteRate, AddZoneCity, SyncRegions, SyncRegion,
       UploadRead, SwitchesOff, UploadCommit, UploadRefused, tables_
  <2>2. QED BY <1>0, <2>1, QuotesOutlived, QuotesAlone DEF Edit
<1>2. ASSUME QuoteNext
      PROVE  QuotesInv'
  <2> SUFFICES ASSUME NEW q \in Quoters,
                      \/ \E parcel \in Parcels, route \in Routes : QuoteRoute(q, parcel, route)
                      \/ QuoteRates(q) \/ QuoteTables(q) \/ QuoteCredentials(q)
                      \/ \E c \in Live : \E answer \in FromLive(c) : QuoteLive(q, answer)
                      \/ \E chosen \in quote[q].results : Recalculate(q, chosen)
                      \/ Leave(q)
               PROVE  QuotesInv'
    BY <1>2 DEF QuoteNext
  <2>1. CASE QuoteCredentials(q)
    BY <2>1, QuotesAlone DEF QuoteCredentials, tables_
  <2>2. CASE Leave(q)
    <3>1. Goes(q, NoQuote) /\ UNCHANGED <<rates, tables_, edits>>
      BY <2>2 DEF Leave
    <3>2. QuoteOK(NoQuote)
      BY <1>0, NoQuoteOK
    <3>3. QED BY <3>1, <3>2, QuoteGoes
  <2>3. QED BY <1>0, <2>1, <2>2, QuoteRouteKeeps, QuoteRatesKeeps, QuoteTablesKeeps,
               QuoteLiveKeeps, RecalculateKeeps
<1>3. CASE CacheNext
  BY <1>3, QuotesAlone DEF CacheNext, tables_
<1>4. CASE UNCHANGED vars
  BY <1>4, QuotesAlone DEF vars, tables_
<1>5. QED BY <1>1, <1>2, <1>3, <1>4 DEF Next

TariffsInv == RatesInv /\ QuotesInv

LEMMA TariffsInvAlways == Spec => []TariffsInv
<1>1. Init => TariffsInv
  <2> SUFFICES ASSUME Init PROVE TariffsInv
    OBVIOUS
  <2>1. RatesInv
    BY RatesInit
  <2>2. QuoteOK(NoQuote)
    BY <2>1, NoQuoteOK DEF RatesInv, RatesOK
  <2>3. QuotesInv
    BY <2>2 DEF Init, QuotesInv
  <2>4. QED BY <2>1, <2>3 DEF TariffsInv
<1>2. TariffsInv /\ [Next]_vars => TariffsInv'
  BY RatesStep, QuotesStep DEF TariffsInv
<1>3. QED BY <1>1, <1>2, PTL DEF Spec

\* The twins agree: what a quote took from the tables, the recalculation of the
\* order finds again at the same price while nothing was committed in between,
\* for every grid, every zone and every built-in table (calculate_quotes_async
\* and calculate_quotes, _run_generic_recalc).
THEOREM RecalculationAgreesAlways == Spec => []RecalculationAgrees
<1>1. TariffsInv => RecalculationAgrees
  BY DEF TariffsInv, QuotesInv, QuoteOK, Fresh, RecalculationAgrees, Is
<1>2. QED BY <1>1, TariffsInvAlways, PTL

-----------------------------------------------------------------------------
(* The quotes read the credentials through the caches as any reader does.   *)

LEMMA CacheStep ==
  ASSUME QuotesInv, [Next]_vars
  PROVE  [CachesNext]_cacheVars
<1>1. ASSUME AdminNext
      PROVE  UNCHANGED cacheVars
  BY <1>1 DEF AdminNext, Switch, AddRate, UpdateRate, DeleteRate, AddZoneCity, SyncRegions, SyncRegion,
     UploadRead, SwitchesOff, UploadCommit, UploadRefused
<1>2. ASSUME NEW q \in Quoters, QuoteCredentials(q)
      PROVE  ReaderStep(q)
  <2>1. quote[q].ask \subseteq Keys
    BY DEF QuotesInv, QuoteOK
  <2>2. QED BY <1>2, <2>1 DEF QuoteCredentials, ReaderStep
<1>3. ASSUME NEW q \in Quoters, NEW answer, QuoteLive(q, answer)
      PROVE  ReaderStep(q)
  BY <1>3 DEF QuoteLive, ReaderStep
<1>4. ASSUME QuoteNext
      PROVE  UNCHANGED cacheVars \/ \E q \in Quoters : ReaderStep(q)
  BY <1>2, <1>3, <1>4 DEF QuoteNext, QuoteRoute, QuoteRates, QuoteTables, Recalculate, Leave
<1>5. QED BY <1>1, <1>4 DEF Next, CacheNext, CachesNext, vars

\* Among quotes, their recalculation and the administration of tariffs, the
\* caches behave as Caches specifies.
THEOREM QuotesKeepCaches == Spec => CachesSpec
<1>1. Init => CachesInit
  BY DEF Init
<1>2. TariffsInv /\ [Next]_vars => [CachesNext]_cacheVars
  BY CacheStep DEF TariffsInv
<1>3. QED BY <1>1, <1>2, TariffsInvAlways, PTL DEF Spec, CachesSpec

\* So what a quote finds in the cache, too, differs from its row only as
\* CachedIsCurrent allows.
THEOREM CachedIsCurrentAlways == Spec => []CachedIsCurrent
BY QuotesKeepCaches, CachedIsCurrentAlone, PTL

=============================================================================
