-------------------------------- MODULE Tariffs --------------------------------
(***************************************************************************)
(* Carriers' tariffs, their administration, the quote a customer asks for   *)
(* and its recalculation for an order.  Four server processes run the       *)
(* endpoints: an upload of a grid switches the old rows off in one step and  *)
(* commits in another, a quote reads the regions, the grids and the city     *)
(* tables one after the other, then asks the carriers themselves, with       *)
(* credentials read through the cache of Caches.                            *)
(***************************************************************************)
EXTENDS TariffEngine, Caches

CONSTANTS
  Carriers, Services,
  CarrierOf,     \* the carrier of a service
  Azimuth,       \* the carrier of the built-in tables
  Live,          \* carriers that price their services themselves
  SyncLive,      \* those a recalculation asks
  EnvKeys,       \* carriers with credentials in the environment
  BuiltIn,       \* the built-in tables: a grid for each of Azimuth's tariffs
  LivePrice,     \* what a live carrier answers
  Grids,         \* files an administrator may upload
  HandRows,      \* rows an administrator may add, or change a row into
  RegionItems,   \* what Azimuth may answer of a city
  Parcels, Routes,
  TableZones,    \* zones a carrier's own table may give
  Uploaders, Quoters,
  MaxEdits       \* bound: committed changes

ASSUME TariffsAssumption ==
  /\ CarrierOf \in [Services -> Carriers] /\ Azimuth \in Carriers
  /\ SyncLive \subseteq Live /\ Live \subseteq Carriers \cap (Keys \ Settings)
  /\ Quoters \subseteq Readers /\ MaxEdits \in Nat
  /\ Grids \subseteq SUBSET GridRow /\ HandRows \subseteq GridRow
  /\ \A s \in DOMAIN BuiltIn :
       s \in Services /\ BuiltIn[s] \subseteq GridRow /\ Unambiguous(BuiltIn[s])

VARIABLES
  rates,    \* active rows of each service, with the change that wrote them
  active,   \* carriers and services that are switched on
  tables,   \* each carrier's own zones of cities
  regions,  \* azimuth_regions
  upload,   \* uploads under way
  quote,    \* quotes under way
  edits,    \* committed changes so far
  mixed     \* services whose last upload was late: another was committed
            \* after it had switched the old rows off

tables_ == <<active, tables, regions>>
tariffVars == <<rates, active, tables, regions, upload, quote, mixed>>
vars == <<tariffVars, edits, cacheVars>>

Tag(rows, grid, hand) == {[row |-> r, grid |-> grid, hand |-> hand] : r \in rows}
Rows(tagged) == {t.row : t \in tagged}
NoRegion == [zone |-> 0, origin |-> FALSE, destination |-> FALSE]
NoUpload == [at |-> "idle", seen |-> {}, late |-> FALSE]
NoPrice == -1
NoQuote == [at |-> "idle", parcel |-> CHOOSE p \in Parcels : TRUE,
            route |-> CHOOSE r \in Routes : TRUE, azimuths |-> FALSE, zone |-> 0,
            rows |-> [s \in Services |-> {}], results |-> {}, ask |-> {}, since |-> 0,
            chosen |-> [service |-> "none", price |-> NoPrice, live |-> FALSE], again |-> NoPrice]

Init ==
  /\ CachesInit
  /\ rates = [s \in Services |-> {}]
  /\ active = Carriers \cup Services
  /\ tables = [c \in Carriers |-> [city \in Cities |-> NoZone]]
  /\ regions = [city \in Cities |-> NoRegion]
  /\ upload = [u \in Uploaders |-> NoUpload]
  /\ quote = [q \in Quoters |-> NoQuote]
  /\ edits = 0 /\ mixed = {}

Edit == edits < MaxEdits /\ edits' = edits + 1
Is(q, at) == quote[q].at = at
Goes(q, to) == quote' = [quote EXCEPT ![q] = to]

-----------------------------------------------------------------------------
(* The administration.                                                       *)

\* create, and update with is_active.
Switch(x) ==
  /\ x \in Carriers \cup Services /\ Edit
  /\ active' = IF x \in active THEN active \ {x} ELSE active \cup {x}
  /\ UNCHANGED <<rates, tables, regions, upload, quote, mixed, cacheVars>>

AddRate(s, r) ==
  /\ Edit
  /\ rates' = [rates EXCEPT ![s] = @ \cup Tag({r}, edits + 1, TRUE)]
  /\ UNCHANGED <<tables_, upload, quote, mixed, cacheVars>>

\* A change of a row that an upload has switched off waits for its commit.
Locked(s, t) == \E u \in Uploaders : upload[u].at = s /\ t \in upload[u].seen

\* The patch sets any columns but leaves those it names as null: a band with an
\* upper end keeps one.
UpdateRate(s, t, r) ==
  /\ t \in rates[s] /\ ~Locked(s, t) /\ Edit
  /\ r.to = Open => t.row.to = Open
  /\ rates' = [rates EXCEPT ![s] = (@ \ {t}) \cup Tag({r}, t.grid, t.hand)]
  /\ UNCHANGED <<tables_, upload, quote, mixed, cacheVars>>

DeleteRate(s, t) ==
  /\ t \in rates[s] /\ ~Locked(s, t) /\ Edit
  /\ rates' = [rates EXCEPT ![s] = @ \ {t}]
  /\ UNCHANGED <<tables_, upload, quote, mixed, cacheVars>>

AddZoneCity(c, city, zone) ==
  /\ tables[c][city] = NoZone /\ Edit   \* unique constraint
  /\ tables' = [tables EXCEPT ![c][city] = zone]
  /\ UNCHANGED <<rates, active, regions, upload, quote, mixed, cacheVars>>

\* An insert takes both flags of the answer, an update the one asked for.
SyncRegion(city, direction, item) ==
  /\ Edit
  /\ regions' = [regions EXCEPT ![city] =
       IF @ = NoRegion THEN item
       ELSE IF direction = "origin" THEN [@ EXCEPT !.zone = item.zone, !.origin = item.origin]
       ELSE [@ EXCEPT !.zone = item.zone, !.destination = item.destination]]
  /\ UNCHANGED <<rates, active, tables, upload, quote, mixed, cacheVars>>

\* The job asks for each city in both directions, and commits answer by answer.
SyncRegions ==
  \E city \in Cities, direction \in {"origin", "destination"}, item \in RegionItems :
    SyncRegion(city, direction, item)

SwitchesOff(u, s, seen) ==
  /\ upload[u].at = "idle"
  /\ upload' = [upload EXCEPT ![u] = [at |-> s, seen |-> seen, late |-> FALSE]]
  /\ UNCHANGED <<rates, tables_, quote, edits, mixed, cacheVars>>

\* Mutant of UploadRead: "IS NULL" is forgotten, the last bands stay active.
UploadRead_Bounded(u, s) == SwitchesOff(u, s, {t \in rates[s] : t.row.to # Open})

\* The UPDATE switches off the rows committed before it.  Rows that another
\* upload adds meanwhile escape it, even when it waits for that one's locks.
UploadRead(u, s) == SwitchesOff(u, s, rates[s])

\* The rows of the file are inserted and committed with the UPDATE; the uploads
\* of the service that are under way do not see them.
UploadCommit(u, grid) ==
  LET s == upload[u].at IN
  /\ s # "idle" /\ Edit
  /\ rates' = [rates EXCEPT ![s] = (@ \ upload[u].seen) \cup Tag(grid, edits + 1, FALSE)]
  /\ mixed' = IF upload[u].late THEN mixed \cup {s} ELSE mixed \ {s}
  /\ upload' = [v \in Uploaders |->
       IF v = u THEN NoUpload
       ELSE [upload[v] EXCEPT !.late = @ \/ upload[v].at = s]]
  /\ UNCHANGED <<tables_, quote, cacheVars>>

\* A row of the file is wrong: the transaction is rolled back.
UploadRefused(u) ==
  /\ upload[u].at # "idle"
  /\ upload' = [upload EXCEPT ![u] = NoUpload]
  /\ UNCHANGED <<rates, tables_, quote, edits, mixed, cacheVars>>

-----------------------------------------------------------------------------
(* Results: prices of services, live or computed here.                       *)

Result(s, price, live) == [service |-> s, price |-> price, live |-> live]

FromTables(rows, from, to, zone, kg) ==
  UNION {{Result(s, p, FALSE) :
            p \in PricesFor(rows[s], CarrierZone(tables[CarrierOf[s]], from, to, zone), kg)} :
         s \in Services}

FromBuiltIn(zone, kg) ==
  UNION {{Result(s, p, FALSE) : p \in PricesFor(BuiltIn[s], zone, kg)} : s \in DOMAIN BuiltIn}

\* CSE answers for all its tariffs at once, Exline in a call for each: the
\* tariffs whose call fails are dropped from the list.
LiveTariffs(c) == {Result(s, LivePrice[s], TRUE) : s \in {s \in Services : CarrierOf[s] = c}}
FromLive(c) == SUBSET LiveTariffs(c)

RowsOn == [s \in Services |->
            IF {s, CarrierOf[s]} \subseteq active THEN Rows(rates[s]) ELSE {}]
Of(results, c) == {x \in results : CarrierOf[x.service] = c}

-----------------------------------------------------------------------------
(* A quote: calculate_quotes_async.                                          *)

QuoteRoute(q, parcel, route) ==
  /\ Is(q, "idle")
  /\ Goes(q, [NoQuote EXCEPT
                !.at = "routed", !.parcel = parcel, !.route = route, !.since = edits,
                !.azimuths = RouteIsAzimuths(regions, route[1], route[2]),
                !.zone = FallbackZone(regions, route[1], route[2])])
  /\ UNCHANGED <<rates, tables_, upload, edits, mixed, cacheVars>>

QuoteRates(q) ==
  /\ Is(q, "routed")
  /\ Goes(q, [quote[q] EXCEPT !.at = "rated", !.rows = RowsOn])
  /\ UNCHANGED <<rates, tables_, upload, edits, mixed, cacheVars>>

\* A document has no volume.
QuoteKg(parcel) == IF parcel.document THEN RoundedUp(parcel.actual) ELSE Chargeable(parcel)

\* The tables of cities are read; a carrier without a price is asked.
QuoteTables(q) ==
  LET x == quote[q]
      kg == QuoteKg(x.parcel)
      found == FromTables(x.rows, x.route[1], x.route[2], x.zone, kg)
      results == IF found # {} THEN found
                 ELSE IF x.azimuths THEN FromBuiltIn(x.zone, kg) ELSE {}
      ask == {c \in Live : Of(results, c) = {}}
  IN
  /\ Is(q, "rated")
  /\ Goes(q, [x EXCEPT !.at = IF ask = {} THEN "done" ELSE "live",
                       !.results = results, !.ask = ask, !.rows = NoQuote.rows])
  /\ UNCHANGED <<rates, tables_, upload, edits, mixed, cacheVars>>

QuoteCredentials(q) ==
  /\ Is(q, "live")
  /\ \/ \E c \in quote[q].ask : Hit(q, c) \/ ReadRow(q, c)
     \/ Fill(q) \/ ReadFails(q)
  /\ UNCHANGED <<tariffVars, edits>>

\* Without credentials in the table those of the environment are taken.
HasCredentials(q) == read[q].val # 0 \/ read[q].key \in EnvKeys

QuoteLive(q, answer) ==
  LET c == read[q].key
      ask == quote[q].ask \ {c}
  IN
  /\ Is(q, "live") /\ Use(q) /\ answer \in FromLive(c)
  /\ answer # {} => HasCredentials(q)
  /\ Goes(q, [quote[q] EXCEPT !.at = IF ask = {} THEN "done" ELSE "live",
                              !.results = @ \cup answer, !.ask = ask])
  /\ UNCHANGED <<rates, tables_, upload, edits, mixed>>

-----------------------------------------------------------------------------
(* The recalculation of an order made of the quote: calculate_quotes, which  *)
(* reads the tables only for a route that is Azimuth's.                       *)

\* Mutant of SyncResults: the volume is forgotten.
SyncResults_NoVolume(parcel, from, to) ==
  LET kg == RoundedUp(parcel.actual)
      zone == FallbackZone(regions, from, to)
      found == FromTables(RowsOn, from, to, zone, kg)
  IN
  IF ~RouteIsAzimuths(regions, from, to) THEN {}
  ELSE IF found # {} THEN found ELSE FromBuiltIn(zone, kg)

SyncResults(parcel, from, to) ==
  LET kg == Chargeable(parcel)
      zone == FallbackZone(regions, from, to)
      found == FromTables(RowsOn, from, to, zone, kg)
  IN
  IF ~RouteIsAzimuths(regions, from, to) THEN {}
  ELSE IF found # {} THEN found ELSE FromBuiltIn(zone, kg)

\* The same tariff, else another of the carrier, else nothing.
Matches(results, chosen) ==
  LET same == {x \in results : x.service = chosen.service}
      others == Of(results, CarrierOf[chosen.service])
  IN {x.price : x \in IF same # {} THEN same ELSE others}

\* Exline is asked again, one tariff after the other, when no row priced it.
AskedAgain(found, c) == IF c \in SyncLive /\ Of(found, c) = {} THEN FromLive(c) ELSE {{}}

Recalculate(q, chosen) ==
  LET x == quote[q]
      found == SyncResults(x.parcel, x.route[1], x.route[2])
  IN
  /\ Is(q, "done") /\ chosen \in x.results
  /\ \E live \in AskedAgain(found, CarrierOf[chosen.service]) :
       LET prices == Matches(found \cup live, chosen) IN
       \E p \in IF prices = {} THEN {NoPrice} ELSE prices :
         Goes(q, [x EXCEPT !.at = "again", !.results = {}, !.chosen = chosen, !.again = p])
  /\ UNCHANGED <<rates, tables_, upload, edits, mixed, cacheVars>>

\* The customer leaves, or the order is placed.
Leave(q) ==
  /\ quote[q].at \in {"done", "again"}
  /\ Goes(q, NoQuote)
  /\ UNCHANGED <<rates, tables_, upload, edits, mixed, cacheVars>>

-----------------------------------------------------------------------------
AdminNext ==
  \/ \E x \in Carriers \cup Services : Switch(x)
  \/ \E s \in Services :
       \/ \E r \in HandRows : AddRate(s, r)
       \/ \E t \in rates[s] : DeleteRate(s, t) \/ \E r \in HandRows : UpdateRate(s, t, r)
  \/ \E c \in Carriers, city \in Cities, zone \in TableZones : AddZoneCity(c, city, zone)
  \/ SyncRegions
  \/ \E u \in Uploaders :
       \/ \E s \in Services : UploadRead(u, s)
       \/ \E grid \in Grids : UploadCommit(u, grid)
       \/ UploadRefused(u)

QuoteNext ==
  \E q \in Quoters :
    \/ \E parcel \in Parcels, route \in Routes : QuoteRoute(q, parcel, route)
    \/ QuoteRates(q) \/ QuoteTables(q) \/ QuoteCredentials(q)
    \/ \E c \in Live : \E answer \in FromLive(c) : QuoteLive(q, answer)
    \/ \E chosen \in quote[q].results : Recalculate(q, chosen)
    \/ Leave(q)

CacheNext ==
  /\ \/ \E r \in Readers \ Quoters : ReaderStep(r)
     \/ \E a \in Admins : AdminStep(a)
     \/ \E k \in Keys : Expire(k)
  /\ UNCHANGED <<tariffVars, edits>>

Next == AdminNext \/ QuoteNext \/ CacheNext

Spec == Init /\ [][Next]_vars

-----------------------------------------------------------------------------
OneGrid(services) ==
  \A s \in services : \A t1, t2 \in rates[s] : t1.hand \/ t2.hand \/ t1.grid = t2.grid

\* Whatever is added, changed and removed by hand, the rows of a service that
\* were uploaded are of one file, unless its last upload was late; one that is not
\* makes the grid whole again (upload_tariff_grid: an UPDATE switches the old rows
\* off, the new ones are committed with it).
OneGridAtATime == OneGrid(Services \ mixed)

\* What upload_tariff_grid promises: it replaces all active rows of the service.
\* MCTariffsMixed shows two uploads whose rows are then active together.
UploadReplaces == OneGrid(Services)

\* The asynchronous quote and the synchronous recalculation are twins: while
\* nothing is changed, a parcel on a route of Azimuth's costs the same in both,
\* whichever tables the price came from (calculate_quotes_async, calculate_quotes),
\* unless two rows start at the same weight, which come in any order.
RecalculationAgrees ==
  \A q \in Quoters :
    LET x == quote[q] IN
    /\ Is(q, "again") /\ x.since = edits
    /\ x.azimuths /\ ~x.parcel.document /\ ~x.chosen.live
    /\ Unambiguous(Rows(rates[x.chosen.service]))
    => x.again = x.chosen.price
=============================================================================
