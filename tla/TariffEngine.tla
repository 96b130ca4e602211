----------------------------- MODULE TariffEngine -----------------------------
(***************************************************************************)
(* How a price is computed: the weight that is charged, the zone of a       *)
(* route, the band of a grid a weight falls into, the price of the band.    *)
(* A parcel weighs grams; what is charged, and the bands, are in half       *)
(* kilograms.  A row of a grid is [zone, from, to, base, per, step]: base    *)
(* up to from, then per for every step begun.  The built-in tables are      *)
(* grids of the same form.                                                  *)
(***************************************************************************)
EXTENDS Integers

CONSTANTS
  Cities,
  CityClass   \* what the built-in lists say of a city: regional, district, other

ASSUME TariffEngineAssumption ==
  CityClass \in [Cities -> {"regional", "district", "other"}]

Open == -1        \* a band without an upper end
NoZone == -1      \* a city that is not in a carrier's table
HardZones == 0..3
\* A row of a grid, of carrier_tariff_rates or of the built-in tables.
\* An administrator may enter any numbers.
GridRow == [zone: Int, from: Int, to: Int, base: Int, per: Int, step: Nat \ {0}]

Larger(a, b) == IF a >= b THEN a ELSE b

\* To the next half kilogram.
RoundedUp(grams) == (grams + 499) \div 500

\* parcel is [document, actual, volume]: both weights of all its pieces, in grams.
Chargeable(parcel) == RoundedUp(Larger(parcel.actual, parcel.volume))

-----------------------------------------------------------------------------
(* Zones.                                                                    *)

IsKnown(city) == CityClass[city] # "other"

BuiltInZone(from, to) ==
  CASE from = to -> 0
    [] from # to /\ CityClass[from] = "regional" /\ CityClass[to] = "regional" -> 1
    [] from # to /\ IsKnown(from) /\ IsKnown(to)
         /\ "district" \in {CityClass[from], CityClass[to]} -> 2
    [] OTHER -> 3

\* Azimuth's regions: a zone for the cities it serves, as origin or destination.
Serves(regions, from, to) == regions[from].origin /\ regions[to].destination

RouteIsAzimuths(regions, from, to) ==
  Serves(regions, from, to) \/ (IsKnown(from) /\ IsKnown(to))

FallbackZone(regions, from, to) ==
  IF Serves(regions, from, to)
  THEN Larger(regions[from].zone, regions[to].zone)
  ELSE BuiltInZone(from, to)

\* The carrier's own table: the destination decides whether it is used.
CarrierZone(table, from, to, fallback) ==
  CASE from = to -> 0
    [] from # to /\ table[to] # NoZone -> Larger(table[from], table[to])
    [] OTHER -> fallback

-----------------------------------------------------------------------------
(* Bands and prices.                                                         *)

StepsBegun(excess, step) == (excess + step - 1) \div step

RowPrice(r, kg) ==
  IF r.per > 0 /\ kg > r.from
  THEN r.base + StepsBegun(kg - r.from, r.step) * r.per
  ELSE r.base

Holds(r, kg) == r.from <= kg /\ (r.to = Open \/ kg <= r.to)
InZone(rows, zone) == {r \in rows : r.zone = zone}

\* The first band that holds the weight, or the last band when none does.
\* Rows that start at the same weight come in no particular order.
BandsFor(rows, kg) ==
  LET held == {r \in rows : Holds(r, kg)} IN
  IF held # {}
  THEN {r \in held : \A s \in held : r.from <= s.from}
  ELSE {r \in rows : \A s \in rows : s.from <= r.from}

PricesFor(rows, zone, kg) == {RowPrice(r, kg) : r \in BandsFor(InZone(rows, zone), kg)}

\* No two rows of a zone start at the same weight: one price for a weight.
Unambiguous(rows) == \A r, s \in rows : r.zone = s.zone /\ r.from = s.from => r = s
=============================================================================
