------------------------------- MODULE MCTariffs -------------------------------
(* Azimuth with one tariff and Exline with another; a route between cities   *)
(* of the built-in lists and one to a village that is in none.               *)
EXTENDS Tariffs
Band(zone, from, to, base, per) ==
  [zone |-> zone, from |-> from, to |-> to, base |-> base, per |-> per, step |-> 2]
MCCityClass ==
  [city \in Cities |-> CASE city = "almaty" -> "regional" [] city = "town" -> "district"
                        [] OTHER -> "other"]
MCCarrierOf == [s \in Services |-> IF s = "std" THEN "azimuth" ELSE "exline"]
MCBuiltIn == [s \in {"std"} |->
  {Band(0, 0, 2, 10, 0), Band(0, 2, Open, 11, 5)}
    \cup {Band(z, 0, 2, 20 + z, 0) : z \in 1..3} \cup {Band(z, 2, Open, 20 + z, 5) : z \in 1..3}]
MCLivePrice == [s \in Services |-> 33]
MCGrids ==
  {{Band(3, 0, 2, 30, 0), Band(3, 2, 4, 31, 4), Band(2, 0, 4, 25, 0), Band(1, 0, Open, 15, 0)},
   {}}
MCHandRows == {Band(3, 0, 2, 32, 0)}
MCRegionItems == {[zone |-> 1, origin |-> TRUE, destination |-> TRUE]}
MCParcels == {[document |-> FALSE, actual |-> 400, volume |-> 2300],
              [document |-> TRUE, actual |-> 400, volume |-> 2300]}
\* Credentials and settings are saved in behaviours without other changes.
NothingSaved ==
  /\ read["r"] = NotReading /\ (\A a \in Admins : save[a] = NotSaving)
  /\ \A k \in Keys : row[k] = 0 /\ cache[k] = Miss
NothingEdited == edits = 0 /\ \A u \in Uploaders : upload[u] = NoUpload
Apart == NothingSaved \/ NothingEdited
MCRoutes == {<<"almaty", "town">>, <<"almaty", "aul">>}
=============================================================================
