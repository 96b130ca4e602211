CONSTANTS
  Cities = {"almaty", "town", "aul"}
  CityClass <- MCCityClass
  Keys = {"exline", "rate"}
  Settings = {"rate"}
  Readers = {"q", "r"}
  Admins = {"a", "b"}
  MaxSaves = 2
  Carriers = {"azimuth", "exline"}
  Services = {"std", "ex"}
  CarrierOf <- MCCarrierOf
  Azimuth = "azimuth"
  Live = {"exline"}
  SyncLive = {"exline"}
  EnvKeys = {}
  BuiltIn <- MCBuiltIn
  LivePrice <- MCLivePrice
  Grids <- MCGrids
  HandRows <- MCHandRows
  RegionItems <- MCRegionItems
  Parcels <- MCParcels
  Routes <- MCRoutes
  TableZones = {1}
  Uploaders = {"u1", "u2"}
  Quoters = {"q"}
  MaxEdits = 2
SPECIFICATION Spec
INVARIANTS
  OneGridAtATime
  RecalculationAgrees
  CachedIsCurrent
CHECK_DEADLOCK FALSE
CONSTRAINT Apart
