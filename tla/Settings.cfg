SPECIFICATION FairSpec
CONSTANTS
  Tenants = {1, 2}
  Conns = {c1, c2}
  Requests = {x1, x2}
  None = None
  Assets = {a1}
  Owner <- AssetOfOne
  Texts = {1, 2}
  Bodies <- SomeBodies
INVARIANTS
  TypeOK
  TenantIsolation
  OwnSettings
  UrlIsOwnReadyAsset
PROPERTIES
  RequestsFinish
