\* Three requests of any kind, a key that may be added and one that is needed,
\* one crash of the dashboard.
SPECIFICATION DashSpec
CONSTANTS
  r1 = r1
  r2 = r2
  r3 = r3
  apikey = apikey
  products = products
  Requests = {r1, r2, r3}
  Fields = {apikey, products}
  Needed = {products}
  MaxCrashes = 1
  None = None
CHECK_DEADLOCK FALSE
INVARIANTS
  OneRuntimeHeld
  SavedIsKept
PROPERTIES
  RequestsEnd
