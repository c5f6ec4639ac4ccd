SPECIFICATION Spec
CONSTANTS
  Attempts = {1}
  Payloads = {"p1", "p2"}
  Keys = {k1}
  Files = {f1}
  Contents <- Bytes
  Gone = Gone
  Declares <- Photos
  Provenances = {"PROVIDER_PAYLOAD_DIGEST", "OFFLINE_IMPORT_MANIFEST"}
  Expected = {1}
  Requests = {r1}
  MaxVersion = 2
  None = None
CONSTRAINT RefusedForSender
INVARIANTS CompleteAsDelivered
