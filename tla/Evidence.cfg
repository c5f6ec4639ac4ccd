SPECIFICATION Spec
CONSTANTS
  Attempts = {1}
  Payloads = {"p1", "p2"}
  Keys = {k1, k2}
  Files = {f1}
  Contents <- Bytes
  Gone = Gone
  Declares <- Photos
  Provenances = {"PROVIDER_PAYLOAD_DIGEST", "OFFLINE_IMPORT_MANIFEST",
                 "PROVIDER_HEADER_CONTENT_LENGTH", "MISSING_PROVENANCE"}
  Expected <- Manifests
  Requests = {r1}
  MaxVersion = 2
  None = None
CONSTRAINT OneCase
SYMMETRY Symmetry
INVARIANTS TypeOK ConflictOnRecord VersionChain StatusCurrent CapturedAsRecorded
PROPERTIES KeepsCaptured
