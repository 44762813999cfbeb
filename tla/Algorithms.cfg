CONSTANTS
  Algorithms = {"dates", "fields", "numbers", "texts", "strings", "json", "bson", "marshal", "keys", "symbols",
                "arrays", "members", "statements", "glue", "art"}
  LocalZone = 18000
  IntMax = 128
  BodySize = 60
  MaxLevels = 3
  MaxKey = 64
  FirstCapacity = 3
  RadixSizes = {2, 3, 4, 5}
  Txns = {"t", "u"}
SPECIFICATION Spec
PROPERTIES DatesAgree NumbersAgree StringsAgree JsonRoundTrip BsonRoundTrip
  DocumentsKept KeysOrdered ScopesResolve ArraysKeep MembersFound StatementsRun GlueKeeps ArtFinds
