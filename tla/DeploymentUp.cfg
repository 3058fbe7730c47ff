SPECIFICATION FairSpec
CONSTANTS
  Images <- MCImages
  Used = {"delete_user", "add_comment", "rename_document"}
  Releases = {0, 1, 2, 3, 4}
  MaxOps = 6
INVARIANTS
  TypeOK
  PolicyMirrorsCsv
  ServesHead
PROPERTIES
  GivenOutlivesDowngrade
  UpServes
