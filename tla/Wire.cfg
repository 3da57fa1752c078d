CONSTANTS
  Word = 65536
  Numbers <- MCNumbers
  Room = 110
  Tids <- MCTids
  Methods <- MCMethods
  Answers <- MCAnswers
  Routes <- MCRoutes
  Reports <- MCReports
  Words <- MCWords
  Times <- MCTimes
  Ranges <- MCRanges
  Challenges <- MCChallenges
  Credentials <- MCCredentials
  Users <- MCUsers
  Cnonce <- MCCnonce
  Types <- MCTypes
  Contents <- MCContents
  MaxHeaders = 3
  Octets = {0, 91, 255}
  MaxOctets = 5
  MaxBlock = 700
SPECIFICATION Spec
CHECK_DEADLOCK FALSE
INVARIANTS RoundTrip HeaderOnce ResponseAccepted Base64RoundTrip R128RoundTrip BlockFits
