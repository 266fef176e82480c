SPECIFICATION Spec
CONSTANTS
  MESSAGE_LIMIT = 290
  LABEL_LIMIT = 6
  NAME_LIMIT = 14
  Punycode <- MCPunycode
  Inputs <- MCInputs
  Addresses = {"1.1.1.1", "::1"}
  Names = {"1.1.1.1", "box", "alias", "me"}
  ConfLines <- MCConfLines
  HostLines <- MCHostLines
  HostNames <- MCHostNames
  MaxLines = 4
INVARIANTS ReadsWhatWasSent AnswersAreTheirs  RefusesExactly
  ConfMeansFile HostsAllOrNothing
CHECK_DEADLOCK FALSE
