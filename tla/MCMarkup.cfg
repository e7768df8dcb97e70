CONSTANTS
  Docs <- MCDocs
  SubDocs <- MCSubDocs
  Names <- MCNames
  AttrNames <- MCAttrNames
  Values <- MCValues
  Paths <- MCPaths
  NodeTypes <- MCNodeTypes
  Sought <- MCSought
  MaxPos = 8
  MaxEdits = 2
SPECIFICATION Spec
INVARIANTS PositionsTrue NodesReadBack
PROPERTY EditsAsAsked
CHECK_DEADLOCK FALSE
