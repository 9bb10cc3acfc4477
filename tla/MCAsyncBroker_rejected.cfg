CONSTANTS
  sync = sync
  async = async
  default = default
  none = none
  i1 = i1
  Instances = {i1}
  Plans <- const_Plans
  Default = default
  Limit = 2
  DataJson <- const_DataJson
  Configurations <- const_Configurations
  None = none
SPECIFICATION Spec
PROPERTIES
  RejectedChangesNothing
