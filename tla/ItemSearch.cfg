SPECIFICATION Spec
CONSTANTS
  Names <- MCNames
  Numbers <- MCNumbers
  Wide = {}
  NumberOf <- MCNumberOf
  Before <- MCBefore
  Items <- MCItems
  TagNames <- MCTagNames
  Types <- MCTypes
  ValuesOf <- MCValuesOf
  Requests <- MCRequests
  Customers <- MCCustomers
  ItemOrders <- MCItemOrders
  MapOrders <- MCMapOrders
  Width = 3
  MaxInsertions = 6
  Faults = {"session", "database"}
INVARIANTS
  TypeOK
  WellFormedIsRead
  NormalisationKeepsTheFilter
  RowsMatchTheFilter
  PageOfTheSortedItems
PROPERTY EverySearchIsAnswered
