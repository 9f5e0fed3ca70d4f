SPECIFICATION Spec
CONSTANTS
  ann = ann
  bob = bob
  Customers = {ann, bob}
  NoCustomer = NoCustomer
  Referrer <- MCReferrer
  FirstPoints = 500
  MaxRequests = 3
  Carts <- MCCarts
  Asked = {"OTHER"}
  Adjustments = {300}
  ReferrerReward = 50
  FriendReward = 25
INVARIANTS
  TypeOK
  PointsExplained
  NoOverdraft
  SpendIsOrders
  ReferralOnce
CHECK_DEADLOCK FALSE
