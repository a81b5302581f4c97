SPECIFICATION MCSpec
CONSTANTS
  o1 = o1
  o2 = o2
  v1 = v1
  u1 = u1
  t1 = t1
  t2 = t2
  g1 = g1
  g2 = g2
  k1 = k1
  k2 = k2
  NoGrant = NoGrant
  Nobody = Nobody
  Tabs <- MCTabs
  Visits = {v1}
  Subscribers = {u1}
  Tenants = {t1, t2}
  Audiences <- MCAudiences
  MaxVersion = 3
  GrantTabs <- MCTabs
  GrantIds = {g1, g2}
  Grantees = {u1}
  MaxTime = 1
  MaxRevision = 3
  Requests <- MCTabs
  KBs <- MCBases
  Owned = {k2}
  MaxChanges = 3
INVARIANT SubscriptionsEndWithPublication
CHECK_DEADLOCK FALSE
