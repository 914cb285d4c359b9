SPECIFICATION Spec
CONSTANTS
  t1 = t1
  t2 = t2
  r1 = r1
  Tabs <- OneTab
  Users = {u1}
  NoUser = nobody
  NoTab = none
  Requests <- OneRequest
  TabOf <- InFirstTab
  MaxKey = 1
INVARIANT HttpBodiesOpened
