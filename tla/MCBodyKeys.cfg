SPECIFICATION Spec
CONSTANTS
  t1 = t1
  t2 = t2
  r1 = r1
  Tabs <- TwoTabs
  Users = {u1, u2}
  NoUser = nobody
  NoTab = none
  Requests <- OneRequest
  TabOf <- InFirstTab
  MaxKey = 2
INVARIANTS
    TabAgrees
    SocketBodiesOpened
    AnswersOpenable
