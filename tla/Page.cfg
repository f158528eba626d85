SPECIFICATION Spec
CONSTANTS
  None = None
  p = p
  q = q
  u = u
  v = v
  save = save
  delete = delete
  form = form
  remove = remove
  a = a
  b = b
  c = c
  Pages <- TwoPages
  Views <- TwoViews
  FolderPage = p
  MaxEntries = 3
  MaxLoads = 2
  MaxActive = 3
  MaxOrphans = 2
  pagesize = 2
  Items = 6
  MaxHandlers = 3
  MaxFetches = 2
  Buttons <- TwoButtons
  Confirm <- Asking
  FormAction = form
  ButtonAction <- OwnAction
  MaxSending = 2
  MaxTimers = 1
  Portlets <- ThreePortlets
  Default <- TwoColumns
INVARIANTS EntriesRestoreThePage DocumentFollowsLocation PageSettles ListInOrder ScrollGoesOn RightAddress OneAtATime ButtonsReturn ReloadKeepsThePortal
