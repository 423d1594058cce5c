SPECIFICATION Spec
CONSTANTS
  Worker = {w1, w2}
  Login = {l1}
  Address = address
  NoCounter = NoCounter
  LoginLimit = 2
  AddressLimit = 3
  Window = 2
  Block = 2
  Absent = Absent
  Txn = {t1, t2}
  Row <- MCRow
  Proposal = {p1, p2}
  Invoice = {i1, i2}
  Records = records
  LastRevision = 2
  Publication = home
  Operator = {o1, o2}
  Text = {x, y}
  NoText = NoText
  MaxRevision = 3
  acme = acme
  birch = birch
  Organization = {acme, birch}
  Platform = platform
  User = {ana, ben}
  Chat = {chat}
  Host = {acme}
  Archivable <- MCArchivable
  Profile <- MCProfile
  OneOverlap = TRUE
  profile = profile
  head = head
  shop = shop
  branch = branch
  lone = lone
  Contact = {profile, head, shop, branch, lone, assistant}
  Assistant = assistant
  Unassigned = Unassigned
  NoParent = NoParent
  Home = platform
  NoCompany = NoCompany
  NoChannel = NoChannel
CHECK_DEADLOCK FALSE
INVARIANTS
  LimitHolds
  FewGivenUp
  OneInvoicePerTask
PROPERTIES
  CooldownEnds
  SeenBeforeChanged
  UserChangeRevokes
