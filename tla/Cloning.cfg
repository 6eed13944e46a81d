SPECIFICATION AllSpec
CONSTANTS
  proxyP = proxyP
  proxyQ = proxyQ
  plainP = plainP
  tunnelP = tunnelP
  tunnelP2 = tunnelP2
  plainQ = plainQ
  NoSocket = NoSocket
  NoRequest = NoRequest
  Proxies = {proxyP, proxyQ}
  Requests = {plainP, tunnelP, tunnelP2, plainQ}
  Sockets = {s1, s2, s3}
  ProxyOf <- MCProxyOf
  Tunnels <- MCTunnels
  MaxBytes = 1
  MaxChunks = 4
  r1 = r1
  r2 = r2
  r3 = r3
  PageRequests = {r1, r2, r3}
  Hops = {r3}
  BodyTyped = {r1, r2}
  Sizes = {0, 1, 3}
  PageSizes = {1, 5}
  MaxNetworkRequests = 2
  MaxResourceBodies = 2
  MaxResourceBytes = 2
  MaxTotalBytes = 4
  sheet = sheet
  other = other
  pic = pic
  twin = twin
  suffixed = suffixed
  away = away
  cssName = cssName
  picture = picture
  aside = aside
  b1 = b1
  b2 = b2
  c1 = c1
  c2 = c2
  o1 = o1
  o2 = o2
  w1 = w1
  w2 = w2
  Clones = {c1, c2}
  Owners = {o1, o2}
  OwnerOf <- MCOwnerOf
  Workers = {w1, w2}
  MaxSessions = 1
  MaxStarts = 2
  ResourceUrls = {sheet, other, pic, twin, suffixed, away}
  PathParts <- MCPathParts
  PathOf <- MCPathOf
  StyleSheets = {sheet, other}
  RefersTo <- MCRefersTo
  Foreign = {away}
  MainPath <- MCMainPath
  Bodies = {b1, b2}
  SizeOf <- MCBodySize
  HtmlSizes = {1, 2}
  Growth = {0, 1}
  MaxResources = 3
  MaxFiles = 3
  MaxInputBytes = 5
  Urls <- MCUrls
  Root = 1
  Normal <- MCNormal
  Path <- MCNormal
  HasQuery = {2}
  PathLocale <- MCPathLocale
  RoleOf <- MCRoleOf
  LengthOf <- MCLengthOf
  Inputs <- MCInputs
  MaxDiscovered = 3
INVARIANTS ConnectionsAccounted BrowsersConsistent CaptureAccounts CloneHonest SelectionAccounts
PROPERTIES ArchiveSound
CHECK_DEADLOCK FALSE
