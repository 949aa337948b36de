SPECIFICATION Spec
CONSTANTS
  o1 = o1
  o2 = o2
  o3 = o3
  Objs <- ThreeObjs
  Names <- FewNames
  NameRank <- Ranks
  Inet <- Inets
  Inet6 <- Inet6s
  IPs <- FewIPs
  Ports <- OnePort
  Texts <- SomeTexts
SYMMETRY Sym
INVARIANTS TypeOK OrderIsStrictWeak ConversionsLoseNothing ClassesAreApart
