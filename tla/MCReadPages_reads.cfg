SPECIFICATION Spec

CONSTANTS
  Articles = {1, 2}
  Terms = {1, 2}
  Categories = {1, 2}
  Found = {1}
  PageSize = 1
  MaxPage = 2
  MaxVersion = 2
  MaxChanges = 1
  Staff <- SomeStaff
  LogPages <- TwoPagesOfLogins
  MaxRev = 2

INVARIANTS
  
  AbsenceIsTrue
  NavigationWhole
  LinksLead
  
