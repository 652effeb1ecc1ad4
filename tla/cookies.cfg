SPECIFICATION Spec
CONSTANTS
  Send = {1, 2}
  Url <- Urls
  SetCookie <- SetCookies
  Mine <- InsertedCookies
  MaxHeaders = 2
  MaxTime = 2
  MaxStored = 3
PROPERTY ActsAsStore
\* Every send is done.
CHECK_DEADLOCK FALSE
