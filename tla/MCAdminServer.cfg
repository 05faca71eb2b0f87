\* Two requests at a time, four in all, one fault anywhere.
SPECIFICATION FairSpec
CONSTANTS
  Caller = {r1, r2}
  User = {u1, u2}
  Slug = {s1}
  Password = {p1}
  Name = {n1, n2}
  Salt = {a, b}
  NoPassword = NoPassword
  NoUser = NoUser
  NoBlog = NoBlog
  NoCall = NoCall
  Ok = Ok
  Refused = Refused
  Error = Error
  NoSalt = NoSalt
  NoTx = NoTx
  NoSid = NoSid
  NoSession = NoSession
  MaxFaults = 1
  MaxSids = 2
  MaxCalls = 3
  CanExpire = TRUE
INVARIANT TypeOK
PROPERTIES
  
  
  Answered
  
CHECK_DEADLOCK FALSE
