\* One user whose session a refresh and a logout race for.
SPECIFICATION FairSpec
CONSTANTS
  Caller = {r1, r2}
  User = {u1}
  Slug = {s1}
  Password = {p1}
  Name = {n1, n2}
  Salt = {a, b}
  NoPassword = NoPassword
  NoUser = NoUser
  NoBlog = NoBlog
  NoCall = NoCall
  Ok = Ok
  Refused = Refused
  Error = Error
  NoSalt = NoSalt
  NoTx = NoTx
  NoSid = NoSid
  NoSession = NoSession
  MaxFaults = 0
  MaxSids = 2
  MaxCalls = 3
  CanExpire = FALSE
PROPERTY
  EndedStaysEnded
CHECK_DEADLOCK FALSE
