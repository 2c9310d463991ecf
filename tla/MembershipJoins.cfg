CONSTANTS
  r1 = r1  r2 = r2  r3 = r3  r4 = r4
  guest = guest  rival = rival  host = host
  momo = momo  nana = nana  hoho = hoho
  None = None
  HostToken = HostToken
  Requests = {r1, r2, r3, r4}
  Users = {guest, rival, host}
  Nicknames = {momo, nana, hoho}
  UserOf <- MCUserOf
  NicknameOf <- MCNicknameOf
  Host = host
  HostNickname = hoho
SPECIFICATION FairSpec
INVARIANTS
  Roster
  AnswerValid
  RefusalJustified
PROPERTIES
  TokenStable
  JoinsEnd
CHECK_DEADLOCK FALSE
