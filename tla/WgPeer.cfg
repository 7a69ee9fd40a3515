CONSTANTS
  None = None
  MaxSession = 2
  RekeyAge = 1
  LateRx = 1
  LateTx = 1
  RejectAge = 2
  MaxAge = 2
  RekeyMsgs = 1
  RejectMsgs = 2
  MaxRx = 2
  Window = 2
SPECIFICATION Spec
INVARIANTS
  TypeOK
  NonceFresh
  SendsConfirmed
  InitiatorOnce
  LinkFollowsKeys
