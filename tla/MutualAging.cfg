SPECIFICATION Spec
CONSTANTS
  EqueueEntries = 2
  NotifEntries = 2
  Disturbances = {"start", "lost", "damaged", "late"}
  MaxHands = 3
  MaxLate = 1
  MaxData = 3
INVARIANTS
  TypeOK
  FitsShakehand
  TransmitsToListener
  DataAccounted
  AgingBuffersConserved
PROPERTIES
  HandshakeEnds
  ReceiverFollows
